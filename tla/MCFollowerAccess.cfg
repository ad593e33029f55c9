SPECIFICATION FairSpec
CONSTANTS
    Tids = {t1, t2}
    t1 = t1
    t2 = t2
    NoFollower = NoFollower
    Parser = "access"
    Written = {"hit", "junk", "badstamp"}
    MaxInodes = 2
    MaxLines <- Lines21
    TailMax = 2
    Faults = TRUE
    MaxRestarts = 1
INVARIANTS
    TailNewestFirst
PROPERTIES
    CurrentFileFollowed
