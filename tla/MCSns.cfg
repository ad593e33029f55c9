SPECIFICATION FairSpec
CONSTANTS
    sub = sub
    note = note
    other = other
    stranger = stranger
    w1 = w1
    w2 = w2
    Messages = {sub, note, other, stranger}
    Workers = {w1, w2}
    Kind <- MCKind
    Accepted <- MCAccepted
    MaxFaults = 2
INVARIANTS
    StoredOnce
    AckedStored
PROPERTIES
    AckedInTheEnd
CHECK_DEADLOCK FALSE
