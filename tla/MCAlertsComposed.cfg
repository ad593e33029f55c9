SPECIFICATION AlertsSpec
CONSTANTS
    Declared <- MCDeclared
    Plain <- MCPlain
    Blank = ""
    NoType = NoType
    Chains <- MCChains
    Tids = {t1, t2}
    t1 = t1
    t2 = t2
    NoFollower = NoFollower
    Parser = "app"
    Written = {"header", "text"}
    MaxInodes = 2
    MaxLines <- Lines42
    TailMax = 1
    Faults = FALSE
    MaxRestarts = 1
    Exc = exc
    Suppress = 1
    NoRow = NoRow
    MaxTime = 1
    Second = 1
    MaxSetBack = 1
    MaxSetForward = 1
    MaxAlerts = 2
CONSTRAINT SmallRuns
SYMMETRY MCSymmetry
INVARIANTS
    RepeatsNeedTwoFiles
    CallsHaveEvents
    TypeOfLastRaised
PROPERTIES
    FollowerSpec
    AlertingSpec
