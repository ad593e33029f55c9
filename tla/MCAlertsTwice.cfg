SPECIFICATION AlertsSpec
CONSTANTS
    Declared <- MCDeclared
    Plain <- MCPlain
    Blank = ""
    NoType = NoType
    Chains <- MCChains
    Tids = {t1, t2}
    t1 = t1
    t2 = t2
    NoFollower = NoFollower
    Parser = "app"
    Written = {"header", "text"}
    MaxInodes = 2
    MaxLines <- Lines22
    TailMax = 1
    Faults = FALSE
    MaxRestarts = 0
    Exc = exc
    Suppress = 1
    NoRow = NoRow
    MaxTime = 0
    Second = 1
    MaxSetBack = 0
    MaxSetForward = 0
    MaxAlerts = 2
SYMMETRY MCSymmetry
INVARIANTS
    OneMailPerWindow
