SPECIFICATION Spec
CONSTANTS
    f1 = f1
    f2 = f2
    exc = exc
    own = own
    NoRow = NoRow
    Threads = {f1, f2}
    Keys = {exc, own}
    Users <- MCUsers
    Window <- MCWindow
    Recipients = TRUE
    Second = 3
    MaxTime = 4
    MaxSetBack = 1
    MaxSetForward = 0
    MaxAlerts = 2
CONSTRAINT OneSuppressed
INVARIANTS
    TypeOK
    SuppressionJustified
    RecordedAlertsSpaced
CHECK_DEADLOCK FALSE
