SPECIFICATION FairSpec
CONSTANTS
    t1 = t1
    t2 = t2
    None = None
    Threads = {t1, t2}
    Addresses = {0, 1, 2, 3}
    Codes = {"US", "AU"}
    Tables <- MCTables
    Attempts = 3
    Clients = {1, 2, 3, 4, 5, 6, 7, 8}
    V4 = {1, 2, 3, 4, 5, 6, 7}
    Private = {7}
    Excluded <- MCExcluded
    TileRows = 2
    Day = 1
    NoTime = NoTime
    Minute = 2
    Logs <- MCLogs
    Windows <- MCWindows
    Thresholds = {0, 1, 2}
    Limits = {1, 2}
    Lookbacks = {0, 1}
    Times = {1, 2, 3}
    Counters <- MCCounters
    Stamps <- MCStamps
INVARIANTS
    CreatedOnce
    AnswersRight
    WorstActorsShown
    CpuCharted
PROPERTIES
    CallersAnswered
