SPECIFICATION FairSpec
CONSTANTS
    a = a
    b = b
    access = access
    dirA = dirA
    dirB = dirB
    Apps <- MCApps
    Dirs = {dirA, dirB}
    Texts <- MCTexts
    AbsolutePath <- MCAbsolutePath
    FalseTexts = {"false", "False"}
    AppLog <- MCAppLog
    AccessLog = "access.log"
    Unset = Unset
    Off = Off
    NoPath = NoPath
    Configs <- MCConfigs
    Tids = {t1, t2}
    t1 = t1
    t2 = t2
    NoFollower = NoFollower
    Parser = "app"
    Written = {"header", "error", "text"}
    MaxInodes = 2
    MaxLines <- Lines21
    TailMax = 1
    Faults = FALSE
    MaxRestarts = 0
INVARIANTS
    LogsConfigured
PROPERTIES
    ErrorsPersisted
