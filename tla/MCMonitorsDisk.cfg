SPECIFICATION Spec
CONSTANTS
    disk = disk
    docker = docker
    noJson = noJson
    sda = sda
    sdb = sdb
    loop0 = loop0
    tmpfs = tmpfs
    Devices = {sda, sdb, loop0, tmpfs}
    LoopDevices = {loop0}
    PseudoDevices = {tmpfs}
    Components = {"host", "root", "overlay2", "containers", "data", "mnt", "boot"}
    Width <- MCWidth
    Exclude <- MCExclude
    Outputs <- MCOutputs
    Multipliers <- MCMultipliers
    Words <- MCWords
    Amount <- MCAmount
    Short = {"4.1MB"}
    Capitals = {"VOLUMES"}
    Types <- MCTypes
    Summaries <- MCSummaries
    NoJson = noJson
    Inventories <- MCInventories
    MemLines <- MCMemLines
    NoNumber <- MCNoNumber
    MemFiles <- MCMemFiles
    Thresholds = {0, 50, 60, 100}
    Disk = disk
    Sentinel = docker
    AllMounts = AllMounts
    Lookback = {1, 2}
    Mons = {disk}
    Keys <- MCKeys
    Owner <- MCOwner
    Reports <- MCReports
    Window <- MCWindows
    History = 1
    Interval = 1
    Faults = TRUE
    MaxRuns = 2
    NoRow = NoRow
    MaxTime = 1
    Second = 2
    MaxSetBack = 0
    MaxSetForward = 1
    MaxAlerts = 3
CONSTRAINT MailsArrive
INVARIANTS
    TypeOK
    BatchesWhole
    DashboardNotBehind
    OverConsidered
    AlertsSpaced
    RecentCharted
    PointsDated
    DiskReported
    MemReported
CHECK_DEADLOCK FALSE
