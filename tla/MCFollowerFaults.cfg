SPECIFICATION Spec
CONSTANTS
    Tids = {t1, t2}
    t1 = t1
    t2 = t2
    NoFollower = NoFollower
    Parser = "app"
    Written = {"header", "other", "text", "badstamp"}
    MaxInodes = 2
    MaxLines <- Lines31
    TailMax = 1
    Faults = TRUE
    MaxRestarts = 1
SYMMETRY MCSymmetry
INVARIANTS
    TypeOK
    OneReaderPerFile
    NoStrayFollower
    EventsInFileOrder
    TracebacksContiguous
PROPERTIES
    IngestSpec
