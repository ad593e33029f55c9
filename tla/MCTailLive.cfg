SPECIFICATION FairSpec
CONSTANTS
    p1 = p1
    p2 = p2
    Kinds = {"app"}
    Unstamped = {}
    Disordered = {"app"}
    Errors = {1, 2, 3, 4}
    Polls = {p1, p2}
    PollLimit = 2
    FirstLines = 1
    TerminalCap = 4
    TailCap = 4
    Faults = FALSE
    MaxTime = 2
    MaxLines = 4
INVARIANTS
    NoGaps
PROPERTIES
    LatestShown
