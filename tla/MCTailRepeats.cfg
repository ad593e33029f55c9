SPECIFICATION Spec
CONSTANTS
    p1 = p1
    p2 = p2
    Kinds = {"app"}
    Unstamped = {"app"}
    Disordered = {}
    Errors = {}
    Polls = {p1, p2}
    PollLimit = 3
    FirstLines = 3
    TerminalCap = 3
    TailCap = 3
    Faults = FALSE
    MaxTime = 2
    MaxLines = 2
SYMMETRY MCSymmetry
INVARIANTS
    ShownOnce
