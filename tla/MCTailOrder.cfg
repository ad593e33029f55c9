SPECIFICATION Spec
CONSTANTS
    p1 = p1
    p2 = p2
    Kinds = {"app", "access"}
    Unstamped = {"app"}
    Disordered = {"access"}
    Errors = {1, 3}
    Polls = {p1, p2}
    PollLimit = 2
    FirstLines = 1
    TerminalCap = 2
    TailCap = 3
    Faults = TRUE
    MaxTime = 2
    MaxLines = 3
SYMMETRY MCSymmetry
INVARIANTS
    TypeOK
    ShownInOrder
