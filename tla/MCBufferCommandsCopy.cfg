CONSTANTS
    b1 = b1
    b2 = b2
    NumCmds = 3
    Capacity = 7
    Kinds <- MCKinds
    None = None
    Bufs = {b1, b2}
    Ops <- CopyOps
    EmptyReallocs = FALSE
SPECIFICATION BufSpec
INVARIANTS
    CopiesAreCurrent
