CONSTANTS
    b1 = b1
    b2 = b2
    NumCmds = 3
    Capacity = 7
    Kinds <- MCKinds
    None = None
    Bufs = {b1}
    Ops <- RateOps
    EmptyReallocs = FALSE
SPECIFICATION BufSpec
INVARIANTS
    RatesKnown
