CONSTANTS
    b1 = b1
    b2 = b2
    NumCmds = 3
    Capacity = 2
    Kinds <- MCKinds
    None = None
    Bufs = {b1}
    Ops <- AllOps
    EmptyReallocs = FALSE
SPECIFICATION BufSpec
INVARIANTS
    RtDataLive
    FreedOnce
    MirrorsAgree
    FilesAccountedFor
