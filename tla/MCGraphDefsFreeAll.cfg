CONSTANTS
    x = x
    y = y
    s1 = s1
    s2 = s2
    NumDefs = 3
    Names <- MCNames
    Synths <- MCSynths
    None = None
    MaxGraphDefs = 2
    FifoSize = 2
    Variants = FALSE
    Careful = FALSE
SPECIFICATION Spec
INVARIANTS
    OriginalsOutliveUse
CHECK_DEADLOCK FALSE
