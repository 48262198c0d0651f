CONSTANTS
    g0 = g0
    g1 = g1
    s1 = s1
    s2 = s2
    s3 = s3
    Groups <- MCGroups
    Synths <- MCSynths
    Root = g0
    Nil = Nil
    Careful = TRUE
    Sessions <- MCSessions
SPECIFICATION CalcFairSpec
INVARIANTS
    TreeStaysSound
    FramesStayValid
    VisitedArePrefix
    ConstructedOnce
PROPERTIES
    EndedNodesFreed
