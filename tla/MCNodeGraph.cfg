CONSTANTS
    s1 = s1
    s2 = s2
    s3 = s3
    g0 = g0
    g1 = g1
    g2 = g2
    p1 = p1
    Nil = Nil
    Root = g0
    Synths <- ThreeSynths
    SeqGroups <- TwoGroups
    ParGroups <- OneParGroup
    DoneActions = {2, 3, 13, 14}
    MaxCount = 4
    MaxDone = 2
    CrossMoves = FALSE
    CyclicMoves = FALSE
    Garbage = {0}
SPECIFICATION GraphSpec
INVARIANTS ListsAgree GeneratedQueueRight NamedNodesHeld
PROPERTIES ChangesAreSeen
SYMMETRY Symmetry
