CONSTANTS
    g0 = g0
    g1 = g1
    g2 = g2
    s1 = s1
    s2 = s2
    Groups <- MCGroups
    Synths <- MCSynths
    Root = g0
    Nil = Nil
    Careful = TRUE
SPECIFICATION Spec
INVARIANTS
    LinksAgree
    EveryNodeInTree
PROPERTIES
    PlacedWhereAsked
    ImplementsOrder
