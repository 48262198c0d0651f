CONSTANTS
    NumCmds = 3
    Capacity = 7
    Kinds <- AllKinds
    None = None
SPECIFICATION Spec
INVARIANTS
    MessageFreedOnce
