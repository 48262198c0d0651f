CONSTANTS
    NumCmds = 3
    Capacity = 2
    Kinds <- AllKinds
    None = None
SPECIFICATION FairSpec
INVARIANTS
    CommandsIntact
    SyncedAfterAllBefore
PROPERTIES
    EveryCommandCompletes
