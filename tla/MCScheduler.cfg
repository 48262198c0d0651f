CONSTANTS
    NetPackets <- MCNet
    Completions <- MCCompletions
    Timeless <- MCTimeless
    Clearing <- MCClearing
    InboxSize = 1
    OutboxSize = 1
    Limit = 4
    oscInc = 2
    NumBufs = 1
    Jitter = 1
    MaxTime = 2
SPECIFICATION Spec
INVARIANTS PacketsHaveOneOwner
PROPERTIES ImplementsBundleQueue EveryPacketEnds
