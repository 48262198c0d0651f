CONSTANTS
    NoItem = NoItem
    ThreadCount = 3
    Queues <- MCQueues
    MaxPosts = 2
SPECIFICATION Spec
INVARIANTS RunsInOrder TicksEndClean
PROPERTIES TickEnds HelpersJoin
