SPECIFICATION FairSpec
CONSTANTS
    w1 = w1
    w2 = w2
    Workers = {w1, w2}
    InitialBatchSize = 2
    Increment = 5
    MemoryQueueSize = 1
    MaxPuts = 3
    MaxCheckpoints = 3
    MaxFaults = 1
    MaxRestarts = 1
INVARIANTS
    TypeOK
    CheckpointSafe
    MemoryQueueInSync
    AtMostOncePerRun
    NothingForgotten
    ChildSetBeforeCascade
    ReleasedInOrder
PROPERTIES
    DeliversAtLeastOnce
    ReadyEventsComplete
    CheckpointReached
