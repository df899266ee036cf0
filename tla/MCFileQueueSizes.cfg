SPECIFICATION Spec
CONSTANTS
    w1 = w1
    w2 = w2
    Workers = {w1, w2}
    InitialBatchSize = 4
    Increment = 2
    MemoryQueueSize = 13
    MaxPuts = 13
    MaxCheckpoints = 0
    MaxFaults = 0
    MaxRestarts = 0
SYMMETRY Symmetry
CHECK_DEADLOCK FALSE
INVARIANT
    BatchSizeBounded
