SPECIFICATION FairSpec
CONSTANTS
    Workers = {w1}
    w1 = w1
    InitialBatchSize = 2
    Increment = 5
    MemoryQueueSize = 2
    MaxFaults = 0
    MaxPuts = 2
    MaxCheckpoints = 1
    MaxRestarts = 1
PROPERTIES
    BacklogSentOnStartup
