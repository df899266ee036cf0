SPECIFICATION Spec
CONSTANTS
    Hosts = {1, 2}
    NumTasks = 3
    Stored = {1}
    Interval <- MCInterval
    MaxLists = 3
    MaxEvents = 1
INVARIANTS
    TypeOK
    CoordinatorSharesOut
CHECK_DEADLOCK FALSE
