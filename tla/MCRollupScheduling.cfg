SPECIFICATION FairSpec
CONSTANTS
    Tasks = {t1, t2}
    MaxChanges = 4
    MaxFaults = 1
    MaxRestarts = 1
INVARIANTS
    TypeOK
    JobsMatch
PROPERTIES
    JobsSettle
CHECK_DEADLOCK FALSE
