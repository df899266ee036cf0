SPECIFICATION FairSpec
CONSTANTS
    HalfWord = 16
    RowCount = 4
    RowSize <- FourRows
    Simultaneous = 2
    ReaderThreads = 2
    Limit = 3
    TimeLimit = TRUE
    MaxFaults = 2
    MaxKills = 2
INVARIANTS
    TypeOK
    AtMostSimultaneous
    AnswerComplete
PROPERTIES
    QueryEnds
CHECK_DEADLOCK FALSE
