SPECIFICATION Spec
CONSTANTS
    Threads = {t1, t2, t3}
    Hashes = {h1, h2}
    Permits = 2
    NoThread = none
    MaxQueries = 3
    MaxKills = 1
    Rows = {r1, r2}
    KeepFiles = TRUE
    MaxFaults = 1
INVARIANTS
    TypeOK
    AnswerWhole
SYMMETRY Symmetry
CHECK_DEADLOCK FALSE
