SPECIFICATION QueuingFairSpec
CONSTANTS
    Threads = {t1, t2, t3}
    Hashes = {h1, h2}
    Permits = 2
    NoThread = none
INVARIANTS
    HashExclusive
    PermitsConserved
PROPERTIES
    KillHitsQuery
    HashServed
