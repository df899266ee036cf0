SPECIFICATION Spec
CONSTANTS
    Tasks = {t1, t2}
    Ids = {i1, i2, i3}
    NoTask = noTask
    NoId = noId
    MaxEdits = 1
    MaxCalls = 3
    MaxFaults = 1
    MaxForeign = 1
SYMMETRY MCSymmetry
INVARIANTS
    PageMirrorsStore
    ShownIsStored
    OnlyAskedGone
CHECK_DEADLOCK FALSE
