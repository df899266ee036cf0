SPECIFICATION Spec
CONSTANTS
    w1 = w1
    w2 = w2
    p1 = p1
    p2 = p2
    p3 = p3
    r1 = r1
    r2 = r2
    n1 = n1
    n2 = n2
    m1 = m1
    m2 = m2
    Workers = {w1, w2}
    Points = {p1, p2, p3}
    Batches <- ThreeBatches
    Rows = {r1, r2}
    RowOf <- FrameRowOf
    Names = {n1}
    NameOf <- FrameNameOf
    Metrics = {m1}
    MetricOf <- FrameMetricOf
    CurrentNames = {n1}
    FilteredNames = {}
    ExpiringPoints = {}
    RowCacheSize = 1
    NameCacheSize = 1
    RetryMinimum = 1
    MaxOutages = 0
    MaxFaults = 0
    MaxLost = 1
    DeleteKinds = {"all", "tags", "alltags"}
    MaxDeletes = 1
SYMMETRY Symmetry
CHECK_DEADLOCK FALSE
INVARIANTS
    NameCacheHonest
    RowKeysComplete
