SPECIFICATION Spec
CONSTANTS
    w1 = w1
    w2 = w2
    p1 = p1
    p2 = p2
    p3 = p3
    r1 = r1
    r2 = r2
    n1 = n1
    n2 = n2
    m1 = m1
    m2 = m2
    Workers = {w1, w2}
    Points = {p1, p2, p3}
    Batches <- TwoBatches
    Rows = {r1, r2}
    RowOf <- FrameRowOf
    Names = {n1, n2}
    NameOf <- RowNameOf
    Metrics = {m1, m2}
    MetricOf <- RowMetricOf
    CurrentNames = {n1}
    FilteredNames = {n2}
    ExpiringPoints = {p2}
    RowCacheSize = 1
    NameCacheSize = 2
    RetryMinimum = 1
    MaxOutages = 1
    MaxFaults = 1
    MaxLost = 0
    DeleteKinds = {}
    MaxDeletes = 0
SYMMETRY Symmetry
CHECK_DEADLOCK FALSE
INVARIANTS
    TypeOK
    NameCacheHonest
    RowCacheHonest
    RowKeysComplete
    TimeIndexComplete
    MetricsListed
    PointsAccounted
