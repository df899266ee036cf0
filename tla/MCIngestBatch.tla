--------------------------- MODULE MCIngestBatch ---------------------------
(* TLC instances of IngestBatch.                                           *)
EXTENDS IngestBatch, TLC

CONSTANTS w1, w2, p1, p2, p3, r1, r2, n1, n2, m1, m2

(* Two rows in one time frame of one metric.                               *)
FrameRowOf == [p \in Points |-> IF p = p3 THEN r2 ELSE r1]
FrameNameOf == [r \in Rows |-> n1]
FrameMetricOf == [n \in Names |-> m1]
(* Or each of a metric of its own.                                         *)
RowNameOf == [r \in Rows |-> IF r = r2 THEN n2 ELSE n1]
RowMetricOf == [n \in Names |-> IF n = n2 THEN m2 ELSE m1]

TwoBatches == {<<p1, p3>>, <<p2>>}
ThreeBatches == {<<p1>>, <<p2>>, <<p3>>}

Symmetry == Permutations({w1, w2})
=============================================================================
