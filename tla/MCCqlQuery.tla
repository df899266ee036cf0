----------------------------- MODULE MCCqlQuery -----------------------------
(* Instances of CqlQuery for TLC, with the arithmetic of the rows it       *)
(* reads.                                                                  *)
EXTENDS CqlQuery, RowTimes

(* An empty result, a row of one data point and rows of two                *)
FourRows == <<0, 2, 1, 2>>
ThreeRows == <<1, 0, 1>>

(* The theorems about row times for small widths and ints of five bits,    *)
(* with both units whose columns are milliseconds.                         *)
Times == -6 .. 11
SmallSpecs == [unit : Units \ {"seconds"}, width : 1 .. 5]
ASSUME RangesTouched ==
    \A spec \in SmallSpecs, start, end, ts \in Times :
        LET inside == ts \in start .. end
        IN  /\ ReadAs(spec, ts) = ts
            /\ Finds(spec, ts, start, end) \/ Deletes(spec, ts, start, end)
                 => inside
            /\ inside /\ start >= 0 => /\ Finds(spec, ts, start, end)
                                       /\ Deletes(spec, ts, start, end)
=============================================================================
