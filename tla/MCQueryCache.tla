---------------------------- MODULE MCQueryCache ----------------------------
(* Instances of QueryCache for TLC: three threads, three queries.  Threads  *)
(* and rows are interchangeable.                                           *)
EXTENDS QueryCache, TLC

Symmetry == Permutations(Threads) \cup Permutations(Rows)
=============================================================================
