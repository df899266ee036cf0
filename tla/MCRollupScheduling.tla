------------------------ MODULE MCRollupScheduling --------------------------
(* An instance of RollupScheduling for TLC: two tasks.                      *)
EXTENDS RollupScheduling, TLC

MCSymmetry == Permutations(Tasks)
=============================================================================
