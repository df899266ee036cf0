---------------------------- MODULE MCRollupPage ----------------------------
(* An instance of RollupPage for TLC: two objects and three ids, so that a  *)
(* selection can hold an unsaved and a saved task, and a first save can be  *)
(* sent twice.                                                              *)
EXTENDS RollupPage, TLC

MCSymmetry == Permutations(Tasks) \cup Permutations(Ids)
=============================================================================
