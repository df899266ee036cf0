---------------------------- MODULE MCFileQueue ----------------------------
(* TLC instances of FileQueue.                                             *)
EXTENDS FileQueue, TLC

Symmetry == Permutations(Workers)
=============================================================================
