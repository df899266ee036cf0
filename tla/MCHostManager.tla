--------------------------- MODULE MCHostManager ----------------------------
(* An instance of HostManager for TLC.                                      *)
EXTENDS HostManager
=============================================================================
