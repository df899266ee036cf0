--------------------------- MODULE MCQueryQueuing ---------------------------
(* An instance of QueryQueuing for TLC: three threads for two permits.     *)
EXTENDS QueryQueuing
=============================================================================
