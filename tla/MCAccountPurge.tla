--------------------------- MODULE MCAccountPurge ---------------------------
(* Instances of AccountPurge for TLC. *)
EXTENDS AccountPurge
=============================================================================
