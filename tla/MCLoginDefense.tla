--------------------------- MODULE MCLoginDefense ---------------------------
(* Instances of LoginDefense for TLC. *)
EXTENDS LoginDefense, TLC

Symmetry == Permutations(Workers) \cup Permutations(Clients)
=============================================================================
