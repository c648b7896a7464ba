-------------------------- MODULE MCOrganizations --------------------------
(* Instances of Organizations for TLC. *)
EXTENDS Organizations, TLC

Symmetry == Permutations(Users)
=============================================================================
