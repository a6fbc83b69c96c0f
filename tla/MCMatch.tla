------------------------------ MODULE MCMatch ------------------------------
(* Instances of Match for TLC: three ids for a list of Cap peers.          *)
EXTENDS Match, TLC

Symmetry == Permutations(Id)
=============================================================================
