----------------------------- MODULE MCMapdraft ----------------------------
(* Instances of Mapdraft for TLC.                                          *)
EXTENDS Mapdraft, TLC

Symmetry == Permutations(Map)
=============================================================================
