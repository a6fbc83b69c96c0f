------------------------------ MODULE MCRound ------------------------------
(* Instances of Round for TLC.                                             *)
EXTENDS Round, TLC

Symmetry == Permutations(Peer)
=============================================================================
