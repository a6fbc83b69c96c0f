---------------------------- MODULE MCCharselect ---------------------------
(* Instances of Charselect for TLC.  Tails is not symmetric to the others. *)
EXTENDS Charselect, TLC

Symmetry == Permutations(Peer) \cup Permutations(Char \ {Tails})
=============================================================================
