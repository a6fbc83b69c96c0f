------------------------------ MODULE MCRavine ------------------------------
(* Instances of Ravine for TLC.                                            *)
EXTENDS Ravine, TLC

Symmetry == Permutations(Peer) \cup Permutations(Shard) \cup
            Permutations(Spawner) \cup Permutations(Slug)
=============================================================================
