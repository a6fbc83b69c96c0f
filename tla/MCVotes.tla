------------------------------ MODULE MCVotes ------------------------------
(* Instances of Votes for TLC: the last id is given to a second person.    *)
EXTENDS Votes

Connections == [i \in 1..Slots |-> IF i = Slots THEN 2 ELSE 1]
=============================================================================
