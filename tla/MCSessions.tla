----------------------------- MODULE MCSessions -----------------------------
(* Two lobbies; c1 and c2 are one player's two clients, c3 shares only     *)
(* their address.                                                          *)
EXTENDS Sessions, TLC

CONSTANTS c1, c2, c3, a, u, w

Address == [c \in Conn |-> a]
Device == c1 :> u @@ c2 :> u @@ c3 :> w

Symmetry == Permutations({c1, c2}) \cup Permutations(Lobby)

(* No guard and no property reads closing: states that differ in it only   *)
(* have the same futures.                                                  *)
View == <<at, tried, verified, owes, op, list, task, book, fine, opKeys>>
=============================================================================
