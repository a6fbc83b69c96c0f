----------------------------- MODULE Admission -----------------------------
(***************************************************************************)
(* What the workers of all lobbies promise together, whatever the critical *)
(* sections, timeouts and packets behind it: a player takes a seat, and    *)
(* leaves it, in one step, and the list of addresses changes in that very  *)
(* step.  Nobody takes a seat in a full lobby, nor, unless he is an        *)
(* operator, in one where his address or his device is playing already.    *)
(***************************************************************************)
EXTENDS Integers, FiniteSets

CONSTANTS
    Conn,      \* connections
    Lobby,     \* servers of this process
    Nowhere,   \* has no seat
    Key,       \* addresses and device ids
    AddrOf,    \* the address of a connection
    UdidOf,    \* its device id
    Cap        \* seats of a lobby

VARIABLES
    seat,      \* the lobby a connection plays in
    chief,     \* the players who are operators
    book       \* how often a key is entered as in use

vars == <<seat, chief, book>>

Keys(c) == {AddrOf[c], UdidOf[c]}
Players(l) == {c \in Conn : seat[c] = l}

Init ==
    /\ seat = [c \in Conn |-> Nowhere]
    /\ chief = {}
    /\ book = [k \in Key |-> 0]

Enter(c, l) ==
    /\ seat[c] = Nowhere
    /\ Cardinality(Players(l)) < Cap
    /\ chief' \in {chief, chief \cup {c}}
    /\ c \notin chief' => \A d \in Players(l) : Keys(c) \cap Keys(d) = {}
    /\ seat' = [seat EXCEPT ![c] = l]
    /\ book' = [k \in Key |-> IF k \in Keys(c) THEN book[k] + 1 ELSE book[k]]

Leave(c) ==
    /\ seat[c] \in Lobby
    /\ seat' = [seat EXCEPT ![c] = Nowhere]
    /\ chief' = chief \ {c}
    /\ book' = [k \in Key |-> IF k \in Keys(c) THEN book[k] - 1 ELSE book[k]]

Promote(c) ==
    /\ seat[c] \in Lobby
    /\ chief' = chief \cup {c}
    /\ UNCHANGED <<seat, book>>

Next == \E c \in Conn : Leave(c) \/ Promote(c) \/ \E l \in Lobby : Enter(c, l)

Spec == Init /\ [][Next]_vars
=============================================================================
