------------------------------ MODULE Contest ------------------------------
(***************************************************************************)
(* A match as the lobby and the match itself both see it: who takes part,  *)
(* who is the exe, whether it has started and whether it is decided.  The  *)
(* lobby's module knows no fates, the match's module no phases; that both  *)
(* keep to this is what lets them be read as one system.                   *)
(***************************************************************************)
EXTENDS Naturals, FiniteSets

CONSTANTS
    Player,         \* who may play
    NoPlayer,       \* nobody: no match is on
    Interruptible   \* TRUE: a match may be broken off from outside

VARIABLES
    on,        \* a match is on
    cast,      \* its players who are still there
    exe,       \* its exe, also when he has left
    started,   \* all have loaded
    decided    \* there is a verdict

vars == <<on, cast, exe, started, decided>>

Off ==
    /\ on' = FALSE
    /\ cast' = {} /\ exe' = NoPlayer
    /\ started' = FALSE /\ decided' = FALSE

Init ==
    /\ on = FALSE
    /\ cast = {} /\ exe = NoPlayer
    /\ started = FALSE /\ decided = FALSE

(* An exe and somebody to hunt.                                            *)
Begin ==
    /\ ~on /\ on'
    /\ cast' \in SUBSET Player /\ Cardinality(cast') > 1
    /\ exe' \in cast'
    /\ started' = FALSE /\ decided' = FALSE

(* The last one has loaded, or something decides the match, or both.       *)
Proceed ==
    /\ on /\ on'
    /\ cast' = cast /\ exe' = exe
    /\ started' \in {started, TRUE}
    /\ decided' \in {decided, TRUE}

(* Somebody leaves who is not needed: another two are left at least, and   *)
(* only a match that has started goes on without its exe, decided by that. *)
Leave(p) ==
    /\ on /\ on'
    /\ p \in cast /\ cast' = cast \ {p} /\ exe' = exe
    /\ \/ decided /\ decided' /\ started' = started
       \/ /\ ~decided /\ ~started
          /\ Cardinality(cast') > 1 /\ p # exe
          /\ started' \in BOOLEAN /\ ~decided'
       \/ /\ ~decided /\ started
          /\ Cardinality(cast') > 1
          /\ started' /\ decided' \in IF p = exe THEN {TRUE} ELSE BOOLEAN

(* Too few are left, or the exe leaves before the start.                   *)
CallOff(p) ==
    /\ on /\ ~decided /\ p \in cast
    /\ Cardinality(cast \ {p}) <= 1 \/ (~started /\ p = exe)
    /\ Off

Over == on /\ started /\ decided /\ Off

Interrupt == on /\ Interruptible /\ Off

Next ==
    \/ Begin
    \/ Proceed
    \/ \E p \in Player : Leave(p) \/ CallOff(p)
    \/ Over
    \/ Interrupt

Spec == Init /\ [][Next]_vars
=============================================================================
