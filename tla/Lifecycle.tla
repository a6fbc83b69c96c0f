----------------------------- MODULE Lifecycle -----------------------------
(***************************************************************************)
(* What a lobby promises its players, whatever the phases, counters and    *)
(* callbacks behind it: a round has one exe and at least one more player,  *)
(* the exe is fixed when it is drawn, the cast of a match only shrinks,    *)
(* and the results follow a decided match, unless the round is called off  *)
(* or an operator interrupts it.                                           *)
(***************************************************************************)

CONSTANTS
    Player,         \* who may play
    NoPlayer,       \* no exe is drawn
    Interruptible   \* TRUE: operators may call the results screen at will

VARIABLES
    stage,    \* "gathering", "selecting", "playing", "decided", "results"
    cast,     \* who takes part
    exe       \* the player drawn as the exe

vars == <<stage, cast, exe>>

Init ==
    /\ stage = "gathering"
    /\ cast = {}
    /\ exe = NoPlayer

(* Players come, go and are dropped before a round.                        *)
Gather ==
    /\ stage = "gathering" /\ stage' = "gathering"
    /\ cast' \in SUBSET Player
    /\ exe' = NoPlayer

Draw ==
    /\ stage = "gathering" /\ stage' = "selecting"
    /\ cast' = cast
    /\ exe' \in cast

(* The cast may change during the selection, but not the exe.              *)
Reselect ==
    /\ stage = "selecting" /\ stage' = "selecting"
    /\ cast' \in SUBSET Player
    /\ exe \in cast' /\ exe' = exe

Begin ==
    /\ stage = "selecting" /\ stage' = "playing"
    /\ cast' \in SUBSET cast
    /\ cast' \ {exe} # {}
    /\ exe \in cast' /\ exe' = exe

Play ==
    /\ stage = "playing" /\ stage' = "playing"
    /\ cast' \in SUBSET cast
    /\ cast' \ {exe} # {}
    /\ exe \in cast' /\ exe' = exe

(* The match is decided; the exe may be the one whose leaving decides it.  *)
Decide ==
    /\ stage \in {"playing", "decided"} /\ stage' = "decided"
    /\ cast' \in SUBSET cast
    /\ exe' = NoPlayer

Results ==
    /\ stage \in {"decided", "results"} /\ stage' = "results"
    /\ cast' \in SUBSET cast
    /\ exe' = NoPlayer

Interrupt ==
    /\ Interruptible
    /\ stage # "results" /\ stage' = "results"
    /\ cast' = cast
    /\ exe' = NoPlayer

(* Back to the lobby: after the results, or because the round is off.      *)
Regroup ==
    /\ stage \in {"selecting", "playing", "results"} /\ stage' = "gathering"
    /\ cast' \in SUBSET Player
    /\ exe' = NoPlayer

Next ==
    \/ Gather
    \/ Draw
    \/ Reselect
    \/ Begin
    \/ Play
    \/ Decide
    \/ Results
    \/ Interrupt
    \/ Regroup

Spec == Init /\ [][Next]_vars
=============================================================================
