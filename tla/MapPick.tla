------------------------------ MODULE MapPick ------------------------------
(***************************************************************************)
(* Which maps a lobby offers to the vote (Mapvote.c).  Three are drawn by  *)
(* their pick rates; the draw is repeated until a map is accepted, with    *)
(* the lobby's lock and the lock of the map list held, so that a draw that *)
(* cannot succeed stops the lobby for ever.  The players and their votes   *)
(* are abstracted: any map that is offered may win.                        *)
(***************************************************************************)
EXTENDS Integers, FiniteSets

CONSTANTS
    Map,        \* the MAP_COUNT maps
    NoMap,      \* last_map = -1
    Lists,      \* the sets of maps the host may enable
    Drafts,     \* TRUE: maps are drafted, too
    Full,       \* the highest pick rate (255)
    Step        \* what a rate loses and gains (25)

ASSUME PickAssumption ==
    /\ IsFiniteSet(Map) /\ NoMap \notin Map
    /\ Lists \subseteq SUBSET Map
    /\ Drafts \in BOOLEAN
    /\ Step \in Nat \ {0} /\ Full \in Nat /\ Step <= Full

VARIABLES
    phase,      \* "LOBBY", "MAPVOTE", or "DRAWING" inside mapvote_init
    enabled,    \* g_config.map_list
    lastMap,    \* last_map
    rate,       \* map_pickrates
    offered,    \* lobby.maps
    drawn       \* how many of them mapvote_init has drawn

vars == <<phase, enabled, lastMap, rate, offered, drawn>>

Slot == 1 .. 3

----------------------------------------------------------------------------
Less(a, b) == IF a > b THEN a - b ELSE 0

Capped(a) == IF a > Full THEN Full ELSE a

(* The maps drawn so far.                                                  *)
Drawn == {offered[i] : i \in 1 .. drawn}

(* What a draw may accept.                                                 *)
Drawable == {m \in enabled : m # lastMap /\ rate[m] > 0 /\ m \notin Drawn}

Init ==
    /\ phase = "LOBBY"
    /\ enabled \in Lists
    /\ lastMap = NoMap
    /\ rate = [m \in Map |-> Full]
    /\ \E m \in Map : offered = [i \in Slot |-> m]
    /\ drawn = 0

(* The host's panel, which takes the lock of the list.                     *)
SetMaps(L) ==
    /\ phase # "DRAWING"
    /\ enabled' = L
    /\ UNCHANGED <<phase, lastMap, rate, offered, drawn>>

(* mapvote_init when there are three maps or fewer: they fill the slots.   *)
OfferAll ==
    /\ phase = "LOBBY" /\ Cardinality(enabled) <= 3
    /\ phase' = "MAPVOTE"
    /\ IF enabled = {} THEN UNCHANGED offered
       ELSE /\ offered' \in [Slot -> enabled]
            /\ enabled \subseteq {offered'[i] : i \in Slot}
    /\ UNCHANGED <<enabled, lastMap, rate, drawn>>

(* mapvote_init enters the draw.                                           *)
StartDraw ==
    /\ phase = "LOBBY" /\ Cardinality(enabled) > 3
    /\ phase' = "DRAWING"
    /\ drawn' = 0
    /\ UNCHANGED <<enabled, lastMap, rate, offered>>

(* Mutant of Draw: only a map that nobody has chosen lately is accepted.   *)
DrawRested(m) ==
    /\ phase = "DRAWING"
    /\ m \in Drawable /\ rate[m] = Full
    /\ offered' = [offered EXCEPT ![drawn + 1] = m]
    /\ drawn' = drawn + 1
    /\ phase' = IF drawn' = 3 THEN "MAPVOTE" ELSE "DRAWING"
    /\ UNCHANGED <<enabled, lastMap, rate>>

(* A draw that is accepted.                                                *)
Draw(m) ==
    /\ phase = "DRAWING"
    /\ m \in Drawable
    /\ offered' = [offered EXCEPT ![drawn + 1] = m]
    /\ drawn' = drawn + 1
    /\ phase' = IF drawn' = 3 THEN "MAPVOTE" ELSE "DRAWING"
    /\ UNCHANGED <<enabled, lastMap, rate>>

(* One that is not: back to "gen".                                         *)
Redraw(m) ==
    /\ phase = "DRAWING"
    /\ m \in enabled
    /\ m \notin Drawable \/ rate[m] < Full
    /\ UNCHANGED vars

(* The rates after won has been chosen: its own falls by the whole range,  *)
(* those of all offered by a step, and all but won's grow by a step.       *)
Slots(m) == Cardinality({i \in Slot : offered[i] = m})

Charged(won) ==
    [m \in Map |->
        Less(IF m = won THEN Less(rate[m], Full) ELSE rate[m], Slots(m) * Step)]

(* Mutant of Rates: only maps that were not offered grow.                  *)
RatesOthersOnly(won) ==
    [m \in Map |->
        IF m = won \/ Slots(m) > 0 THEN Charged(won)[m]
        ELSE Capped(Charged(won)[m] + Step)]

(* Mutant of Rates: they grow without a limit.                             *)
RatesUncapped(won) ==
    [m \in Map |-> IF m = won THEN Charged(won)[m] ELSE Charged(won)[m] + Step]

Rates(won) ==
    [m \in Map |->
        IF m = won THEN Charged(won)[m] ELSE Capped(Charged(won)[m] + Step)]

(* mapvote_state_tick when the time is over.                               *)
Choose(i) ==
    /\ phase = "MAPVOTE"
    /\ phase' = "LOBBY"
    /\ lastMap' = offered[i]
    /\ rate' = Rates(offered[i])
    /\ UNCHANGED <<enabled, offered, drawn>>

(* mapvote_state_left: too few players are left.                           *)
Abandon ==
    /\ phase = "MAPVOTE"
    /\ phase' = "LOBBY"
    /\ UNCHANGED <<enabled, lastMap, rate, offered, drawn>>

(* mapdraft_finish, which leaves the rates alone; the host may have        *)
(* disabled the map meanwhile.                                             *)
DraftOver(m) ==
    /\ Drafts /\ phase = "LOBBY"
    /\ lastMap' = m
    /\ UNCHANGED <<phase, enabled, rate, offered, drawn>>

Next ==
    \/ \E L \in Lists : SetMaps(L)
    \/ OfferAll
    \/ StartDraw
    \/ \E m \in Map : Draw(m) \/ Redraw(m) \/ DraftOver(m)
    \/ \E i \in Slot : Choose(i)
    \/ Abandon

Spec == Init /\ [][Next]_vars

(* Every map of the list is drawn again and again, and its rate lets it    *)
(* pass at some time.                                                      *)
FairSpec == Spec /\ WF_vars(\E m \in Map : Draw(m))

----------------------------------------------------------------------------
(* Type invariant.                                                         *)
TypeOK ==
    /\ phase \in {"LOBBY", "DRAWING", "MAPVOTE"}
    /\ enabled \in Lists
    /\ lastMap \in Map \cup {NoMap}
    /\ rate \in [Map -> 0 .. Full]
    /\ offered \in [Slot -> Map]
    /\ drawn \in 0 .. 3

(* A draw that has begun can always accept a further map: the loop of      *)
(* mapvote_init is never left without a candidate.                         *)
CanDraw == phase = "DRAWING" => Drawable # {}

(* No two maps are barred from the draw by their rates at the same time.   *)
OneBarred == \A m, n \in Map : rate[m] = 0 /\ rate[n] = 0 => m = n

(* Every draw ends.                                                        *)
DrawEnds == phase = "DRAWING" ~> phase = "MAPVOTE"
=============================================================================
