------------------------------- MODULE Fates -------------------------------
(***************************************************************************)
(* What a match promises its players.  A survivor is up, down, turned or   *)
(* safe; turned and safe are final.  As long as the match is undecided     *)
(* there is a hunter and somebody to hunt, and it is decided in the very   *)
(* step that fates the last one: for the survivors if somebody is safe,    *)
(* else for the hunter.  A verdict is never taken back.                    *)
(***************************************************************************)

CONSTANTS
    Player,      \* who may play
    NoPlayer,    \* no hunter
    Arbiter      \* TRUE: somebody outside may decide the match

VARIABLES hunter, up, down, turned, safe, verdict

vars == <<hunter, up, down, turned, safe, verdict>>

Verdicts == {"hunter", "survivors", "nobody"}

Idle ==
    /\ hunter = NoPlayer
    /\ up = {} /\ down = {} /\ turned = {} /\ safe = {}
    /\ verdict = "open"

Init == Idle

Begin ==
    /\ Idle
    /\ hunter' \in Player
    /\ up' \in (SUBSET (Player \ {hunter'})) \ {{}}
    /\ UNCHANGED <<down, turned, safe, verdict>>

(* Nobody is left to hunt: so it is decided.                               *)
Decide ==
    IF up' # {} THEN verdict' = "open"
    ELSE verdict' = IF safe' # {} THEN "survivors" ELSE "hunter"

(* Players change their fate, or leave; the final ones they only leave.    *)
Play ==
    /\ hunter # NoPlayer /\ verdict = "open"
    /\ hunter' = hunter
    /\ up' \subseteq up \cup down
    /\ down' \subseteq up \cup down
    /\ turned' \subseteq up \cup down \cup turned
    /\ safe' \subseteq up \cup safe
    /\ Decide

(* The hunter leaves.                                                      *)
Flee ==
    /\ hunter # NoPlayer /\ verdict = "open"
    /\ hunter' = hunter
    /\ up' = up /\ down' = down /\ turned' = turned /\ safe' = safe
    /\ verdict' = "survivors"

(* The time is over, or somebody outside decides; corpses may turn on the  *)
(* last tick.                                                              *)
Stop ==
    /\ hunter # NoPlayer /\ verdict = "open" /\ up # {}
    /\ up' = up /\ safe' = safe /\ hunter' = hunter
    /\ down' \subseteq down
    /\ turned' = turned \cup (down \ down')
    /\ \/ verdict' = "nobody"
       \/ Arbiter /\ verdict' \in {"hunter", "survivors"}

(* After the end players only reach the exit or leave.                     *)
Leave ==
    /\ verdict # "open"
    /\ up' \subseteq up /\ down' \subseteq down /\ turned' \subseteq turned
    /\ safe' \subseteq safe \cup up
    /\ UNCHANGED <<hunter, verdict>>

(* The results, or the match is called off.                                *)
End ==
    /\ hunter # NoPlayer
    /\ hunter' = NoPlayer
    /\ up' = {} /\ down' = {} /\ turned' = {} /\ safe' = {}
    /\ verdict' = "open"

Next == Begin \/ Play \/ Flee \/ Stop \/ Leave \/ End

Spec == Init /\ [][Next]_vars
=============================================================================
