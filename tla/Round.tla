------------------------------- MODULE Round -------------------------------
(***************************************************************************)
(* The players of a match (phase GAME of module Match): who is dead, who   *)
(* may still be revived, who was demonized, who escaped, and when that     *)
(* decides the match.  A flag of Player.flags is the set of the players    *)
(* that have it; PLAYER_KILLER is exe, PLAYER_LEFT is not to be here.      *)
(*                                                                         *)
(* Positions, rings, entities and the revival's progress are abstracted: a *)
(* packet may be the one that completes a revival, and a corpse's timer    *)
(* may or may not run on (it stops while the exe is near).                 *)
(***************************************************************************)
EXTENDS Integers, FiniteSets

CONSTANTS
    Peer,        \* who may play
    NoPeer,      \* no match: nobody is the exe
    Demonize,    \* g_config.demonize
    Forced,      \* TRUE: an operator or the host may end the match
    Early,       \* TRUE: a client may play before the match has started
    RoundSecs,   \* time_sec as set by map_time
    SuddenSecs,  \* TICKSPERSEC * 2: sudden death (120)
    DeathSecs,   \* death_timer_sec of a fresh corpse (30)
    SortSize     \* slots of game_player_tick's sort (6)

ASSUME RoundAssumption ==
    /\ IsFiniteSet(Peer) /\ NoPeer \notin Peer
    /\ Cardinality(Peer) <= SortSize + 1
    /\ Demonize \in BOOLEAN /\ Forced \in BOOLEAN /\ Early \in BOOLEAN
    /\ SuddenSecs \in Nat
    /\ RoundSecs \in Nat /\ RoundSecs > SuddenSecs  \* so in every map
    /\ DeathSecs \in Nat \ {0} /\ SortSize \in Nat

VARIABLES
    stage,       \* "LOBBY" or "GAME"
    players,     \* in_game peers on the server
    exe,         \* game.exe
    started,     \* game.started
    ending,      \* game.ending once game.end > 0, else "none"
    dead,        \* PLAYER_DEAD
    demonized,   \* PLAYER_DEMONIZED
    escaped,     \* PLAYER_ESCAPED
    revived,     \* PLAYER_REVIVED
    cantRevive,  \* PLAYER_CANTREVIVE
    deathSec,    \* death_timer_sec
    sudden,      \* game.sudden_death
    timeSec      \* game.time_sec

flags == <<dead, demonized, escaped, revived, cantRevive, deathSec>>
clock == <<sudden, timeSec>>
match == <<stage, exe, started>>
vars == <<match, players, ending, flags, clock>>

Endings == {"none", "EXEWIN", "SURVWIN", "TIMEOVER"}

----------------------------------------------------------------------------
Survivors == players \ {exe}

Alive == Survivors \ (dead \cup demonized \cup escaped)

(* game_state_check with the players P and the flags D, M and E: all who   *)
(* are left are dead, demonized or escaped.                                *)
AllFated(P, D, M, E) ==
    LET exes == Cardinality(P \cap {exe})
        lost == Cardinality(P \cap (D \cup M))
        safe == Cardinality(P \cap E)
    IN Cardinality(P) - (exes + lost + safe) <= 0

(* Mutant of Check: a decided match is the exe's.                          *)
CheckExeWins(P, D, M, E) ==
    ending' = IF ending = "none" /\ AllFated(P, D, M, E) THEN "EXEWIN" ELSE ending

Check(P, D, M, E) ==
    ending' = IF ending = "none" /\ AllFated(P, D, M, E)
              THEN IF P \cap E # {} THEN "SURVWIN" ELSE "EXEWIN"
              ELSE ending

(* Mutant of Room: half of the survivors, rounded up.                      *)
RoomRoundedUp ==
    ((Cardinality(Survivors) + 1) \div 2) - Cardinality(players \cap demonized)

(* How many more game_demonize lets through: half of the survivors.        *)
Room ==
    IF Demonize
    THEN (Cardinality(Survivors) \div 2) - Cardinality(players \cap demonized)
    ELSE 0

(* game_demonize, called for one corpse of D after the other: those it may *)
(* demonize, whichever come first.                                         *)
Chosen(D) ==
    {S \in SUBSET D :
        \/ S = {} /\ Room <= 0
        \/ S = D /\ Cardinality(D) <= Room
        \/ Cardinality(S) = Room /\ Room < Cardinality(D)}

(* lobby_init after game_uninit: nothing of the match is read again.       *)
ToLobby ==
    /\ stage' = "LOBBY"
    /\ exe' = NoPeer /\ started' = FALSE /\ ending' = "none"
    /\ players' = {}
    /\ dead' = {} /\ demonized' = {} /\ escaped' = {}
    /\ revived' = {} /\ cantRevive' = {}
    /\ deathSec' = [p \in Peer |-> 0]
    /\ sudden' = FALSE /\ timeSec' = 0

Init ==
    /\ stage = "LOBBY"
    /\ exe = NoPeer /\ started = FALSE /\ ending = "none"
    /\ players = {}
    /\ dead = {} /\ demonized = {} /\ escaped = {}
    /\ revived = {} /\ cantRevive = {}
    /\ deathSec = [p \in Peer |-> 0]
    /\ sudden = FALSE /\ timeSec = 0

(* game_init: a match of the players P with the exe x.                     *)
GameInit(P, x) ==
    /\ stage = "LOBBY"
    /\ x \in P /\ Cardinality(P) > 1
    /\ stage' = "GAME"
    /\ players' = P /\ exe' = x
    /\ UNCHANGED <<started, ending, flags, clock>>

(* game_checkstart on the packet that makes the last player ready.         *)
Start ==
    /\ stage = "GAME" /\ ~started
    /\ started' = TRUE
    /\ timeSec' = RoundSecs
    /\ UNCHANGED <<stage, exe, players, ending, flags, sudden>>

(* The handlers of the match's packets do not look at game.started; a      *)
(* client that plays before it is told to start is the exception.          *)
Playing == stage = "GAME" /\ (started \/ Early)

(* Mutant of Escape: a corpse may escape.                                  *)
EscapeDead(p) ==
    /\ Playing /\ p \in Survivors
    /\ p \notin demonized \cup escaped
    /\ escaped' = escaped \cup {p}
    /\ Check(players, dead, demonized, escaped')
    /\ UNCHANGED <<match, players, dead, demonized, revived, cantRevive,
                   deathSec, clock>>

(* CLIENT_PLAYER_ESCAPED, also after the end.                              *)
Escape(p) ==
    /\ Playing /\ p \in Survivors
    /\ p \notin dead \cup demonized \cup escaped
    /\ escaped' = escaped \cup {p}
    /\ Check(players, dead, demonized, escaped')
    /\ UNCHANGED <<match, players, dead, demonized, revived, cantRevive,
                   deathSec, clock>>

(* Mutant of Die: the handler's early returns are gone.                    *)
DieUnguarded(p) ==
    /\ Playing
    /\ p \in players
    /\ dead' = dead \cup {p}
    /\ deathSec' = [deathSec EXCEPT ![p] = DeathSecs]
    /\ Check(players, dead', demonized, escaped)
    /\ UNCHANGED <<match, players, demonized, escaped, revived, cantRevive, clock>>

(* CLIENT_PLAYER_DEATH_STATE with dead = 1: demonized or lost at once if   *)
(* it is too late or the second time, else the timer starts.               *)
Die(p) ==
    /\ Playing /\ ending = "none"
    /\ p \in Survivors
    /\ p \notin demonized \cup dead \cup escaped
    /\ \/ /\ p \in revived \/ timeSec < SuddenSecs
          /\ \E S \in Chosen({p}) :
                /\ dead' = dead \cup ({p} \ S)
                /\ demonized' = demonized \cup S
                /\ cantRevive' = cantRevive \cup ({p} \ S)
          /\ UNCHANGED deathSec
       \/ /\ p \notin revived /\ timeSec >= SuddenSecs
          /\ dead' = dead \cup {p}
          /\ deathSec' = [deathSec EXCEPT ![p] = DeathSecs]
          /\ UNCHANGED <<demonized, cantRevive>>
    /\ Check(players, dead', demonized', escaped)
    /\ UNCHANGED <<match, players, escaped, revived, clock>>

(* CLIENT_PLAYER_DEATH_STATE with dead = 0.                                *)
Undie(p) ==
    /\ Playing /\ ending = "none"
    /\ p \in Survivors \ demonized
    /\ deathSec[p] > 0
    /\ dead' = dead \ {p}
    /\ Check(players, dead', demonized, escaped)
    /\ UNCHANGED <<match, players, demonized, escaped, revived, cantRevive,
                   deathSec, clock>>

(* CLIENT_REVIVAL_PROGRESS that completes p's revival, or finds that p     *)
(* cannot be revived.                                                      *)
Revive(p) ==
    /\ Playing /\ ending = "none"
    /\ p \in players \cap dead
    /\ \/ /\ p \in cantRevive
          /\ deathSec' = [deathSec EXCEPT ![p] = 0]
          /\ UNCHANGED <<dead, revived>>
       \/ /\ p \notin cantRevive
          /\ dead' = dead \ {p}
          /\ revived' = revived \cup {p}
          /\ UNCHANGED deathSec
    /\ UNCHANGED <<match, players, ending, demonized, escaped, cantRevive, clock>>

(* game_state_left.  The leaver was taken from the list before; before the *)
(* start it may have been the last one to be waited for.                   *)
LeaveEnded(p) ==
    /\ ending # "none"
    /\ players' = players \ {p}
    /\ UNCHANGED <<match, ending, clock>>

LeaveWaiting(p) ==
    /\ ending = "none" /\ ~started
    /\ p # exe /\ Cardinality(players \ {p}) > 1
    /\ players' = players \ {p}
    /\ started' \in BOOLEAN
    /\ timeSec' = IF started' THEN RoundSecs ELSE timeSec
    /\ UNCHANGED <<stage, exe, ending, sudden>>

LeaveStarted(p) ==
    /\ ending = "none" /\ started
    /\ Cardinality(players \ {p}) > 1
    /\ players' = players \ {p}
    /\ \/ p = exe /\ ending' = "SURVWIN"
       \/ p # exe /\ Check(players \ {p}, dead, demonized, escaped)
    /\ UNCHANGED <<match, clock>>

CalledOff(p) ==
    /\ ending = "none"
    /\ Cardinality(players \ {p}) <= 1 \/ (~started /\ p = exe)
    /\ ToLobby

Forget(p) ==
    /\ dead' = dead \ {p} /\ demonized' = demonized \ {p}
    /\ escaped' = escaped \ {p} /\ revived' = revived \ {p}
    /\ cantRevive' = cantRevive \ {p}
    /\ deathSec' = [deathSec EXCEPT ![p] = 0]

Leave(p) ==
    /\ stage = "GAME" /\ p \in players
    /\ \/ (LeaveEnded(p) \/ LeaveWaiting(p) \/ LeaveStarted(p)) /\ Forget(p)
       \/ CalledOff(p)

(* game_player_tick for the corpses of D and the flags they get.           *)
DemonizeAll(D, S) ==
    /\ dead' = dead \ S
    /\ demonized' = demonized \cup S
    /\ cantRevive' = cantRevive \cup (D \ S)

(* Sudden death: all corpses, those with the shortest timers first.        *)
SuddenDeath ==
    /\ ~sudden /\ timeSec' <= SuddenSecs
    /\ sudden' = TRUE
    /\ LET D == players \cap dead IN
       \E S \in Chosen(D) :
          /\ \A p \in S, q \in D \ S : deathSec[p] <= deathSec[q]
          /\ DemonizeAll(D, S)

(* Mutant of LateCorpses: sudden death has dealt with them.                *)
LateCorpsesWait ==
    /\ sudden \/ timeSec' > SuddenSecs
    /\ UNCHANGED <<dead, demonized, cantRevive, sudden>>

(* The corpses of the last moment before it.                               *)
LateCorpses ==
    /\ sudden \/ timeSec' > SuddenSecs
    /\ LET D == {p \in players \cap dead : p \notin cantRevive /\ deathSec[p] > 0}
       IN IF timeSec' < SuddenSecs
          THEN \E S \in Chosen(D) : DemonizeAll(D, S)
          ELSE UNCHANGED <<dead, demonized, cantRevive>>
    /\ UNCHANGED sudden

(* The tick on which time_sec drops; the tick goes on after the time is    *)
(* over.                                                                   *)
Second ==
    /\ stage = "GAME" /\ started /\ ending = "none" /\ timeSec > 0
    /\ timeSec' = timeSec - 1
    /\ ending' = IF timeSec' = 0 THEN "TIMEOVER" ELSE ending
    /\ SuddenDeath \/ LateCorpses
    /\ UNCHANGED <<match, players, escaped, revived, deathSec>>

(* Mutant of DeathSecond: the timer runs out and nothing happens.          *)
DeathSecondIdle(p) ==
    /\ stage = "GAME" /\ started /\ ending = "none"
    /\ p \in (players \cap dead) \ cantRevive
    /\ deathSec[p] > 0 /\ timeSec >= SuddenSecs
    /\ deathSec' = [deathSec EXCEPT ![p] = @ - 1]
    /\ UNCHANGED <<match, players, ending, dead, demonized, escaped, revived,
                   cantRevive, clock>>

(* The tick on which a corpse's timer drops.                               *)
DeathSecond(p) ==
    /\ stage = "GAME" /\ started /\ ending = "none"
    /\ p \in (players \cap dead) \ cantRevive
    /\ deathSec[p] > 0 /\ timeSec >= SuddenSecs
    /\ deathSec' = [deathSec EXCEPT ![p] = @ - 1]
    /\ IF deathSec[p] = 1
       THEN \E S \in Chosen({p}) : DemonizeAll({p}, S)
       ELSE UNCHANGED <<dead, demonized, cantRevive>>
    /\ UNCHANGED <<match, players, ending, escaped, revived, clock>>

(* .forceescape and .forceexe: game_end.                                   *)
ForceEnd ==
    /\ Forced /\ stage = "GAME" /\ ending = "none"
    /\ ending' \in {"EXEWIN", "SURVWIN"}
    /\ UNCHANGED <<match, players, flags, clock>>

(* Five seconds later: the results, which show the flags.                  *)
EndTick ==
    /\ stage = "GAME" /\ started /\ ending # "none"
    /\ ToLobby

Next ==
    \/ \E P \in SUBSET Peer, x \in Peer : GameInit(P, x)
    \/ Start
    \/ \E p \in Peer : Escape(p) \/ Die(p) \/ Undie(p) \/ Revive(p) \/ Leave(p)
    \/ Second
    \/ \E p \in Peer : DeathSecond(p)
    \/ ForceEnd
    \/ EndTick

Spec == Init /\ [][Next]_vars

----------------------------------------------------------------------------
(* Type invariant.                                                         *)
TypeOK ==
    /\ stage \in {"LOBBY", "GAME"}
    /\ players \subseteq Peer
    /\ exe \in Peer \cup {NoPeer}
    /\ started \in BOOLEAN /\ sudden \in BOOLEAN
    /\ ending \in Endings
    /\ dead \subseteq players /\ demonized \subseteq players
    /\ escaped \subseteq players /\ revived \subseteq players
    /\ cantRevive \subseteq players
    /\ deathSec \in [Peer -> 0 .. DeathSecs]
    /\ timeSec \in 0 .. RoundSecs

(* Nobody has two fates and the exe has none: game_state_check, which adds *)
(* up the dead and demonized, the escaped and the exe, counts nobody twice.*)
OneFate ==
    /\ dead \cap demonized = {} /\ dead \cap escaped = {}
    /\ demonized \cap escaped = {}
    /\ exe \notin dead \cup demonized \cup escaped

(* A match that is not decided has its exe and a survivor who is neither   *)
(* dead, demonized nor escaped: whichever handler took the last one away   *)
(* has ended it.                                                           *)
SomebodyPlays ==
    stage = "GAME" /\ ending = "none" => exe \in players /\ Alive # {}

(* The corpses, and so the array game_player_tick sorts at sudden death,   *)
(* are SortSize at most.                                                   *)
SortFits == Cardinality(dead) <= SortSize

(* A corpse whose fate is open has a timer that runs: nobody lies there    *)
(* for the rest of the match.                                              *)
NoLimbo == \A p \in dead \ cantRevive : deathSec[p] > 0

(* In the last two minutes no corpse waits to be revived.                  *)
SuddenDecides ==
    started /\ ending = "none" /\ timeSec < SuddenSecs => dead \subseteq cantRevive

(* Whoever is demonized, half of the survivors at most are.                *)
DemonsAreHalf ==
    [][demonized' \ demonized # {} =>
        2 * Cardinality(demonized') <= Cardinality(Survivors)]_vars

(* Nobody gets a third life: a player who was revived and is dead again    *)
(* cannot be revived.                                                      *)
RevivedOnce == dead \cap revived \subseteq cantRevive

(* A corpse that can no longer be revived stays dead: the demonization is  *)
(* off, and it is lost for good.                                           *)
LostForGood ==
    [][stage' = "GAME" /\ ~Demonize =>
        \A p \in dead \cap cantRevive : p \in players' => p \in dead']_vars

(* The verdict, as Fates calls it.                                         *)
Verdict ==
    CASE ending = "none" -> "open"
      [] ending = "EXEWIN" -> "hunter"
      [] ending = "SURVWIN" -> "survivors"
      [] ending = "TIMEOVER" -> "nobody"

Promise == INSTANCE Fates WITH
    Player <- Peer,
    NoPlayer <- NoPeer,
    Arbiter <- Forced,
    hunter <- exe,
    up <- Alive,
    down <- dead,
    turned <- demonized,
    safe <- escaped,
    verdict <- Verdict

(* What the match shares with the lobby's module, Match: its players, its  *)
(* exe, its start and whether there is a verdict.                          *)
Shared == INSTANCE Contest WITH
    Player <- Peer,
    NoPlayer <- NoPeer,
    Interruptible <- FALSE,
    on <- stage = "GAME",
    cast <- players,
    decided <- ending # "none"

(* The match keeps the promise of Fates: the verdict falls with the last   *)
(* survivor's fate, is right, and stands.  And whatever ends it, is what   *)
(* Contest allows.                                                         *)
KeepsPromise == Promise!Spec /\ Shared!Spec
=============================================================================
