------------------------------- MODULE Match -------------------------------
(***************************************************************************)
(* One lobby of the server ("Server" in the code): its phases, the peers   *)
(* of its list and what every handler, callback and tick does to them.     *)
(* The worker thread runs an event or a 60 Hz tick under state_lock, so    *)
(* one action is one event or the tick on which a counter crosses a        *)
(* second.                                                                 *)
(*                                                                         *)
(* A peer is its id, which is an ENet slot: it is free again as soon as    *)
(* the connection is gone (Server.c:386).  A per-peer flag is the set of   *)
(* the peers that have it.  Maps, characters, chances, the draft's turns   *)
(* and the survivors' flags are abstracted.                                *)
(***************************************************************************)
EXTENDS Naturals, FiniteSets

CONSTANTS
    Id,          \* peer ids (ENet slots)
    NoPeer,      \* "no id": lobby.exe / exe_forced_id unset
    Cap,         \* capacity of Server.peers (7)
    VoteSecs,    \* seconds of a map vote (30)
    PickSecs,    \* seconds of the character select (30)
    SecMod,      \* values of the uint8_t countdown_sec (256)
    Ops,         \* TRUE: operators type chat commands in the lobby
    Console,     \* TRUE: the host uses the console's match commands
    Drafts,      \* TRUE: the players vote (or an operator asks) for map drafts
    Afkers       \* the peers that use .afk

NoCountdown == 6     \* LOBBY_NO_COUNTDOWN
Countdown == 3       \* LOBBY_COUNTDOWN

ASSUME ParamsAssumption ==
    /\ IsFiniteSet(Id)
    /\ NoPeer \notin Id
    /\ Cap \in Nat \ {0}
    /\ SecMod \in Nat /\ SecMod > NoCountdown
    /\ VoteSecs \in 4 .. (SecMod - 1)
    /\ PickSecs \in 1 .. (SecMod - 1)
    /\ Afkers \subseteq Id
    /\ Ops \in BOOLEAN /\ Console \in BOOLEAN /\ Drafts \in BOOLEAN

VARIABLES
    phase,    \* Server.state
    peers,    \* Server.peers
    inGame,   \* peers with in_game
    afk,      \* peers with afk
    ready,    \* peers with ready
    voted,    \* peers with voted (map vote)
    picked,   \* peers with exe_char or surv_char other than NONE
    kicked,   \* peers with disconnecting: ENet has yet to report them gone
    exe,      \* lobby.exe, then game.exe; NoPeer while no code reads them
    forced,   \* lobby.exe_forced_id while lobby.exe_forced, else NoPeer
    sec,      \* lobby.countdown_sec
    armed,    \* lobby.mapdraft
    drafted,  \* lobby.mapdraft_map >= 0
    lists,    \* game.entities and game.left are allocated
    left,     \* game.left.noitems
    loaded,   \* peers with plr.ready
    started,  \* game.started
    ended     \* game.end > 0

peerVars == <<peers, inGame, afk, ready, voted, picked, kicked>>
gameVars == <<lists, left, loaded, started, ended>>
vars == <<phase, peerVars, exe, forced, sec, armed, drafted, gameVars>>

Seconds == 0 .. (SecMod - 1)     \* uint8_t countdown_sec

Phases == {"LOBBY", "MAPVOTE", "MAPDRAFT", "CHARSELECT", "GAME", "RESULTS"}

----------------------------------------------------------------------------
(* Mutant of Players: counts the afk peers.                                *)
PlayersWithAfk(P) == P \cap inGame

(* Server_ingame over the list P: the peers that count as players.         *)
Players(P) == (P \cap inGame) \ afk

(* --countdown_sec                                                         *)
SecondLess == (sec + SecMod - 1) % SecMod

(* lobby_init: everybody on the list waits in the lobby again.             *)
LobbyInit(P) ==
    /\ phase' = "LOBBY"
    /\ inGame' = P
    /\ ready' = {}
    /\ voted' = {}
    /\ sec' = NoCountdown
    /\ exe' = NoPeer

(* The lists are freed; the rest of the Game struct is dead from here to   *)
(* the next game_init, so it is cleared here.                              *)
FreeGame ==
    /\ lists' = FALSE
    /\ left' = 0
    /\ loaded' = {}
    /\ started' = FALSE
    /\ ended' = FALSE

(* lobby_check_countdown for the list P with the ready peers R.            *)
CheckCountdown(P, R) ==
    sec' = IF P \ afk \subseteq R /\ Cardinality(P \ afk) > 1
           THEN Countdown ELSE NoCountdown

(* mapvote_check_state for the list P with the voters V: the voters are    *)
(* counted with the afk ones, the players without.                         *)
CheckVotes(P, V) ==
    sec' = IF /\ Cardinality(P \cap inGame \cap V) >= Cardinality(Players(P))
              /\ sec > 3
           THEN 4 ELSE sec

(* charselect_init || lobby_init.  The weighted draw may land on any       *)
(* candidate; it may also fail (a mod_tool peer is drawn, or there is no   *)
(* candidate), unless the pick is forced.                                  *)
CharselectInit ==
    /\ drafted' = FALSE
    /\ forced' = NoPeer
    /\ picked' = picked \ Players(peers)
    /\ \/ /\ exe' \in IF forced \in Players(peers) THEN {forced}
                      ELSE Players(peers)
          /\ phase' = "CHARSELECT"
          /\ sec' = PickSecs
          /\ UNCHANGED <<inGame, ready, voted>>
       \/ /\ forced \notin Players(peers)
          /\ LobbyInit(peers)

(* mapvote_init.                                                           *)
MapvoteInit ==
    /\ phase' = "MAPVOTE"
    /\ sec' = VoteSecs
    /\ UNCHANGED <<inGame, ready, voted, exe>>

(* mapdraft_finish: straight back to ST_LOBBY, without lobby_init.         *)
MapdraftFinish ==
    /\ phase' = "LOBBY"
    /\ drafted' = TRUE
    /\ CheckCountdown(peers, ready)
    /\ UNCHANGED <<inGame, ready, voted, exe>>

(* mapdraft_init || lobby_init: which branch runs depends on how many maps *)
(* are enabled in the configuration.                                       *)
MapdraftInit ==
    /\ armed' = FALSE
    /\ \/ Players(peers) = {} /\ LobbyInit(peers) /\ UNCHANGED drafted
       \/ /\ Players(peers) # {}
          /\ \/ MapvoteInit /\ UNCHANGED drafted
             \/ MapdraftFinish
             \/ /\ phase' = "MAPDRAFT"
                /\ sec' = 0
                /\ UNCHANGED <<inGame, ready, voted, exe, drafted>>

(* game_init || lobby_init, for the list P.                                *)
GameInit(P) ==
    IF Cardinality(Players(P)) > 1
    THEN /\ phase' = "GAME"
         /\ inGame' = Players(P)
         /\ ready' = ready \cap P
         /\ voted' = voted \cap P
         /\ lists' = TRUE
         /\ left' = 0
         /\ loaded' = {}
         /\ started' = FALSE
         /\ ended' = FALSE
         /\ UNCHANGED <<sec, exe>>
    ELSE LobbyInit(P) /\ UNCHANGED gameVars

(* The list is P and no phase code ran.                                    *)
StayWith(P) ==
    /\ inGame' = inGame \cap P
    /\ ready' = ready \cap P
    /\ voted' = voted \cap P
    /\ UNCHANGED <<phase, exe>>

(* charselect_check_state for the list P, the peers S having picked.       *)
CheckPicked(P, S) ==
    IF Players(P) \subseteq S
    THEN GameInit(P)
    ELSE StayWith(P) /\ UNCHANGED <<sec, gameVars>>

(* Mutant of CheckStart: one loaded player too many is needed.             *)
CheckStartLate(P, L) ==
    started' = (started \/ Cardinality(P \cap inGame \cap L)
                             > Cardinality(Players(P)))

(* game_checkstart for the list P, the peers L having loaded.              *)
CheckStart(P, L) ==
    started' = (started \/ Cardinality(P \cap inGame \cap L)
                             >= Cardinality(Players(P)))

----------------------------------------------------------------------------
Init ==
    /\ phase = "LOBBY"
    /\ peers = {} /\ inGame = {} /\ afk = {} /\ ready = {} /\ voted = {}
    /\ picked = {} /\ kicked = {}
    /\ exe = NoPeer /\ forced = NoPeer
    /\ sec = NoCountdown
    /\ armed = FALSE /\ drafted = FALSE
    /\ lists = FALSE /\ left = 0 /\ loaded = {}
    /\ started = FALSE /\ ended = FALSE

(* Mutant of Join: a newcomer plays whatever the phase.                    *)
JoinsAnyPhase(p) ==
    /\ p \notin peers
    /\ Cardinality(peers) < Cap
    /\ peers' = peers \cup {p}
    /\ picked' = picked \cup {p}
    /\ inGame' = inGame \cup {p}
    /\ UNCHANGED <<phase, afk, ready, voted, kicked, exe, forced, sec, armed,
                   drafted, gameVars>>

(* A connection passes peer_identity: the zeroed PeerData reads as the     *)
(* character Tails, i.e. as "picked".                                      *)
Join(p) ==
    /\ p \notin peers
    /\ Cardinality(peers) < Cap
    /\ peers' = peers \cup {p}
    /\ picked' = picked \cup {p}
    /\ IF phase = "LOBBY"
       THEN inGame' = inGame \cup {p} /\ CheckCountdown(peers', ready)
       ELSE UNCHANGED <<inGame, sec>>
    /\ UNCHANGED <<phase, afk, ready, voted, kicked, exe, forced, armed,
                   drafted, gameVars>>

(* Mutant of Unlist: a freed id stays forced.                              *)
UnlistKeepsForced(p) ==
    /\ p \in peers
    /\ peers' = peers \ {p}
    /\ afk' = afk \ {p}
    /\ picked' = picked \ {p}
    /\ kicked' = kicked \ {p}
    /\ UNCHANGED <<forced, armed, drafted>>

(* What server_state_left does for every phase.                            *)
Unlist(p) ==
    /\ p \in peers
    /\ peers' = peers \ {p}
    /\ afk' = afk \ {p}
    /\ picked' = picked \ {p}
    /\ kicked' = kicked \ {p}
    /\ forced' = IF forced = p THEN NoPeer ELSE forced
    /\ UNCHANGED <<armed, drafted>>

(* ENet reports p gone in ST_RESULTS, or p was not in_game: the state      *)
(* callbacks return early.                                                 *)
LeaveQuietly(p) ==
    /\ Unlist(p)
    /\ p \notin inGame \/ phase = "RESULTS"
    /\ StayWith(peers \ {p})
    /\ loaded' = loaded \ {p}
    /\ UNCHANGED <<sec, lists, left, started, ended>>

LeaveLobby(p) ==
    /\ phase = "LOBBY" /\ p \in inGame
    /\ Unlist(p)
    /\ StayWith(peers \ {p})
    /\ CheckCountdown(peers \ {p}, ready)
    /\ UNCHANGED gameVars

(* mapvote_state_left.                                                     *)
LeaveMapvote(p) ==
    /\ phase = "MAPVOTE" /\ p \in inGame
    /\ Unlist(p)
    /\ LET P == peers \ {p} IN
         IF Cardinality(Players(P)) <= 1
         THEN LobbyInit(P)
         ELSE StayWith(P) /\ CheckVotes(P, voted)
    /\ UNCHANGED gameVars

(* mapdraft_state_left; whether somebody of the draft's order can take the *)
(* turn over is left open.                                                 *)
LeaveMapdraft(p) ==
    /\ phase = "MAPDRAFT" /\ p \in inGame
    /\ Unlist(p)
    /\ LET P == peers \ {p} IN
         \/ LobbyInit(P)
         \/ Cardinality(Players(P)) > 1 /\ StayWith(P) /\ UNCHANGED sec
    /\ UNCHANGED gameVars

(* Mutant of LeaveCharselect: who left is not compared with the exe.       *)
LeaveCharselectAnyone(p) ==
    /\ phase = "CHARSELECT" /\ p \in inGame
    /\ Unlist(p)
    /\ IF Cardinality(Players(peers \ {p})) <= 1
       THEN LobbyInit(peers \ {p}) /\ UNCHANGED gameVars
       ELSE CheckPicked(peers \ {p}, picked)

(* charselect_state_left.                                                  *)
LeaveCharselect(p) ==
    /\ phase = "CHARSELECT" /\ p \in inGame
    /\ Unlist(p)
    /\ LET P == peers \ {p} IN
         IF Cardinality(Players(P)) <= 1 \/ p = exe
         THEN LobbyInit(P) /\ UNCHANGED gameVars
         ELSE CheckPicked(P, picked)

(* game_state_left.                                                        *)
LeaveGame(p) ==
    /\ phase = "GAME" /\ p \in inGame
    /\ Unlist(p)
    /\ LET P == peers \ {p} IN
       \/ /\ ended
          /\ StayWith(P)
          /\ loaded' = loaded \ {p}
          /\ UNCHANGED <<sec, lists, left, started, ended>>
       \/ /\ ~ended
          /\ Cardinality(Players(P)) <= 1 \/ (~started /\ p = exe)
          /\ FreeGame
          /\ LobbyInit(P)
       \/ /\ ~ended /\ ~started
          /\ Cardinality(Players(P)) > 1 /\ p # exe
          /\ StayWith(P)
          /\ loaded' = loaded \ {p}
          /\ CheckStart(P, loaded)
          /\ UNCHANGED <<sec, lists, left, ended>>
       \/ /\ ~ended /\ started
          /\ Cardinality(Players(P)) > 1
          /\ StayWith(P)
          /\ loaded' = loaded \ {p}
          /\ left' = left + 1
          /\ ended' \in IF p = exe THEN {TRUE} ELSE BOOLEAN
          /\ UNCHANGED <<sec, lists, started>>

Leave(p) ==
    \/ LeaveQuietly(p)
    \/ LeaveLobby(p)
    \/ LeaveMapvote(p)
    \/ LeaveMapdraft(p)
    \/ LeaveCharselect(p)
    \/ LeaveGame(p)

----------------------------------------------------------------------------
(* CLIENT_LOBBY_READY_STATE: the draft keeps the icons in sync without     *)
(* running the countdown.                                                  *)
SetReady(p) ==
    /\ p \in peers
    /\ phase \in {"LOBBY", "MAPDRAFT"}
    /\ ready' \in {ready \cup {p}, ready \ {p}}
    /\ IF phase = "LOBBY" THEN CheckCountdown(peers, ready')
                          ELSE UNCHANGED sec
    /\ UNCHANGED <<phase, peers, inGame, afk, voted, picked, kicked, exe,
                   forced, armed, drafted, gameVars>>

(* .afk                                                                    *)
ToggleAfk(p) ==
    /\ p \in peers \cap Afkers
    /\ ~(phase \in {"GAME", "RESULTS"} /\ p \in inGame)
    /\ ~(phase = "CHARSELECT" /\ p \notin afk)
    /\ IF p \in afk
       THEN afk' = afk \ {p} /\ UNCHANGED ready
       ELSE /\ afk' = afk \cup {p}
            /\ ready' = IF phase = "LOBBY" THEN ready \ {p} ELSE ready
    /\ UNCHANGED <<phase, peers, inGame, voted, picked, kicked, exe, forced,
                   sec, armed, drafted, gameVars>>

(* The idle kick of lobby_state_tick.                                      *)
IdleKick(p) ==
    /\ phase = "LOBBY"
    /\ p \in peers \ (afk \cup ready)
    /\ kicked' = kicked \cup {p}
    /\ UNCHANGED <<phase, peers, inGame, afk, ready, voted, picked, exe,
                   forced, sec, armed, drafted, gameVars>>

(* The countdown of lobby_state_tick.                                      *)
LobbyTick ==
    /\ phase = "LOBBY"
    /\ sec <= Countdown
    /\ \/ /\ sec # 1
          /\ sec' = SecondLess
          /\ UNCHANGED <<phase, inGame, ready, voted, picked, exe, forced,
                         armed, drafted>>
       \/ /\ sec = 1 /\ armed
          /\ MapdraftInit
          /\ UNCHANGED <<picked, forced>>
       \/ /\ sec = 1 /\ ~armed /\ drafted
          /\ CharselectInit
          /\ UNCHANGED armed
       \/ /\ sec = 1 /\ ~armed /\ ~drafted
          /\ MapvoteInit
          /\ UNCHANGED <<picked, forced, armed, drafted>>
    /\ UNCHANGED <<peers, afk, kicked, gameVars>>

(* A passed practice vote two seconds later, or an operator's .map.        *)
StartMap ==
    /\ phase = "LOBBY"
    /\ peers # {}
    /\ CharselectInit
    /\ UNCHANGED <<peers, afk, kicked, armed, gameVars>>

(* A passed draft vote, or an operator's .mapdraft.                        *)
ArmDraft ==
    /\ Drafts
    /\ phase = "LOBBY" /\ peers # {}
    /\ ~armed
    /\ armed' = TRUE
    /\ UNCHANGED <<phase, peerVars, exe, forced, sec, drafted, gameVars>>

----------------------------------------------------------------------------
(* CLIENT_VOTE_REQUEST                                                     *)
VoteMap(p) ==
    /\ phase = "MAPVOTE"
    /\ p \in Players(peers) \ voted
    /\ voted' = voted \cup {p}
    /\ CheckVotes(peers, voted')
    /\ UNCHANGED <<phase, peers, inGame, afk, ready, picked, kicked, exe,
                   forced, armed, drafted, gameVars>>

MapvoteTick ==
    /\ phase = "MAPVOTE"
    /\ \/ /\ sec # 1
          /\ sec' = SecondLess
          /\ UNCHANGED <<phase, inGame, ready, voted, picked, exe, forced,
                         drafted>>
       \/ sec = 1 /\ CharselectInit
    /\ UNCHANGED <<peers, afk, kicked, armed, gameVars>>

(* The last ban of a draft, by a player or by the pick timer.              *)
DraftOver ==
    /\ phase = "MAPDRAFT"
    /\ \/ MapdraftFinish
       \/ LobbyInit(peers) /\ UNCHANGED drafted
    /\ UNCHANGED <<peers, afk, picked, kicked, forced, armed, gameVars>>

----------------------------------------------------------------------------
(* CLIENT_REQUEST_EXECHARACTER and CLIENT_REQUEST_CHARACTER.  A survivor   *)
(* who asks for a taken character still has the state checked, and so has  *)
(* one whose exe_char of an earlier match counts as a pick.  The exe's     *)
(* character is stored before it is found out of range; then he is         *)
(* disconnected and the state is not checked.                              *)
Pick(p) ==
    /\ phase = "CHARSELECT"
    /\ p \in Players(peers)
    /\ picked' \in IF p = exe THEN {picked \cup {p}}
                              ELSE {picked \cup {p}, picked}
    /\ \/ CheckPicked(peers, picked') /\ UNCHANGED kicked
       \/ /\ p = exe
          /\ kicked' = kicked \cup {p}
          /\ StayWith(peers)
          /\ UNCHANGED <<sec, gameVars>>
    /\ UNCHANGED <<peers, afk, forced, armed, drafted>>

(* Mutant of CharselectTick: the counter has no width.                     *)
CharselectTickSigned ==
    /\ phase = "CHARSELECT"
    /\ sec' = sec - 1
    /\ UNCHANGED <<phase, peerVars, exe, forced, armed, drafted, gameVars>>

CharselectTick ==
    /\ phase = "CHARSELECT"
    /\ sec' = SecondLess
    /\ kicked' = IF sec' = 0 THEN kicked \cup (Players(peers) \ picked)
                             ELSE kicked
    /\ UNCHANGED <<phase, peers, inGame, afk, ready, voted, picked, exe,
                   forced, armed, drafted, gameVars>>

----------------------------------------------------------------------------
(* A packet from p during the match.  Before the start every packet marks  *)
(* its sender loaded and checks the start; at any time one may decide the  *)
(* match (game_end after a death, an escape or an operator's command).     *)
GamePacket(p) ==
    /\ phase = "GAME"
    /\ p \in peers
    /\ ended' \in {ended, TRUE}
    /\ IF started
       THEN UNCHANGED <<loaded, started>>
       ELSE /\ loaded' = loaded \cup ({p} \cap inGame)
            /\ CheckStart(peers, loaded')
    /\ UNCHANGED <<phase, peerVars, exe, forced, sec, armed, drafted, lists,
                   left>>

(* Mutant of StartTimeout: only the exe has to load.                       *)
StartTimeoutExeOnly ==
    /\ phase = "GAME" /\ ~started
    /\ exe \in (peers \cap inGame) \ loaded
    /\ kicked' = kicked \cup {exe}
    /\ UNCHANGED <<phase, peers, inGame, afk, ready, voted, picked, exe,
                   forced, sec, armed, drafted, gameVars>>

(* The 10 seconds to load are over: one peer that has not loaded is told   *)
(* to go, on every tick.                                                   *)
StartTimeout ==
    /\ phase = "GAME" /\ ~started
    /\ \E p \in (peers \cap inGame) \ loaded : kicked' = kicked \cup {p}
    /\ UNCHANGED <<phase, peers, inGame, afk, ready, voted, picked, exe,
                   forced, sec, armed, drafted, gameVars>>

(* time_sec reaches zero.                                                  *)
TimeOver ==
    /\ phase = "GAME" /\ started /\ ~ended
    /\ ended' = TRUE
    /\ UNCHANGED <<phase, peerVars, exe, forced, sec, armed, drafted, lists,
                   left, loaded, started>>

(* Mutant of EndTick: the results screen is skipped.                       *)
EndTickSkipsResults ==
    /\ phase = "GAME" /\ started /\ ended
    /\ FreeGame
    /\ LobbyInit(peers)
    /\ UNCHANGED <<peers, afk, picked, kicked, forced, armed, drafted>>

(* Five seconds after game_end: game_uninit(server, true).                 *)
EndTick ==
    /\ phase = "GAME" /\ started /\ ended
    /\ phase' = "RESULTS"
    /\ UNCHANGED <<peerVars, exe, forced, sec, armed, drafted, gameVars>>

(* Mutant of ResultsTick: the lists stay.                                  *)
ResultsTickLeaks ==
    /\ phase = "RESULTS"
    /\ LobbyInit(peers)
    /\ UNCHANGED <<peers, afk, picked, kicked, forced, armed, drafted,
                   gameVars>>

(* results_uninit                                                          *)
ResultsTick ==
    /\ phase = "RESULTS"
    /\ FreeGame
    /\ LobbyInit(peers)
    /\ UNCHANGED <<peers, afk, picked, kicked, forced, armed, drafted>>

----------------------------------------------------------------------------
(* Chat commands are read in a match and on the results screen only from   *)
(* peers that are not in_game.                                             *)
OpMayType == Ops /\ (IF phase \in {"GAME", "RESULTS"} THEN peers \ inGame # {}
                                                       ELSE peers # {})

(* .return                                                                 *)
Return ==
    /\ OpMayType \/ Console
    /\ phase # "LOBBY"
    /\ phase' = "RESULTS"
    /\ UNCHANGED <<peerVars, exe, forced, sec, armed, drafted, gameVars>>

(* The picker of .exe, or the console's .exe.                              *)
ForceExe(p) ==
    /\ \/ OpMayType /\ phase # "CHARSELECT"
       \/ Console /\ p \notin afk
    /\ p \in peers \cap inGame
    /\ forced' = p
    /\ UNCHANGED <<phase, peerVars, exe, sec, armed, drafted, gameVars>>

(* .exe none                                                               *)
ForceExeClear ==
    /\ (OpMayType /\ phase # "CHARSELECT") \/ Console
    /\ forced # NoPeer
    /\ forced' = NoPeer
    /\ UNCHANGED <<phase, peerVars, exe, sec, armed, drafted, gameVars>>

(* The console's .map, in any phase.                                       *)
ConsoleMap ==
    /\ Console
    /\ CharselectInit
    /\ UNCHANGED <<peers, afk, kicked, armed, gameVars>>

(* The console's .forceescape and .forceexe.                               *)
ConsoleForceEnd ==
    /\ Console
    /\ phase = "GAME"
    /\ ended' = TRUE
    /\ UNCHANGED <<phase, peerVars, exe, forced, sec, armed, drafted, lists,
                   left, loaded, started>>

----------------------------------------------------------------------------
PeerEvent(p) ==
    \/ Join(p)
    \/ Leave(p)
    \/ SetReady(p)
    \/ ToggleAfk(p)
    \/ VoteMap(p)
    \/ Pick(p)
    \/ GamePacket(p)

Tick ==
    \/ \E p \in Id : IdleKick(p)
    \/ LobbyTick
    \/ MapvoteTick
    \/ CharselectTick
    \/ StartTimeout
    \/ TimeOver
    \/ EndTick
    \/ ResultsTick

Command ==
    \/ StartMap
    \/ ArmDraft
    \/ Return
    \/ \E p \in Id : ForceExe(p)
    \/ ForceExeClear
    \/ ConsoleMap
    \/ ConsoleForceEnd

Next ==
    \/ \E p \in Id : PeerEvent(p)
    \/ Tick
    \/ DraftOver
    \/ Command

Spec == Init /\ [][Next]_vars

(* The worker keeps ticking, ENet reports the peers it was told to drop,   *)
(* the draft's pick timer ends the draft, and during a match a client that *)
(* has loaded, or watches, keeps sending packets.  Nothing else is assumed *)
(* of players: they need not load, vote, pick or ready up.                 *)
Fairness ==
    /\ WF_vars(LobbyTick)
    /\ WF_vars(MapvoteTick)
    /\ WF_vars(DraftOver)
    /\ WF_vars(CharselectTick)
    /\ WF_vars(StartTimeout)
    /\ WF_vars(TimeOver)
    /\ WF_vars(EndTick)
    /\ WF_vars(ResultsTick)
    /\ WF_vars(\E p \in loaded \cup (peers \ inGame) :
                  GamePacket(p) /\ UNCHANGED ended)
    /\ \A p \in Id : WF_vars(p \in kicked /\ Leave(p))

FairSpec == Spec /\ Fairness

----------------------------------------------------------------------------
(* Type invariant.                                                         *)
TypeOK ==
    /\ phase \in Phases
    /\ peers \subseteq Id
    /\ inGame \subseteq peers /\ afk \subseteq peers
    /\ ready \subseteq peers /\ voted \subseteq peers
    /\ picked \subseteq peers /\ kicked \subseteq peers
    /\ exe \in Id \cup {NoPeer} /\ forced \in Id \cup {NoPeer}
    /\ sec \in Seconds
    /\ armed \in BOOLEAN /\ drafted \in BOOLEAN
    /\ lists \in BOOLEAN /\ left \in Nat
    /\ loaded \subseteq Id
    /\ started \in BOOLEAN /\ ended \in BOOLEAN

(* While characters are chosen, and in a match until it is decided, the    *)
(* exe is on the server and takes part: whoever leaves, is kicked or goes  *)
(* afk, no phase goes on without its exe.                                  *)
ExePresent ==
    phase = "CHARSELECT" \/ (phase = "GAME" /\ ~ended) => exe \in Players(peers)

(* A match that is not decided has at least two players on the server.     *)
EnoughPlayers ==
    phase = "GAME" /\ ~ended => Cardinality(Players(peers)) > 1

(* Nobody who is afk takes part in a match.                                *)
AfkNeverPlays == phase = "GAME" => inGame \cap afk = {}

(* The entity and leaver lists exist throughout a match and are freed      *)
(* whichever way the lobby comes back.                                     *)
ListsLive ==
    /\ phase = "GAME" => lists
    /\ lists => phase \in {"GAME", "RESULTS"}

(* The results screen sorts the players still there and the copies of the  *)
(* players who left into an array of Cap entries (Results.c:312).          *)
ResultsFit ==
    lists => Cardinality(peers \cap inGame) + left <= Cap

(* As long as the match has neither started nor been decided, some player  *)
(* has still to load: the start is never lost, although the last peer      *)
(* missing may load or leave.                                              *)
NoLostStart ==
    phase = "GAME" /\ ~started /\ ~ended => ~(peers \cap inGame \subseteq loaded)

(* The character select never waits for nobody: whoever picks, leaves or   *)
(* comes back from being afk, some player has still to pick, or the select *)
(* is over in the same step, or the exe, whose choice was refused, is      *)
(* about to be gone, which ends it.                                        *)
NoLostSelect ==
    phase = "CHARSELECT" => ~(Players(peers) \subseteq picked) \/ exe \in kicked

(* The two phases that wait for their players do not miss the last one:    *)
(* picks, loads and leaves in any order never leave a phase waiting for    *)
(* somebody who has already done what it waits for, or is gone.            *)
SomebodyAwaited == NoLostSelect /\ NoLostStart

(* A match starts only when all its players have loaded.                   *)
StartedLoaded ==
    phase = "GAME" /\ started => peers \cap inGame \subseteq loaded

(* A pending forced exe is always a peer that is on the server, so it is   *)
(* never inherited by a newcomer who gets a freed id.                      *)
ForcedPresent == forced # NoPeer => forced \in peers

(* A step that makes somebody a player leaves the server in the lobby:     *)
(* nobody enters a map vote, a draft, a character select or a match that   *)
(* is under way.                                                           *)
RosterGrowsInLobby ==
    [][~(inGame' \subseteq inGame) => phase' = "LOBBY"]_vars

(* A draft that ends with all its players ready, two at least, starts the  *)
(* countdown at once.                                                      *)
DraftHandsOver ==
    [][/\ phase = "MAPDRAFT" /\ phase' = "LOBBY" /\ drafted'
       /\ Players(peers) \subseteq ready /\ Cardinality(Players(peers)) > 1
       => sec' = Countdown]_vars

(* Two regular players or more who are all ready do not wait: the          *)
(* countdown runs.                                                         *)
ReadyMeansCountdown ==
    /\ phase = "LOBBY"
    /\ inGame = peers
    /\ peers \ afk \subseteq ready /\ Cardinality(peers \ afk) > 1
    => sec <= Countdown

(* Every phase but the lobby ends by itself, whoever has voted, picked or  *)
(* loaded; a match does as long as somebody is connected, even one that    *)
(* never starts.  (The lobby may stay for ever: players need not be ready, *)
(* and a ready packet restarts the countdown.)                             *)
PhasesEnd ==
    \A ph \in Phases \ {"LOBBY"} :
        phase = ph ~> phase # ph \/ (ph = "GAME" /\ peers = {})

----------------------------------------------------------------------------
(* The stage of the promise the lobby makes to its players.                *)
Stage ==
    CASE phase = "CHARSELECT" -> "selecting"
      [] phase = "GAME" /\ ~ended -> "playing"
      [] phase = "GAME" /\ ended -> "decided"
      [] phase = "RESULTS" -> "results"
      [] OTHER -> "gathering"

Promise == INSTANCE Lifecycle WITH
    Player <- Id,
    NoPlayer <- NoPeer,
    Interruptible <- Ops \/ Console,
    stage <- Stage,
    cast <- Players(peers),
    exe <- IF Stage \in {"selecting", "playing"} THEN exe ELSE NoPeer

(* What the lobby shares with the match's own module, Round: the players,  *)
(* the exe, the start and whether there is a verdict, while a match is on. *)
InGame == phase = "GAME"

Shared == INSTANCE Contest WITH
    Player <- Id,
    NoPlayer <- NoPeer,
    Interruptible <- Ops \/ Console,
    on <- InGame,
    cast <- IF InGame THEN Players(peers) ELSE {},
    exe <- IF InGame THEN exe ELSE NoPeer,
    started <- InGame /\ started,
    decided <- InGame /\ ended

(* The lobby implements the promise it makes to its players, and inside a  *)
(* match what it shares with Round.                                        *)
KeepsPromise == Promise!Spec /\ Shared!Spec
=============================================================================
