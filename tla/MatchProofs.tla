---------------------------- MODULE MatchProofs ----------------------------
(***************************************************************************)
(* Proofs about Match, for every number of peers, every capacity and every *)
(* setting of the commands.                                                *)
(***************************************************************************)
EXTENDS Match, FiniteSetTheorems, TLAPS

(* The uint8_t countdown holds every value the code gives it, and the      *)
(* arithmetic of the ticks stays within the type.                          *)
LEMMA SecValues ==
    /\ 0 \in Seconds /\ 3 \in Seconds /\ 4 \in Seconds /\ 6 \in Seconds
    /\ VoteSecs \in Seconds /\ PickSecs \in Seconds
    /\ \A s \in Seconds : (s + SecMod - 1) % SecMod \in Seconds
  BY ParamsAssumption DEF Seconds, NoCountdown

(* The two halves of the type invariant: the flags, and the rest.          *)
TypeFlags ==
    /\ armed \in BOOLEAN /\ drafted \in BOOLEAN
    /\ lists \in BOOLEAN /\ started \in BOOLEAN /\ ended \in BOOLEAN

TypeData ==
    /\ phase \in Phases
    /\ peers \subseteq Id
    /\ inGame \subseteq peers /\ afk \subseteq peers
    /\ ready \subseteq peers /\ voted \subseteq peers
    /\ picked \subseteq peers /\ kicked \subseteq peers
    /\ exe \in Id \cup {NoPeer} /\ forced \in Id \cup {NoPeer}
    /\ sec \in Seconds /\ left \in Nat /\ loaded \subseteq Id

LEMMA TypeHalves == TypeOK <=> TypeFlags /\ TypeData
  BY DEF TypeOK, TypeFlags, TypeData

LEMMA TypeInit == Init => TypeOK
<1> SUFFICES ASSUME Init PROVE TypeFlags /\ TypeData
  BY TypeHalves
<1>1. TypeFlags
  BY DEF Init, TypeFlags
<1>2. TypeData
  BY SecValues DEF Init, TypeData, Phases, NoCountdown
<1>3. QED
  BY <1>1, <1>2

LEMMA FlagsNext == TypeFlags /\ [Next]_vars => TypeFlags'
<1> SUFFICES ASSUME TypeFlags, [Next]_vars PROVE TypeFlags'
  OBVIOUS
<1> USE DEF TypeFlags, LobbyInit, FreeGame, StayWith, gameVars
<1>1. ASSUME NEW p \in Id, Join(p) PROVE TypeFlags'
  BY <1>1 DEF Join
<1>2. ASSUME NEW p \in Id, LeaveQuietly(p) PROVE TypeFlags'
  BY <1>2 DEF LeaveQuietly, Unlist
<1>3. ASSUME NEW p \in Id, LeaveLobby(p) PROVE TypeFlags'
  BY <1>3 DEF LeaveLobby, Unlist
<1>4. ASSUME NEW p \in Id, LeaveMapvote(p) PROVE TypeFlags'
  BY <1>4 DEF LeaveMapvote, Unlist
<1>5. ASSUME NEW p \in Id, LeaveMapdraft(p) PROVE TypeFlags'
  BY <1>5 DEF LeaveMapdraft, Unlist
<1>6. ASSUME NEW p \in Id, LeaveCharselect(p) PROVE TypeFlags'
  BY <1>6 DEF LeaveCharselect, Unlist, CheckPicked, GameInit
<1>7. ASSUME NEW p \in Id, LeaveGame(p) PROVE TypeFlags'
  BY <1>7 DEF LeaveGame, Unlist, CheckStart
<1>8. ASSUME NEW p \in Id, SetReady(p) PROVE TypeFlags'
  BY <1>8 DEF SetReady
<1>9. ASSUME NEW p \in Id, ToggleAfk(p) PROVE TypeFlags'
  BY <1>9 DEF ToggleAfk
<1>10. ASSUME NEW p \in Id, VoteMap(p) PROVE TypeFlags'
  BY <1>10 DEF VoteMap
<1>11. ASSUME NEW p \in Id, Pick(p) PROVE TypeFlags'
  BY <1>11 DEF Pick, CheckPicked, GameInit
<1>12. ASSUME NEW p \in Id, GamePacket(p) PROVE TypeFlags'
  BY <1>12 DEF GamePacket, CheckStart
<1>13. ASSUME NEW p \in Id, IdleKick(p) PROVE TypeFlags'
  BY <1>13 DEF IdleKick
<1>14. ASSUME NEW p \in Id, ForceExe(p) PROVE TypeFlags'
  BY <1>14 DEF ForceExe
<1>15. CASE LobbyTick
  BY <1>15 DEF LobbyTick, MapdraftInit, MapdraftFinish, MapvoteInit,
         CharselectInit
<1>16. CASE MapvoteTick
  BY <1>16 DEF MapvoteTick, CharselectInit
<1>17. CASE CharselectTick
  BY <1>17 DEF CharselectTick
<1>18. CASE StartTimeout
  BY <1>18 DEF StartTimeout
<1>19. CASE TimeOver
  BY <1>19 DEF TimeOver
<1>20. CASE EndTick
  BY <1>20 DEF EndTick
<1>21. CASE ResultsTick
  BY <1>21 DEF ResultsTick
<1>22. CASE DraftOver
  BY <1>22 DEF DraftOver, MapdraftFinish
<1>23. CASE StartMap
  BY <1>23 DEF StartMap, CharselectInit
<1>24. CASE ConsoleMap
  BY <1>24 DEF ConsoleMap, CharselectInit
<1>25. CASE ArmDraft
  BY <1>25 DEF ArmDraft
<1>26. CASE Return
  BY <1>26 DEF Return
<1>27. CASE ForceExeClear
  BY <1>27 DEF ForceExeClear
<1>28. CASE ConsoleForceEnd
  BY <1>28 DEF ConsoleForceEnd
<1>29. CASE UNCHANGED vars
  BY <1>29 DEF vars
<1>30. QED
  BY <1>1, <1>2, <1>3, <1>4, <1>5, <1>6, <1>7, <1>8, <1>9, <1>10, <1>11,
     <1>12, <1>13, <1>14, <1>15, <1>16, <1>17, <1>18, <1>19, <1>20, <1>21,
     <1>22, <1>23, <1>24, <1>25, <1>26, <1>27, <1>28, <1>29 DEF Next,
     PeerEvent, Leave, Tick, Command

LEMMA DataNext == TypeData /\ [Next]_vars => TypeData'
<1> SUFFICES ASSUME TypeData, [Next]_vars PROVE TypeData'
  OBVIOUS
<1> USE SecValues DEF TypeData, Phases, SecondLess, NoCountdown, Countdown, Players,
        LobbyInit, FreeGame, CheckCountdown, CheckVotes, StayWith, peerVars,
        gameVars
<1>1. ASSUME NEW p \in Id, Join(p) PROVE TypeData'
  BY <1>1 DEF Join
<1>2. ASSUME NEW p \in Id, LeaveQuietly(p) PROVE TypeData'
  BY <1>2 DEF LeaveQuietly, Unlist
<1>3. ASSUME NEW p \in Id, LeaveLobby(p) PROVE TypeData'
  BY <1>3 DEF LeaveLobby, Unlist
<1>4. ASSUME NEW p \in Id, LeaveMapvote(p) PROVE TypeData'
  BY <1>4 DEF LeaveMapvote, Unlist
<1>5. ASSUME NEW p \in Id, LeaveMapdraft(p) PROVE TypeData'
  BY <1>5 DEF LeaveMapdraft, Unlist
<1>6. ASSUME NEW p \in Id, LeaveCharselect(p) PROVE TypeData'
  BY <1>6 DEF LeaveCharselect, Unlist, CheckPicked, GameInit
<1>7. ASSUME NEW p \in Id, LeaveGame(p) PROVE TypeData'
  <2>1. phase' \in Phases /\ sec' \in Seconds
    BY <1>7 DEF LeaveGame, Unlist
  <2>2. left' \in Nat /\ loaded' \subseteq Id
    <3>1. left' \in {left, left + 1, 0}
      BY <1>7 DEF LeaveGame
    <3>2. loaded' \subseteq loaded
      BY <1>7 DEF LeaveGame
    <3>3. QED
      BY <3>1, <3>2
  <2>3. exe' \in Id \cup {NoPeer} /\ forced' \in Id \cup {NoPeer}
    BY <1>7 DEF LeaveGame, Unlist
  <2>4. inGame' \subseteq peers' /\ ready' \subseteq peers'
         /\ voted' \subseteq peers'
    BY <1>7 DEF LeaveGame, Unlist
  <2>5. peers' \subseteq Id /\ afk' \subseteq peers' /\ picked' \subseteq peers'
         /\ kicked' \subseteq peers'
    BY <1>7 DEF LeaveGame, Unlist
  <2>6. QED
    BY <2>1, <2>2, <2>3, <2>4, <2>5
<1>8. ASSUME NEW p \in Id, SetReady(p) PROVE TypeData'
  BY <1>8 DEF SetReady
<1>9. ASSUME NEW p \in Id, ToggleAfk(p) PROVE TypeData'
  BY <1>9 DEF ToggleAfk
<1>10. ASSUME NEW p \in Id, VoteMap(p) PROVE TypeData'
  BY <1>10 DEF VoteMap
<1>11. ASSUME NEW p \in Id, Pick(p) PROVE TypeData'
  BY <1>11 DEF Pick, CheckPicked, GameInit
<1>12. ASSUME NEW p \in Id, GamePacket(p) PROVE TypeData'
  BY <1>12 DEF GamePacket
<1>13. ASSUME NEW p \in Id, IdleKick(p) PROVE TypeData'
  BY <1>13 DEF IdleKick
<1>14. ASSUME NEW p \in Id, ForceExe(p) PROVE TypeData'
  BY <1>14 DEF ForceExe
<1>15. CASE LobbyTick
  BY <1>15 DEF LobbyTick, MapdraftInit, MapdraftFinish, MapvoteInit,
         CharselectInit
<1>16. CASE MapvoteTick
  BY <1>16 DEF MapvoteTick, CharselectInit
<1>17. CASE CharselectTick
  BY <1>17 DEF CharselectTick
<1>18. CASE StartTimeout
  BY <1>18 DEF StartTimeout
<1>19. CASE TimeOver
  BY <1>19 DEF TimeOver
<1>20. CASE EndTick
  BY <1>20 DEF EndTick
<1>21. CASE ResultsTick
  BY <1>21 DEF ResultsTick
<1>22. CASE DraftOver
  BY <1>22 DEF DraftOver, MapdraftFinish
<1>23. CASE StartMap
  BY <1>23 DEF StartMap, CharselectInit
<1>24. CASE ConsoleMap
  BY <1>24 DEF ConsoleMap, CharselectInit
<1>25. CASE ArmDraft
  BY <1>25 DEF ArmDraft
<1>26. CASE Return
  BY <1>26 DEF Return
<1>27. CASE ForceExeClear
  BY <1>27 DEF ForceExeClear
<1>28. CASE ConsoleForceEnd
  BY <1>28 DEF ConsoleForceEnd
<1>29. CASE UNCHANGED vars
  BY <1>29 DEF vars
<1>30. QED
  BY <1>1, <1>2, <1>3, <1>4, <1>5, <1>6, <1>7, <1>8, <1>9, <1>10, <1>11,
     <1>12, <1>13, <1>14, <1>15, <1>16, <1>17, <1>18, <1>19, <1>20, <1>21,
     <1>22, <1>23, <1>24, <1>25, <1>26, <1>27, <1>28, <1>29 DEF Next,
     PeerEvent, Leave, Tick, Command

(* Type correctness of the lobby.                                          *)
THEOREM TypeCorrect == Spec => []TypeOK
<1>1. TypeOK /\ [Next]_vars => TypeOK'
  <2> SUFFICES ASSUME TypeOK, [Next]_vars PROVE (TypeFlags /\ TypeData)'
    BY DEF TypeOK, TypeFlags, TypeData
  <2>1. QED
    BY TypeHalves, FlagsNext, DataNext
<1>2. QED
  BY TypeInit, <1>1, PTL DEF Spec

----------------------------------------------------------------------------
(* What is left of the match when a player leaves it: it is over, or it    *)
(* goes on with two players at least, the exe among them if undecided.     *)
LEMMA LeaveGameShape ==
    ASSUME TypeOK, NEW p \in Id, LeaveGame(p)
    PROVE  \/ phase' = "LOBBY"
           \/ ended'
           \/ /\ ~ended /\ p # exe /\ exe' = exe
              /\ phase' = phase
              /\ Cardinality(Players(peers \ {p})) > 1
              /\ Players(peers)' = Players(peers \ {p})
<1> USE DEF TypeOK, Players, StayWith, Unlist
<1>1. CASE ended
  BY <1>1 DEF LeaveGame, LobbyInit
<1>2. CASE /\ ~ended
           /\ Cardinality(Players(peers \ {p})) <= 1 \/ (~started /\ p = exe)
  <2>1. CASE phase' = "LOBBY"
    BY <2>1
  <2>2. CASE phase' # "LOBBY"
    <3>1. peers \ {p} \subseteq Id /\ IsFiniteSet(Players(peers \ {p}))
      BY ParamsAssumption, FS_Subset
    <3>2. Cardinality(Players(peers \ {p})) \in Nat
      BY <3>1, FS_CardinalityType
    <3>3. p = exe /\ started => ended'
      BY <1>2, <2>2, <3>2 DEF LeaveGame, LobbyInit
    <3>4. QED
      BY <1>2, <2>2, <3>2, <3>3 DEF LeaveGame, LobbyInit
  <2>3. QED
    BY <2>1, <2>2
<1>3. CASE /\ ~ended /\ Cardinality(Players(peers \ {p})) > 1
           /\ ~(~started /\ p = exe)
  <2>1. exe' = exe \/ phase' = "LOBBY"
    BY <1>3 DEF LeaveGame, LobbyInit
  <2>2. phase' = "LOBBY" \/ (phase' = phase /\ StayWith(peers \ {p}))
    BY <1>3 DEF LeaveGame, LobbyInit
  <2>3. p = exe => ended' \/ phase' = "LOBBY"
    BY <1>3 DEF LeaveGame, LobbyInit
  <2>4. phase' = phase /\ StayWith(peers \ {p})
        => Players(peers)' = Players(peers \ {p})
    BY <1>3 DEF LeaveGame
  <2>5. QED
    BY <1>3, <2>1, <2>2, <2>3, <2>4
<1>4. QED
  <2>1. IsFiniteSet(Players(peers \ {p}))
    BY ParamsAssumption, FS_Subset
  <2>2. Cardinality(Players(peers \ {p})) \in Nat
    BY <2>1, FS_CardinalityType
  <2>3. QED
    BY <1>1, <1>2, <1>3, <2>2

(* Who is afk is not a player when the match starts, and may not go afk in *)
(* it.                                                                     *)
LEMMA AfkNext == TypeOK /\ AfkNeverPlays /\ [Next]_vars => AfkNeverPlays'
<1> SUFFICES ASSUME TypeOK, AfkNeverPlays, [Next]_vars
             PROVE  AfkNeverPlays'
  OBVIOUS
<1> USE DEF AfkNeverPlays, TypeOK, Players, LobbyInit, StayWith, peerVars,
   gameVars
<1>1. ASSUME NEW p \in Id, Join(p) \/ SetReady(p) \/ VoteMap(p) \/
   IdleKick(p)
     PROVE  AfkNeverPlays'
  BY <1>1 DEF Join, SetReady, VoteMap, IdleKick
<1>2. ASSUME NEW p \in Id, ForceExe(p) \/ GamePacket(p)
     PROVE  AfkNeverPlays'
  BY <1>2 DEF ForceExe, GamePacket
<1>3. ASSUME NEW p \in Id, ToggleAfk(p)
     PROVE  AfkNeverPlays'
  BY <1>3 DEF ToggleAfk
<1>4. ASSUME NEW p \in Id, LeaveQuietly(p)
     PROVE  AfkNeverPlays'
  BY <1>4 DEF LeaveQuietly, Unlist
<1>5. ASSUME NEW p \in Id, LeaveLobby(p)
     PROVE  AfkNeverPlays'
  BY <1>5 DEF LeaveLobby, Unlist
<1>6. ASSUME NEW p \in Id, LeaveMapvote(p)
     PROVE  AfkNeverPlays'
  BY <1>6 DEF LeaveMapvote, Unlist
<1>7. ASSUME NEW p \in Id, LeaveMapdraft(p)
     PROVE  AfkNeverPlays'
  BY <1>7 DEF LeaveMapdraft, Unlist
<1>8. ASSUME NEW p \in Id, LeaveCharselect(p)
     PROVE  AfkNeverPlays'
  BY <1>8 DEF LeaveCharselect, Unlist, CheckPicked, GameInit
<1>9. ASSUME NEW p \in Id, LeaveGame(p)
     PROVE  AfkNeverPlays'
  BY <1>9 DEF LeaveGame, Unlist
<1>10. ASSUME NEW p \in Id, Pick(p)
     PROVE  AfkNeverPlays'
  BY <1>10 DEF Pick, CheckPicked, GameInit
<1>11. CASE LobbyTick
  BY <1>11 DEF LobbyTick, MapdraftInit, MapdraftFinish, MapvoteInit,
     CharselectInit
<1>12. CASE MapvoteTick
  BY <1>12 DEF MapvoteTick, CharselectInit
<1>13. CASE StartMap \/ ConsoleMap
  BY <1>13 DEF StartMap, ConsoleMap, CharselectInit
<1>14. CASE CharselectTick \/ StartTimeout \/ TimeOver \/ EndTick \/
   ResultsTick
  BY <1>14 DEF CharselectTick, StartTimeout, TimeOver, EndTick, ResultsTick
<1>15. CASE DraftOver
  BY <1>15 DEF DraftOver, MapdraftFinish
<1>16. CASE ArmDraft \/ Return \/ ForceExeClear \/ ConsoleForceEnd
  BY <1>16 DEF ArmDraft, Return, ForceExeClear, ConsoleForceEnd
<1>17. CASE UNCHANGED vars
  BY <1>17 DEF vars
<1>18. QED
  BY <1>1, <1>2, <1>3, <1>4, <1>5, <1>6, <1>7, <1>8, <1>9, <1>10, <1>11,
     <1>12, <1>13, <1>14, <1>15, <1>16, <1>17 DEF Next, PeerEvent, Leave,
     Tick, Command

(* Every step that keeps a phase alive keeps its exe.                      *)
LEMMA ExeNext == TypeOK /\ ExePresent /\ [Next]_vars => ExePresent'
<1> SUFFICES ASSUME TypeOK, ExePresent, [Next]_vars
             PROVE  ExePresent'
  OBVIOUS
<1> USE DEF ExePresent, FreeGame, TypeOK, Players, LobbyInit, StayWith,
   peerVars, gameVars
<1>1. ASSUME NEW p \in Id, Join(p) \/ SetReady(p) \/ VoteMap(p) \/
   IdleKick(p)
     PROVE  ExePresent'
  BY <1>1 DEF Join, SetReady, VoteMap, IdleKick
<1>2. ASSUME NEW p \in Id, ForceExe(p) \/ GamePacket(p)
     PROVE  ExePresent'
  BY <1>2 DEF ForceExe, GamePacket
<1>3. ASSUME NEW p \in Id, ToggleAfk(p)
     PROVE  ExePresent'
  BY <1>3 DEF ToggleAfk
<1>4. ASSUME NEW p \in Id, LeaveQuietly(p)
     PROVE  ExePresent'
  BY <1>4 DEF LeaveQuietly, Unlist
<1>5. ASSUME NEW p \in Id, LeaveLobby(p)
     PROVE  ExePresent'
  BY <1>5 DEF LeaveLobby, Unlist
<1>6. ASSUME NEW p \in Id, LeaveMapvote(p)
     PROVE  ExePresent'
  BY <1>6 DEF LeaveMapvote, Unlist
<1>7. ASSUME NEW p \in Id, LeaveMapdraft(p)
     PROVE  ExePresent'
  BY <1>7 DEF LeaveMapdraft, Unlist
<1>8. ASSUME NEW p \in Id, LeaveCharselect(p)
     PROVE  ExePresent'
  BY <1>8 DEF LeaveCharselect, Unlist, CheckPicked, GameInit
<1>9. ASSUME NEW p \in Id, LeaveGame(p)
     PROVE  ExePresent'
  <2>1. p # exe /\ exe \in Players(peers) => exe \in Players(peers \ {p})
    OBVIOUS
  <2>2. phase = "GAME"
    BY <1>9 DEF LeaveGame
  <2>3. phase' = "LOBBY" => ExePresent'
    OBVIOUS
  <2>4. CASE /\ ~ended /\ p # exe /\ exe' = exe
             /\ Players(peers)' = Players(peers \ {p})
    BY <2>1, <2>2, <2>4
  <2>5. CASE ended' /\ phase' = phase
    BY <2>2, <2>5
  <2>6. phase' \in {"LOBBY", "GAME"}
    BY <1>9 DEF LeaveGame
  <2>7. QED
    BY <1>9, <2>2, <2>3, <2>4, <2>5, <2>6, LeaveGameShape
<1>10. ASSUME NEW p \in Id, Pick(p)
     PROVE  ExePresent'
  BY <1>10 DEF Pick, CheckPicked, GameInit
<1>11. CASE LobbyTick
  BY <1>11 DEF LobbyTick, MapdraftInit, MapdraftFinish, MapvoteInit,
     CharselectInit
<1>12. CASE MapvoteTick
  BY <1>12 DEF MapvoteTick, CharselectInit
<1>13. CASE StartMap \/ ConsoleMap
  BY <1>13 DEF StartMap, ConsoleMap, CharselectInit
<1>14. CASE CharselectTick \/ StartTimeout \/ TimeOver \/ EndTick \/
   ResultsTick
  BY <1>14 DEF CharselectTick, StartTimeout, TimeOver, EndTick, ResultsTick
<1>15. CASE DraftOver
  BY <1>15 DEF DraftOver, MapdraftFinish
<1>16. CASE ArmDraft \/ Return \/ ForceExeClear \/ ConsoleForceEnd
  BY <1>16 DEF ArmDraft, Return, ForceExeClear, ConsoleForceEnd
<1>17. CASE UNCHANGED vars
  BY <1>17 DEF vars
<1>18. QED
  BY <1>1, <1>2, <1>3, <1>4, <1>5, <1>6, <1>7, <1>8, <1>9, <1>10, <1>11,
     <1>12, <1>13, <1>14, <1>15, <1>16, <1>17 DEF Next, PeerEvent, Leave,
     Tick, Command

(* A freed id is no longer forced.                                         *)
LEMMA ForcedNext == TypeOK /\ ForcedPresent /\ [Next]_vars => ForcedPresent'
<1> SUFFICES ASSUME TypeOK, ForcedPresent, [Next]_vars
             PROVE  ForcedPresent'
  OBVIOUS
<1> USE DEF ForcedPresent, TypeOK, Players, LobbyInit, StayWith, peerVars,
   gameVars
<1>1. ASSUME NEW p \in Id, Join(p) \/ SetReady(p) \/ VoteMap(p) \/
   IdleKick(p)
     PROVE  ForcedPresent'
  BY <1>1 DEF Join, SetReady, VoteMap, IdleKick
<1>2. ASSUME NEW p \in Id, ForceExe(p)
     PROVE  ForcedPresent'
  BY <1>2 DEF ForceExe
<1>3. ASSUME NEW p \in Id, GamePacket(p)
     PROVE  ForcedPresent'
  BY <1>3 DEF GamePacket
<1>4. ASSUME NEW p \in Id, ToggleAfk(p)
     PROVE  ForcedPresent'
  BY <1>4 DEF ToggleAfk
<1>5. ASSUME NEW p \in Id, LeaveQuietly(p)
     PROVE  ForcedPresent'
  BY <1>5 DEF LeaveQuietly, Unlist
<1>6. ASSUME NEW p \in Id, LeaveLobby(p)
     PROVE  ForcedPresent'
  BY <1>6 DEF LeaveLobby, Unlist
<1>7. ASSUME NEW p \in Id, LeaveMapvote(p)
     PROVE  ForcedPresent'
  BY <1>7 DEF LeaveMapvote, Unlist
<1>8. ASSUME NEW p \in Id, LeaveMapdraft(p)
     PROVE  ForcedPresent'
  BY <1>8 DEF LeaveMapdraft, Unlist
<1>9. ASSUME NEW p \in Id, LeaveCharselect(p)
     PROVE  ForcedPresent'
  BY <1>9 DEF LeaveCharselect, Unlist, CheckPicked, GameInit
<1>10. ASSUME NEW p \in Id, LeaveGame(p)
     PROVE  ForcedPresent'
  BY <1>10 DEF LeaveGame, Unlist
<1>11. ASSUME NEW p \in Id, Pick(p)
     PROVE  ForcedPresent'
  BY <1>11 DEF Pick, CheckPicked, GameInit
<1>12. CASE LobbyTick
  BY <1>12 DEF LobbyTick, MapdraftInit, MapdraftFinish, MapvoteInit,
     CharselectInit
<1>13. CASE MapvoteTick
  BY <1>13 DEF MapvoteTick, CharselectInit
<1>14. CASE StartMap \/ ConsoleMap
  BY <1>14 DEF StartMap, ConsoleMap, CharselectInit
<1>15. CASE CharselectTick \/ StartTimeout \/ TimeOver \/ EndTick \/
   ResultsTick
  BY <1>15 DEF CharselectTick, StartTimeout, TimeOver, EndTick, ResultsTick
<1>16. CASE DraftOver
  BY <1>16 DEF DraftOver, MapdraftFinish
<1>17. CASE ArmDraft \/ Return \/ ForceExeClear \/ ConsoleForceEnd
  BY <1>17 DEF ArmDraft, Return, ForceExeClear, ConsoleForceEnd
<1>18. CASE UNCHANGED vars
  BY <1>18 DEF vars
<1>19. QED
  BY <1>1, <1>2, <1>3, <1>4, <1>5, <1>6, <1>7, <1>8, <1>9, <1>10, <1>11,
     <1>12, <1>13, <1>14, <1>15, <1>16, <1>17, <1>18 DEF Next, PeerEvent,
     Leave, Tick, Command

(* The match is called off with the last but one player.                   *)
LEMMA EnoughNext == TypeOK /\ EnoughPlayers /\ [Next]_vars => EnoughPlayers'
<1> SUFFICES ASSUME TypeOK, EnoughPlayers, [Next]_vars
             PROVE  EnoughPlayers'
  OBVIOUS
<1> USE DEF EnoughPlayers, FreeGame, TypeOK, Players, LobbyInit, StayWith,
   peerVars, gameVars
<1>1. ASSUME NEW p \in Id, Join(p) \/ SetReady(p) \/ VoteMap(p) \/
   IdleKick(p)
     PROVE  EnoughPlayers'
  BY <1>1 DEF Join, SetReady, VoteMap, IdleKick
<1>2. ASSUME NEW p \in Id, ForceExe(p) \/ GamePacket(p)
     PROVE  EnoughPlayers'
  BY <1>2 DEF ForceExe, GamePacket
<1>3. ASSUME NEW p \in Id, ToggleAfk(p)
     PROVE  EnoughPlayers'
  BY <1>3 DEF ToggleAfk
<1>4. ASSUME NEW p \in Id, LeaveQuietly(p)
     PROVE  EnoughPlayers'
  BY <1>4 DEF LeaveQuietly, Unlist
<1>5. ASSUME NEW p \in Id, LeaveLobby(p)
     PROVE  EnoughPlayers'
  BY <1>5 DEF LeaveLobby, Unlist
<1>6. ASSUME NEW p \in Id, LeaveMapvote(p)
     PROVE  EnoughPlayers'
  BY <1>6 DEF LeaveMapvote, Unlist
<1>7. ASSUME NEW p \in Id, LeaveMapdraft(p)
     PROVE  EnoughPlayers'
  BY <1>7 DEF LeaveMapdraft, Unlist
<1>8. ASSUME NEW p \in Id, LeaveCharselect(p)
     PROVE  EnoughPlayers'
  BY <1>8 DEF LeaveCharselect, Unlist, CheckPicked, GameInit
<1>9. ASSUME NEW p \in Id, LeaveGame(p)
     PROVE  EnoughPlayers'
  BY <1>9, LeaveGameShape
<1>10. ASSUME NEW p \in Id, Pick(p)
     PROVE  EnoughPlayers'
  BY <1>10 DEF Pick, CheckPicked, GameInit
<1>11. CASE LobbyTick
  BY <1>11 DEF LobbyTick, MapdraftInit, MapdraftFinish, MapvoteInit,
     CharselectInit
<1>12. CASE MapvoteTick
  BY <1>12 DEF MapvoteTick, CharselectInit
<1>13. CASE StartMap \/ ConsoleMap
  BY <1>13 DEF StartMap, ConsoleMap, CharselectInit
<1>14. CASE CharselectTick \/ StartTimeout \/ TimeOver \/ EndTick \/
   ResultsTick
  BY <1>14 DEF CharselectTick, StartTimeout, TimeOver, EndTick, ResultsTick
<1>15. CASE DraftOver
  BY <1>15 DEF DraftOver, MapdraftFinish
<1>16. CASE ArmDraft \/ Return \/ ForceExeClear \/ ConsoleForceEnd
  BY <1>16 DEF ArmDraft, Return, ForceExeClear, ConsoleForceEnd
<1>17. CASE UNCHANGED vars
  BY <1>17 DEF vars
<1>18. QED
  BY <1>1, <1>2, <1>3, <1>4, <1>5, <1>6, <1>7, <1>8, <1>9, <1>10, <1>11,
     <1>12, <1>13, <1>14, <1>15, <1>16, <1>17 DEF Next, PeerEvent, Leave,
     Tick, Command

(* What game_checkstart tells: a match that stays unstarted has a player    *)
(* who has not loaded, and one that starts has none.                       *)
LEMMA StartChecked ==
    ASSUME TypeOK, NEW P \in SUBSET Id, NEW L, CheckStart(P, L)
    PROVE  /\ ~started' => ~started /\ ~(P \cap inGame \subseteq L)
           /\ started' /\ ~started /\ P \cap inGame \cap afk = {}
              => P \cap inGame \subseteq L
           /\ started' \in BOOLEAN
<1> DEFINE A == P \cap inGame
           B == A \cap L
           C == Players(P)
<1>1. IsFiniteSet(A) /\ IsFiniteSet(B) /\ IsFiniteSet(C)
  BY ParamsAssumption, FS_Subset DEF Players
<1>2. Cardinality(A) \in Nat /\ Cardinality(B) \in Nat /\ Cardinality(C) \in Nat
  BY <1>1, FS_CardinalityType
<1>3. started' <=> (started \/ Cardinality(B) >= Cardinality(C))
  BY Zenon DEF CheckStart, TypeOK
<1>4. ASSUME A \subseteq L PROVE started'
  <2>1. B = A /\ C \subseteq A
    BY <1>4 DEF Players
  <2>2. Cardinality(C) <= Cardinality(B)
    BY <2>1, <1>1, FS_Subset
  <2>3. QED
    BY <2>2, <1>2, <1>3
<1>5. ASSUME started', ~started, A \cap afk = {} PROVE A \subseteq L
  <2>1. C = A /\ B \subseteq A
    BY <1>5 DEF Players
  <2>2. Cardinality(B) >= Cardinality(A)
    BY <1>3, <1>5, <2>1
  <2>3. Cardinality(B) <= Cardinality(A)
    BY <2>1, <1>1, FS_Subset
  <2>4. Cardinality(B) = Cardinality(A)
    BY <2>2, <2>3, <1>2
  <2>5. B = A
    BY <2>1, <2>4, <1>1, FS_Subset
  <2>6. QED
    BY <2>5
<1>6. ~started' => ~started
  BY <1>3, Zenon
<1>7. started' \in BOOLEAN
  BY Zenon DEF CheckStart, TypeOK
<1>8. QED
  BY <1>4, <1>5, <1>6, <1>7, Zenon

(* Two players or more are not nobody.                                     *)
LEMMA SomePlayer ==
    ASSUME NEW S, Cardinality(S) > 1
    PROVE  S # {}
  BY FS_EmptySet

(* The last peer that had to load does not vanish without a check.         *)
LEMMA NoLostStartNext == TypeOK /\ NoLostStart /\ [Next]_vars => NoLostStart'
<1> SUFFICES ASSUME TypeOK, NoLostStart, [Next]_vars
             PROVE  NoLostStart'
  OBVIOUS
<1> USE DEF NoLostStart, FreeGame, TypeOK, Players, LobbyInit, StayWith,
   peerVars, gameVars
<1>1. ASSUME NEW p \in Id, Join(p) \/ SetReady(p) \/ VoteMap(p) \/
   IdleKick(p)
     PROVE  NoLostStart'
  BY <1>1 DEF Join, SetReady, VoteMap, IdleKick
<1>2. ASSUME NEW p \in Id, ForceExe(p)
     PROVE  NoLostStart'
  BY <1>2 DEF ForceExe
<1>3. ASSUME NEW p \in Id, GamePacket(p)
     PROVE  NoLostStart'
  <2> DEFINE L == loaded \cup ({p} \cap inGame)
  <2>1. CASE started
    <3>1. /\ UNCHANGED <<phase, peers, inGame, loaded, started>>
         /\ ended' \in {ended, TRUE}
      BY <1>3, <2>1 DEF GamePacket
    <3>2. started'
      BY <2>1, <3>1
    <3>3. QED
      BY <3>1, <3>2
  <2>2. CASE ~started
    <3>1. CheckStart(peers, L) /\ loaded' = L
      BY <1>3, <2>2 DEF GamePacket
    <3>2. peers \in SUBSET Id
      OBVIOUS
    <3>3. peers' = peers /\ inGame' = inGame /\ phase = "GAME"
      BY <1>3 DEF GamePacket
    <3>4. QED
      BY <2>2, <3>1, <3>2, <3>3, StartChecked
  <2>3. QED
    BY <2>1, <2>2
<1>4. ASSUME NEW p \in Id, ToggleAfk(p)
     PROVE  NoLostStart'
  BY <1>4 DEF ToggleAfk
<1>5. ASSUME NEW p \in Id, LeaveQuietly(p)
     PROVE  NoLostStart'
  BY <1>5 DEF LeaveQuietly, Unlist
<1>6. ASSUME NEW p \in Id, LeaveLobby(p)
     PROVE  NoLostStart'
  BY <1>6 DEF LeaveLobby, Unlist
<1>7. ASSUME NEW p \in Id, LeaveMapvote(p)
     PROVE  NoLostStart'
  BY <1>7 DEF LeaveMapvote, Unlist
<1>8. ASSUME NEW p \in Id, LeaveMapdraft(p)
     PROVE  NoLostStart'
  BY <1>8 DEF LeaveMapdraft, Unlist
<1>9. ASSUME NEW p \in Id, LeaveCharselect(p)
     PROVE  NoLostStart'
  <2>1. \/ IsFiniteSet(Players(peers \ {p})) /\ Players(peers \ {p}) # {}
        \/ ~(Cardinality(Players(peers \ {p})) > 1)
    BY SomePlayer, ParamsAssumption, FS_Subset
  <2>2. QED
    BY <1>9, <2>1 DEF LeaveCharselect, Unlist, CheckPicked, GameInit
<1>10. ASSUME NEW p \in Id, LeaveGame(p)
     PROVE  NoLostStart'
  <2>1. CASE ended
    BY <1>10, <2>1 DEF LeaveGame, Unlist
  <2>2. CASE phase' = "LOBBY"
    BY <2>2
  <2>3. CASE ~ended /\ ~started /\ phase' # "LOBBY"
    <3>1. CheckStart(peers \ {p}, loaded) /\ loaded' = loaded \ {p}
      BY <1>10, <2>3 DEF LeaveGame
    <3>2. peers' = peers \ {p} /\ inGame' = inGame \cap (peers \ {p})
      BY <1>10, <2>3 DEF LeaveGame, Unlist
    <3>3. peers \ {p} \in SUBSET Id
      OBVIOUS
    <3>4. QED
      BY <1>10, <2>3, <3>1, <3>2, <3>3, StartChecked DEF LeaveGame
  <2>4. CASE ~ended /\ started /\ phase' # "LOBBY"
    BY <1>10, <2>4 DEF LeaveGame, Unlist
  <2>5. QED
    BY <2>1, <2>2, <2>3, <2>4
<1>11. ASSUME NEW p \in Id, Pick(p)
     PROVE  NoLostStart'
  BY <1>11 DEF Pick, CheckPicked, GameInit
<1>12. CASE LobbyTick
  BY <1>12 DEF LobbyTick, MapdraftInit, MapdraftFinish, MapvoteInit,
     CharselectInit
<1>13. CASE MapvoteTick
  BY <1>13 DEF MapvoteTick, CharselectInit
<1>14. CASE StartMap \/ ConsoleMap
  BY <1>14 DEF StartMap, ConsoleMap, CharselectInit
<1>15. CASE CharselectTick \/ StartTimeout \/ TimeOver \/ EndTick \/
   ResultsTick
  BY <1>15 DEF CharselectTick, StartTimeout, TimeOver, EndTick, ResultsTick
<1>16. CASE DraftOver
  BY <1>16 DEF DraftOver, MapdraftFinish
<1>17. CASE ArmDraft \/ Return \/ ForceExeClear \/ ConsoleForceEnd
  BY <1>17 DEF ArmDraft, Return, ForceExeClear, ConsoleForceEnd
<1>18. CASE UNCHANGED vars
  BY <1>18 DEF vars
<1>19. QED
  BY <1>1, <1>2, <1>3, <1>4, <1>5, <1>6, <1>7, <1>8, <1>9, <1>10, <1>11,
     <1>12, <1>13, <1>14, <1>15, <1>16, <1>17, <1>18 DEF Next, PeerEvent,
     Leave, Tick, Command

(* Nobody who has not loaded slips into a match that has started.          *)
LEMMA StartedLoadedNext ==
    TypeOK /\ AfkNeverPlays /\ StartedLoaded /\ [Next]_vars => StartedLoaded'
<1> SUFFICES ASSUME TypeOK, AfkNeverPlays, StartedLoaded, [Next]_vars
             PROVE  StartedLoaded'
  OBVIOUS
<1> USE DEF StartedLoaded, AfkNeverPlays, FreeGame, TypeOK, Players,
   LobbyInit, StayWith, peerVars, gameVars
<1>1. ASSUME NEW p \in Id, Join(p) \/ SetReady(p) \/ VoteMap(p) \/
   IdleKick(p)
     PROVE  StartedLoaded'
  BY <1>1 DEF Join, SetReady, VoteMap, IdleKick
<1>2. ASSUME NEW p \in Id, ForceExe(p)
     PROVE  StartedLoaded'
  BY <1>2 DEF ForceExe
<1>3. ASSUME NEW p \in Id, GamePacket(p)
     PROVE  StartedLoaded'
  <2> DEFINE L == loaded \cup ({p} \cap inGame)
  <2>1. CASE started
    <3>1. UNCHANGED <<phase, peers, inGame, loaded, started>>
      BY <1>3, <2>1 DEF GamePacket
    <3>2. QED
      BY <3>1
  <2>2. CASE ~started
    <3>1. CheckStart(peers, L) /\ loaded' = L
      BY <1>3, <2>2 DEF GamePacket
    <3>2. peers \in SUBSET Id
      OBVIOUS
    <3>3. peers' = peers /\ inGame' = inGame /\ phase = "GAME"
      BY <1>3 DEF GamePacket
    <3>4. QED
      BY <2>2, <3>1, <3>2, <3>3, StartChecked
  <2>3. QED
    BY <2>1, <2>2
<1>4. ASSUME NEW p \in Id, ToggleAfk(p)
     PROVE  StartedLoaded'
  BY <1>4 DEF ToggleAfk
<1>5. ASSUME NEW p \in Id, LeaveQuietly(p)
     PROVE  StartedLoaded'
  BY <1>5 DEF LeaveQuietly, Unlist
<1>6. ASSUME NEW p \in Id, LeaveLobby(p)
     PROVE  StartedLoaded'
  BY <1>6 DEF LeaveLobby, Unlist
<1>7. ASSUME NEW p \in Id, LeaveMapvote(p)
     PROVE  StartedLoaded'
  BY <1>7 DEF LeaveMapvote, Unlist
<1>8. ASSUME NEW p \in Id, LeaveMapdraft(p)
     PROVE  StartedLoaded'
  BY <1>8 DEF LeaveMapdraft, Unlist
<1>9. ASSUME NEW p \in Id, LeaveCharselect(p)
     PROVE  StartedLoaded'
  BY <1>9 DEF LeaveCharselect, Unlist, CheckPicked, GameInit
<1>10. ASSUME NEW p \in Id, LeaveGame(p)
     PROVE  StartedLoaded'
  <2>1. CASE ended
    BY <1>10, <2>1 DEF LeaveGame, Unlist
  <2>2. CASE phase' = "LOBBY"
    BY <2>2
  <2>3. CASE ~ended /\ ~started /\ phase' # "LOBBY"
    <3>1. CheckStart(peers \ {p}, loaded) /\ loaded' = loaded \ {p}
      BY <1>10, <2>3 DEF LeaveGame
    <3>2. peers' = peers \ {p} /\ inGame' = inGame \cap (peers \ {p})
      BY <1>10, <2>3 DEF LeaveGame, Unlist
    <3>3. peers \ {p} \in SUBSET Id
      OBVIOUS
    <3>4. QED
      BY <1>10, <2>3, <3>1, <3>2, <3>3, StartChecked DEF LeaveGame
  <2>4. CASE ~ended /\ started /\ phase' # "LOBBY"
    BY <1>10, <2>4 DEF LeaveGame, Unlist
  <2>5. QED
    BY <2>1, <2>2, <2>3, <2>4
<1>11. ASSUME NEW p \in Id, Pick(p)
     PROVE  StartedLoaded'
  BY <1>11 DEF Pick, CheckPicked, GameInit
<1>12. CASE LobbyTick
  BY <1>12 DEF LobbyTick, MapdraftInit, MapdraftFinish, MapvoteInit,
     CharselectInit
<1>13. CASE MapvoteTick
  BY <1>13 DEF MapvoteTick, CharselectInit
<1>14. CASE StartMap \/ ConsoleMap
  BY <1>14 DEF StartMap, ConsoleMap, CharselectInit
<1>15. CASE CharselectTick \/ StartTimeout \/ TimeOver \/ EndTick \/
   ResultsTick
  BY <1>15 DEF CharselectTick, StartTimeout, TimeOver, EndTick, ResultsTick
<1>16. CASE DraftOver
  BY <1>16 DEF DraftOver, MapdraftFinish
<1>17. CASE ArmDraft \/ Return \/ ForceExeClear \/ ConsoleForceEnd
  BY <1>17 DEF ArmDraft, Return, ForceExeClear, ConsoleForceEnd
<1>18. CASE UNCHANGED vars
  BY <1>18 DEF vars
<1>19. QED
  BY <1>1, <1>2, <1>3, <1>4, <1>5, <1>6, <1>7, <1>8, <1>9, <1>10, <1>11,
     <1>12, <1>13, <1>14, <1>15, <1>16, <1>17, <1>18 DEF Next, PeerEvent,
     Leave, Tick, Command

(* The lists come with the match and go with the way out of it, unless the  *)
(* console starts a character select in mid-match.                         *)
LEMMA ListsNext == ~Console /\ TypeOK /\ ListsLive /\ [Next]_vars => ListsLive'
<1> SUFFICES ASSUME ~Console, TypeOK, ListsLive, [Next]_vars
             PROVE  ListsLive'
  OBVIOUS
<1> USE DEF ListsLive, FreeGame, TypeOK, Players, LobbyInit, StayWith,
   peerVars, gameVars
<1>1. ASSUME NEW p \in Id, Join(p) \/ SetReady(p) \/ VoteMap(p) \/
   IdleKick(p)
     PROVE  ListsLive'
  BY <1>1 DEF Join, SetReady, VoteMap, IdleKick
<1>2. ASSUME NEW p \in Id, ForceExe(p)
     PROVE  ListsLive'
  BY <1>2 DEF ForceExe
<1>3. ASSUME NEW p \in Id, GamePacket(p)
     PROVE  ListsLive'
  BY <1>3 DEF GamePacket
<1>4. ASSUME NEW p \in Id, ToggleAfk(p)
     PROVE  ListsLive'
  BY <1>4 DEF ToggleAfk
<1>5. ASSUME NEW p \in Id, LeaveQuietly(p) \/ LeaveLobby(p) \/
   LeaveMapvote(p) \/ LeaveMapdraft(p)
     PROVE  ListsLive'
  BY <1>5 DEF LeaveQuietly, LeaveLobby, LeaveMapvote, LeaveMapdraft, Unlist
<1>6. ASSUME NEW p \in Id, LeaveCharselect(p)
     PROVE  ListsLive'
  BY <1>6 DEF LeaveCharselect, Unlist, CheckPicked, GameInit
<1>7. ASSUME NEW p \in Id, LeaveGame(p)
     PROVE  ListsLive'
  <2>1. phase = "GAME"
    BY <1>7 DEF LeaveGame
  <2>2. CASE UNCHANGED <<phase, lists>>
    BY <2>1, <2>2
  <2>3. CASE FreeGame /\ LobbyInit(peers \ {p})
    BY <2>3
  <2>4. (FreeGame /\ LobbyInit(peers \ {p})) \/ UNCHANGED <<phase, lists>>
    BY <1>7, Zenon DEF LeaveGame
  <2>5. QED
    BY <2>2, <2>3, <2>4
<1>8. ASSUME NEW p \in Id, Pick(p)
     PROVE  ListsLive'
  BY <1>8 DEF Pick, CheckPicked, GameInit
<1>9. CASE LobbyTick
  BY <1>9 DEF LobbyTick, MapdraftInit, MapdraftFinish, MapvoteInit,
     CharselectInit
<1>10. CASE MapvoteTick
  BY <1>10 DEF MapvoteTick, CharselectInit
<1>11. CASE StartMap
  BY <1>11 DEF StartMap, CharselectInit
<1>12. CASE ConsoleMap
  BY <1>12 DEF ConsoleMap, CharselectInit
<1>13. CASE CharselectTick \/ StartTimeout \/ TimeOver \/ EndTick \/
   ResultsTick
  BY <1>13 DEF CharselectTick, StartTimeout, TimeOver, EndTick, ResultsTick
<1>14. CASE DraftOver
  BY <1>14 DEF DraftOver, MapdraftFinish
<1>15. CASE ArmDraft \/ Return \/ ForceExeClear \/ ConsoleForceEnd
  BY <1>15 DEF ArmDraft, Return, ForceExeClear, ConsoleForceEnd
<1>16. CASE UNCHANGED vars
  BY <1>16 DEF vars
<1>17. QED
  BY <1>1, <1>2, <1>3, <1>4, <1>5, <1>6, <1>7, <1>8, <1>9, <1>10, <1>11,
     <1>12, <1>13, <1>14, <1>15, <1>16 DEF Next, PeerEvent, Leave, Tick,
     Command

(* The list of peers never exceeds its capacity.                           *)
PeersFit == Cardinality(peers) <= Cap

LEMMA PeersFitNext == TypeOK /\ PeersFit /\ [Next]_vars => PeersFit'
<1> SUFFICES ASSUME TypeOK, PeersFit, [Next]_vars
             PROVE  PeersFit'
  OBVIOUS
<1> USE DEF PeersFit, TypeOK
<1> Cap \in Nat /\ IsFiniteSet(Id)
  BY ParamsAssumption
<1>1. IsFiniteSet(peers) /\ Cardinality(peers) \in Nat
  BY FS_Subset, FS_CardinalityType
<1>2. ASSUME NEW p \in Id, Join(p)
      PROVE  PeersFit'
  <2>1. Cardinality(peers \cup {p}) = Cardinality(peers) + 1
    BY <1>1, <1>2, FS_AddElement DEF Join
  <2>2. QED
    BY <2>1, <1>1, <1>2 DEF Join
<1>3. ASSUME NEW p \in Id, Unlist(p)
      PROVE  PeersFit'
  <2>1. Cardinality(peers \ {p}) = Cardinality(peers) - 1
    BY <1>1, <1>3, FS_RemoveElement DEF Unlist
  <2>2. QED
    BY <2>1, <1>1, <1>3 DEF Unlist
<1>4. CASE peers' = peers
  BY <1>4
<1>5. \/ peers' = peers
      \/ \E p \in Id : Join(p) \/ Unlist(p)
  BY DEF Next, PeerEvent, Tick, Command, Leave, LeaveQuietly, LeaveLobby,
         LeaveMapvote, LeaveMapdraft, LeaveCharselect, LeaveGame, SetReady,
         ToggleAfk, VoteMap, Pick, GamePacket, IdleKick, LobbyTick,
         MapvoteTick, CharselectTick, StartTimeout, TimeOver, EndTick,
         ResultsTick, DraftOver, StartMap, ArmDraft, Return, ForceExe,
         ForceExeClear, ConsoleMap, ConsoleForceEnd, vars, peerVars
<1>6. QED
  BY <1>2, <1>3, <1>4, <1>5

(* The players of the match who are still on the server.                   *)
Seated == peers \cap inGame

(* What a step does to the seats of the results screen: there is none, no  *)
(* seat is taken, a match opens, or a player leaves a copy behind.         *)
SeatStep ==
    \/ ~lists'
    \/ left' = 0
    \/ lists /\ Seated' \subseteq Seated /\ left' = left
    \/ lists /\ left' = left + 1 /\ \E p \in Seated : Seated' = Seated \ {p}

LEMMA SeatSteps == ~Console /\ TypeOK /\ ListsLive /\ [Next]_vars => SeatStep
<1> SUFFICES ASSUME ~Console, TypeOK, ListsLive, [Next]_vars
             PROVE  SeatStep
  OBVIOUS
<1> USE DEF TypeOK, ListsLive, SeatStep, Seated, FreeGame, LobbyInit, StayWith,
        peerVars, gameVars
<1>1. ASSUME NEW p \in Id, Join(p) \/ SetReady(p) \/ VoteMap(p) \/
   IdleKick(p)
     PROVE  SeatStep
  BY <1>1 DEF Join, SetReady, VoteMap, IdleKick
<1>2. ASSUME NEW p \in Id, ForceExe(p)
     PROVE  SeatStep
  BY <1>2 DEF ForceExe
<1>3. ASSUME NEW p \in Id, GamePacket(p)
     PROVE  SeatStep
  BY <1>3 DEF GamePacket
<1>4. ASSUME NEW p \in Id, ToggleAfk(p)
     PROVE  SeatStep
  BY <1>4 DEF ToggleAfk
<1>5. ASSUME NEW p \in Id, LeaveQuietly(p)
     PROVE  SeatStep
  BY <1>5 DEF LeaveQuietly, Unlist
<1>6. ASSUME NEW p \in Id, LeaveLobby(p)
     PROVE  SeatStep
  <2>1. ~lists
    BY <1>6 DEF LeaveLobby
  <2>2. lists' = lists
    BY <1>6 DEF LeaveLobby, gameVars
  <2>3. QED
    BY <2>1, <2>2, Zenon
<1>7. ASSUME NEW p \in Id, LeaveMapvote(p)
     PROVE  SeatStep
  <2>1. ~lists
    BY <1>7 DEF LeaveMapvote
  <2>2. lists' = lists
    BY <1>7 DEF LeaveMapvote, gameVars
  <2>3. QED
    BY <2>1, <2>2, Zenon
<1>8. ASSUME NEW p \in Id, LeaveMapdraft(p)
     PROVE  SeatStep
  <2>1. ~lists
    BY <1>8 DEF LeaveMapdraft
  <2>2. lists' = lists
    BY <1>8 DEF LeaveMapdraft, gameVars
  <2>3. QED
    BY <2>1, <2>2, Zenon
<1>9. ASSUME NEW p \in Id, LeaveCharselect(p)
     PROVE  SeatStep
  <2>1. ~lists
    BY <1>9 DEF LeaveCharselect
  <2>2. lists' = lists \/ left' = 0
    BY <1>9 DEF LeaveCharselect, CheckPicked, GameInit, gameVars
  <2>3. QED
    BY <2>1, <2>2, Zenon
<1>10. ASSUME NEW p \in Id, LeaveGame(p)
     PROVE  SeatStep
  <2>1. CASE FreeGame
    BY <2>1, Zenon DEF FreeGame
  <2>2. CASE StayWith(peers \ {p}) /\ UNCHANGED <<lists, left>>
    BY <2>2, <1>10 DEF LeaveGame, Unlist, StayWith
  <2>3. CASE StayWith(peers \ {p}) /\ UNCHANGED lists /\ left' = left + 1
    <3>1. p \in Seated /\ Seated' = Seated \ {p} /\ lists
      BY <2>3, <1>10 DEF LeaveGame, Unlist, StayWith
    <3>2. QED
      BY <2>3, <3>1
  <2>4. QED
    BY <1>10, <2>1, <2>2, <2>3, Zenon DEF LeaveGame
<1>11. ASSUME NEW p \in Id, Pick(p)
     PROVE  SeatStep
  <2>1. ~lists
    BY <1>11 DEF Pick
  <2>2. lists' = lists \/ left' = 0
    BY <1>11 DEF Pick, CheckPicked, GameInit, gameVars
  <2>3. QED
    BY <2>1, <2>2, Zenon
<1>12. CASE LobbyTick
  <2>1. ~lists
    BY <1>12 DEF LobbyTick
  <2>2. lists' = lists
    BY <1>12 DEF LobbyTick, gameVars
  <2>3. QED
    BY <2>1, <2>2, Zenon
<1>13. CASE MapvoteTick
  <2>1. ~lists
    BY <1>13 DEF MapvoteTick
  <2>2. lists' = lists
    BY <1>13 DEF MapvoteTick, gameVars
  <2>3. QED
    BY <2>1, <2>2, Zenon
<1>14. CASE StartMap
  <2>1. ~lists
    BY <1>14 DEF StartMap
  <2>2. lists' = lists
    BY <1>14 DEF StartMap, gameVars
  <2>3. QED
    BY <2>1, <2>2, Zenon
<1>15. CASE ConsoleMap
  BY <1>15 DEF ConsoleMap, CharselectInit
<1>16. CASE CharselectTick
  BY <1>16 DEF CharselectTick
<1>17. CASE StartTimeout
  BY <1>17 DEF StartTimeout
<1>18. CASE TimeOver
  BY <1>18 DEF TimeOver
<1>19. CASE EndTick
  BY <1>19 DEF EndTick
<1>20. CASE ResultsTick
  BY <1>20 DEF ResultsTick
<1>21. CASE DraftOver
  <2>1. ~lists
    BY <1>21 DEF DraftOver
  <2>2. lists' = lists
    BY <1>21 DEF DraftOver, gameVars
  <2>3. QED
    BY <2>1, <2>2, Zenon
<1>22. CASE ArmDraft
  BY <1>22 DEF ArmDraft
<1>23. CASE Return
  BY <1>23 DEF Return
<1>24. CASE ForceExeClear
  BY <1>24 DEF ForceExeClear
<1>25. CASE ConsoleForceEnd
  BY <1>25 DEF ConsoleForceEnd
<1>26. CASE UNCHANGED vars
  BY <1>26 DEF vars
<1>27. QED
  BY <1>1, <1>2, <1>3, <1>4, <1>5, <1>6, <1>7, <1>8, <1>9, <1>10, <1>11,
     <1>12, <1>13, <1>14, <1>15, <1>16, <1>17, <1>18, <1>19, <1>20, <1>21,
     <1>22, <1>23, <1>24, <1>25, <1>26 DEF Next, PeerEvent, Leave, Tick,
     Command

LEMMA ResultsFitNext ==
    /\ ~Console /\ TypeOK /\ ListsLive /\ PeersFit' /\ TypeOK' /\ ResultsFit
    /\ [Next]_vars
    => ResultsFit'
<1> SUFFICES ASSUME ~Console, TypeOK, ListsLive, PeersFit', TypeOK',
                    ResultsFit, [Next]_vars, lists'
             PROVE  Cardinality(Seated') + left' <= Cap
  BY DEF ResultsFit, Seated
<1>1. IsFiniteSet(Seated) /\ Cardinality(Seated) \in Nat
  BY ParamsAssumption, FS_Subset, FS_CardinalityType DEF Seated, TypeOK
<1>2. IsFiniteSet(peers') /\ Cardinality(peers') \in Nat
  BY ParamsAssumption, FS_Subset, FS_CardinalityType DEF TypeOK
<1>3. Seated' \in SUBSET peers' /\ left \in Nat /\ Cap \in Nat
  BY ParamsAssumption DEF Seated, TypeOK
<1>4. CASE left' = 0
  <2>1. Cardinality(Seated') <= Cardinality(peers') /\ IsFiniteSet(Seated')
    BY <1>2, <1>3, FS_Subset
  <2>2. Cardinality(Seated') \in Nat
    BY <2>1, FS_CardinalityType
  <2>3. QED
    BY <1>2, <1>3, <1>4, <2>1, <2>2 DEF PeersFit
<1>5. CASE lists /\ Seated' \subseteq Seated /\ left' = left
  <2>1. Cardinality(Seated') <= Cardinality(Seated) /\ IsFiniteSet(Seated')
    BY <1>1, <1>5, FS_Subset
  <2>2. Cardinality(Seated') \in Nat
    BY <2>1, FS_CardinalityType
  <2>3. Cardinality(Seated) + left <= Cap
    BY <1>5 DEF ResultsFit, Seated
  <2>4. QED
    BY <1>1, <1>3, <1>5, <2>1, <2>2, <2>3
<1>6. CASE lists /\ left' = left + 1 /\ \E p \in Seated : Seated' = Seated \ {p}
  <2>1. PICK p \in Seated : Seated' = Seated \ {p}
    BY <1>6
  <2>2. Cardinality(Seated \ {p}) = Cardinality(Seated) - 1
    BY <1>1, FS_RemoveElement
  <2>3. Cardinality(Seated) + left <= Cap
    BY <1>6 DEF ResultsFit, Seated
  <2>4. QED
    BY <1>1, <1>3, <1>6, <2>1, <2>2, <2>3
<1>7. QED
  BY <1>4, <1>5, <1>6, SeatSteps, Zenon DEF SeatStep

(* Every step that adds a player is, or ends, in the lobby.                *)
LEMMA RosterNext ==
    TypeOK /\ [Next]_vars => (~(inGame' \subseteq inGame) => phase' = "LOBBY")
<1> DEFINE Step == ~(inGame' \subseteq inGame) => phase' = "LOBBY"
<1> SUFFICES ASSUME TypeOK, [Next]_vars
             PROVE  Step
  OBVIOUS
<1> USE DEF TypeOK, Players, LobbyInit, StayWith, peerVars, gameVars
<1>1. ASSUME NEW p \in Id, Join(p) \/ SetReady(p) \/ VoteMap(p) \/
   IdleKick(p)
     PROVE  Step
  BY <1>1 DEF Join, SetReady, VoteMap, IdleKick
<1>2. ASSUME NEW p \in Id, ForceExe(p)
     PROVE  Step
  BY <1>2 DEF ForceExe
<1>3. ASSUME NEW p \in Id, GamePacket(p)
     PROVE  Step
  BY <1>3 DEF GamePacket
<1>4. ASSUME NEW p \in Id, ToggleAfk(p)
     PROVE  Step
  BY <1>4 DEF ToggleAfk
<1>5. ASSUME NEW p \in Id, LeaveQuietly(p)
     PROVE  Step
  BY <1>5 DEF LeaveQuietly, Unlist
<1>6. ASSUME NEW p \in Id, LeaveLobby(p)
     PROVE  Step
  BY <1>6 DEF LeaveLobby, Unlist
<1>7. ASSUME NEW p \in Id, LeaveMapvote(p)
     PROVE  Step
  BY <1>7 DEF LeaveMapvote, Unlist
<1>8. ASSUME NEW p \in Id, LeaveMapdraft(p)
     PROVE  Step
  BY <1>8 DEF LeaveMapdraft, Unlist
<1>9. ASSUME NEW p \in Id, LeaveCharselect(p)
     PROVE  Step
  BY <1>9 DEF LeaveCharselect, Unlist, CheckPicked, GameInit
<1>10. ASSUME NEW p \in Id, LeaveGame(p)
     PROVE  Step
  BY <1>10 DEF LeaveGame, Unlist
<1>11. ASSUME NEW p \in Id, Pick(p)
     PROVE  Step
  BY <1>11 DEF Pick, CheckPicked, GameInit
<1>12. CASE LobbyTick
  BY <1>12 DEF LobbyTick, MapdraftInit, MapdraftFinish, MapvoteInit,
     CharselectInit
<1>13. CASE MapvoteTick
  BY <1>13 DEF MapvoteTick, CharselectInit
<1>14. CASE StartMap \/ ConsoleMap
  BY <1>14 DEF StartMap, ConsoleMap, CharselectInit
<1>15. CASE CharselectTick \/ StartTimeout \/ TimeOver \/ EndTick \/
   ResultsTick
  BY <1>15 DEF CharselectTick, StartTimeout, TimeOver, EndTick, ResultsTick
<1>16. CASE DraftOver
  BY <1>16 DEF DraftOver, MapdraftFinish
<1>17. CASE ArmDraft \/ Return \/ ForceExeClear \/ ConsoleForceEnd
  BY <1>17 DEF ArmDraft, Return, ForceExeClear, ConsoleForceEnd
<1>18. CASE UNCHANGED vars
  BY <1>18 DEF vars
<1>19. QED
  BY <1>1, <1>2, <1>3, <1>4, <1>5, <1>6, <1>7, <1>8, <1>9, <1>10, <1>11,
     <1>12, <1>13, <1>14, <1>15, <1>16, <1>17, <1>18 DEF Next, PeerEvent,
     Leave, Tick, Command

----------------------------------------------------------------------------
(* In every reachable state a character select, and a match until it is    *)
(* decided, has its exe on the server.                                     *)
THEOREM ExeStays == Spec => []ExePresent
<1>1. Init => ExePresent
  BY DEF Init, ExePresent
<1>2. QED
  BY <1>1, ExeNext, TypeCorrect, PTL DEF Spec

(* An undecided match has two players at least.                            *)
THEOREM MatchGoesOnWithTwo == Spec => []EnoughPlayers
<1>1. Init => EnoughPlayers
  BY DEF Init, EnoughPlayers
<1>2. QED
  BY <1>1, EnoughNext, TypeCorrect, PTL DEF Spec

(* No player of a match is afk.                                            *)
THEOREM NoAfkInMatch == Spec => []AfkNeverPlays
<1>1. Init => AfkNeverPlays
  BY DEF Init, AfkNeverPlays
<1>2. QED
  BY <1>1, AfkNext, TypeCorrect, PTL DEF Spec

(* A forced exe is on the server.                                          *)
THEOREM ForcedStays == Spec => []ForcedPresent
<1>1. Init => ForcedPresent
  BY DEF Init, ForcedPresent
<1>2. QED
  BY <1>1, ForcedNext, TypeCorrect, PTL DEF Spec

(* The start of a match is never lost.                                     *)
THEOREM StartNotLost == Spec => []NoLostStart
<1>1. Init => NoLostStart
  BY DEF Init, NoLostStart
<1>2. QED
  BY <1>1, NoLostStartNext, TypeCorrect, PTL DEF Spec

(* A match starts only with everybody loaded.                              *)
THEOREM StartsLoaded == Spec => []StartedLoaded
<1>1. Init => StartedLoaded
  BY DEF Init, StartedLoaded
<1>2. QED
  BY <1>1, StartedLoadedNext, NoAfkInMatch, TypeCorrect, PTL DEF Spec

(* Players are added in the lobby only.                                    *)
THEOREM RosterGrows == Spec => RosterGrowsInLobby
  BY RosterNext, TypeCorrect, PTL DEF Spec, RosterGrowsInLobby

(* Without the host's console commands the match's lists are allocated and *)
(* freed in step with the phases.                                          *)
THEOREM ListsInStep ==
    ASSUME ~Console
    PROVE  Spec => []ListsLive
<1>1. Init => ListsLive
  BY DEF Init, ListsLive
<1>2. TypeOK /\ ListsLive /\ [Next]_vars => ListsLive'
  BY ListsNext
<1>3. QED
  BY <1>1, <1>2, TypeCorrect, PTL DEF Spec

(* Without the host's console commands the players who stayed and those    *)
(* who left fit the array the results screen sorts.                        *)
THEOREM ResultsAlwaysFit ==
    ASSUME ~Console
    PROVE  Spec => []ResultsFit
<1>1. Init => PeersFit /\ ResultsFit
  BY ParamsAssumption, FS_EmptySet DEF Init, PeersFit, ResultsFit
<1>2. TypeOK /\ PeersFit /\ [Next]_vars => PeersFit'
  BY PeersFitNext
<1>3. TypeOK /\ TypeOK' /\ ListsLive /\ PeersFit' /\ ResultsFit /\ [Next]_vars
      => ResultsFit'
  BY ResultsFitNext
<1>4. Spec => []ListsLive
  BY ListsInStep
<1>5. QED
  BY <1>1, <1>2, <1>3, <1>4, TypeCorrect, PTL DEF Spec

----------------------------------------------------------------------------
(* The lobby implements Lifecycle, for every number of peers, every        *)
(* capacity and every timing, as long as the host keeps away from the      *)
(* console's match commands.                                               *)

(* The phases the promise calls "gathering".                               *)
Gathering == {"LOBBY", "MAPVOTE", "MAPDRAFT"}

(* How a step moves from phase to phase, and what it keeps.                *)
Move ==
    \/ phase \in Gathering /\ phase' \in Gathering
    \/ /\ phase \in Gathering /\ phase' = "CHARSELECT"
       /\ exe' \in Players(peers) /\ Players(peers)' = Players(peers)
    \/ phase = "CHARSELECT" /\ phase' = "CHARSELECT" /\ exe' = exe
    \/ /\ phase = "CHARSELECT" /\ phase' = "GAME" /\ ~ended'
       /\ exe' = exe /\ Players(peers)' \subseteq Players(peers)
    \/ phase = "CHARSELECT" /\ phase' = "LOBBY"
    \/ /\ phase = "GAME" /\ phase' = "GAME" /\ (ended => ended')
       /\ exe' = exe /\ Players(peers)' \subseteq Players(peers)
    \/ phase = "GAME" /\ ~ended /\ phase' = "LOBBY"
    \/ /\ phase = "GAME" /\ ended /\ phase' = "RESULTS"
       /\ Players(peers)' = Players(peers)
    \/ /\ phase = "RESULTS" /\ phase' = "RESULTS"
       /\ Players(peers)' \subseteq Players(peers)
    \/ phase = "RESULTS" /\ phase' = "LOBBY"
    \/ /\ Ops /\ phase # "RESULTS" /\ phase' = "RESULTS"
       /\ Players(peers)' = Players(peers)

LEMMA Moves == ~Console /\ TypeOK /\ [Next]_vars => Move
<1> SUFFICES ASSUME ~Console, TypeOK, [Next]_vars
             PROVE  Move
  OBVIOUS
<1> USE DEF TypeOK, Phases, Move, Gathering, Players, LobbyInit, StayWith,
        peerVars, gameVars
<1>1. ASSUME NEW p \in Id, Join(p) \/ SetReady(p) \/ VoteMap(p) \/
   IdleKick(p)
     PROVE  Move
  BY <1>1 DEF Join, SetReady, VoteMap, IdleKick
<1>2. ASSUME NEW p \in Id, ForceExe(p)
     PROVE  Move
  BY <1>2 DEF ForceExe
<1>3. ASSUME NEW p \in Id, GamePacket(p)
     PROVE  Move
  BY <1>3 DEF GamePacket
<1>4. ASSUME NEW p \in Id, ToggleAfk(p)
     PROVE  Move
  BY <1>4 DEF ToggleAfk
<1>5. ASSUME NEW p \in Id, LeaveQuietly(p)
     PROVE  Move
  BY <1>5 DEF LeaveQuietly, Unlist
<1>6. ASSUME NEW p \in Id, LeaveLobby(p)
     PROVE  Move
  BY <1>6 DEF LeaveLobby, Unlist
<1>7. ASSUME NEW p \in Id, LeaveMapvote(p)
     PROVE  Move
  BY <1>7 DEF LeaveMapvote, Unlist
<1>8. ASSUME NEW p \in Id, LeaveMapdraft(p)
     PROVE  Move
  BY <1>8 DEF LeaveMapdraft, Unlist
<1>9. ASSUME NEW p \in Id, LeaveCharselect(p)
     PROVE  Move
  BY <1>9 DEF LeaveCharselect, Unlist, CheckPicked, GameInit
<1>10. ASSUME NEW p \in Id, LeaveGame(p)
     PROVE  Move
  BY <1>10 DEF LeaveGame, Unlist
<1>11. ASSUME NEW p \in Id, Pick(p)
     PROVE  Move
  BY <1>11 DEF Pick, CheckPicked, GameInit
<1>12. CASE LobbyTick
  BY <1>12 DEF LobbyTick, MapdraftInit, MapdraftFinish, MapvoteInit,
     CharselectInit
<1>13. CASE MapvoteTick
  BY <1>13 DEF MapvoteTick, CharselectInit
<1>14. CASE StartMap
  BY <1>14 DEF StartMap, CharselectInit
<1>15. CASE ConsoleMap
  BY <1>15 DEF ConsoleMap, CharselectInit
<1>16. CASE CharselectTick
  BY <1>16 DEF CharselectTick
<1>17. CASE StartTimeout
  BY <1>17 DEF StartTimeout
<1>18. CASE TimeOver
  BY <1>18 DEF TimeOver
<1>19. CASE EndTick
  BY <1>19 DEF EndTick
<1>20. CASE ResultsTick
  BY <1>20 DEF ResultsTick
<1>21. CASE DraftOver
  BY <1>21 DEF DraftOver, MapdraftFinish
<1>22. CASE ArmDraft
  BY <1>22 DEF ArmDraft
<1>23. CASE Return
  <2>1. Ops
    BY <1>23, Zenon DEF Return, OpMayType
  <2>2. phase' = "RESULTS" /\ Players(peers)' = Players(peers) /\ phase \in Phases
    BY <1>23 DEF Return
  <2>3. QED
    BY <2>1, <2>2
<1>24. CASE ForceExeClear
  BY <1>24 DEF ForceExeClear
<1>25. CASE ConsoleForceEnd
  BY <1>25 DEF ConsoleForceEnd
<1>26. CASE UNCHANGED vars
  BY <1>26 DEF vars
<1>27. QED
  BY <1>1, <1>2, <1>3, <1>4, <1>5, <1>6, <1>7, <1>8, <1>9, <1>10, <1>11,
     <1>12, <1>13, <1>14, <1>15, <1>16, <1>17, <1>18, <1>19, <1>20, <1>21,
     <1>22, <1>23, <1>24, <1>25, <1>26 DEF Next, PeerEvent, Leave, Tick,
     Command

(* The stage of the promise, phase by phase.                               *)
StageFacts ==
    /\ phase \in Gathering => Stage = "gathering"
    /\ phase = "CHARSELECT" => Stage = "selecting"
    /\ phase = "GAME" /\ ~ended => Stage = "playing"
    /\ phase = "GAME" /\ ended => Stage = "decided"
    /\ phase = "RESULTS" => Stage = "results"

LEMMA StageOf == StageFacts
<1>1. CASE phase \in Gathering
  BY <1>1 DEF Stage, StageFacts, Gathering
<1>2. CASE phase = "CHARSELECT"
  BY <1>2 DEF Stage, StageFacts, Gathering
<1>3. CASE phase = "GAME" /\ ended
  BY <1>3 DEF Stage, StageFacts, Gathering
<1>4. CASE phase = "GAME" /\ ~ended
  BY <1>4 DEF Stage, StageFacts, Gathering
<1>5. CASE phase = "RESULTS"
  BY <1>5 DEF Stage, StageFacts, Gathering
<1>6. QED
  BY <1>1, <1>2, <1>3, <1>4, <1>5, Zenon DEF StageFacts

(* The exe as the promise sees it.                                         *)
DrawnExe == IF Stage \in {"selecting", "playing"} THEN exe ELSE NoPeer

(* Two players: the exe is not alone.                                      *)
LEMMA NotAlone ==
    ASSUME NEW S, Cardinality(S) > 1, NEW e
    PROVE  S \ {e} # {}
<1>1. S # {} /\ S # {e}
  BY FS_EmptySet, FS_Singleton
<1>2. QED
  BY <1>1

LEMMA PromiseInit == Init => Promise!Init
<1>1. Init => Stage = "gathering" /\ Players(peers) = {}
  BY StageOf DEF Init, StageFacts, Gathering, Players
<1>2. QED
  BY <1>1 DEF Promise!Init

LEMMA PromiseNext ==
    /\ ~Console /\ TypeOK /\ TypeOK' /\ ExePresent /\ ExePresent'
    /\ EnoughPlayers' /\ [Next]_vars
    => [Promise!Next]_(Promise!vars)
<1> SUFFICES ASSUME ~Console, TypeOK, TypeOK', ExePresent, ExePresent',
                    EnoughPlayers', [Next]_vars
             PROVE  Promise!Next
  BY DEF Promise!Next
<1> DEFINE cast == Players(peers)
<1>s. StageFacts /\ StageFacts'
  BY StageOf, PTL
<1>c. cast \in SUBSET Id /\ cast' \in SUBSET Id
  BY DEF TypeOK, Players
<1>m. Move
  BY Moves
<1> USE DEF StageFacts, Gathering
<1>1. CASE phase \in Gathering /\ phase' \in Gathering
  BY <1>1, <1>s, <1>c DEF Promise!Next, Promise!Gather
<1>2. CASE /\ phase \in Gathering /\ phase' = "CHARSELECT"
           /\ exe' \in cast /\ cast' = cast
  BY <1>2, <1>s DEF Promise!Next, Promise!Draw
<1>3. CASE phase = "CHARSELECT" /\ phase' = "CHARSELECT" /\ exe' = exe
  <2>1. exe \in cast'
    BY <1>3 DEF ExePresent
  <2>2. QED
    BY <1>3, <1>s, <1>c, <2>1 DEF Promise!Next, Promise!Reselect
<1>4. CASE /\ phase = "CHARSELECT" /\ phase' = "GAME" /\ ~ended'
           /\ exe' = exe /\ cast' \subseteq cast
  <2>1. exe \in cast' /\ cast' \ {exe} # {}
    BY <1>4, NotAlone DEF ExePresent, EnoughPlayers
  <2>2. Stage = "selecting" /\ Stage' = "playing"
    BY <1>4, <1>s, Zenon
  <2>3. QED
    BY <1>4, <2>1, <2>2 DEF Promise!Next, Promise!Begin
<1>5. CASE \/ phase = "CHARSELECT" /\ phase' = "LOBBY"
           \/ phase = "GAME" /\ ~ended /\ phase' = "LOBBY"
           \/ phase = "RESULTS" /\ phase' = "LOBBY"
  BY <1>5, <1>s, <1>c DEF Promise!Next, Promise!Regroup
<1>6. CASE /\ phase = "GAME" /\ phase' = "GAME" /\ (ended => ended')
           /\ exe' = exe /\ cast' \subseteq cast
  <2>1. CASE ended'
    BY <1>6, <2>1, <1>s DEF Promise!Next, Promise!Decide
  <2>2. CASE ~ended'
    <3>1. exe \in cast' /\ cast' \ {exe} # {}
      BY <1>6, <2>2, NotAlone DEF ExePresent, EnoughPlayers
    <3>2. Stage = "playing" /\ Stage' = "playing"
      BY <1>6, <2>2, <1>s, Zenon
    <3>3. QED
      BY <1>6, <3>1, <3>2 DEF Promise!Next, Promise!Play
  <2>3. QED
    BY <2>1, <2>2
<1>7. CASE \/ /\ phase = "GAME" /\ ended /\ phase' = "RESULTS"
              /\ cast' = cast
           \/ /\ phase = "RESULTS" /\ phase' = "RESULTS"
              /\ cast' \subseteq cast
  BY <1>7, <1>s DEF Promise!Next, Promise!Results
<1>8. CASE /\ Ops /\ phase # "RESULTS" /\ phase' = "RESULTS"
           /\ cast' = cast
  <2>1. Stage # "results" /\ Stage' = "results"
    BY <1>8, <1>s DEF TypeOK, Phases
  <2>2. QED
    BY <1>8, <2>1 DEF Promise!Next, Promise!Interrupt
<1>9. QED
  BY <1>m, <1>1, <1>2, <1>3, <1>4, <1>5, <1>6, <1>7, <1>8, Zenon DEF Move

----------------------------------------------------------------------------
(* Inside a match the lobby implements Contest, as Round does, unless the  *)
(* host uses the console's match commands.                                 *)

(* How a step looks to somebody who only sees the match.                   *)
GameMove ==
    \/ phase # "GAME" /\ phase' # "GAME"
    \/ /\ phase # "GAME" /\ phase' = "GAME"
       /\ Cardinality(Players(peers)') > 1
       /\ ~started' /\ ~ended'
    \/ /\ phase = "GAME" /\ phase' = "GAME"
       /\ Players(peers)' = Players(peers) /\ exe' = exe
       /\ started => started'
       /\ ended => ended'
    \/ \E p \in Players(peers) : LeaveGame(p)
    \/ phase = "GAME" /\ started /\ ended /\ phase' # "GAME"
    \/ Ops /\ phase' # "GAME"

LEMMA GameMoves ==
    ~Console /\ TypeOK /\ AfkNeverPlays /\ [Next]_vars => GameMove
<1> SUFFICES ASSUME ~Console, TypeOK, AfkNeverPlays, [Next]_vars
             PROVE  GameMove
  OBVIOUS
<1> USE DEF TypeOK, AfkNeverPlays, GameMove, Players, LobbyInit, FreeGame,
        StayWith, peerVars, gameVars
<1>1. ASSUME NEW p \in Id, Join(p) \/ SetReady(p) \/ VoteMap(p) \/ IdleKick(p)
       PROVE  GameMove
  BY <1>1 DEF Join, SetReady, VoteMap, IdleKick
<1>2. ASSUME NEW p \in Id, ForceExe(p)
       PROVE  GameMove
  BY <1>2 DEF ForceExe
<1>3. ASSUME NEW p \in Id, GamePacket(p)
       PROVE  GameMove
  <2>1. UNCHANGED <<phase, peers, inGame, afk, exe>> /\ phase = "GAME"
    BY <1>3 DEF GamePacket
  <2>2. ended => ended'
    BY <1>3, Zenon DEF GamePacket
  <2>3. started => started'
    BY <1>3 DEF GamePacket, CheckStart
  <2>4. QED
    BY <2>1, <2>2, <2>3
<1>4. ASSUME NEW p \in Id, ToggleAfk(p)
       PROVE  GameMove
  BY <1>4 DEF ToggleAfk
<1>5. ASSUME NEW p \in Id, LeaveQuietly(p)
       PROVE  GameMove
  BY <1>5 DEF LeaveQuietly, Unlist
<1>6. ASSUME NEW p \in Id, LeaveLobby(p)
       PROVE  GameMove
  BY <1>6 DEF LeaveLobby, Unlist
<1>7. ASSUME NEW p \in Id, LeaveMapvote(p)
       PROVE  GameMove
  BY <1>7 DEF LeaveMapvote, Unlist
<1>8. ASSUME NEW p \in Id, LeaveMapdraft(p)
       PROVE  GameMove
  BY <1>8 DEF LeaveMapdraft, Unlist
<1>9. ASSUME NEW p \in Id, LeaveCharselect(p)
       PROVE  GameMove
  <2>1. CASE phase' = "GAME"
    <3> DEFINE P == peers \ {p}
    <3>1. GameInit(P) /\ phase = "CHARSELECT"
      BY <1>9, <2>1 DEF LeaveCharselect, CheckPicked
    <3>2. /\ Cardinality(Players(P)) > 1
          /\ inGame' = Players(P) /\ ~started' /\ ~ended'
      BY <2>1, <3>1 DEF GameInit
    <3>3. peers' = P /\ afk' = afk \ {p}
      BY <1>9 DEF LeaveCharselect, Unlist
    <3>4. Players(peers)' = Players(P)
      BY <3>2, <3>3
    <3>5. QED
      BY <2>1, <3>1, <3>2, <3>4
  <2>2. CASE phase' # "GAME"
    BY <1>9, <2>2 DEF LeaveCharselect
  <2>3. QED
    BY <2>1, <2>2
<1>10. ASSUME NEW p \in Id, LeaveGame(p)
       PROVE  GameMove
  <2>1. p \in Players(peers)
    BY <1>10 DEF LeaveGame
  <2>2. QED
    BY <1>10, <2>1
<1>11. ASSUME NEW p \in Id, Pick(p)
       PROVE  GameMove
  <2>1. CASE phase' = "GAME"
    <3>1. GameInit(peers) /\ phase = "CHARSELECT"
      BY <1>11, <2>1 DEF Pick, CheckPicked
    <3>2. /\ Cardinality(Players(peers)) > 1
          /\ inGame' = Players(peers) /\ ~started' /\ ~ended'
      BY <2>1, <3>1 DEF GameInit
    <3>3. peers' = peers /\ afk' = afk
      BY <1>11 DEF Pick
    <3>4. Players(peers)' = Players(peers)
      BY <3>2, <3>3
    <3>5. QED
      BY <2>1, <3>1, <3>2, <3>4
  <2>2. CASE phase' # "GAME"
    BY <1>11, <2>2 DEF Pick
  <2>3. QED
    BY <2>1, <2>2
<1>12. CASE LobbyTick
  BY <1>12 DEF LobbyTick, MapdraftInit, MapdraftFinish, MapvoteInit,
         CharselectInit
<1>13. CASE MapvoteTick
  BY <1>13 DEF MapvoteTick, CharselectInit
<1>14. CASE StartMap \/ ConsoleMap
  BY <1>14 DEF StartMap, ConsoleMap, CharselectInit
<1>15. CASE CharselectTick \/ StartTimeout
  BY <1>15 DEF CharselectTick, StartTimeout
<1>16. CASE TimeOver
  BY <1>16 DEF TimeOver
<1>17. CASE EndTick \/ ResultsTick
  BY <1>17 DEF EndTick, ResultsTick
<1>18. CASE DraftOver
  BY <1>18 DEF DraftOver, MapdraftFinish
<1>19. CASE Return
  <2>1. Ops /\ phase' = "RESULTS"
    BY <1>19, Zenon DEF Return, OpMayType
  <2>2. QED
    BY <2>1
<1>20. CASE ArmDraft \/ ForceExeClear \/ ConsoleForceEnd
  BY <1>20 DEF ArmDraft, ForceExeClear, ConsoleForceEnd
<1>21. CASE UNCHANGED vars
  BY <1>21 DEF vars
<1>22. QED
  BY <1>1, <1>2, <1>3, <1>4, <1>5, <1>6, <1>7, <1>8, <1>9, <1>10, <1>11,
     <1>12, <1>13, <1>14, <1>15, <1>16, <1>17, <1>18, <1>19, <1>20,
     <1>21
     DEF Next, PeerEvent, Leave, Tick, Command

(* Contest counts as Match does.                                           *)
LEMMA SameCount == \A S : Shared!Cardinality(S) = Cardinality(S)
  BY DEF Shared!Cardinality, Cardinality

(* The variables of Contest in and outside a match.                        *)
LEMMA OutsideIs ==
    ASSUME phase' # "GAME"
    PROVE  Shared!Off
  BY DEF Shared!Off, InGame

LEMMA SharedLeave ==
    ASSUME TypeOK, TypeOK', AfkNeverPlays, NEW p \in Players(peers),
           LeaveGame(p)
    PROVE  Shared!Next
<1> DEFINE P == peers \ {p}
<1>1. Players(P) = Players(peers) \ {p} /\ p \in Id /\ phase = "GAME"
  BY DEF Players, TypeOK, LeaveGame
<1>2. IsFiniteSet(Players(P))
  BY ParamsAssumption, FS_Subset DEF Players, TypeOK
<1>3. Cardinality(Players(P)) \in Nat
  BY <1>2, FS_CardinalityType
<1>4. StayWith(P) /\ Unlist(p) => Players(peers)' = Players(peers) \ {p}
  BY DEF Players, StayWith, Unlist, TypeOK
<1>5. Unlist(p)
  BY DEF LeaveGame
<1>6. CASE ended /\ StayWith(P) /\ UNCHANGED <<started, ended>>
  <2>1. /\ InGame /\ InGame' /\ exe' = exe
        /\ Players(peers)' = Players(peers) \ {p}
    BY <1>1, <1>4, <1>5, <1>6 DEF InGame, StayWith
  <2>2. Shared!Leave(p)
    BY <1>6, <2>1 DEF Shared!Leave
  <2>3. QED
    BY <1>1, <2>2 DEF Shared!Next
<1>7. CASE /\ ~ended /\ LobbyInit(P)
           /\ Cardinality(Players(P)) <= 1 \/ (~started /\ p = exe)
  <2>1. Shared!Off /\ InGame
    BY <1>1, <1>7, OutsideIs DEF LobbyInit, InGame
  <2>2. Shared!CallOff(p)
    BY <1>1, <1>7, <2>1, SameCount DEF Shared!CallOff
  <2>3. QED
    BY <1>1, <2>2 DEF Shared!Next
<1>8. CASE /\ ~ended /\ ~started /\ Cardinality(Players(P)) > 1 /\ p # exe
           /\ StayWith(P) /\ ended' = ended
  <2>1. /\ InGame /\ InGame' /\ exe' = exe
        /\ Players(peers)' = Players(peers) \ {p}
    BY <1>1, <1>4, <1>5, <1>8 DEF InGame, StayWith
  <2>2. (InGame /\ started)' \in BOOLEAN
    BY <2>1 DEF TypeOK
  <2>3. Shared!Leave(p)
    BY <1>1, <1>8, <2>1, <2>2, SameCount DEF Shared!Leave
  <2>4. QED
    BY <1>1, <2>3 DEF Shared!Next
<1>9. CASE /\ ~ended /\ started /\ Cardinality(Players(P)) > 1
           /\ StayWith(P) /\ started' = started
           /\ ended' \in IF p = exe THEN {TRUE} ELSE BOOLEAN
  <2>1. /\ InGame /\ InGame' /\ exe' = exe
        /\ Players(peers)' = Players(peers) \ {p}
    BY <1>1, <1>4, <1>5, <1>9 DEF InGame, StayWith
  <2>2. (InGame /\ ended)' \in IF p = exe THEN {TRUE} ELSE BOOLEAN
    BY <1>9, <2>1
  <2>3. Shared!Leave(p)
    BY <1>1, <1>9, <2>1, <2>2, SameCount DEF Shared!Leave
  <2>4. QED
    BY <1>1, <2>3 DEF Shared!Next
<1>10. QED
  BY <1>6, <1>7, <1>8, <1>9 DEF LeaveGame

LEMMA SharedNext ==
    ASSUME ~Console, TypeOK, TypeOK', AfkNeverPlays, ExePresent', [Next]_vars
    PROVE  Shared!Next \/ UNCHANGED Shared!vars
<1>1. GameMove
  BY GameMoves
<1>2. CASE phase # "GAME" /\ phase' # "GAME"
  BY <1>2 DEF Shared!vars, InGame
<1>3. CASE /\ phase # "GAME" /\ phase' = "GAME"
           /\ Cardinality(Players(peers)') > 1 /\ ~started' /\ ~ended'
  <2>1. exe' \in Players(peers)' /\ Players(peers)' \subseteq Id
    BY <1>3 DEF ExePresent, TypeOK, Players
  <2>2. ~InGame /\ InGame'
    BY <1>3 DEF InGame
  <2>3. Shared!Begin
    BY <1>3, <2>1, <2>2, SameCount DEF Shared!Begin
  <2>4. QED
    BY <2>3 DEF Shared!Next
<1>4. CASE /\ phase = "GAME" /\ phase' = "GAME"
           /\ Players(peers)' = Players(peers) /\ exe' = exe
           /\ started => started'
           /\ ended => ended'
  <2>1. InGame /\ InGame'
    BY <1>4 DEF InGame
  <2>2. (InGame /\ started)' \in {InGame /\ started, TRUE}
    BY <1>4, <2>1 DEF TypeOK
  <2>3. (InGame /\ ended)' \in {InGame /\ ended, TRUE}
    BY <1>4, <2>1 DEF TypeOK
  <2>4. QED
    BY <1>4, <2>1, <2>2, <2>3 DEF Shared!Proceed, Shared!Next
<1>5. CASE \E p \in Players(peers) : LeaveGame(p)
  BY <1>5, SharedLeave
<1>6. CASE phase = "GAME" /\ started /\ ended /\ phase' # "GAME"
  BY <1>6, OutsideIs DEF Shared!Over, Shared!Next, InGame
<1>7. CASE phase = "GAME" /\ Ops /\ phase' # "GAME"
  BY <1>7, OutsideIs DEF Shared!Interrupt, Shared!Next, InGame
<1>8. QED
  BY <1>1, <1>2, <1>3, <1>4, <1>5, <1>6, <1>7 DEF GameMove

(* A match inside a lobby is one that Contest allows, as is Round's.       *)
THEOREM LobbyIsContest ==
    ASSUME ~Console
    PROVE  Spec => Shared!Spec
<1>1. Init => Shared!Init
  BY DEF Init, Shared!Init, InGame
<1>2. /\ TypeOK /\ TypeOK' /\ AfkNeverPlays /\ ExePresent' /\ [Next]_vars
      => [Shared!Next]_(Shared!vars)
  BY SharedNext
<1>3. QED
  BY <1>1, <1>2, TypeCorrect, NoAfkInMatch, ExeStays, PTL
     DEF Spec, Shared!Spec

----------------------------------------------------------------------------
(* Every behaviour of the lobby is one that its promise to the players     *)
(* allows, and a match of it one that Contest allows.                      *)
THEOREM LobbyKeepsPromise ==
    ASSUME ~Console
    PROVE  Spec => KeepsPromise
<1>1. /\ TypeOK /\ TypeOK' /\ ExePresent /\ ExePresent' /\ EnoughPlayers'
      /\ [Next]_vars
      => [Promise!Next]_(Promise!vars)
  BY PromiseNext
<1>2. QED
  BY <1>1, PromiseInit, TypeCorrect, ExeStays, MatchGoesOnWithTwo,
     LobbyIsContest, PTL
     DEF Spec, KeepsPromise, Promise!Spec

----------------------------------------------------------------------------
(* Why the phases end.                                                     *)

(* A tick of the countdown takes one second off, unless it is at zero.     *)
LEMMA SecondDown ==
    ASSUME NEW s \in Seconds, s # 0
    PROVE  (s + SecMod - 1) % SecMod = s - 1
<1>1. s + SecMod - 1 = SecMod + (s - 1) /\ s - 1 \in 0 .. (SecMod - 1)
  BY ParamsAssumption DEF Seconds
<1>2. QED
  BY <1>1, ParamsAssumption DEF Seconds

(* The map vote has a second to go at least, so its countdown reaches the  *)
(* end and never wraps, although the last voter cuts it to four seconds.   *)
VoteRuns == phase = "MAPVOTE" => sec \in 1 .. VoteSecs

LEMMA VoteRunsNext == TypeOK /\ VoteRuns /\ [Next]_vars => VoteRuns'
<1> SUFFICES ASSUME TypeOK, VoteRuns, [Next]_vars
             PROVE  VoteRuns'
  OBVIOUS
<1> USE ParamsAssumption DEF VoteRuns, TypeOK, LobbyInit, FreeGame, StayWith,
        CheckVotes, peerVars, gameVars
<1>1. ASSUME NEW p \in Id, Join(p) \/ SetReady(p) \/ IdleKick(p)
       PROVE  VoteRuns'
  BY <1>1 DEF Join, SetReady, IdleKick
<1>2. ASSUME NEW p \in Id, VoteMap(p)
       PROVE  VoteRuns'
  BY <1>2 DEF VoteMap
<1>3. ASSUME NEW p \in Id, ForceExe(p)
       PROVE  VoteRuns'
  BY <1>3 DEF ForceExe
<1>4. ASSUME NEW p \in Id, GamePacket(p)
       PROVE  VoteRuns'
  BY <1>4 DEF GamePacket
<1>5. ASSUME NEW p \in Id, ToggleAfk(p)
       PROVE  VoteRuns'
  BY <1>5 DEF ToggleAfk
<1>6. ASSUME NEW p \in Id, LeaveQuietly(p)
       PROVE  VoteRuns'
  BY <1>6 DEF LeaveQuietly, Unlist
<1>7. ASSUME NEW p \in Id, LeaveLobby(p)
       PROVE  VoteRuns'
  BY <1>7 DEF LeaveLobby, Unlist
<1>8. ASSUME NEW p \in Id, LeaveMapvote(p)
       PROVE  VoteRuns'
  BY <1>8 DEF LeaveMapvote, Unlist
<1>9. ASSUME NEW p \in Id, LeaveMapdraft(p)
       PROVE  VoteRuns'
  BY <1>9 DEF LeaveMapdraft, Unlist
<1>10. ASSUME NEW p \in Id, LeaveCharselect(p)
       PROVE  VoteRuns'
  BY <1>10 DEF LeaveCharselect, Unlist, CheckPicked, GameInit
<1>11. ASSUME NEW p \in Id, LeaveGame(p)
       PROVE  VoteRuns'
  BY <1>11 DEF LeaveGame, Unlist, CheckStart
<1>12. ASSUME NEW p \in Id, Pick(p)
       PROVE  VoteRuns'
  BY <1>12 DEF Pick, CheckPicked, GameInit
<1>13. CASE LobbyTick
  BY <1>13 DEF LobbyTick, MapdraftInit, MapdraftFinish, MapvoteInit,
         CharselectInit
<1>14. CASE MapvoteTick
  <2>1. CASE sec # 1
    <3>1. sec' = sec - 1
      BY <1>14, <2>1, SecondDown DEF MapvoteTick, SecondLess
    <3>2. QED
      BY <1>14, <2>1, <3>1 DEF MapvoteTick
  <2>2. CASE sec = 1
    BY <1>14, <2>2 DEF MapvoteTick, CharselectInit
  <2>3. QED
    BY <2>1, <2>2
<1>15. CASE StartMap
  BY <1>15 DEF StartMap, CharselectInit
<1>16. CASE ConsoleMap
  BY <1>16 DEF ConsoleMap, CharselectInit
<1>17. CASE CharselectTick
  BY <1>17 DEF CharselectTick
<1>18. CASE StartTimeout \/ TimeOver \/ EndTick \/ ResultsTick
  BY <1>18 DEF StartTimeout, TimeOver, EndTick, ResultsTick
<1>19. CASE DraftOver
  BY <1>19 DEF DraftOver, MapdraftFinish
<1>20. CASE ArmDraft \/ Return \/ ForceExeClear \/ ConsoleForceEnd
  BY <1>20 DEF ArmDraft, Return, ForceExeClear, ConsoleForceEnd
<1>21. CASE UNCHANGED vars
  BY <1>21 DEF vars
<1>22. QED
  BY <1>1, <1>2, <1>3, <1>4, <1>5, <1>6, <1>7, <1>8, <1>9, <1>10, <1>11,
     <1>12, <1>13, <1>14, <1>15, <1>16, <1>17, <1>18, <1>19, <1>20,
     <1>21
     DEF Next, PeerEvent, Leave, Tick, Command

(* The last player who had to pick does not pick or leave unchecked, unless *)
(* he is the exe and is disconnected for what he picked.                    *)
LEMMA NoLostSelectNext ==
    TypeOK /\ ExePresent /\ NoLostSelect /\ [Next]_vars => NoLostSelect'
<1> SUFFICES ASSUME TypeOK, ExePresent, NoLostSelect, [Next]_vars
             PROVE  NoLostSelect'
  OBVIOUS
<1> USE DEF NoLostSelect, TypeOK, Players, LobbyInit, FreeGame, StayWith,
        peerVars, gameVars
<1>1. ASSUME NEW p \in Id, Join(p) \/ SetReady(p) \/ IdleKick(p)
       PROVE  NoLostSelect'
  BY <1>1 DEF Join, SetReady, IdleKick
<1>2. ASSUME NEW p \in Id, VoteMap(p)
       PROVE  NoLostSelect'
  BY <1>2 DEF VoteMap
<1>3. ASSUME NEW p \in Id, ForceExe(p)
       PROVE  NoLostSelect'
  BY <1>3 DEF ForceExe
<1>4. ASSUME NEW p \in Id, GamePacket(p)
       PROVE  NoLostSelect'
  BY <1>4 DEF GamePacket
<1>5. ASSUME NEW p \in Id, ToggleAfk(p)
       PROVE  NoLostSelect'
  BY <1>5 DEF ToggleAfk
<1>6. ASSUME NEW p \in Id, LeaveQuietly(p)
       PROVE  NoLostSelect'
  BY <1>6 DEF LeaveQuietly, Unlist, ExePresent
<1>7. ASSUME NEW p \in Id, LeaveLobby(p)
       PROVE  NoLostSelect'
  BY <1>7 DEF LeaveLobby, Unlist
<1>8. ASSUME NEW p \in Id, LeaveMapvote(p)
       PROVE  NoLostSelect'
  BY <1>8 DEF LeaveMapvote, Unlist
<1>9. ASSUME NEW p \in Id, LeaveMapdraft(p)
       PROVE  NoLostSelect'
  BY <1>9 DEF LeaveMapdraft, Unlist
<1>10. ASSUME NEW p \in Id, LeaveCharselect(p)
       PROVE  NoLostSelect'
  BY <1>10 DEF LeaveCharselect, Unlist, CheckPicked, GameInit
<1>11. ASSUME NEW p \in Id, LeaveGame(p)
       PROVE  NoLostSelect'
  BY <1>11 DEF LeaveGame, Unlist, CheckStart
<1>12. ASSUME NEW p \in Id, Pick(p)
       PROVE  NoLostSelect'
  BY <1>12 DEF Pick, CheckPicked, GameInit
<1>13. CASE LobbyTick
  BY <1>13 DEF LobbyTick, MapdraftInit, MapdraftFinish, MapvoteInit,
         CharselectInit
<1>14. CASE MapvoteTick
  BY <1>14 DEF MapvoteTick, CharselectInit
<1>15. CASE StartMap
  BY <1>15 DEF StartMap, CharselectInit
<1>16. CASE ConsoleMap
  BY <1>16 DEF ConsoleMap, CharselectInit
<1>17. CASE CharselectTick
  BY <1>17 DEF CharselectTick
<1>18. CASE StartTimeout \/ TimeOver \/ EndTick \/ ResultsTick
  BY <1>18 DEF StartTimeout, TimeOver, EndTick, ResultsTick
<1>19. CASE DraftOver
  BY <1>19 DEF DraftOver, MapdraftFinish
<1>20. CASE ArmDraft \/ Return \/ ForceExeClear \/ ConsoleForceEnd
  BY <1>20 DEF ArmDraft, Return, ForceExeClear, ConsoleForceEnd
<1>21. CASE UNCHANGED vars
  BY <1>21 DEF vars
<1>22. QED
  BY <1>1, <1>2, <1>3, <1>4, <1>5, <1>6, <1>7, <1>8, <1>9, <1>10, <1>11,
     <1>12, <1>13, <1>14, <1>15, <1>16, <1>17, <1>18, <1>19, <1>20,
     <1>21
     DEF Next, PeerEvent, Leave, Tick, Command

(* What a step of a phase that goes on never takes back: seconds of the    *)
(* map vote, picks, packets that marked a peer loaded, the start and the   *)
(* end of a match, a peer's disconnection; and nobody becomes a player.    *)
Onward ==
    phase' = phase =>
        /\ phase = "LOBBY" \/ inGame' \subseteq inGame
        /\ phase = "MAPVOTE" => sec' <= sec
        /\ phase = "CHARSELECT" => (/\ kicked \cap peers' \subseteq kicked'
                                   /\ picked \cap peers' \subseteq picked')
        /\ phase = "GAME" => (/\ kicked \cap peers' \subseteq kicked'
                             /\ loaded \cap peers' \subseteq loaded'
                             /\ (started => started')
                             /\ (ended => ended'))

LEMMA OnwardNext ==
    ~Console /\ TypeOK /\ VoteRuns /\ [Next]_vars => Onward
<1> SUFFICES ASSUME ~Console, TypeOK, VoteRuns, [Next]_vars
             PROVE  Onward
  OBVIOUS
<1> USE ParamsAssumption DEF Onward, VoteRuns, TypeOK, Seconds, Players,
        LobbyInit, FreeGame, StayWith, CheckVotes, peerVars, gameVars
<1>1. ASSUME NEW p \in Id, Join(p) \/ SetReady(p) \/ IdleKick(p)
       PROVE  Onward
  BY <1>1 DEF Join, SetReady, IdleKick
<1>2. ASSUME NEW p \in Id, VoteMap(p)
       PROVE  Onward
  BY <1>2 DEF VoteMap
<1>3. ASSUME NEW p \in Id, ForceExe(p)
       PROVE  Onward
  BY <1>3 DEF ForceExe
<1>4. ASSUME NEW p \in Id, GamePacket(p)
       PROVE  Onward
  BY <1>4 DEF GamePacket
<1>5. ASSUME NEW p \in Id, ToggleAfk(p)
       PROVE  Onward
  BY <1>5 DEF ToggleAfk
<1>6. ASSUME NEW p \in Id, LeaveQuietly(p)
       PROVE  Onward
  BY <1>6 DEF LeaveQuietly, Unlist
<1>7. ASSUME NEW p \in Id, LeaveLobby(p)
       PROVE  Onward
  BY <1>7 DEF LeaveLobby, Unlist
<1>8. ASSUME NEW p \in Id, LeaveMapvote(p)
       PROVE  Onward
  BY <1>8 DEF LeaveMapvote, Unlist
<1>9. ASSUME NEW p \in Id, LeaveMapdraft(p)
       PROVE  Onward
  BY <1>9 DEF LeaveMapdraft, Unlist
<1>10. ASSUME NEW p \in Id, LeaveCharselect(p)
       PROVE  Onward
  BY <1>10 DEF LeaveCharselect, Unlist, CheckPicked, GameInit
<1>11. ASSUME NEW p \in Id, LeaveGame(p)
       PROVE  Onward
  BY <1>11 DEF LeaveGame, Unlist, CheckStart
<1>12. ASSUME NEW p \in Id, Pick(p)
       PROVE  Onward
  BY <1>12 DEF Pick, CheckPicked, GameInit
<1>13. CASE LobbyTick
  BY <1>13 DEF LobbyTick, MapdraftInit, MapdraftFinish, MapvoteInit,
         CharselectInit
<1>14. CASE MapvoteTick
  <2>1. CASE sec # 1
    <3>1. sec' = sec - 1
      BY <1>14, <2>1, SecondDown DEF MapvoteTick, SecondLess
    <3>2. QED
      BY <1>14, <2>1, <3>1 DEF MapvoteTick
  <2>2. CASE sec = 1
    BY <1>14, <2>2 DEF MapvoteTick, CharselectInit
  <2>3. QED
    BY <2>1, <2>2
<1>15. CASE StartMap
  BY <1>15 DEF StartMap, CharselectInit
<1>16. CASE ConsoleMap
  BY <1>16 DEF ConsoleMap, CharselectInit
<1>17. CASE CharselectTick
  BY <1>17 DEF CharselectTick
<1>18. CASE StartTimeout \/ TimeOver \/ EndTick \/ ResultsTick
  BY <1>18 DEF StartTimeout, TimeOver, EndTick, ResultsTick
<1>19. CASE DraftOver
  BY <1>19 DEF DraftOver, MapdraftFinish
<1>20. CASE ArmDraft \/ Return \/ ForceExeClear \/ ConsoleForceEnd
  BY <1>20 DEF ArmDraft, Return, ForceExeClear, ConsoleForceEnd
<1>21. CASE UNCHANGED vars
  BY <1>21 DEF vars
<1>22. QED
  BY <1>1, <1>2, <1>3, <1>4, <1>5, <1>6, <1>7, <1>8, <1>9, <1>10, <1>11,
     <1>12, <1>13, <1>14, <1>15, <1>16, <1>17, <1>18, <1>19, <1>20,
     <1>21
     DEF Next, PeerEvent, Leave, Tick, Command

(* The character select and the loading of a match always wait for some    *)
(* player, or for an exe who has been told to go: none of the two misses   *)
(* the last one it waited for.                                             *)
THEOREM NobodyAwaitedInVain == Spec => []SomebodyAwaited
<1>1. Init => NoLostSelect
  BY DEF Init, NoLostSelect
<1>2. QED
  BY <1>1, NoLostSelectNext, ExeStays, StartNotLost, TypeCorrect, PTL
     DEF Spec, SomebodyAwaited

(* Why the phases end: the map vote's countdown never wraps, and no step   *)
(* of a phase that goes on takes back what brings its end closer, as long  *)
(* as the host keeps away from the console's match commands.               *)
THEOREM PhasesMoveOn ==
    ASSUME ~Console
    PROVE  Spec => []VoteRuns /\ [][Onward]_vars
<1>1. Init => VoteRuns
  BY DEF Init, VoteRuns
<1>2. TypeOK /\ VoteRuns /\ [Next]_vars => Onward
  BY OnwardNext
<1>3. QED
  BY <1>1, <1>2, VoteRunsNext, TypeCorrect, PTL DEF Spec
=============================================================================
