---------------------------- MODULE RoundProofs ----------------------------
(***************************************************************************)
(* Proofs about Round, for every number of players, every length of the    *)
(* match and of its timers, with and without demonization; and about       *)
(* Ravine, which builds on it, for every number of shards, slots and slugs.*)
(***************************************************************************)
EXTENDS Ravine, FiniteSetTheorems, TLAPS

(* Nobody plays while no match is on, and a match has an exe.              *)
NobodyIn ==
    /\ stage = "LOBBY" => players = {} /\ ending = "none" /\ exe = NoPeer
    /\ stage = "GAME" => exe \in Peer

(* The two halves of the type invariant.                                   *)
TypeFlags == started \in BOOLEAN /\ sudden \in BOOLEAN

TypeData ==
    /\ stage \in {"LOBBY", "GAME"}
    /\ players \subseteq Peer
    /\ exe \in Peer \cup {NoPeer}
    /\ ending \in Endings
    /\ dead \subseteq players /\ demonized \subseteq players
    /\ escaped \subseteq players /\ revived \subseteq players
    /\ cantRevive \subseteq players
    /\ deathSec \in [Peer -> 0 .. DeathSecs]
    /\ timeSec \in 0 .. RoundSecs

LEMMA TypeHalves == TypeOK <=> TypeFlags /\ TypeData
  BY DEF TypeOK, TypeFlags, TypeData

(* game_demonize picks among the corpses it is called for.                 *)
LEMMA ChosenFrom ==
    ASSUME NEW D, NEW S \in Chosen(D)
    PROVE  S \subseteq D
  BY DEF Chosen

(* What a second does to the corpses: some are demonized, others lost.     *)
LEMMA SecondStep ==
    ASSUME Second
    PROVE  \/ \E D \in SUBSET (players \cap dead) :
                 \E S \in Chosen(D) : DemonizeAll(D, S)
           \/ UNCHANGED <<dead, demonized, cantRevive>>
<1>1. CASE SuddenDeath
  <2>1. \E S \in Chosen(players \cap dead) : DemonizeAll(players \cap dead, S)
    BY <1>1 DEF SuddenDeath
  <2>2. QED
    BY <2>1
<1>2. CASE LateCorpses
  <2> DEFINE D == {p \in players \cap dead : p \notin cantRevive /\ deathSec[p] > 0}
  <2>1. CASE timeSec' < SuddenSecs
    <3>1. \E S \in Chosen(D) : DemonizeAll(D, S)
      BY <1>2, <2>1 DEF LateCorpses
    <3>2. D \in SUBSET (players \cap dead)
      OBVIOUS
    <3>3. QED
      BY <3>1, <3>2
  <2>2. CASE ~(timeSec' < SuddenSecs)
    BY <1>2, <2>2 DEF LateCorpses
  <2>3. QED
    BY <2>1, <2>2
<1>3. QED
  BY <1>1, <1>2 DEF Second

(* The flags keep their type.                                              *)
LEMMA FlagsNext ==
    TypeFlags /\ [Next]_vars => TypeFlags'
<1> SUFFICES ASSUME TypeFlags, [Next]_vars PROVE TypeFlags'
  OBVIOUS
<1> USE DEF TypeFlags
<1>1. ASSUME NEW P \in SUBSET Peer, NEW x \in Peer, GameInit(P, x)
      PROVE  TypeFlags'
  BY <1>1 DEF GameInit, match, clock, flags
<1>2. CASE Start
  BY <1>2 DEF Start, match, clock, flags
<1>3. ASSUME NEW p \in Peer, Escape(p)
      PROVE  TypeFlags'
  BY <1>3 DEF Escape, Check, match, clock, flags
<1>4. ASSUME NEW p \in Peer, Die(p)
      PROVE  TypeFlags'
  BY <1>4 DEF Die, Check, match, clock, flags
<1>5. ASSUME NEW p \in Peer, Undie(p)
      PROVE  TypeFlags'
  BY <1>5 DEF Undie, Check, match, clock, flags
<1>6. ASSUME NEW p \in Peer, Revive(p)
      PROVE  TypeFlags'
  BY <1>6 DEF Revive, match, clock, flags
<1>7. ASSUME NEW p \in Peer, p \in players, LeaveEnded(p), Forget(p)
      PROVE  TypeFlags'
  BY <1>7 DEF LeaveEnded, Forget, match, clock, flags
<1>8. ASSUME NEW p \in Peer, p \in players, LeaveWaiting(p), Forget(p)
      PROVE  TypeFlags'
  BY <1>8 DEF LeaveWaiting, Forget, match, clock, flags
<1>9. ASSUME NEW p \in Peer, p \in players, LeaveStarted(p), Forget(p)
      PROVE  TypeFlags'
  BY <1>9 DEF LeaveStarted, Forget, Check, match, clock, flags
<1>10. ASSUME NEW p \in Peer, CalledOff(p)
      PROVE  TypeFlags'
  BY <1>10 DEF CalledOff, ToLobby, match, clock, flags
<1>11. CASE Second
  BY <1>11 DEF Second, SuddenDeath, LateCorpses, DemonizeAll, match, clock,
         flags
<1>12. ASSUME NEW p \in Peer, DeathSecond(p)
      PROVE  TypeFlags'
  BY <1>12 DEF DeathSecond, DemonizeAll, match, clock, flags
<1>13. CASE ForceEnd
  BY <1>13 DEF ForceEnd, match, clock, flags
<1>14. CASE EndTick
  BY <1>14 DEF EndTick, ToLobby, match, clock, flags
<1>15. CASE UNCHANGED vars
  BY <1>15 DEF vars, match, clock, flags
<1>16. QED
  BY <1>1, <1>2, <1>3, <1>4, <1>5, <1>6, <1>7, <1>8, <1>9, <1>10,
     <1>11, <1>12, <1>13, <1>14, <1>15
     DEF Next, Leave

(* No match without its players.                                           *)
LEMMA NobodyInNext ==
    NobodyIn /\ [Next]_vars => NobodyIn'
<1> SUFFICES ASSUME NobodyIn, [Next]_vars PROVE NobodyIn'
  OBVIOUS
<1> USE DEF NobodyIn
<1>1. ASSUME NEW P \in SUBSET Peer, NEW x \in Peer, GameInit(P, x)
      PROVE  NobodyIn'
  BY <1>1 DEF GameInit, match, clock, flags
<1>2. CASE Start
  BY <1>2 DEF Start, match, clock, flags
<1>3. ASSUME NEW p \in Peer, Escape(p)
      PROVE  NobodyIn'
  BY <1>3 DEF Escape, Check, match, clock, flags, Playing
<1>4. ASSUME NEW p \in Peer, Die(p)
      PROVE  NobodyIn'
  BY <1>4 DEF Die, Check, match, clock, flags, Playing
<1>5. ASSUME NEW p \in Peer, Undie(p)
      PROVE  NobodyIn'
  BY <1>5 DEF Undie, Check, match, clock, flags, Playing
<1>6. ASSUME NEW p \in Peer, Revive(p)
      PROVE  NobodyIn'
  BY <1>6 DEF Revive, match, clock, flags, Playing
<1>7. ASSUME NEW p \in Peer, p \in players, LeaveEnded(p), Forget(p)
      PROVE  NobodyIn'
  BY <1>7 DEF LeaveEnded, Forget, match, clock, flags
<1>8. ASSUME NEW p \in Peer, p \in players, LeaveWaiting(p), Forget(p)
      PROVE  NobodyIn'
  BY <1>8 DEF LeaveWaiting, Forget, match, clock, flags
<1>9. ASSUME NEW p \in Peer, p \in players, LeaveStarted(p), Forget(p)
      PROVE  NobodyIn'
  BY <1>9 DEF LeaveStarted, Forget, Check, match, clock, flags
<1>10. ASSUME NEW p \in Peer, CalledOff(p)
      PROVE  NobodyIn'
  BY <1>10 DEF CalledOff, ToLobby, match, clock, flags
<1>11. CASE Second
  BY <1>11 DEF Second, SuddenDeath, LateCorpses, DemonizeAll, match, clock,
         flags
<1>12. ASSUME NEW p \in Peer, DeathSecond(p)
      PROVE  NobodyIn'
  BY <1>12 DEF DeathSecond, DemonizeAll, match, clock, flags
<1>13. CASE ForceEnd
  BY <1>13 DEF ForceEnd, match, clock, flags
<1>14. CASE EndTick
  BY <1>14 DEF EndTick, ToLobby, match, clock, flags
<1>15. CASE UNCHANGED vars
  BY <1>15 DEF vars, match, clock, flags
<1>16. QED
  BY <1>1, <1>2, <1>3, <1>4, <1>5, <1>6, <1>7, <1>8, <1>9, <1>10,
     <1>11, <1>12, <1>13, <1>14, <1>15
     DEF Next, Leave

(* The rest keeps its type.                                                *)
LEMMA DataNext ==
    TypeData /\ NobodyIn /\ [Next]_vars => TypeData'
<1> SUFFICES ASSUME TypeData, NobodyIn, [Next]_vars PROVE TypeData'
  OBVIOUS
<1> USE DEF TypeData, NobodyIn, Endings
<1>1. ASSUME NEW P \in SUBSET Peer, NEW x \in Peer, GameInit(P, x)
      PROVE  TypeData'
  BY <1>1, RoundAssumption DEF GameInit, match, clock, flags
<1>2. CASE Start
  <2>1. timeSec' = RoundSecs
    BY <1>2 DEF Start
  <2>2. UNCHANGED <<stage, exe, players, ending, dead, demonized, escaped,
                    revived, cantRevive, deathSec>>
    BY <1>2 DEF Start, flags
  <2>3. QED
    BY <2>1, <2>2, RoundAssumption
<1>3. ASSUME NEW p \in Peer, Escape(p)
      PROVE  TypeData'
  BY <1>3, RoundAssumption DEF Escape, Check, match, clock, flags, Playing,
         Survivors
<1>4. ASSUME NEW p \in Peer, Die(p)
      PROVE  TypeData'
  BY <1>4, RoundAssumption, ChosenFrom DEF Die, Check, match, clock, flags,
         Survivors
<1>5. ASSUME NEW p \in Peer, Undie(p)
      PROVE  TypeData'
  BY <1>5, RoundAssumption DEF Undie, Check, match, clock, flags
<1>6. ASSUME NEW p \in Peer, Revive(p)
      PROVE  TypeData'
  BY <1>6, RoundAssumption DEF Revive, match, clock, flags
<1>7. ASSUME NEW p \in Peer, p \in players, LeaveEnded(p), Forget(p)
      PROVE  TypeData'
  BY <1>7, RoundAssumption DEF LeaveEnded, Forget, match, clock, flags
<1>8. ASSUME NEW p \in Peer, p \in players, LeaveWaiting(p), Forget(p)
      PROVE  TypeData'
  BY <1>8, RoundAssumption DEF LeaveWaiting, Forget, match, clock, flags
<1>9. ASSUME NEW p \in Peer, p \in players, LeaveStarted(p), Forget(p)
      PROVE  TypeData'
  BY <1>9, RoundAssumption DEF LeaveStarted, Forget, Check, match, clock, flags
<1>10. ASSUME NEW p \in Peer, CalledOff(p)
      PROVE  TypeData'
  BY <1>10, RoundAssumption DEF CalledOff, ToLobby, match, clock, flags
<1>11. CASE Second
  <2>1. /\ dead' \subseteq players /\ demonized' \subseteq players
        /\ cantRevive' \subseteq players
    BY <1>11, SecondStep, ChosenFrom DEF DemonizeAll
  <2>2. UNCHANGED <<stage, exe, players, escaped, revived, deathSec>>
    BY <1>11 DEF Second, match
  <2>3. timeSec' \in 0 .. RoundSecs /\ ending' \in Endings
    BY <1>11, RoundAssumption DEF Second
  <2>4. QED
    BY <2>1, <2>2, <2>3
<1>12. ASSUME NEW p \in Peer, DeathSecond(p)
      PROVE  TypeData'
  BY <1>12, RoundAssumption, ChosenFrom DEF DeathSecond, DemonizeAll, match,
         clock, flags
<1>13. CASE ForceEnd
  BY <1>13, RoundAssumption DEF ForceEnd, match, clock, flags
<1>14. CASE EndTick
  BY <1>14, RoundAssumption DEF EndTick, ToLobby, match, clock, flags
<1>15. CASE UNCHANGED vars
  BY <1>15, RoundAssumption DEF vars, match, clock, flags
<1>16. QED
  BY <1>1, <1>2, <1>3, <1>4, <1>5, <1>6, <1>7, <1>8, <1>9, <1>10,
     <1>11, <1>12, <1>13, <1>14, <1>15
     DEF Next, Leave

(* No step gives anybody a second fate.                                    *)
LEMMA OneFateNext ==
    TypeData /\ NobodyIn /\ OneFate /\ [Next]_vars => OneFate'
<1> SUFFICES ASSUME TypeData, NobodyIn, OneFate, [Next]_vars PROVE OneFate'
  OBVIOUS
<1> USE DEF TypeData, NobodyIn, OneFate
<1>1. ASSUME NEW P \in SUBSET Peer, NEW x \in Peer, GameInit(P, x)
      PROVE  OneFate'
  BY <1>1 DEF GameInit, match, clock, flags
<1>2. CASE Start
  BY <1>2 DEF Start, match, clock, flags
<1>3. ASSUME NEW p \in Peer, Escape(p)
      PROVE  OneFate'
  BY <1>3 DEF Escape, Check, match, clock, flags, Survivors
<1>4. ASSUME NEW p \in Peer, Die(p)
      PROVE  OneFate'
  BY <1>4, ChosenFrom DEF Die, Check, match, clock, flags, Survivors
<1>5. ASSUME NEW p \in Peer, Undie(p)
      PROVE  OneFate'
  BY <1>5 DEF Undie, Check, match, clock, flags
<1>6. ASSUME NEW p \in Peer, Revive(p)
      PROVE  OneFate'
  BY <1>6 DEF Revive, match, clock, flags
<1>7. ASSUME NEW p \in Peer, p \in players, LeaveEnded(p), Forget(p)
      PROVE  OneFate'
  BY <1>7 DEF LeaveEnded, Forget, match, clock, flags
<1>8. ASSUME NEW p \in Peer, p \in players, LeaveWaiting(p), Forget(p)
      PROVE  OneFate'
  BY <1>8 DEF LeaveWaiting, Forget, match, clock, flags
<1>9. ASSUME NEW p \in Peer, p \in players, LeaveStarted(p), Forget(p)
      PROVE  OneFate'
  BY <1>9 DEF LeaveStarted, Forget, Check, match, clock, flags
<1>10. ASSUME NEW p \in Peer, CalledOff(p)
      PROVE  OneFate'
  BY <1>10 DEF CalledOff, ToLobby, match, clock, flags
<1>11. CASE Second
  <2>1. UNCHANGED <<exe, escaped>>
    BY <1>11 DEF Second, match
  <2>2. /\ dead' \cap demonized' = {}
        /\ dead' \cup demonized' \subseteq dead \cup demonized
    BY <1>11, SecondStep, ChosenFrom DEF DemonizeAll
  <2>3. QED
    BY <2>1, <2>2
<1>12. ASSUME NEW p \in Peer, DeathSecond(p)
      PROVE  OneFate'
  BY <1>12, ChosenFrom DEF DeathSecond, DemonizeAll, match, clock, flags
<1>13. CASE ForceEnd
  BY <1>13 DEF ForceEnd, match, clock, flags
<1>14. CASE EndTick
  BY <1>14 DEF EndTick, ToLobby, match, clock, flags
<1>15. CASE UNCHANGED vars
  BY <1>15 DEF vars, match, clock, flags
<1>16. QED
  BY <1>1, <1>2, <1>3, <1>4, <1>5, <1>6, <1>7, <1>8, <1>9, <1>10,
     <1>11, <1>12, <1>13, <1>14, <1>15
     DEF Next, Leave

(* A corpse that waits has a running timer.                                *)
LEMMA NoLimboNext ==
    TypeData /\ NobodyIn /\ NoLimbo /\ [Next]_vars => NoLimbo'
<1> SUFFICES ASSUME TypeData, NobodyIn, NoLimbo, [Next]_vars PROVE NoLimbo'
  OBVIOUS
<1> USE RoundAssumption DEF TypeData, NobodyIn, NoLimbo
<1>1. ASSUME NEW P \in SUBSET Peer, NEW x \in Peer, GameInit(P, x)
      PROVE  NoLimbo'
  BY <1>1 DEF GameInit, match, clock, flags
<1>2. CASE Start
  BY <1>2 DEF Start, match, clock, flags
<1>3. ASSUME NEW p \in Peer, Escape(p)
      PROVE  NoLimbo'
  BY <1>3 DEF Escape, Check, match, clock, flags, Survivors
<1>4. ASSUME NEW p \in Peer, Die(p)
      PROVE  NoLimbo'
  BY <1>4, ChosenFrom DEF Die, Check, match, clock, flags, Survivors
<1>5. ASSUME NEW p \in Peer, Undie(p)
      PROVE  NoLimbo'
  BY <1>5 DEF Undie, Check, match, clock, flags
<1>6. ASSUME NEW p \in Peer, Revive(p)
      PROVE  NoLimbo'
  BY <1>6 DEF Revive, match, clock, flags
<1>7. ASSUME NEW p \in Peer, p \in players, LeaveEnded(p), Forget(p)
      PROVE  NoLimbo'
  BY <1>7 DEF LeaveEnded, Forget, match, clock, flags
<1>8. ASSUME NEW p \in Peer, p \in players, LeaveWaiting(p), Forget(p)
      PROVE  NoLimbo'
  BY <1>8 DEF LeaveWaiting, Forget, match, clock, flags
<1>9. ASSUME NEW p \in Peer, p \in players, LeaveStarted(p), Forget(p)
      PROVE  NoLimbo'
  BY <1>9 DEF LeaveStarted, Forget, Check, match, clock, flags
<1>10. ASSUME NEW p \in Peer, CalledOff(p)
      PROVE  NoLimbo'
  BY <1>10 DEF CalledOff, ToLobby, match, clock, flags
<1>11. CASE Second
  <2>1. UNCHANGED deathSec
    BY <1>11 DEF Second
  <2>2. dead' \ cantRevive' \subseteq dead \ cantRevive
    BY <1>11, SecondStep, ChosenFrom DEF DemonizeAll
  <2>3. QED
    BY <2>1, <2>2
<1>12. ASSUME NEW p \in Peer, DeathSecond(p)
      PROVE  NoLimbo'
  BY <1>12, ChosenFrom DEF DeathSecond, DemonizeAll, match, clock, flags
<1>13. CASE ForceEnd
  BY <1>13 DEF ForceEnd, match, clock, flags
<1>14. CASE EndTick
  BY <1>14 DEF EndTick, ToLobby, match, clock, flags
<1>15. CASE UNCHANGED vars
  BY <1>15 DEF vars, match, clock, flags
<1>16. QED
  BY <1>1, <1>2, <1>3, <1>4, <1>5, <1>6, <1>7, <1>8, <1>9, <1>10,
     <1>11, <1>12, <1>13, <1>14, <1>15
     DEF Next, Leave

(* A second death is final.                                                *)
LEMMA RevivedOnceNext ==
    TypeData /\ NobodyIn /\ RevivedOnce /\ [Next]_vars => RevivedOnce'
<1> SUFFICES ASSUME TypeData, NobodyIn, RevivedOnce, [Next]_vars PROVE RevivedOnce'
  OBVIOUS
<1> USE RoundAssumption DEF TypeData, NobodyIn, RevivedOnce
<1>1. ASSUME NEW P \in SUBSET Peer, NEW x \in Peer, GameInit(P, x)
      PROVE  RevivedOnce'
  BY <1>1 DEF GameInit, match, clock, flags
<1>2. CASE Start
  BY <1>2 DEF Start, match, clock, flags
<1>3. ASSUME NEW p \in Peer, Escape(p)
      PROVE  RevivedOnce'
  BY <1>3 DEF Escape, Check, match, clock, flags, Survivors
<1>4. ASSUME NEW p \in Peer, Die(p)
      PROVE  RevivedOnce'
  BY <1>4, ChosenFrom DEF Die, Check, match, clock, flags, Survivors
<1>5. ASSUME NEW p \in Peer, Undie(p)
      PROVE  RevivedOnce'
  BY <1>5 DEF Undie, Check, match, clock, flags
<1>6. ASSUME NEW p \in Peer, Revive(p)
      PROVE  RevivedOnce'
  BY <1>6 DEF Revive, match, clock, flags
<1>7. ASSUME NEW p \in Peer, p \in players, LeaveEnded(p), Forget(p)
      PROVE  RevivedOnce'
  BY <1>7 DEF LeaveEnded, Forget, match, clock, flags
<1>8. ASSUME NEW p \in Peer, p \in players, LeaveWaiting(p), Forget(p)
      PROVE  RevivedOnce'
  BY <1>8 DEF LeaveWaiting, Forget, match, clock, flags
<1>9. ASSUME NEW p \in Peer, p \in players, LeaveStarted(p), Forget(p)
      PROVE  RevivedOnce'
  BY <1>9 DEF LeaveStarted, Forget, Check, match, clock, flags
<1>10. ASSUME NEW p \in Peer, CalledOff(p)
      PROVE  RevivedOnce'
  BY <1>10 DEF CalledOff, ToLobby, match, clock, flags
<1>11. CASE Second
  <2>1. UNCHANGED revived
    BY <1>11 DEF Second
  <2>2. dead' \ cantRevive' \subseteq dead \ cantRevive
    BY <1>11, SecondStep, ChosenFrom DEF DemonizeAll
  <2>3. QED
    BY <2>1, <2>2
<1>12. ASSUME NEW p \in Peer, DeathSecond(p)
      PROVE  RevivedOnce'
  BY <1>12, ChosenFrom DEF DeathSecond, DemonizeAll, match, clock, flags
<1>13. CASE ForceEnd
  BY <1>13 DEF ForceEnd, match, clock, flags
<1>14. CASE EndTick
  BY <1>14 DEF EndTick, ToLobby, match, clock, flags
<1>15. CASE UNCHANGED vars
  BY <1>15 DEF vars, match, clock, flags
<1>16. QED
  BY <1>1, <1>2, <1>3, <1>4, <1>5, <1>6, <1>7, <1>8, <1>9, <1>10,
     <1>11, <1>12, <1>13, <1>14, <1>15
     DEF Next, Leave

(* As SuddenDecides, before the start as well.                             *)
SuddenAlways == ending = "none" /\ timeSec < SuddenSecs => dead \subseteq cantRevive

(* Sudden death leaves no corpse to wait.                                  *)
LEMMA SuddenNext ==
    TypeData /\ NobodyIn /\ NoLimbo /\ SuddenAlways /\ [Next]_vars => SuddenAlways'
<1> SUFFICES ASSUME TypeData, NobodyIn, NoLimbo, SuddenAlways, [Next]_vars PROVE SuddenAlways'
  OBVIOUS
<1> USE RoundAssumption DEF TypeData, NobodyIn, SuddenAlways
<1>1. ASSUME NEW P \in SUBSET Peer, NEW x \in Peer, GameInit(P, x)
      PROVE  SuddenAlways'
  BY <1>1 DEF GameInit, match, clock, flags
<1>2. CASE Start
  <2>1. timeSec' = RoundSecs /\ UNCHANGED <<dead, cantRevive, ending>>
    BY <1>2 DEF Start, flags
  <2>2. timeSec <= RoundSecs
    OBVIOUS
  <2>3. QED
    BY <2>1, <2>2
<1>3. ASSUME NEW p \in Peer, Escape(p)
      PROVE  SuddenAlways'
  BY <1>3 DEF Escape, Check, match, clock, flags, Survivors
<1>4. ASSUME NEW p \in Peer, Die(p)
      PROVE  SuddenAlways'
  BY <1>4, ChosenFrom DEF Die, Check, match, clock, flags, Survivors
<1>5. ASSUME NEW p \in Peer, Undie(p)
      PROVE  SuddenAlways'
  BY <1>5 DEF Undie, Check, match, clock, flags
<1>6. ASSUME NEW p \in Peer, Revive(p)
      PROVE  SuddenAlways'
  BY <1>6 DEF Revive, match, clock, flags
<1>7. ASSUME NEW p \in Peer, p \in players, LeaveEnded(p), Forget(p)
      PROVE  SuddenAlways'
  BY <1>7 DEF LeaveEnded, Forget, match, clock, flags
<1>8. ASSUME NEW p \in Peer, p \in players, LeaveWaiting(p), Forget(p)
      PROVE  SuddenAlways'
  BY <1>8 DEF LeaveWaiting, Forget, match, clock, flags
<1>9. ASSUME NEW p \in Peer, p \in players, LeaveStarted(p), Forget(p)
      PROVE  SuddenAlways'
  BY <1>9 DEF LeaveStarted, Forget, Check, match, clock, flags
<1>10. ASSUME NEW p \in Peer, CalledOff(p)
      PROVE  SuddenAlways'
  BY <1>10 DEF CalledOff, ToLobby, match, clock, flags
<1>11. CASE Second
  <2> SUFFICES ASSUME timeSec' < SuddenSecs PROVE dead' \subseteq cantRevive'
    OBVIOUS
  <2>1. timeSec' \in Int
    BY <1>11 DEF Second
  <2>2. CASE SuddenDeath
    <3>1. PICK S \in Chosen(players \cap dead) : DemonizeAll(players \cap dead, S)
      BY <2>2 DEF SuddenDeath
    <3>2. QED
      BY <3>1 DEF DemonizeAll
  <2>3. CASE LateCorpses
    <3> DEFINE D == {p \in players \cap dead : p \notin cantRevive /\ deathSec[p] > 0}
    <3>1. PICK S \in Chosen(D) : DemonizeAll(D, S)
      BY <2>3 DEF LateCorpses
    <3>2. dead \ cantRevive \subseteq D
      BY DEF NoLimbo
    <3> HIDE DEF D
    <3>3. QED
      BY <3>1, <3>2 DEF DemonizeAll
  <2>4. QED
    BY <1>11, <2>2, <2>3 DEF Second
<1>12. ASSUME NEW p \in Peer, DeathSecond(p)
      PROVE  SuddenAlways'
  BY <1>12, ChosenFrom DEF DeathSecond, DemonizeAll, match, clock, flags
<1>13. CASE ForceEnd
  BY <1>13 DEF ForceEnd, match, clock, flags
<1>14. CASE EndTick
  BY <1>14 DEF EndTick, ToLobby, match, clock, flags
<1>15. CASE UNCHANGED vars
  BY <1>15 DEF vars, match, clock, flags
<1>16. QED
  BY <1>1, <1>2, <1>3, <1>4, <1>5, <1>6, <1>7, <1>8, <1>9, <1>10,
     <1>11, <1>12, <1>13, <1>14, <1>15
     DEF Next, Leave

(* Without early players nobody is fated before the start.                 *)
Fresh == ~started => dead \cup demonized \cup escaped = {}

(* Nor by any step.                                                        *)
LEMMA FreshNext ==
    TypeData /\ NobodyIn /\ Fresh /\ ~Early /\ [Next]_vars => Fresh'
<1> SUFFICES ASSUME TypeData, NobodyIn, Fresh, ~Early, [Next]_vars PROVE Fresh'
  OBVIOUS
<1> USE DEF TypeData, NobodyIn, Fresh
<1>1. ASSUME NEW P \in SUBSET Peer, NEW x \in Peer, GameInit(P, x)
      PROVE  Fresh'
  BY <1>1 DEF GameInit, match, clock, flags
<1>2. CASE Start
  BY <1>2 DEF Start, match, clock, flags
<1>3. ASSUME NEW p \in Peer, Escape(p)
      PROVE  Fresh'
  BY <1>3 DEF Escape, Check, match, clock, flags, Playing
<1>4. ASSUME NEW p \in Peer, Die(p)
      PROVE  Fresh'
  BY <1>4 DEF Die, Check, match, clock, flags, Playing
<1>5. ASSUME NEW p \in Peer, Undie(p)
      PROVE  Fresh'
  BY <1>5 DEF Undie, Check, match, clock, flags, Playing
<1>6. ASSUME NEW p \in Peer, Revive(p)
      PROVE  Fresh'
  BY <1>6 DEF Revive, match, clock, flags, Playing
<1>7. ASSUME NEW p \in Peer, p \in players, LeaveEnded(p), Forget(p)
      PROVE  Fresh'
  BY <1>7 DEF LeaveEnded, Forget, match, clock, flags
<1>8. ASSUME NEW p \in Peer, p \in players, LeaveWaiting(p), Forget(p)
      PROVE  Fresh'
  BY <1>8 DEF LeaveWaiting, Forget, match, clock, flags
<1>9. ASSUME NEW p \in Peer, p \in players, LeaveStarted(p), Forget(p)
      PROVE  Fresh'
  BY <1>9 DEF LeaveStarted, Forget, Check, match, clock, flags
<1>10. ASSUME NEW p \in Peer, CalledOff(p)
      PROVE  Fresh'
  BY <1>10 DEF CalledOff, ToLobby, match, clock, flags
<1>11. CASE Second
  BY <1>11 DEF Second, SuddenDeath, LateCorpses, DemonizeAll, match, clock,
         flags
<1>12. ASSUME NEW p \in Peer, DeathSecond(p)
      PROVE  Fresh'
  BY <1>12 DEF DeathSecond, DemonizeAll, match, clock, flags
<1>13. CASE ForceEnd
  BY <1>13 DEF ForceEnd, match, clock, flags
<1>14. CASE EndTick
  BY <1>14 DEF EndTick, ToLobby, match, clock, flags
<1>15. CASE UNCHANGED vars
  BY <1>15 DEF vars, match, clock, flags
<1>16. QED
  BY <1>1, <1>2, <1>3, <1>4, <1>5, <1>6, <1>7, <1>8, <1>9, <1>10,
     <1>11, <1>12, <1>13, <1>14, <1>15
     DEF Next, Leave

(* A union is no larger than its parts together.                           *)
LEMMA UnionBound ==
    ASSUME NEW A, NEW B, IsFiniteSet(A), IsFiniteSet(B)
    PROVE  /\ IsFiniteSet(A \cup B)
           /\ Cardinality(A) \in Nat /\ Cardinality(B) \in Nat
           /\ Cardinality(A \cup B) \in Nat
           /\ Cardinality(A \cup B) <= Cardinality(A) + Cardinality(B)
<1>1. IsFiniteSet(A \cup B) /\ IsFiniteSet(A \cap B)
  BY FS_Union, FS_Subset
<1>2. /\ Cardinality(A) \in Nat /\ Cardinality(B) \in Nat
      /\ Cardinality(A \cup B) \in Nat /\ Cardinality(A \cap B) \in Nat
  BY <1>1, FS_CardinalityType
<1>3. Cardinality(A \cup B) = Cardinality(A) + Cardinality(B) - Cardinality(A \cap B)
  BY FS_Union
<1>4. QED
  BY <1>1, <1>2, <1>3

(* Counting: if those who are fated are fewer than the players, somebody   *)
(* plays on.                                                               *)
LEMMA Unfated ==
    ASSUME NEW P, IsFiniteSet(P), NEW D, NEW M, NEW E, ~AllFated(P, D, M, E)
    PROVE  (P \ {exe}) \ (D \cup M \cup E) # {}
<1> DEFINE X == P \cap {exe}
           L == P \cap (D \cup M)
           S == P \cap E
<1> SUFFICES ASSUME P = (X \cup L) \cup S PROVE FALSE
  OBVIOUS
<1>1. IsFiniteSet(X) /\ IsFiniteSet(L) /\ IsFiniteSet(S)
  BY FS_Subset
<1>2. /\ IsFiniteSet(X \cup L) /\ Cardinality(X \cup L) \in Nat
      /\ Cardinality(X) \in Nat /\ Cardinality(L) \in Nat
      /\ Cardinality(X \cup L) <= Cardinality(X) + Cardinality(L)
  BY <1>1, UnionBound
<1>3. /\ Cardinality(S) \in Nat
      /\ Cardinality((X \cup L) \cup S) <= Cardinality(X \cup L) + Cardinality(S)
  BY <1>1, <1>2, UnionBound
<1>4. Cardinality(P) \in Nat
  BY FS_CardinalityType
<1>6. Cardinality(P) - (Cardinality(X) + Cardinality(L) + Cardinality(S)) > 0
  BY <1>2, <1>3, <1>4 DEF AllFated
<1>7. Cardinality(P) <= Cardinality(X \cup L) + Cardinality(S)
  BY <1>3
<1>8. QED
  BY <1>2, <1>3, <1>4, <1>6, <1>7

(* The players, and what is left when one goes, are finitely many.         *)
LEMMA PlayersFinite ==
    ASSUME TypeData
    PROVE  /\ IsFiniteSet(players)
           /\ \A p : IsFiniteSet(players \ {p})
  BY RoundAssumption, FS_Subset DEF TypeData

(* Two players or more are the exe and somebody else.                      *)
LEMMA SomebodyElse ==
    ASSUME NEW P, IsFiniteSet(P), Cardinality(P) > 1, NEW x
    PROVE  P \ {x} # {}
<1> SUFFICES ASSUME P \subseteq {x} PROVE FALSE
  OBVIOUS
<1>1. Cardinality({x}) = 1 /\ IsFiniteSet({x})
  BY FS_Singleton
<1>2. Cardinality(P) <= 1 /\ Cardinality(P) \in Nat
  BY <1>1, FS_Subset, FS_CardinalityType
<1>3. QED
  BY <1>2

(* Whoever takes the last survivor out of play decides the match.          *)
LEMMA SomebodyNext ==
    TypeData /\ NobodyIn /\ OneFate /\ Fresh /\ SomebodyPlays /\ ~Early /\ [Next]_vars => SomebodyPlays'
<1> SUFFICES ASSUME TypeData, NobodyIn, OneFate, Fresh, SomebodyPlays, ~Early, [Next]_vars PROVE SomebodyPlays'
  OBVIOUS
<1> USE DEF TypeData, NobodyIn, SomebodyPlays, Alive, Survivors
<1>1. ASSUME NEW P \in SUBSET Peer, NEW x \in Peer, GameInit(P, x)
      PROVE  SomebodyPlays'
  <2>1. IsFiniteSet(P)
    BY RoundAssumption, FS_Subset
  <2>2. P \ {x} # {}
    BY <1>1, <2>1, SomebodyElse DEF GameInit
  <2>3. dead \cup demonized \cup escaped = {}
    BY <1>1 DEF GameInit
  <2>4. QED
    BY <1>1, <2>2, <2>3 DEF GameInit, flags
<1>2. CASE Start
  BY <1>2 DEF Start, match, clock, flags
<1>3. ASSUME NEW p \in Peer, Escape(p)
      PROVE  SomebodyPlays'
  <2>1. UNCHANGED <<stage, exe, players, dead, demonized>>
    BY <1>3 DEF Escape, match
  <2>2. ending' = "none" => ~AllFated(players, dead, demonized, escaped') /\ ending = "none"
    BY <1>3 DEF Escape, Check
  <2>3. QED
    BY <2>1, <2>2, Unfated, PlayersFinite
<1>4. ASSUME NEW p \in Peer, Die(p)
      PROVE  SomebodyPlays'
  <2>1. UNCHANGED <<stage, exe, players, escaped>>
    BY <1>4 DEF Die, match
  <2>2. ending' = "none" => ~AllFated(players, dead', demonized', escaped) /\ ending = "none"
    BY <1>4 DEF Die, Check
  <2>3. QED
    BY <2>1, <2>2, Unfated, PlayersFinite
<1>5. ASSUME NEW p \in Peer, Undie(p)
      PROVE  SomebodyPlays'
  <2>1. UNCHANGED <<stage, exe, players, demonized, escaped>> /\ ending = "none"
    BY <1>5 DEF Undie, match
  <2>2. dead' \subseteq dead
    BY <1>5 DEF Undie
  <2>3. QED
    BY <2>1, <2>2
<1>6. ASSUME NEW p \in Peer, Revive(p)
      PROVE  SomebodyPlays'
  BY <1>6 DEF Revive, match, clock, flags, Playing
<1>7. ASSUME NEW p \in Peer, p \in players, LeaveEnded(p), Forget(p)
      PROVE  SomebodyPlays'
  BY <1>7 DEF LeaveEnded, Forget, match, clock, flags
<1>8. ASSUME NEW p \in Peer, p \in players, LeaveWaiting(p), Forget(p)
      PROVE  SomebodyPlays'
  <2>1. UNCHANGED <<stage, exe>> /\ ending = "none"
    BY <1>8 DEF LeaveWaiting
  <2>2. players' = players \ {p} /\ p # exe /\ Cardinality(players \ {p}) > 1
    BY <1>8 DEF LeaveWaiting
  <2>3. (players \ {p}) \ {exe} # {}
    BY <2>2, SomebodyElse, PlayersFinite
  <2>4. dead' \cup demonized' \cup escaped' = {}
    BY <1>8 DEF Fresh, Forget, LeaveWaiting
  <2>5. QED
    BY <2>1, <2>2, <2>3, <2>4
<1>9. ASSUME NEW p \in Peer, p \in players, LeaveStarted(p), Forget(p)
      PROVE  SomebodyPlays'
  <2>1. UNCHANGED <<stage, exe>> /\ players' = players \ {p}
    BY <1>9 DEF LeaveStarted, match
  <2>2. /\ dead' = dead \ {p} /\ demonized' = demonized \ {p}
        /\ escaped' = escaped \ {p}
    BY <1>9 DEF Forget
  <2>3. ending' = "none" =>
           /\ ending = "none" /\ p # exe
           /\ ~AllFated(players \ {p}, dead, demonized, escaped)
    BY <1>9 DEF LeaveStarted, Check
  <2>4. ending' = "none" =>
           ((players \ {p}) \ {exe}) \ (dead \cup demonized \cup escaped) # {}
    BY <2>3, Unfated, PlayersFinite
  <2>5. QED
    BY <2>1, <2>2, <2>3, <2>4
<1>10. ASSUME NEW p \in Peer, CalledOff(p)
      PROVE  SomebodyPlays'
  BY <1>10 DEF CalledOff, ToLobby, match, clock, flags
<1>11. CASE Second
  <2>1. UNCHANGED <<stage, exe, players, escaped>> /\ ending = "none"
    BY <1>11 DEF Second, match
  <2>2. dead' \cup demonized' = dead \cup demonized
    BY <1>11, SecondStep, ChosenFrom DEF DemonizeAll, Second
  <2>3. QED
    BY <2>1, <2>2
<1>12. ASSUME NEW p \in Peer, DeathSecond(p)
      PROVE  SomebodyPlays'
  <2>1. UNCHANGED <<stage, exe, players, escaped>> /\ ending = "none"
    BY <1>12 DEF DeathSecond, match
  <2>2. dead' \cup demonized' = dead \cup demonized
    BY <1>12, ChosenFrom DEF DemonizeAll, DeathSecond
  <2>3. QED
    BY <2>1, <2>2
<1>13. CASE ForceEnd
  BY <1>13 DEF ForceEnd, match, clock, flags
<1>14. CASE EndTick
  BY <1>14 DEF EndTick, ToLobby, match, clock, flags
<1>15. CASE UNCHANGED vars
  BY <1>15 DEF vars, match, clock, flags
<1>16. QED
  BY <1>1, <1>2, <1>3, <1>4, <1>5, <1>6, <1>7, <1>8, <1>9, <1>10,
     <1>11, <1>12, <1>13, <1>14, <1>15
     DEF Next, Leave

(* The corpses that are demonized together fit under the half.             *)
LEMMA ChosenFits ==
    ASSUME TypeData, NEW D \in SUBSET players, NEW S \in Chosen(D), S # {}
    PROVE  2 * Cardinality(demonized \cup S) <= Cardinality(Survivors)
<1>1. /\ IsFiniteSet(S) /\ IsFiniteSet(D) /\ IsFiniteSet(Survivors)
      /\ IsFiniteSet(demonized) /\ players \cap demonized = demonized
  BY ChosenFrom, PlayersFinite, FS_Subset DEF TypeData, Survivors
<1>2. /\ Cardinality(S) \in Nat /\ Cardinality(D) \in Nat
      /\ Cardinality(demonized) \in Nat /\ Cardinality(Survivors) \in Nat
      /\ Cardinality(demonized \cup S) \in Nat
      /\ Cardinality(demonized \cup S) <= Cardinality(demonized) + Cardinality(S)
  BY <1>1, UnionBound, FS_CardinalityType
<1>3. Cardinality(S) # 0
  BY <1>1, FS_EmptySet
<1>4. Cardinality(players \cap demonized) = Cardinality(demonized)
  BY <1>1
<1> DEFINE half == Cardinality(Survivors) \div 2
<1>5. half \in Nat /\ 2 * half <= Cardinality(Survivors)
  BY <1>2
<1> HIDE DEF half
<1>6. Room = IF Demonize THEN half - Cardinality(demonized) ELSE 0
  BY <1>4 DEF Room, half
<1>7. Room \in Int
  BY <1>2, <1>5, <1>6
<1>8. Cardinality(S) <= Room
  BY <1>2, <1>3, <1>7 DEF Chosen
<1>9. Cardinality(S) <= half - Cardinality(demonized)
  BY <1>2, <1>3, <1>5, <1>6, <1>7, <1>8
<1>10. QED
  BY <1>2, <1>5, <1>9

(* The step of DemonsAreHalf.                                              *)
HalfKept ==
    demonized' \ demonized # {} => 2 * Cardinality(demonized') <= Cardinality(Survivors)

(* The cap on the demonized holds whenever somebody is.                    *)
LEMMA HalfNext ==
    TypeData /\ NobodyIn /\ [Next]_vars => HalfKept
<1> SUFFICES ASSUME TypeData, NobodyIn, [Next]_vars PROVE HalfKept
  OBVIOUS
<1> USE DEF TypeData, NobodyIn, HalfKept
<1>1. ASSUME NEW P \in SUBSET Peer, NEW x \in Peer, GameInit(P, x)
      PROVE  HalfKept
  BY <1>1 DEF GameInit, match, clock, flags
<1>2. CASE Start
  BY <1>2 DEF Start, match, clock, flags
<1>3. ASSUME NEW p \in Peer, Escape(p)
      PROVE  HalfKept
  BY <1>3 DEF Escape, Check, match, clock, flags
<1>4. ASSUME NEW p \in Peer, Die(p)
      PROVE  HalfKept
  <2>1. CASE \E S \in Chosen({p}) : demonized' = demonized \cup S
    <3>1. PICK S \in Chosen({p}) : demonized' = demonized \cup S
      BY <2>1
    <3>2. {p} \in SUBSET players
      BY <1>4 DEF Die, Survivors
    <3>3. CASE S = {}
      BY <3>1, <3>3
    <3>4. CASE S # {}
      BY <3>1, <3>2, <3>4, ChosenFits
    <3>5. QED
      BY <3>3, <3>4
  <2>2. CASE UNCHANGED demonized
    BY <2>2
  <2>3. QED
    BY <1>4, <2>1, <2>2 DEF Die
<1>5. ASSUME NEW p \in Peer, Undie(p)
      PROVE  HalfKept
  BY <1>5 DEF Undie, Check, match, clock, flags
<1>6. ASSUME NEW p \in Peer, Revive(p)
      PROVE  HalfKept
  BY <1>6 DEF Revive, match, clock, flags
<1>7. ASSUME NEW p \in Peer, p \in players, LeaveEnded(p), Forget(p)
      PROVE  HalfKept
  BY <1>7 DEF LeaveEnded, Forget, match, clock, flags
<1>8. ASSUME NEW p \in Peer, p \in players, LeaveWaiting(p), Forget(p)
      PROVE  HalfKept
  BY <1>8 DEF LeaveWaiting, Forget, match, clock, flags
<1>9. ASSUME NEW p \in Peer, p \in players, LeaveStarted(p), Forget(p)
      PROVE  HalfKept
  BY <1>9 DEF LeaveStarted, Forget, Check, match, clock, flags
<1>10. ASSUME NEW p \in Peer, CalledOff(p)
      PROVE  HalfKept
  BY <1>10 DEF CalledOff, ToLobby, match, clock, flags
<1>11. CASE Second
  <2>1. CASE \E D \in SUBSET (players \cap dead) : \E S \in Chosen(D) : DemonizeAll(D, S)
    <3> PICK D \in SUBSET (players \cap dead) : \E S \in Chosen(D) : DemonizeAll(D, S)
      BY <2>1
    <3>1. PICK S \in Chosen(D) : DemonizeAll(D, S)
      OBVIOUS
    <3>2. CASE S = {}
      BY <3>1, <3>2 DEF DemonizeAll
    <3>3. CASE S # {}
      BY <3>1, <3>3, ChosenFits DEF DemonizeAll
    <3>4. QED
      BY <3>2, <3>3
  <2>2. CASE UNCHANGED demonized
    BY <2>2
  <2>3. QED
    BY <1>11, <2>1, <2>2, SecondStep
<1>12. ASSUME NEW p \in Peer, DeathSecond(p)
      PROVE  HalfKept
  <2>1. CASE \E S \in Chosen({p}) : DemonizeAll({p}, S)
    <3>1. PICK S \in Chosen({p}) : DemonizeAll({p}, S)
      BY <2>1
    <3>2. {p} \in SUBSET players
      BY <1>12 DEF DeathSecond
    <3>3. CASE S = {}
      BY <3>1, <3>3 DEF DemonizeAll
    <3>4. CASE S # {}
      BY <3>1, <3>2, <3>4, ChosenFits DEF DemonizeAll
    <3>5. QED
      BY <3>3, <3>4
  <2>2. CASE UNCHANGED demonized
    BY <2>2
  <2>3. QED
    BY <1>12, <2>1, <2>2 DEF DeathSecond
<1>13. CASE ForceEnd
  BY <1>13 DEF ForceEnd, match, clock, flags
<1>14. CASE EndTick
  BY <1>14 DEF EndTick, ToLobby, match, clock, flags
<1>15. CASE UNCHANGED vars
  BY <1>15 DEF vars, match, clock, flags
<1>16. QED
  BY <1>1, <1>2, <1>3, <1>4, <1>5, <1>6, <1>7, <1>8, <1>9, <1>10,
     <1>11, <1>12, <1>13, <1>14, <1>15
     DEF Next, Leave

----------------------------------------------------------------------------
(* The parts of the inductive invariant that need no assumption.           *)
Safe ==
    /\ TypeData /\ NobodyIn
    /\ OneFate /\ NoLimbo /\ RevivedOnce /\ SuddenAlways

LEMMA SafeInit == Init => TypeFlags /\ Safe /\ SomebodyPlays
<1> SUFFICES ASSUME Init PROVE TypeFlags /\ Safe /\ SomebodyPlays
  OBVIOUS
<1>1. TypeFlags
  BY DEF Init, TypeFlags
<1>2. TypeData /\ NobodyIn /\ SomebodyPlays
  BY RoundAssumption DEF Init, TypeData, Endings, NobodyIn, SomebodyPlays
<1>3. OneFate /\ NoLimbo /\ RevivedOnce /\ SuddenAlways
  BY DEF Init, OneFate, NoLimbo, RevivedOnce, SuddenAlways
<1>4. QED
  BY <1>1, <1>2, <1>3 DEF Safe

LEMMA SafeNext == Safe /\ [Next]_vars => Safe'
  BY DataNext, NobodyInNext, OneFateNext, NoLimboNext, RevivedOnceNext,
     SuddenNext DEF Safe

LEMMA AlwaysSafe == Spec => [](TypeFlags /\ Safe)
<1>1. Init => TypeFlags /\ Safe
  BY SafeInit
<1>2. TypeFlags /\ Safe /\ [Next]_vars => (TypeFlags /\ Safe)'
  BY FlagsNext, SafeNext
<1>3. QED
  BY <1>1, <1>2, PTL DEF Spec

(* The state of a match keeps its type: neither timer runs below zero.     *)
THEOREM RoundTypeCorrect == Spec => []TypeOK
<1>1. TypeFlags /\ Safe => TypeOK
  BY TypeHalves DEF Safe
<1>2. QED
  BY <1>1, AlwaysSafe, PTL

(* Nobody has two fates, so game_state_check counts nobody twice.          *)
THEOREM FatesAreDisjoint == Spec => []OneFate
<1>1. TypeFlags /\ Safe => OneFate
  BY DEF Safe
<1>2. QED
  BY <1>1, AlwaysSafe, PTL

(* No corpse waits for ever: its timer runs.                               *)
THEOREM TimersRun == Spec => []NoLimbo
<1>1. TypeFlags /\ Safe => NoLimbo
  BY DEF Safe
<1>2. QED
  BY <1>1, AlwaysSafe, PTL

(* Nobody is revived twice.                                                *)
THEOREM NoThirdLife == Spec => []RevivedOnce
<1>1. TypeFlags /\ Safe => RevivedOnce
  BY DEF Safe
<1>2. QED
  BY <1>1, AlwaysSafe, PTL

(* In the last two minutes no corpse waits.                                *)
THEOREM SuddenDeathDecides == Spec => []SuddenDecides
<1>1. TypeFlags /\ Safe => SuddenDecides
  BY DEF Safe, SuddenAlways, SuddenDecides
<1>2. QED
  BY <1>1, AlwaysSafe, PTL

(* The array sorted at sudden death is large enough for the corpses.       *)
THEOREM CorpsesFit == Spec => []SortFits
<1>1. TypeFlags /\ Safe => SortFits
  <2> SUFFICES ASSUME Safe PROVE SortFits
    OBVIOUS
  <2>1. CASE dead = {}
    BY <2>1, FS_EmptySet, RoundAssumption DEF SortFits
  <2>2. CASE dead # {} /\ exe \in Peer
    <3>1. dead \subseteq Peer \ {exe}
      BY DEF Safe, OneFate, TypeData
    <3>2. /\ IsFiniteSet(Peer \ {exe})
          /\ Cardinality(Peer \ {exe}) = Cardinality(Peer) - 1
      BY <2>2, RoundAssumption, FS_RemoveElement
    <3>3. Cardinality(dead) <= Cardinality(Peer \ {exe})
      BY <3>1, <3>2, FS_Subset
    <3>4. Cardinality(Peer) \in Nat /\ Cardinality(dead) \in Nat
      BY <3>1, <3>2, RoundAssumption, FS_CardinalityType, FS_Subset
    <3>5. QED
      BY <3>2, <3>3, <3>4, RoundAssumption DEF SortFits
  <2>3. CASE stage = "LOBBY"
    BY <2>1, <2>3 DEF Safe, TypeData, NobodyIn
  <2>4. QED
    BY <2>1, <2>2, <2>3 DEF Safe, TypeData, NobodyIn
<1>2. QED
  BY <1>1, AlwaysSafe, PTL

(* Whenever somebody is demonized, half of the survivors at most are.      *)
THEOREM HalfAtMost == Spec => DemonsAreHalf
<1>1. TypeFlags /\ Safe /\ [Next]_vars =>
        [HalfKept]_vars
  BY HalfNext DEF Safe
<1>2. QED
  BY <1>1, AlwaysSafe, PTL DEF Spec, DemonsAreHalf, HalfKept

(* As long as nobody plays before the start, a match that is not decided   *)
(* has its exe and somebody who is up.                                     *)
THEOREM MatchGoesOn ==
    ASSUME ~Early
    PROVE  Spec => []SomebodyPlays
<1>1. Init => Fresh /\ SomebodyPlays
  BY SafeInit DEF Init, Fresh
<1>2. Safe /\ Fresh /\ SomebodyPlays /\ [Next]_vars => Fresh' /\ SomebodyPlays'
  BY FreshNext, SomebodyNext DEF Safe
<1>3. QED
  BY <1>1, <1>2, AlwaysSafe, PTL DEF Spec

----------------------------------------------------------------------------
(* A match keeps its promise.                                              *)

(* Counting, the other way: if the fates are disjoint and add up to all    *)
(* the players, nobody is left.                                            *)
LEMMA Fated ==
    ASSUME NEW P, IsFiniteSet(P), NEW D, NEW M, NEW E, AllFated(P, D, M, E),
           (D \cup M) \cap E = {}, exe \notin D \cup M \cup E
    PROVE  (P \ {exe}) \ (D \cup M \cup E) = {}
<1> DEFINE X == P \cap {exe}
           L == P \cap (D \cup M)
           S == P \cap E
           U == (X \cup L) \cup S
<1>1. IsFiniteSet(X) /\ IsFiniteSet(L) /\ IsFiniteSet(S)
  BY FS_Subset
<1>2. X \cap L = {} /\ (X \cup L) \cap S = {}
  OBVIOUS
<1>3. /\ IsFiniteSet(X \cup L)
      /\ Cardinality(X \cup L) = Cardinality(X) + Cardinality(L) - Cardinality(X \cap L)
  BY <1>1, FS_Union
<1>4. Cardinality(U) = Cardinality(X \cup L) + Cardinality(S) - Cardinality((X \cup L) \cap S)
  BY <1>1, <1>3, FS_Union
<1>5. /\ Cardinality(P) \in Nat /\ Cardinality(X) \in Nat
      /\ Cardinality(L) \in Nat /\ Cardinality(S) \in Nat
      /\ Cardinality({}) = 0
  BY <1>1, FS_CardinalityType, FS_EmptySet
<1>6. Cardinality(X \cap L) = 0 /\ Cardinality((X \cup L) \cap S) = 0
  BY <1>2, <1>5
<1>7. Cardinality(P) - (Cardinality(X) + Cardinality(L) + Cardinality(S)) <= 0
  BY DEF AllFated
<1>8. U \in SUBSET P
  OBVIOUS
<1>9. Cardinality(U) <= Cardinality(P) /\ (Cardinality(P) = Cardinality(U) => P = U)
  BY <1>8, FS_Subset
<1>10. Cardinality(U) = Cardinality(X) + Cardinality(L) + Cardinality(S)
  <2> HIDE DEF X, L, S, U
  <2>1. QED
    BY <1>3, <1>4, <1>5, <1>6
<1>11. P = U
  <2> HIDE DEF X, L, S, U
  <2>1. QED
    BY <1>5, <1>7, <1>9, <1>10
<1>12. QED
  BY <1>11

(* What is true of a match whose clients wait for the start.               *)
Fair == Safe /\ Fresh /\ SomebodyPlays

(* The verdict in the terms of Fates.                                      *)
LEMMA VerdictIs ==
    ASSUME TypeData
    PROVE  /\ ending = "none" <=> Verdict = "open"
           /\ ending = "EXEWIN" => Verdict = "hunter"
           /\ ending = "SURVWIN" => Verdict = "survivors"
           /\ ending = "TIMEOVER" => Verdict = "nobody"
  BY DEF TypeData, Endings, Verdict

LEMMA VerdictWillBe ==
    ASSUME TypeData'
    PROVE  /\ ending' = "none" <=> Verdict' = "open"
           /\ ending' = "EXEWIN" => Verdict' = "hunter"
           /\ ending' = "SURVWIN" => Verdict' = "survivors"
           /\ ending' = "TIMEOVER" => Verdict' = "nobody"
  BY DEF TypeData, Endings, Verdict

(* A handler that ends with game_state_check decides as Fates demands.     *)
LEMMA Decided ==
    ASSUME Fair', exe' = exe, ending = "none",
           Check(players', dead', demonized', escaped')
    PROVE  Promise!Decide
<1> USE DEF Fair, Safe
<1>1. IsFiniteSet(players')
  BY RoundAssumption, FS_Subset DEF TypeData
<1>2. /\ (dead' \cup demonized') \cap escaped' = {}
      /\ exe \notin dead' \cup demonized' \cup escaped'
  BY DEF OneFate
<1>3. AllFated(players', dead', demonized', escaped') <=> Alive' = {}
  BY <1>1, <1>2, Fated, Unfated DEF Alive, Survivors
<1>4. players' \cap escaped' = escaped'
  BY DEF TypeData
<1>5. ending' = IF Alive' = {}
                THEN IF escaped' # {} THEN "SURVWIN" ELSE "EXEWIN"
                ELSE "none"
  BY <1>3, <1>4 DEF Check
<1>6. QED
  BY <1>5, VerdictWillBe DEF Promise!Decide

(* One that leaves the match undecided is allowed to.                      *)
LEMMA Undecided ==
    ASSUME Fair', stage' = "GAME", ending' = "none"
    PROVE  Promise!Decide
  BY VerdictWillBe DEF Fair, Safe, SomebodyPlays, Promise!Decide

(* A step of an undecided match is a play if nobody's final fate changes.  *)
LEMMA IsPlay ==
    ASSUME Fair, stage = "GAME", ending = "none", exe' = exe,
           Alive' \subseteq Alive \cup dead,
           dead' \subseteq Alive \cup dead,
           demonized' \subseteq Alive \cup dead \cup demonized,
           escaped' \subseteq Alive \cup escaped,
           Promise!Decide
    PROVE  Promise!Play
<1>1. exe # NoPeer /\ Verdict = "open"
  BY RoundAssumption, VerdictIs DEF Fair, Safe, NobodyIn
<1>2. QED
  BY <1>1 DEF Promise!Play

(* Every step of a match is one Fates allows.                              *)
LEMMA RoundStep ==
    ~Early /\ Fair /\ Fair' /\ [Next]_vars => [Promise!Next]_(Promise!vars)
<1> SUFFICES ASSUME ~Early, Fair, Fair', [Next]_vars
             PROVE  Promise!Next \/ UNCHANGED Promise!vars
  OBVIOUS
<1>0. TypeData /\ TypeData' /\ NobodyIn /\ OneFate /\ OneFate'
  BY DEF Fair, Safe
<1>x. stage = "GAME" => exe # NoPeer
  BY <1>0, RoundAssumption DEF NobodyIn
<1> USE DEF Alive, Survivors
<1>1. ASSUME NEW P \in SUBSET Peer, NEW x \in Peer, GameInit(P, x)
      PROVE  Promise!Begin
  <2>1. players = {} /\ ending = "none" /\ exe = NoPeer
    BY <1>0, <1>1 DEF GameInit, NobodyIn
  <2>2. dead = {} /\ demonized = {} /\ escaped = {}
    BY <1>0, <2>1 DEF TypeData
  <2>3. /\ UNCHANGED <<ending, dead, demonized, escaped>>
        /\ players' = P /\ exe' = x /\ x \in P
    BY <1>1 DEF GameInit, flags
  <2>4. IsFiniteSet(P)
    BY RoundAssumption, FS_Subset
  <2>5. P \ {x} # {}
    BY <1>1, <2>4, SomebodyElse DEF GameInit
  <2>6. Alive = {} /\ Alive' = P \ {x}
    BY <2>1, <2>2, <2>3
  <2>7. Verdict = "open" /\ Verdict' = "open"
    BY <1>0, <2>1, <2>3, VerdictIs, VerdictWillBe
  <2>8. QED
    BY <2>1, <2>2, <2>3, <2>5, <2>6, <2>7 DEF Promise!Begin, Promise!Idle
<1>2. CASE Start
  BY <1>2 DEF Start, flags, Verdict, Promise!vars
<1>3. ASSUME NEW p \in Peer, Escape(p)
      PROVE  Promise!Play \/ Promise!Leave
  <2>1. /\ UNCHANGED <<stage, exe, players, dead, demonized>>
        /\ escaped' = escaped \cup {p} /\ p \in Alive /\ stage = "GAME"
    BY <1>3 DEF Escape, match, Playing
  <2>2. Check(players', dead', demonized', escaped')
    BY <1>3, <2>1 DEF Escape
  <2>3. CASE ending = "none"
    BY <2>1, <2>2, <2>3, Decided, IsPlay
  <2>4. CASE ending # "none"
    <3>1. ending' = ending
      BY <2>2, <2>4 DEF Check
    <3>2. Verdict' = Verdict /\ Verdict # "open"
      BY <1>0, <2>4, <3>1, VerdictIs DEF Verdict
    <3>3. QED
      BY <2>1, <3>2 DEF Promise!Leave
  <2>5. QED
    BY <2>3, <2>4
<1>4. ASSUME NEW p \in Peer, Die(p)
      PROVE  Promise!Play
  <2>1. /\ UNCHANGED <<stage, exe, players, escaped>>
        /\ p \in Alive /\ stage = "GAME" /\ ending = "none"
    BY <1>4 DEF Die, match, Playing
  <2>2. dead' \subseteq dead \cup {p} /\ demonized' \subseteq demonized \cup {p}
    BY <1>4, ChosenFrom DEF Die
  <2>3. dead \subseteq dead' /\ demonized \subseteq demonized'
    BY <1>4 DEF Die
  <2>4. Check(players', dead', demonized', escaped')
    BY <1>4, <2>1 DEF Die
  <2>5. QED
    BY <2>1, <2>2, <2>3, <2>4, Decided, IsPlay
<1>5. ASSUME NEW p \in Peer, Undie(p)
      PROVE  Promise!Play
  <2>1. /\ UNCHANGED <<stage, exe, players, demonized, escaped>>
        /\ dead' = dead \ {p} /\ stage = "GAME" /\ ending = "none"
    BY <1>5 DEF Undie, match, Playing
  <2>2. Check(players', dead', demonized', escaped')
    BY <1>5, <2>1 DEF Undie
  <2>3. QED
    BY <2>1, <2>2, Decided, IsPlay
<1>6. ASSUME NEW p \in Peer, Revive(p)
      PROVE  Promise!Play
  <2>1. /\ UNCHANGED <<stage, exe, players, ending, demonized, escaped>>
        /\ stage = "GAME" /\ ending = "none" /\ dead' \subseteq dead
    BY <1>6 DEF Revive, match, Playing
  <2>2. QED
    BY <2>1, Undecided, IsPlay
<1>7. ASSUME NEW p \in Peer, stage = "GAME", p \in players, LeaveEnded(p), Forget(p)
      PROVE  Promise!Leave
  <2>1. /\ UNCHANGED <<exe, ending>> /\ players' = players \ {p} /\ ending # "none"
    BY <1>7 DEF LeaveEnded, match
  <2>2. /\ dead' = dead \ {p} /\ demonized' = demonized \ {p}
        /\ escaped' = escaped \ {p}
    BY <1>7 DEF Forget
  <2>3. Verdict' = Verdict /\ Verdict # "open"
    BY <1>0, <2>1, VerdictIs DEF Verdict
  <2>4. QED
    BY <2>1, <2>2, <2>3 DEF Promise!Leave
<1>8. ASSUME NEW p \in Peer, stage = "GAME", p \in players, LeaveWaiting(p), Forget(p)
      PROVE  Promise!Play
  <2>1. /\ UNCHANGED <<stage, exe, ending>> /\ players' = players \ {p}
        /\ ending = "none"
    BY <1>8 DEF LeaveWaiting
  <2>2. /\ dead' = dead \ {p} /\ demonized' = demonized \ {p}
        /\ escaped' = escaped \ {p}
    BY <1>8 DEF Forget
  <2>3. QED
    BY <1>8, <2>1, <2>2, Undecided, IsPlay
<1>9. ASSUME NEW p \in Peer, stage = "GAME", p \in players, LeaveStarted(p), Forget(p)
      PROVE  Promise!Play \/ Promise!Flee
  <2>1. /\ UNCHANGED <<stage, exe>> /\ players' = players \ {p}
        /\ ending = "none"
    BY <1>9 DEF LeaveStarted, match
  <2>2. /\ dead' = dead \ {p} /\ demonized' = demonized \ {p}
        /\ escaped' = escaped \ {p}
    BY <1>9 DEF Forget
  <2>3. CASE p = exe /\ ending' = "SURVWIN"
    <3>1. Verdict = "open" /\ Verdict' = "survivors"
      BY <1>0, <2>1, <2>3, VerdictIs, VerdictWillBe
    <3>2. UNCHANGED <<dead, demonized, escaped>>
      BY <1>0, <2>2, <2>3 DEF OneFate
    <3>3. Alive' = Alive
      BY <2>1, <2>3, <3>2
    <3>4. QED
      BY <1>9, <1>x, <2>1, <3>1, <3>2, <3>3 DEF Promise!Flee
  <2>4. CASE p # exe /\ Check(players \ {p}, dead, demonized, escaped)
    <3>1. /\ players' \cap (dead' \cup demonized') = players' \cap (dead \cup demonized)
          /\ players' \cap escaped' = players' \cap escaped
      BY <2>1, <2>2
    <3>2. Check(players', dead', demonized', escaped')
      BY <2>1, <2>4, <3>1 DEF Check, AllFated
    <3>3. Alive' \subseteq Alive
      BY <2>1, <2>2
    <3>4. QED
      BY <1>9, <2>1, <2>2, <3>2, <3>3, Decided, IsPlay
  <2>5. QED
    BY <1>9, <2>3, <2>4 DEF LeaveStarted
<1>10. ASSUME stage = "GAME", ToLobby
      PROVE  Promise!End
  <2>1. /\ exe' = NoPeer /\ ending' = "none" /\ players' = {}
        /\ dead' = {} /\ demonized' = {} /\ escaped' = {}
    BY <1>10 DEF ToLobby
  <2>2. Verdict' = "open" /\ Alive' = {}
    BY <1>0, <2>1, VerdictWillBe
  <2>3. QED
    BY <1>10, <1>x, <2>1, <2>2 DEF Promise!End
<1>11. ASSUME Second
       PROVE  Promise!Play \/ Promise!Stop
  <2>1. /\ UNCHANGED <<stage, exe, players, escaped>>
        /\ stage = "GAME" /\ ending = "none"
    BY <1>11 DEF Second, match
  <2>2. dead' \subseteq dead /\ demonized' = demonized \cup (dead \ dead')
    BY <1>11, SecondStep, ChosenFrom DEF DemonizeAll
  <2>3. Alive' = Alive
    BY <2>1, <2>2
  <2> HIDE DEF Alive
  <2>4. CASE ending' = "none"
    <3>1. Promise!Decide
      BY <2>1, <2>4, Undecided
    <3>2. demonized' \subseteq Alive \cup dead \cup demonized
      BY <2>2
    <3>3. QED
      BY <2>1, <2>2, <2>3, <3>1, <3>2, IsPlay
  <2>5. CASE ending' = "TIMEOVER"
    <3>1. Verdict = "open" /\ Verdict' = "nobody"
      BY <1>0, <2>1, <2>5, VerdictIs, VerdictWillBe
    <3>2. Alive # {}
      BY <2>1 DEF Fair, SomebodyPlays
    <3>3. QED
      BY <1>x, <2>1, <2>2, <2>3, <3>1, <3>2, Zenon DEF Promise!Stop
  <2>6. ending' = "none" \/ ending' = "TIMEOVER"
    BY <1>11 DEF Second
  <2>7. QED
    BY <2>4, <2>5, <2>6
<1>12. ASSUME NEW p \in Peer, DeathSecond(p)
      PROVE  Promise!Play
  <2>1. /\ UNCHANGED <<stage, exe, players, escaped, ending>>
        /\ stage = "GAME" /\ ending = "none"
    BY <1>12 DEF DeathSecond, match
  <2>2. dead' \subseteq dead /\ demonized' = demonized \cup (dead \ dead')
    BY <1>12, ChosenFrom DEF DeathSecond, DemonizeAll
  <2>3. Alive' = Alive
    BY <2>1, <2>2
  <2>4. QED
    BY <2>1, <2>2, <2>3, Undecided, IsPlay
<1>13. ASSUME ForceEnd
       PROVE  Promise!Stop
  <2>1. /\ UNCHANGED <<exe, players, dead, demonized, escaped>>
        /\ stage = "GAME" /\ ending = "none" /\ Forced
        /\ ending' \in {"EXEWIN", "SURVWIN"}
    BY <1>13 DEF ForceEnd, match, flags
  <2>2. Verdict = "open" /\ Verdict' \in {"hunter", "survivors"}
    BY <1>0, <2>1, VerdictIs, VerdictWillBe
  <2>3. Alive # {} /\ Alive' = Alive
    BY <2>1 DEF Fair, SomebodyPlays
  <2>4. QED
    <3> HIDE DEF Alive
    <3>1. Alive # {} /\ Alive' = Alive /\ UNCHANGED <<dead, demonized, escaped>>
      BY <2>1, <2>3
    <3>2. demonized' = demonized \cup (dead \ dead') /\ dead' \subseteq dead
      BY <3>1
    <3>3. QED
      BY <1>x, <2>1, <2>2, <3>1, <3>2, Zenon DEF Promise!Stop
<1>14. CASE UNCHANGED vars
  BY <1>14 DEF vars, match, flags, Verdict, Promise!vars
<1>15. QED
  BY <1>1, <1>2, <1>3, <1>4, <1>5, <1>6, <1>7, <1>8, <1>9, <1>10, <1>11,
     <1>12, <1>13, <1>14 DEF Next, Leave, CalledOff, EndTick, Promise!Next

(* Only a match that is on has started.                                    *)
StartedInGame == started => stage = "GAME"

LEMMA StartedNext == Safe /\ StartedInGame /\ [Next]_vars => StartedInGame'
<1> SUFFICES ASSUME StartedInGame, [Next]_vars PROVE StartedInGame'
  OBVIOUS
<1> USE DEF StartedInGame, match
<1>1. CASE \E P \in SUBSET Peer, x \in Peer : GameInit(P, x)
  BY <1>1 DEF GameInit
<1>2. CASE Start \/ Second \/ ForceEnd \/ EndTick
  BY <1>2 DEF Start, Second, ForceEnd, EndTick, ToLobby
<1>3. ASSUME NEW p \in Peer, Escape(p) \/ Die(p) \/ Undie(p) \/ Revive(p)
      PROVE  StartedInGame'
  BY <1>3 DEF Escape, Die, Undie, Revive
<1>4. ASSUME NEW p \in Peer, Leave(p) \/ DeathSecond(p)
      PROVE  StartedInGame'
  BY <1>4 DEF Leave, LeaveEnded, LeaveWaiting, LeaveStarted, CalledOff,
         ToLobby, DeathSecond
<1>5. CASE UNCHANGED vars
  BY <1>5 DEF vars
<1>6. QED
  BY <1>1, <1>2, <1>3, <1>4, <1>5 DEF Next

(* Contest counts as Round does.                                           *)
LEMMA SameCount == \A S : Shared!Cardinality(S) = Cardinality(S)
  BY DEF Shared!Cardinality, Cardinality

(* The lobby's side of a match: who may leave it and what that does is     *)
(* what Contest says.                                                      *)
LEMMA SharedStep ==
    TypeFlags /\ TypeFlags' /\ Safe /\ StartedInGame /\ [Next]_vars
    => [Shared!Next]_(Shared!vars)
<1> SUFFICES ASSUME TypeFlags, TypeFlags', Safe, StartedInGame, [Next]_vars
             PROVE  Shared!Next \/ UNCHANGED Shared!vars
  OBVIOUS
<1>0. TypeData /\ NobodyIn
  BY DEF Safe
<1>1. ASSUME stage = "GAME", stage' = "GAME", players' = players, exe' = exe,
             started => started', ending # "none" => ending' # "none"
      PROVE  Shared!Proceed
  <2>1. started' \in {started, TRUE}
    BY <1>1 DEF TypeFlags
  <2>2. (ending # "none")' \in {ending # "none", TRUE}
    BY <1>1
  <2>3. QED
    BY <1>1, <2>1, <2>2 DEF Shared!Proceed
<1>2. ASSUME stage = "GAME", UNCHANGED match, UNCHANGED players,
             ending # "none" => ending' # "none"
      PROVE  Shared!Next
  BY <1>1, <1>2 DEF match, Shared!Next
<1>3. ASSUME NEW P \in SUBSET Peer, NEW x \in Peer, GameInit(P, x)
      PROVE  Shared!Begin
  <2>1. /\ stage = "LOBBY" /\ stage' = "GAME" /\ ending = "none"
        /\ players' = P /\ exe' = x /\ x \in P /\ Cardinality(P) > 1
        /\ UNCHANGED <<started, ending>>
    BY <1>0, <1>3 DEF GameInit, NobodyIn
  <2>2. started' = FALSE /\ ending' = "none"
    BY <2>1 DEF StartedInGame, TypeFlags
  <2>3. P \subseteq Peer
    OBVIOUS
  <2>4. QED
    BY <2>1, <2>2, <2>3, SameCount DEF Shared!Begin
<1>4. CASE Start
  BY <1>1, <1>4 DEF Start, Shared!Next
<1>5. ASSUME NEW p \in Peer, Escape(p) \/ Die(p) \/ Undie(p) \/ Revive(p)
      PROVE  Shared!Next
  BY <1>2, <1>5 DEF Escape, Die, Undie, Revive, Check, Playing
<1>6. ASSUME NEW p \in Peer, stage = "GAME", p \in players, LeaveEnded(p)
      PROVE  Shared!Leave(p)
  BY <1>6 DEF LeaveEnded, match, Shared!Leave
<1>7. ASSUME NEW p \in Peer, stage = "GAME", p \in players, LeaveWaiting(p)
      PROVE  Shared!Leave(p)
  <2>1. /\ ending = "none" /\ ending' = "none" /\ ~started
        /\ p # exe /\ Cardinality(players \ {p}) > 1
        /\ players' = players \ {p} /\ exe' = exe /\ stage' = stage
        /\ started' \in BOOLEAN
    BY <1>7 DEF LeaveWaiting
  <2>2. QED
    BY <1>7, <2>1, SameCount DEF Shared!Leave
<1>8. ASSUME NEW p \in Peer, stage = "GAME", p \in players, LeaveStarted(p)
      PROVE  Shared!Leave(p)
  <2>1. /\ ending = "none" /\ started
        /\ Cardinality(players \ {p}) > 1
        /\ players' = players \ {p} /\ UNCHANGED <<exe, stage, started>>
        /\ p = exe => ending' # "none"
    BY <1>8 DEF LeaveStarted, match
  <2>2. (ending # "none")' \in IF p = exe THEN {TRUE} ELSE BOOLEAN
    BY <2>1
  <2>3. QED
    BY <1>8, <2>1, <2>2, SameCount DEF Shared!Leave
<1>9. ASSUME NEW p \in Peer, stage = "GAME", p \in players, CalledOff(p)
      PROVE  Shared!CallOff(p)
  BY <1>9, SameCount DEF CalledOff, ToLobby, Shared!CallOff, Shared!Off
<1>10. ASSUME NEW p \in Peer, Leave(p)
       PROVE  Shared!Next
  BY <1>6, <1>7, <1>8, <1>9, <1>10 DEF Leave, Shared!Next
<1>11. CASE Second
  BY <1>2, <1>11 DEF Second
<1>12. ASSUME NEW p \in Peer, DeathSecond(p)
       PROVE  Shared!Next
  BY <1>2, <1>12 DEF DeathSecond
<1>13. CASE ForceEnd
  BY <1>2, <1>13 DEF ForceEnd
<1>14. CASE EndTick
  BY <1>14 DEF EndTick, ToLobby, Shared!Next, Shared!Over, Shared!Off
<1>15. CASE UNCHANGED vars
  BY <1>15 DEF vars, match, Shared!vars
<1>16. QED
  BY <1>3, <1>4, <1>5, <1>10, <1>11, <1>12, <1>13, <1>14, <1>15
     DEF Next, Shared!Next

(* Whatever clients do, also before the start: the match that Round        *)
(* describes is one that Contest allows, as is the match inside a lobby.   *)
THEOREM RoundIsContest == Spec => Shared!Spec
<1>1. Init => Shared!Init /\ StartedInGame
  BY DEF Init, StartedInGame, Shared!Init
<1>2. QED
  BY <1>1, SharedStep, StartedNext, AlwaysSafe, PTL DEF Spec, Shared!Spec

(* As long as nobody plays before the start, a match keeps the promise of  *)
(* Fates: it is decided in the step that fates the last survivor, rightly, *)
(* and only once.                                                          *)
THEOREM RoundKeepsPromise ==
    ASSUME ~Early
    PROVE  Spec => KeepsPromise
<1>1. Init => Promise!Init /\ Fresh /\ SomebodyPlays
  <2> SUFFICES ASSUME Init PROVE Promise!Init /\ Fresh /\ SomebodyPlays
    OBVIOUS
  <2>1. /\ exe = NoPeer /\ ending = "none" /\ players = {}
        /\ dead = {} /\ demonized = {} /\ escaped = {}
    BY DEF Init
  <2>2. Alive = {} /\ Verdict = "open"
    BY <2>1 DEF Alive, Survivors, Verdict
  <2>3. Fresh /\ SomebodyPlays
    BY SafeInit DEF Init, Fresh
  <2>4. QED
    BY <2>1, <2>2, <2>3 DEF Promise!Init, Promise!Idle
<1>2. Safe /\ Fresh /\ SomebodyPlays /\ [Next]_vars => Fresh' /\ SomebodyPlays'
  BY FreshNext, SomebodyNext DEF Safe
<1>3. Fair /\ Fair' /\ [Next]_vars => [Promise!Next]_(Promise!vars)
  BY RoundStep
<1>4. QED
  BY <1>1, <1>2, <1>3, AlwaysSafe, RoundIsContest, PTL
     DEF Spec, KeepsPromise, Promise!Spec, Fair

----------------------------------------------------------------------------
(* The map Ravine Mist.                                                    *)

(* The map's handlers add to the match's and take nothing away: what holds *)
(* of every match holds of one on this map.                                *)
LEMMA MapStepIsMatchStep == RavineNext => [Next]_vars
<1> SUFFICES ASSUME RavineNext PROVE [Next]_vars
  OBVIOUS
<1>1. CASE \E P \in SUBSET Peer, x \in Peer : MapGameInit(P, x)
  BY <1>1 DEF MapGameInit, Next
<1>2. CASE MapStart
  BY <1>2 DEF MapStart, Next
<1>3. ASSUME NEW p \in Peer, NEW s \in Shard \cup Extra,
             Collect(p, s) \/ CollectOther(p, s)
      PROVE  [Next]_vars
  BY <1>3 DEF Collect, CollectOther
<1>4. ASSUME NEW p \in Peer,
             MapDie(p) \/ MapUndie(p) \/ DieTwice(p) \/ MapLeave(p) \/ MapDeathSecond(p)
      PROVE  [Next]_vars
  BY <1>4 DEF MapDie, MapUndie, DieTwice, MapLeave, MapDeathSecond, Next
<1>5. CASE Unheard
  BY <1>5 DEF Unheard, Next
<1>6. CASE MapSecond
  BY <1>6 DEF MapSecond, Next
<1>7. CASE MapOtherTick
  BY <1>7 DEF MapOtherTick
<1>8. CASE HitSlug
  BY <1>8 DEF HitSlug
<1>9. CASE CollectRing
  BY <1>9 DEF CollectRing
<1>10. CASE MapEndTick
  BY <1>10 DEF MapEndTick, Next
<1>11. QED
  BY <1>1, <1>2, <1>3, <1>4, <1>5, <1>6, <1>7, <1>8, <1>9, <1>10 DEF RavineNext

(* A match on Ravine Mist is a match.                                      *)
THEOREM RavineIsARound == RavineSpec => Spec
<1>1. RavineInit => Init
  BY DEF RavineInit
<1>2. [RavineNext]_ravineVars => [Next]_vars
  BY MapStepIsMatchStep DEF ravineVars
<1>3. QED
  BY <1>1, <1>2, PTL DEF RavineSpec, Spec

(* The shards and the big ring: types, and nothing before the start.       *)
ShardTypes ==
    /\ ground \in SUBSET (Shard \cup Extra)
    /\ lost \in SUBSET (Shard \cup Extra)
    /\ made \in SUBSET Extra
    /\ carried \in [Peer -> SUBSET (Shard \cup Extra)]
    /\ bring \in {"NONE", "DEACTIVATED", "ACTIVATED"}

Quiet ==
    /\ stage = "LOBBY" => ~started
    /\ ~started => /\ bring = "NONE" /\ made = {} /\ lost = {}
                   /\ \A p \in Peer : carried[p] = {}

ShardInv == ShardTypes /\ Quiet /\ ShardsKept /\ RingFollows

LEMMA OffNat ==
    ASSUME NEW g \in SUBSET (Shard \cup Extra)
    PROVE  Off(g) \in Nat /\ IsFiniteSet(g)
<1>1. IsFiniteSet(Shard \cup Extra)
  BY RavineAssumption, FS_Union
<1>2. IsFiniteSet(g)
  BY <1>1, FS_Subset
<1>3. Cardinality(g) \in Nat /\ Cardinality(Shard) \in Nat
  BY <1>2, RavineAssumption, FS_CardinalityType
<1>4. QED
  BY <1>2, <1>3 DEF Off

(* With one less on the ground there are no fewer off it.                  *)
LEMMA OffGrows ==
    ASSUME NEW g \in SUBSET (Shard \cup Extra), NEW s \in g
    PROVE  Off(g \ {s}) >= Off(g)
<1>1. IsFiniteSet(g)
  BY OffNat
<1>2. Cardinality(g \ {s}) = Cardinality(g) - 1
  BY <1>1, FS_RemoveElement
<1>3. Cardinality(g) \in Nat /\ Cardinality(Shard) \in Nat
  BY <1>1, RavineAssumption, FS_CardinalityType
<1>4. QED
  BY <1>2, <1>3 DEF Off

(* rmz_checkstate sets the big ring right, whatever it was.                *)
LEMMA CheckSets ==
    ASSUME CheckState, timeSec \in Int, RingFollows, started, ending = "none",
           ground' \in SUBSET (Shard \cup Extra)
    PROVE  /\ bring' = "ACTIVATED" <=> timeSec <= OpenSecs /\ Off(ground') >= Needed
           /\ bring' \in {bring, "DEACTIVATED", "ACTIVATED"}
<1>1. Off(ground') \in Nat
  BY OffNat
<1>2. CASE timeSec > OpenSecs
  BY <1>2, RavineAssumption DEF CheckState, RingFollows
<1>3. CASE timeSec <= OpenSecs /\ Off(ground') >= Needed
  BY <1>1, <1>3, RavineAssumption DEF CheckState
<1>4. CASE timeSec <= OpenSecs /\ Off(ground') < Needed
  BY <1>1, <1>4, RavineAssumption DEF CheckState
<1>5. QED
  BY <1>1, <1>2, <1>3, <1>4, RavineAssumption

(* rmz_tick only opens the ring, but time does not run back.               *)
LEMMA TickSets ==
    ASSUME MapTick, timeSec \in Int, timeSec' \in Int, timeSec' <= timeSec,
           RingFollows, started, ending = "none",
           ground \in SUBSET (Shard \cup Extra)
    PROVE  /\ bring' = "ACTIVATED" <=> timeSec' <= OpenSecs /\ Off(ground) >= Needed
           /\ bring' \in {bring, "DEACTIVATED", "ACTIVATED"}
<1>1. Off(ground) \in Nat
  BY OffNat
<1>2. CASE timeSec' <= OpenSecs /\ Off(ground) >= Needed
  BY <1>2 DEF MapTick
<1>3. CASE ~(timeSec' <= OpenSecs /\ Off(ground) >= Needed)
  <2>1. bring # "ACTIVATED"
    BY <1>1, <1>3, RavineAssumption DEF RingFollows
  <2>2. CASE timeSec' <= ShowSecs /\ bring = "NONE"
    BY <1>3, <2>2 DEF MapTick
  <2>3. CASE ~(timeSec' <= ShowSecs /\ bring = "NONE")
    BY <1>3, <2>1, <2>3 DEF MapTick
  <2>4. QED
    BY <1>3, <2>2, <2>3
<1>4. QED
  BY <1>2, <1>3

(* What a dead player or a leaver drops is on the ground.                  *)
LEMMA DropKeepsShards ==
    ASSUME NEW p \in Peer, Drop(p), ShardTypes, ShardsKept, players \subseteq Peer,
           started, ending = "none", p \in players,
           players' = players \/ players' = players \ {p}
    PROVE  /\ ShardsKept' /\ UNCHANGED <<made, lost>>
           /\ ground' \in SUBSET (Shard \cup Extra)
           /\ carried' \in [Peer -> SUBSET (Shard \cup Extra)]
<1> USE DEF ShardTypes
<1>1. /\ \A q \in players \ {p} : carried'[q] = carried[q]
      /\ carried'[p] = {}
      /\ carried' \in [Peer -> SUBSET (Shard \cup Extra)]
      /\ ground' = ground \cup carried[p]
      /\ made' = made /\ lost' = lost
  BY DEF Drop
<1>2. /\ Shard \cup made = ground \cup lost \cup UNION {carried[q] : q \in players}
      /\ ground \cap lost = {}
      /\ \A q \in players : carried[q] \cap (ground \cup lost) = {}
      /\ \A q, r \in players : q # r => carried[q] \cap carried[r] = {}
  BY DEF ShardsKept
<1>3. Shard \cup made = ground' \cup lost \cup UNION {carried'[q] : q \in players'}
  <2>1. ground' \cup lost \cup UNION {carried'[q] : q \in players'} \subseteq Shard \cup made
    BY <1>1, <1>2
  <2>2. ASSUME NEW s \in Shard \cup made, s \notin ground', s \notin lost
        PROVE  s \in UNION {carried'[q] : q \in players'}
    <3>1. PICK q \in players : s \in carried[q]
      BY <1>1, <1>2, <2>2
    <3>2. q # p
      BY <1>1, <2>2, <3>1
    <3>3. QED
      BY <1>1, <3>1, <3>2
  <2>3. QED
    BY <2>1, <2>2
<1>4. ground' \cap lost = {} /\ \A q \in players' : carried'[q] \cap (ground' \cup lost) = {}
  BY <1>1, <1>2
<1>5. \A q, r \in players' : q # r => carried'[q] \cap carried'[r] = {}
  BY <1>1, <1>2
<1>6. QED
  BY <1>1, <1>3, <1>4, <1>5 DEF ShardsKept

(* What is collected, a shard or another entity, has one owner.            *)
LEMMA TakeKeepsShards ==
    ASSUME NEW p \in players, NEW s \in Shard \cup Extra,
           ShardTypes, ShardsKept, players \subseteq Peer, started, ending = "none",
           carried' = [carried EXCEPT ![p] = @ \cup {s}], lost' = lost,
           \/ s \in ground /\ ground' = ground \ {s} /\ made' = made
           \/ s \in Extra \ made /\ ground' = ground /\ made' = made \cup {s},
           players' = players
    PROVE  /\ ShardsKept' /\ made' \in SUBSET Extra
           /\ ground' \in SUBSET (Shard \cup Extra)
           /\ carried' \in [Peer -> SUBSET (Shard \cup Extra)]
<1> USE DEF ShardTypes
<1>1. /\ carried' \in [Peer -> SUBSET (Shard \cup Extra)]
      /\ carried'[p] = carried[p] \cup {s}
      /\ \A q \in players \ {p} : carried'[q] = carried[q]
  OBVIOUS
<1>2. /\ Shard \cup made = ground \cup lost \cup UNION {carried[q] : q \in players}
      /\ ground \cap lost = {}
      /\ \A q \in players : carried[q] \cap (ground \cup lost) = {}
      /\ \A q, r \in players : q # r => carried[q] \cap carried[r] = {}
  BY DEF ShardsKept
<1>3. s \notin lost /\ \A q \in players : s \notin carried[q]
  <2>1. CASE s \in ground
    BY <1>2, <2>1
  <2>2. CASE s \in Extra \ made
    <3>1. s \notin Shard \cup made
      BY <2>2, RavineAssumption
    <3>2. QED
      BY <1>2, <3>1
  <2>3. QED
    BY <2>1, <2>2
<1>4. /\ ground' = ground \ {s}
      /\ Shard \cup made' = (Shard \cup made) \cup {s}
      /\ made' \in SUBSET Extra
  <2>1. CASE s \in ground /\ ground' = ground \ {s} /\ made' = made
    BY <1>2, <2>1
  <2>2. CASE s \in Extra \ made /\ ground' = ground /\ made' = made \cup {s}
    <3>1. s \notin Shard \cup made
      BY <2>2, RavineAssumption
    <3>2. s \notin ground
      BY <1>2, <3>1
    <3>3. QED
      BY <2>2, <3>2
  <2>3. QED
    BY <2>1, <2>2
<1>5. Shard \cup made' = ground' \cup lost' \cup UNION {carried'[q] : q \in players'}
  <2>1. ground' \cup lost' \cup UNION {carried'[q] : q \in players'} \subseteq Shard \cup made'
    BY <1>1, <1>2, <1>4
  <2>2. ASSUME NEW t \in Shard \cup made', t \notin ground', t \notin lost'
        PROVE  t \in UNION {carried'[q] : q \in players'}
    <3>1. CASE t = s
      BY <1>1, <3>1
    <3>2. CASE t # s
      <4>1. PICK q \in players : t \in carried[q]
        BY <1>2, <1>4, <2>2, <3>2
      <4>2. t \in carried'[q]
        BY <1>1, <4>1
      <4>3. QED
        BY <4>2
    <3>3. QED
      BY <3>1, <3>2
  <2>3. QED
    BY <2>1, <2>2
<1>6. ground' \cap lost' = {} /\ \A q \in players' : carried'[q] \cap (ground' \cup lost') = {}
  BY <1>1, <1>2, <1>3, <1>4
<1>7. \A q, r \in players' : q # r => carried'[q] \cap carried'[r] = {}
  BY <1>1, <1>2, <1>3
<1>8. QED
  BY <1>1, <1>4, <1>5, <1>6, <1>7 DEF ShardsKept

(* What a leave does to the match: it is called off, or the leaver is off  *)
(* the list, and only a match that had not started may start.              *)
LEMMA LeaveEffect ==
    ASSUME NEW p \in Peer, Leave(p)
    PROVE  /\ stage = "GAME" /\ p \in players
           /\ \/ stage' = "LOBBY" /\ ~started'
              \/ /\ stage' = "GAME" /\ players' = players \ {p}
                 /\ started => started' /\ timeSec' = timeSec
                 /\ ~started /\ started' => timeSec' = RoundSecs
                 /\ ending # "none" => ending' = ending
<1>1. CASE CalledOff(p)
  BY <1>1 DEF Leave, CalledOff, ToLobby
<1>2. CASE LeaveEnded(p)
  BY <1>2 DEF Leave, LeaveEnded, match, clock, CalledOff, ToLobby
<1>3. CASE LeaveWaiting(p)
  BY <1>3 DEF Leave, LeaveWaiting, CalledOff, ToLobby
<1>4. CASE LeaveStarted(p)
  BY <1>4 DEF Leave, LeaveStarted, match, clock, CalledOff, ToLobby
<1>5. QED
  BY <1>1, <1>2, <1>3, <1>4 DEF Leave

(* What holds when all shards lie there and the time is full.              *)
LEMMA PopulateStarts ==
    ASSUME ShardTypes, Quiet, Populate, ~started, started', stage' = "GAME",
           timeSec' = RoundSecs, players' \subseteq Peer
    PROVE  ShardInv'
<1>1. /\ bring' = "NONE" /\ carried' = carried /\ \A q \in Peer : carried'[q] = {}
      /\ made' = {} /\ lost' = {} /\ ground' = Shard
  BY DEF Populate, Quiet, bigRing
<1>2. ShardTypes'
  BY <1>1 DEF ShardTypes
<1>3. ShardsKept'
  BY <1>1 DEF ShardsKept
<1>4. RingFollows'
  BY <1>1, RavineAssumption, RoundAssumption DEF RingFollows
<1>5. QED
  BY <1>2, <1>3, <1>4 DEF ShardInv, Quiet

(* With nothing on the list in the lobby, nothing is promised.             *)
LEMMA NothingThere ==
    ASSUME NoEntities, ~started'
    PROVE  ShardInv'
  BY DEF NoEntities, ShardInv, ShardTypes, Quiet, ShardsKept, RingFollows

(* Steps that change neither the shards nor what is promised of them.      *)
LEMMA ShardsUntouched ==
    ASSUME ShardInv, UNCHANGED <<shardVars, started, stage, timeSec, players>>,
           ending' = ending \/ ending' # "none"
    PROVE  ShardInv'
<1>1. UNCHANGED <<ground, carried, made, lost, bring, unseen>>
  BY DEF shardVars, shards, bigRing
<1>2. ShardTypes' /\ Quiet'
  BY <1>1 DEF ShardInv, ShardTypes, Quiet
<1>3. ShardsKept'
  BY <1>1 DEF ShardInv, ShardsKept
<1>4. RingFollows'
  BY <1>1 DEF ShardInv, RingFollows, Off
<1>5. QED
  BY <1>2, <1>3, <1>4 DEF ShardInv

(* The same of a step after which only the big ring was set.               *)
LEMMA RingSet ==
    ASSUME ShardInv, UNCHANGED <<shards, started, stage, players>>, started,
           bring' \in {bring, "DEACTIVATED", "ACTIVATED"},
           bring' = "ACTIVATED" <=> timeSec' <= OpenSecs /\ Off(ground') >= Needed,
           ending = "none"
    PROVE  ShardInv'
<1>1. UNCHANGED <<ground, carried, made, lost>>
  BY DEF shards
<1>2. ShardTypes' /\ Quiet'
  BY <1>1 DEF ShardInv, ShardTypes, Quiet
<1>3. ShardsKept'
  BY <1>1 DEF ShardInv, ShardsKept
<1>4. RingFollows'
  BY DEF RingFollows
<1>5. QED
  BY <1>2, <1>3, <1>4 DEF ShardInv

(* A packet about something else takes what it names off the list; if that *)
(* is a shard, one more is off the ground, and nobody has looked.          *)
LEMMA DespawnKeepsShards ==
    ASSUME ShardInv, Despawn, started, players \subseteq Peer,
           UNCHANGED <<started, stage, timeSec, players, ending>>
    PROVE  ShardInv'
<1>1. CASE UNCHANGED shardVars
  BY <1>1, ShardsUntouched
<1>2. ASSUME NEW s \in ground, ground' = ground \ {s}, lost' = lost \cup {s},
             unseen' = TRUE, UNCHANGED <<carried, made, bring>>
      PROVE  ShardInv'
  <2>1. ShardTypes' /\ Quiet'
    BY <1>2 DEF ShardInv, ShardTypes, Quiet
  <2>2. ShardsKept'
    <3>1. SUFFICES ASSUME ending = "none" PROVE ShardsKept'
      BY DEF ShardsKept
    <3>2. /\ Shard \cup made = ground \cup lost \cup UNION {carried[q] : q \in players}
          /\ ground \cap lost = {}
          /\ \A q \in players : carried[q] \cap (ground \cup lost) = {}
          /\ \A q, r \in players : q # r => carried[q] \cap carried[r] = {}
      BY <3>1 DEF ShardInv, ShardsKept
    <3>3. ground' \cup lost' = ground \cup lost /\ ground' \cap lost' = {}
      BY <1>2, <3>2
    <3>4. QED
      BY <1>2, <3>2, <3>3 DEF ShardsKept
  <2>3. RingFollows'
    <3>1. SUFFICES ASSUME ending = "none" PROVE RingFollows'
      BY DEF RingFollows
    <3>2. bring = "ACTIVATED" => timeSec <= OpenSecs /\ Off(ground) >= Needed
      BY <3>1 DEF ShardInv, RingFollows
    <3>3. /\ Off(ground) \in Nat /\ Off(ground') \in Nat
          /\ Off(ground') >= Off(ground)
      BY <1>2, OffNat, OffGrows DEF ShardInv, ShardTypes
    <3>4. bring' = "ACTIVATED" => timeSec' <= OpenSecs /\ Off(ground') >= Needed
      BY <1>2, <3>2, <3>3, RavineAssumption
    <3>5. QED
      BY <1>2, <3>4 DEF RingFollows
  <2>4. QED
    BY <2>1, <2>2, <2>3 DEF ShardInv
<1>3. QED
  BY <1>1, <1>2 DEF Despawn

LEMMA ShardsNext ==
    ASSUME TypeFlags, TypeFlags', TypeData, TypeData', ShardInv, [RavineNext]_ravineVars
    PROVE  ShardInv'
<1> DEFINE Set == /\ UNCHANGED <<stage, started>> /\ started /\ ending = "none"
                  /\ ShardsKept' /\ ground' \in SUBSET (Shard \cup Extra)
                  /\ lost' = lost /\ made' \in SUBSET Extra
                  /\ carried' \in [Peer -> SUBSET (Shard \cup Extra)]
                  /\ CheckState /\ timeSec' = timeSec
<1> USE DEF TypeFlags
<1>a. timeSec \in Int /\ timeSec' \in Int /\ players \subseteq Peer /\ players' \subseteq Peer
  BY RoundAssumption DEF TypeData
<1>b. ShardTypes /\ Quiet /\ ShardsKept /\ RingFollows
  BY DEF ShardInv
<1>c. ASSUME Set
      PROVE  ShardInv'
  <2>1. /\ bring' = "ACTIVATED" <=> timeSec <= OpenSecs /\ Off(ground') >= Needed
        /\ bring' \in {bring, "DEACTIVATED", "ACTIVATED"}
    BY <1>a, <1>b, <1>c, CheckSets
  <2>2. RingFollows'
    BY <1>c, <2>1 DEF RingFollows
  <2>3. ShardTypes' /\ Quiet'
    BY <1>b, <1>c, <2>1 DEF ShardTypes, Quiet
  <2>4. QED
    BY <1>c, <2>2, <2>3 DEF ShardInv
<1>1. ASSUME NEW P \in SUBSET Peer, NEW x \in Peer, MapGameInit(P, x)
      PROVE  ShardInv'
  <2>1. ~started'
    BY <1>1, <1>b DEF MapGameInit, GameInit, Quiet
  <2>2. QED
    BY <1>1, <2>1, NothingThere DEF MapGameInit
<1>2. CASE MapStart
  <2>1. ~started /\ started' /\ stage' = "GAME" /\ timeSec' = RoundSecs
    BY <1>2 DEF MapStart, Start
  <2>2. QED
    BY <1>2, <1>a, <1>b, <2>1, PopulateStarts DEF MapStart
<1>3. ASSUME NEW p \in Peer, NEW s \in Shard \cup Extra,
             Collect(p, s) \/ (s \in Extra /\ CollectOther(p, s))
      PROVE  ShardInv'
  <2>1. /\ p \in players /\ started /\ ending = "none" /\ CheckState
        /\ carried' = [carried EXCEPT ![p] = @ \cup {s}] /\ lost' = lost
        /\ \/ s \in ground /\ ground' = ground \ {s} /\ made' = made
           \/ s \in Extra \ made /\ ground' = ground /\ made' = made \cup {s}
        /\ UNCHANGED <<stage, started, players, ending, timeSec>>
    BY <1>3 DEF Collect, CollectOther, vars, match, clock
  <2>2. /\ ShardsKept' /\ made' \in SUBSET Extra
        /\ ground' \in SUBSET (Shard \cup Extra)
        /\ carried' \in [Peer -> SUBSET (Shard \cup Extra)]
    BY <1>a, <1>b, <2>1, TakeKeepsShards
  <2>3. QED
    BY <1>c, <2>1, <2>2
<1>4. ASSUME NEW p \in Peer, MapDie(p)
      PROVE  ShardInv'
  <2>1. /\ UNCHANGED <<stage, started, players, timeSec>>
        /\ ending = "none" /\ p \in players
    BY <1>4 DEF MapDie, Die, match, clock, Survivors
  <2>2. CASE started /\ ending' = "none"
    <3>1. Drop(p) /\ CheckState
      BY <1>4, <2>2 DEF MapDie
    <3>2. QED
      BY <1>a, <1>b, <1>c, <2>1, <2>2, <3>1, DropKeepsShards DEF ShardTypes
  <2>3. CASE ~(started /\ ending' = "none")
    <3>1. UNCHANGED shardVars
      BY <1>4, <2>3 DEF MapDie
    <3>2. ShardTypes' /\ Quiet'
      BY <1>b, <2>1, <3>1 DEF ShardTypes, Quiet, shardVars, shards, bigRing
    <3>3. ShardsKept' /\ RingFollows'
      BY <2>1, <2>3 DEF ShardsKept, RingFollows
    <3>4. QED
      BY <3>2, <3>3 DEF ShardInv
  <2>4. QED
    BY <2>2, <2>3
<1>5. ASSUME NEW p \in Peer, MapUndie(p)
      PROVE  ShardInv'
  <2>1. /\ UNCHANGED <<stage, started, players, timeSec, ground, carried, made, lost>>
        /\ ending = "none"
    BY <1>5 DEF MapUndie, Undie, match, clock, shards
  <2>2. CASE started /\ ending' = "none"
    <3>1. CheckState
      BY <1>5, <2>2 DEF MapUndie
    <3>2. /\ ShardsKept' /\ ground' \in SUBSET (Shard \cup Extra)
          /\ made' \in SUBSET Extra /\ carried' \in [Peer -> SUBSET (Shard \cup Extra)]
      BY <1>b, <2>1, <2>2 DEF ShardsKept, ShardTypes
    <3>3. QED
      BY <1>c, <2>1, <2>2, <3>1, <3>2
  <2>3. CASE ~(started /\ ending' = "none")
    <3>1. UNCHANGED shardVars
      BY <1>5, <2>3 DEF MapUndie, shardVars
    <3>2. ShardTypes' /\ Quiet'
      BY <1>b, <2>1, <3>1 DEF ShardTypes, Quiet, shardVars, shards, bigRing
    <3>3. ShardsKept' /\ RingFollows'
      BY <2>1, <2>3 DEF ShardsKept, RingFollows
    <3>4. QED
      BY <3>2, <3>3 DEF ShardInv
  <2>4. QED
    BY <2>2, <2>3
<1>6. ASSUME NEW p \in Peer, DieTwice(p)
      PROVE  ShardInv'
  <2>1. /\ UNCHANGED <<stage, started, players, timeSec, ending>>
        /\ ending = "none" /\ started /\ p \in players /\ Drop(p) /\ CheckState
    BY <1>6 DEF DieTwice, vars, match, clock, Survivors
  <2>2. QED
    BY <1>a, <1>b, <1>c, <2>1, DropKeepsShards DEF ShardTypes
<1>7. ASSUME NEW p \in Peer, MapLeave(p)
      PROVE  ShardInv'
  <2>1. /\ stage = "GAME" /\ p \in players
        /\ \/ stage' = "LOBBY" /\ ~started'
           \/ /\ stage' = "GAME" /\ players' = players \ {p}
              /\ started => started' /\ timeSec' = timeSec
              /\ ~started /\ started' => timeSec' = RoundSecs
              /\ ending # "none" => ending' = ending
    BY <1>7, LeaveEffect DEF MapLeave
  <2>2. CASE stage' = "LOBBY"
    BY <1>7, <2>1, <2>2, NothingThere DEF MapLeave
  <2>3. CASE stage' = "GAME" /\ ending = "none" /\ started
    <3>1. Drop(p) /\ CheckState
      BY <1>7, <2>3 DEF MapLeave
    <3>2. started' = started
      BY <2>1, <2>3
    <3>3. QED
      BY <1>a, <1>b, <1>c, <2>1, <2>3, <3>1, <3>2, DropKeepsShards DEF ShardTypes
  <2>4. CASE stage' = "GAME" /\ ~started
    <3>1. CASE started'
      BY <1>7, <1>a, <1>b, <2>1, <2>4, <3>1, PopulateStarts DEF MapLeave
    <3>2. CASE ~started'
      <4>1. UNCHANGED shardVars
        BY <1>7, <2>4, <3>2 DEF MapLeave, mapVars
      <4>2. ShardTypes' /\ Quiet'
        BY <1>b, <2>4, <3>2, <4>1 DEF ShardTypes, Quiet, shardVars, shards, bigRing
      <4>3. QED
        BY <3>2, <4>2 DEF ShardInv, ShardsKept, RingFollows
    <3>3. QED
      BY <3>1, <3>2
  <2>5. CASE stage' = "GAME" /\ ending # "none" /\ started
    <3>1. UNCHANGED <<ground, bring, made, lost>> /\ carried' = [carried EXCEPT ![p] = {}]
      BY <1>7, <2>5 DEF MapLeave, bigRing
    <3>2. ShardTypes' /\ Quiet'
      BY <1>b, <2>1, <2>5, <3>1 DEF ShardTypes, Quiet
    <3>3. QED
      BY <2>1, <2>5, <3>2 DEF ShardInv, ShardsKept, RingFollows
  <2>6. QED
    BY <2>1, <2>2, <2>3, <2>4, <2>5
<1>8. CASE Unheard
  <2>1. /\ UNCHANGED <<shardVars, stage, started, timeSec, players>>
        /\ ending' = ending \/ ending' # "none"
    <3>1. UNCHANGED shardVars
      BY <1>8 DEF Unheard, mapVars
    <3>2. ASSUME NEW p \in Peer, Escape(p) \/ Revive(p)
          PROVE  /\ UNCHANGED <<stage, started, timeSec, players>>
                 /\ ending' = ending \/ ending' # "none"
      BY <3>2 DEF Escape, Revive, Check, match, clock
    <3>3. ForceEnd => /\ UNCHANGED <<stage, started, timeSec, players>>
                      /\ ending' # "none"
      BY DEF ForceEnd, match, clock
    <3>4. QED
      BY <1>8, <3>1, <3>2, <3>3 DEF Unheard
  <2>2. QED
    BY <2>1, ShardsUntouched
<1>9. CASE MapSecond
  <2>1. /\ UNCHANGED <<stage, started, players, shards>> /\ ground' = ground
        /\ started /\ ending = "none" /\ timeSec' <= timeSec /\ MapTick
    BY <1>9, <1>a DEF MapSecond, Second, match, shards
  <2>2. /\ bring' = "ACTIVATED" <=> timeSec' <= OpenSecs /\ Off(ground) >= Needed
        /\ bring' \in {bring, "DEACTIVATED", "ACTIVATED"}
    BY <1>a, <1>b, <2>1, TickSets DEF ShardTypes
  <2>3. Off(ground') = Off(ground)
    BY <2>1 DEF Off
  <2>4. QED
    BY <2>1, <2>2, <2>3, RingSet
<1>10. ASSUME NEW p \in Peer, MapDeathSecond(p)
       PROVE  ShardInv'
  <2>1. /\ UNCHANGED <<stage, started, players, shards>> /\ ground' = ground
        /\ started /\ ending = "none" /\ timeSec' <= timeSec /\ MapTick
    BY <1>10, <1>a DEF MapDeathSecond, DeathSecond, match, clock, shards
  <2>2. /\ bring' = "ACTIVATED" <=> timeSec' <= OpenSecs /\ Off(ground) >= Needed
        /\ bring' \in {bring, "DEACTIVATED", "ACTIVATED"}
    BY <1>a, <1>b, <2>1, TickSets DEF ShardTypes
  <2>3. Off(ground') = Off(ground)
    BY <2>1 DEF Off
  <2>4. QED
    BY <2>1, <2>2, <2>3, RingSet
<1>11. CASE MapOtherTick
  <2>1. /\ UNCHANGED <<stage, started, players, shards>> /\ ground' = ground
        /\ started /\ ending = "none" /\ timeSec' <= timeSec /\ MapTick
    BY <1>11, <1>a DEF MapOtherTick, vars, match, clock, shards
  <2>2. /\ bring' = "ACTIVATED" <=> timeSec' <= OpenSecs /\ Off(ground) >= Needed
        /\ bring' \in {bring, "DEACTIVATED", "ACTIVATED"}
    BY <1>a, <1>b, <2>1, TickSets DEF ShardTypes
  <2>3. Off(ground') = Off(ground)
    BY <2>1 DEF Off
  <2>4. QED
    BY <2>1, <2>2, <2>3, RingSet
<1>12. CASE HitSlug
  BY <1>a, <1>12, DespawnKeepsShards DEF HitSlug, vars, match, clock
<1>13. CASE CollectRing
  BY <1>a, <1>13, DespawnKeepsShards DEF CollectRing, vars, match, clock
<1>14. CASE MapEndTick
  BY <1>14, NothingThere DEF MapEndTick, EndTick, ToLobby
<1>15. CASE UNCHANGED ravineVars
  BY <1>15, ShardsUntouched DEF ravineVars, mapVars, vars, match, clock
<1>16. QED
  BY <1>1, <1>2, <1>3, <1>4, <1>5, <1>6, <1>7, <1>8, <1>9, <1>10, <1>11, <1>12,
     <1>13, <1>14, <1>15 DEF RavineNext

LEMMA AlwaysShards == RavineSpec => []ShardInv
<1>1. RavineInit => ShardInv
  BY DEF RavineInit, Init, ShardInv, ShardTypes, Quiet, ShardsKept, RingFollows
<1>2. ShardInv /\ TypeFlags /\ TypeFlags' /\ TypeData /\ TypeData'
        /\ [RavineNext]_ravineVars => ShardInv'
  BY ShardsNext
<1>3. RavineSpec => [](TypeFlags /\ TypeData)
  <2>1. TypeFlags /\ Safe => TypeFlags /\ TypeData
    BY DEF Safe
  <2>2. QED
    BY <2>1, RavineIsARound, AlwaysSafe, PTL
<1>4. QED
  BY <1>1, <1>2, <1>3, PTL DEF RavineSpec

(* The books of the shards balance: a shard is only lost, and another      *)
(* entity only counts as one, where a packet named the wrong thing.        *)
THEOREM ShardsAreKept == RavineSpec => []ShardsKept
  BY AlwaysShards, PTL DEF ShardInv

(* The big ring of Ravine Mist is open only while it may be, and always    *)
(* while it may be unless a shard was lost in the meantime.                *)
THEOREM BigRingFollows == RavineSpec => []RingFollows
  BY AlwaysShards, PTL DEF ShardInv

(* The books of rings and slugs.                                           *)
EntityTypes ==
    /\ rings \in SUBSET Slot /\ lying \in [Slot -> Nat]
    /\ slugs \in SUBSET Slug /\ home \in [Spawner -> SUBSET Slug]

BookInv == EntityTypes /\ NothingStuck

(* A spawner that has gone keeps its place in the books.                   *)
LEMMA BooksUntouched ==
    ASSUME BookInv, UNCHANGED <<ringVars, slugs, home>>
    PROVE  BookInv'
  BY DEF BookInv, EntityTypes, NothingStuck, ringVars

LEMMA EmptyBooks ==
    ASSUME NoEntities
    PROVE  BookInv'
  BY DEF NoEntities, BookInv, EntityTypes, NothingStuck

LEMMA DespawnKeepsBooks ==
    ASSUME BookInv, DespawnOther
    PROVE  BookInv'
<1> USE DEF BookInv, EntityTypes
<1>1. ASSUME NEW s \in Slot, DespawnRing(s)
      PROVE  BookInv'
  <2>1. /\ UNCHANGED slugVars /\ lying[s] > 0 /\ rings' = rings \ {s}
        /\ lying' = [lying EXCEPT ![s] = @ - 1]
    BY <1>1 DEF DespawnRing
  <2>2. lying[s] = 1
    BY <2>1 DEF NothingStuck
  <2>3. \A t \in Slot : lying'[t] = IF t \in rings' THEN 1 ELSE 0
    BY <2>1, <2>2 DEF NothingStuck
  <2>4. EntityTypes' /\ slugs' = slugs /\ home' = home
    BY <2>1, <2>2 DEF slugVars
  <2>5. QED
    BY <2>3, <2>4 DEF NothingStuck
<1>2. ASSUME NEW id \in Slug, DespawnSlug(id)
      PROVE  BookInv'
  <2>1. /\ UNCHANGED ringVars /\ slugs' = slugs \ {id}
        /\ home' = [s \in Spawner |-> home[s] \ {id}]
    BY <1>2 DEF DespawnSlug
  <2>2. slugs' = UNION {home'[s] : s \in Spawner}
    BY <2>1 DEF NothingStuck
  <2>3. EntityTypes' /\ rings' = rings /\ lying' = lying
    BY <2>1 DEF ringVars
  <2>4. QED
    BY <2>1, <2>2, <2>3 DEF NothingStuck
<1>3. ASSUME NEW s \in Spawner, DespawnSpawner(s)
      PROVE  BookInv'
  BY <1>3, BooksUntouched DEF DespawnSpawner
<1>4. CASE UNCHANGED <<ringVars, slugVars>>
  BY <1>4, BooksUntouched DEF slugVars
<1>5. QED
  BY <1>1, <1>2, <1>3, <1>4 DEF DespawnOther

LEMMA BooksNext == BookInv /\ [RavineNext]_ravineVars => BookInv'
<1> SUFFICES ASSUME BookInv, [RavineNext]_ravineVars PROVE BookInv'
  OBVIOUS
<1> USE DEF BookInv, EntityTypes, slugVars
<1>1. CASE \E P \in SUBSET Peer, x \in Peer : MapGameInit(P, x)
  BY <1>1, EmptyBooks DEF MapGameInit
<1>2. CASE MapStart
  BY <1>2, BooksUntouched DEF MapStart, Populate
<1>3. ASSUME NEW p \in Peer, NEW s \in Shard \cup Extra,
             Collect(p, s) \/ CollectOther(p, s)
      PROVE  BookInv'
  BY <1>3, BooksUntouched, DespawnKeepsBooks DEF Collect, CollectOther
<1>4. ASSUME NEW p \in Peer, MapDie(p) \/ MapUndie(p) \/ DieTwice(p) \/ MapDeathSecond(p)
      PROVE  BookInv'
  BY <1>4, BooksUntouched DEF MapDie, MapUndie, DieTwice, MapDeathSecond
<1>5. ASSUME NEW p \in Peer, MapLeave(p)
      PROVE  BookInv'
  BY <1>5, EmptyBooks, BooksUntouched DEF MapLeave, Populate, mapVars
<1>6. CASE Unheard
  BY <1>6, BooksUntouched DEF Unheard, mapVars
<1>7. CASE MapSecond
  <2>1. UNCHANGED slugVars
    BY <1>7 DEF MapSecond
  <2>2. CASE UNCHANGED ringVars
    BY <2>1, <2>2, BooksUntouched
  <2>3. ASSUME NEW s \in Slot \ rings, rings' = rings \cup {s},
               lying' = [lying EXCEPT ![s] = @ + 1]
        PROVE  BookInv'
    <3>1. lying[s] = 0
      BY DEF NothingStuck
    <3>2. \A t \in Slot : lying'[t] = IF t \in rings' THEN 1 ELSE 0
      BY <2>3, <3>1 DEF NothingStuck
    <3>3. EntityTypes' /\ slugs' = slugs /\ home' = home
      BY <2>1, <2>3 DEF slugVars
    <3>4. QED
      BY <3>2, <3>3 DEF NothingStuck
  <2>4. QED
    BY <1>7, <2>2, <2>3 DEF MapSecond, SpawnRing
<1>8. CASE MapOtherTick
  <2>1. UNCHANGED ringVars
    BY <1>8 DEF MapOtherTick
  <2>2. CASE UNCHANGED slugVars
    BY <2>1, <2>2, BooksUntouched
  <2>3. ASSUME NEW s \in Spawner, NEW id \in Slug \ slugs, home[s] = {},
               slugs' = slugs \cup {id}, home' = [home EXCEPT ![s] = {id}]
        PROVE  BookInv'
    <3>1. /\ home'[s] = {id}
          /\ \A t \in Spawner \ {s} : home'[t] = home[t] /\ id \notin home[t]
      BY <2>3 DEF NothingStuck
    <3>2. slugs' = UNION {home'[t] : t \in Spawner}
      <4>1. slugs' \subseteq UNION {home'[t] : t \in Spawner}
        <5>1. ASSUME NEW x \in slugs
              PROVE  x \in UNION {home'[t] : t \in Spawner}
          <6>1. PICK t \in Spawner : x \in home[t]
            BY DEF NothingStuck
          <6>2. t # s
            BY <2>3, <6>1
          <6>3. QED
            BY <3>1, <6>1, <6>2
        <5>2. id \in UNION {home'[t] : t \in Spawner}
          BY <3>1
        <5>3. QED
          BY <2>3, <5>1, <5>2
      <4>2. ASSUME NEW t \in Spawner, NEW x \in home'[t]
            PROVE  x \in slugs'
        BY <2>3, <3>1 DEF NothingStuck
      <4>3. QED
        BY <4>1, <4>2
    <3>3. \A t, u \in Spawner : t # u => home'[t] \cap home'[u] = {}
      BY <3>1 DEF NothingStuck
    <3>4. \A t \in Spawner : \A x, y \in home'[t] : x = y
      BY <3>1 DEF NothingStuck
    <3>5. EntityTypes' /\ rings' = rings /\ lying' = lying
      BY <2>1, <2>3 DEF ringVars
    <3>6. QED
      BY <3>2, <3>3, <3>4, <3>5 DEF NothingStuck
  <2>4. QED
    BY <1>8, <2>2, <2>3 DEF MapOtherTick, SpawnSlug
<1>9. CASE HitSlug
  BY <1>9, BooksUntouched, DespawnKeepsBooks DEF HitSlug, Despawn
<1>10. CASE CollectRing
  BY <1>10, BooksUntouched, DespawnKeepsBooks DEF CollectRing, Despawn
<1>11. CASE MapEndTick
  BY <1>11, EmptyBooks DEF MapEndTick
<1>12. CASE UNCHANGED ravineVars
  BY <1>12, BooksUntouched DEF ravineVars, mapVars
<1>13. QED
  BY <1>1, <1>2, <1>3, <1>4, <1>5, <1>6, <1>7, <1>8, <1>9, <1>10, <1>11, <1>12
     DEF RavineNext

(* No slot of rings and no spawner of slugs is blocked, whatever entity a  *)
(* packet names.                                                           *)
THEOREM NobodyStuck == RavineSpec => []NothingStuck
<1>1. RavineInit => BookInv
  BY DEF RavineInit, BookInv, EntityTypes, NothingStuck
<1>2. BookInv => NothingStuck
  BY DEF BookInv
<1>3. QED
  BY <1>1, <1>2, BooksNext, PTL DEF RavineSpec
=============================================================================
