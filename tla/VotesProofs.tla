----------------------------- MODULE VotesProofs -----------------------------
(***************************************************************************)
(* For any number of ids and connections: the array of votes holds, nobody *)
(* votes twice or with another's id, and a vote to kick hits whom it was   *)
(* called against or the next with his id.                                 *)
(*                                                                         *)
(* The inductive invariant says what is true of a vote that goes on: it    *)
(* lacks a vote and has time, its target is the one it was called with,    *)
(* who may vote was there at the call and is not the target.               *)
(***************************************************************************)
EXTENDS Votes, FiniteSetTheorems, TLAPS

Persons == [id : 0..Slots, gen : Nat]

(* What a vote that goes on is like.                                       *)
Fits == /\ Len(vote.votes) \in 1..(vote.total - 1) /\ vote.total <= Slots
        /\ vote.left \in 1..Window
Aimed == /\ vote.type = "kick" => target = called.whom
         /\ called.whom.id \notin canVote
         /\ \A n \in 2..Len(vote.votes) : vote.votes[n] # called.whom.id
         /\ called.whom.id \in Id => called.whom.gen <= gen[called.whom.id]
Distinct ==
    \A m, n \in 1..Len(vote.votes) : vote.votes[m] = vote.votes[n] => m = n
Present == \A i \in here \cap canVote : gen[i] = called.gens[i]

VoteInv == vote.ongoing => Fits /\ Aimed
Inv == TypeOK /\ VoteInv /\ Distinct /\ Present

USE VotesAssumption

----------------------------------------------------------------------------
(* The total of a vote is a number no larger than that of the ids.         *)
LEMMA TotalFits ==
    ASSUME TypeOK, NEW id
    PROVE  Total(id) \in Nat /\ Total(id) <= Slots
<1>1. IsFiniteSet(1..Slots) /\ Cardinality(1..Slots) = Slots
  BY FS_Interval, SMT
<1>2. MayVote(id) \ afk \subseteq 1..Slots
  BY DEF TypeOK, MayVote, Id
<1>3. /\ IsFiniteSet(MayVote(id) \ afk)
      /\ Cardinality(MayVote(id) \ afk) <= Cardinality(1..Slots)
  BY <1>1, <1>2, FS_Subset
<1>4. Cardinality(MayVote(id) \ afk) \in Nat
  BY <1>3, FS_CardinalityType
<1> QED
  BY <1>1, <1>3, <1>4 DEF Total

(* No vote, nothing to say of it.                                          *)
LEMMA ForgetKeeps ==
    ASSUME TypeOK, Forget
    PROVE  /\ vote' \in [type : Types, ongoing : BOOLEAN, votes : Seq(Id),
                         total : Nat, left : 0..Window]
           /\ target' \in Persons /\ canVote' = {}
           /\ called' \in [gens : [Id -> Nat], whom : Persons]
           /\ VoteInv' /\ Distinct' /\ Present'
<1>1. vote' = NoVote /\ canVote' = {} /\ target' = Nobody /\ called' = NoCall
  BY DEF Forget
<1>2. NoVote \in [type : Types, ongoing : BOOLEAN, votes : Seq(Id),
                  total : Nat, left : 0..Window]
  BY DEF NoVote, Types, Id
<1>3. NoCall \in [gens : [Id -> Nat], whom : Persons] /\ Nobody \in Persons
  BY DEF NoCall, Nobody, Persons
<1>4. VoteInv' /\ Present'
  BY <1>1 DEF VoteInv, Present, NoVote
<1>5. Distinct'
  BY <1>1 DEF Distinct, NoVote
<1> QED
  BY <1>1, <1>2, <1>3, <1>4, <1>5

(* A decided vote is over.                                                 *)
LEMMA DecideKeeps ==
    ASSUME TypeOK, NEW w, Decide(w), UNCHANGED peerVars, inLobby' \in BOOLEAN,
           cool' \in [Id -> 0..Pause]
    PROVE  Inv'
<1>1. Forget
  BY DEF Decide
<1>2. closing' \subseteq here /\ prac' \in 0..1 /\ draft' \in BOOLEAN
  BY DEF Decide, TypeOK
<1>3. TypeOK'
  BY <1>1, <1>2, ForgetKeeps DEF TypeOK, peerVars, Persons, Id
<1> QED
  BY <1>1, <1>3, ForgetKeeps DEF Inv

(* One more vote, of somebody who may vote and has not.                    *)
LEMMA AddKeeps ==
    ASSUME Inv, NEW i \in Id, vote.ongoing, i \in canVote, ~HasVoted(vote, i),
           vote' = Add(vote, i), ~Full(vote'),
           UNCHANGED <<canVote, target, called, gen, here>>
    PROVE  /\ vote' \in [type : Types, ongoing : BOOLEAN, votes : Seq(Id),
                         total : Nat, left : 0..Window]
           /\ VoteInv' /\ Distinct' /\ Present'
<1> DEFINE V == vote.votes
           W == Append(V, i)
<1>1. V \in Seq(Id) /\ vote.total \in Nat
  BY DEF Inv, TypeOK
<1>2. W \in Seq(Id) /\ Len(W) = Len(V) + 1 /\ Len(V) \in Nat
      /\ W[Len(W)] = i /\ \A n \in 1..Len(V) : W[n] = V[n]
  BY <1>1
<1>3. vote' = [vote EXCEPT !.votes = W]
  BY DEF Add
<1>4. vote'.votes = W /\ vote'.type = vote.type /\ vote'.total = vote.total
      /\ vote'.left = vote.left
      /\ vote' \in [type : Types, ongoing : BOOLEAN, votes : Seq(Id),
                    total : Nat, left : 0..Window]
  BY <1>2, <1>3 DEF Inv, TypeOK
<1>5. Fits'
  BY <1>1, <1>2, <1>4 DEF Fits, Full, Inv, VoteInv
<1>6. Aimed'
  <2>1. ASSUME NEW n \in 2..Len(W) PROVE W[n] # called.whom.id
    <3>1. CASE n = Len(W)
      BY <1>2, <3>1 DEF Inv, VoteInv, Aimed
    <3>2. CASE n # Len(W)
      BY <1>2, <2>1, <3>2 DEF Inv, VoteInv, Aimed
    <3> QED
      BY <3>1, <3>2
  <2> QED
    BY <1>4, <2>1 DEF Inv, VoteInv, Aimed
<1>7. Distinct'
  BY <1>2, <1>4 DEF Distinct, Inv, HasVoted
<1>8. Present'
  BY DEF Present, Inv
<1> QED
  BY <1>4, <1>5, <1>6, <1>7, <1>8 DEF VoteInv

(* A new vote has the vote of who called it.                               *)
LEMMA CallKeeps ==
    ASSUME Inv, NEW i \in Id, NEW type \in Types, NEW id \in 0..Slots,
           Call(i, type, id), UNCHANGED <<peerVars, closing, lobbyVars>>,
           target' \in Persons,
           type = "kick" => id \in Id /\ target' = Person(id)
    PROVE  Inv'
<1>1. gen \in [Id -> Nat] /\ Id = 1..Slots
  BY DEF Inv, TypeOK, Id
<1>2. Person(id) \in Persons \/ id = 0
  BY <1>1 DEF Person, Persons
<1>3. called'.whom \in Persons /\ called'.gens = gen
      /\ called' \in [gens : [Id -> Nat], whom : Persons]
      /\ called'.whom = (IF id = 0 THEN Nobody ELSE Person(id))
  BY <1>1, <1>2 DEF Call, Nobody, Persons
<1>4. called'.whom.id = id /\ (id \in Id => called'.whom.gen = gen[id])
  BY <1>1, <1>3 DEF Nobody, Person
<1>5. Total(id) \in Nat /\ Total(id) <= Slots /\ Total(id) > 1
  BY TotalFits DEF Inv, Call
<1>6. vote' = [type |-> type, ongoing |-> TRUE, votes |-> <<i>>,
               total |-> Total(id), left |-> Window]
  BY DEF Call
<1>7. TypeOK'
  <2>1. canVote' \subseteq Id
    BY DEF Call, MayVote, Inv, TypeOK
  <2>2. cool' \in [Id -> 0..Pause]
    BY DEF Call, Inv, TypeOK
  <2>3. <<i>> \in Seq(Id) /\ Window \in 0..Window
    OBVIOUS
  <2>4. vote' \in [type : Types, ongoing : BOOLEAN, votes : Seq(Id),
                   total : Nat, left : 0..Window]
    BY <1>5, <1>6, <2>3
  <2> QED
    BY <1>3, <2>1, <2>2, <2>4
    DEF Inv, TypeOK, peerVars, lobbyVars, Persons, Id
<1>8. Fits'
  BY <1>5, <1>6 DEF Fits
<1>9. Aimed'
  <2>1. vote'.type = "kick" => target' = called'.whom
    BY <1>1, <1>3, <1>6
  <2>2. called'.whom.id \notin canVote'
    BY <1>4 DEF Call, MayVote
  <2>3. Len(vote'.votes) = 1
    BY <1>6
  <2>4. called'.whom.id \in Id => called'.whom.gen <= gen'[called'.whom.id]
    BY <1>1, <1>4 DEF peerVars
  <2> QED
    BY <2>1, <2>2, <2>3, <2>4 DEF Aimed, Id, peerVars
<1>10. Distinct'
  BY <1>6 DEF Distinct
<1>11. Present'
  BY <1>3 DEF Present, peerVars
<1> QED
  BY <1>7, <1>8, <1>9, <1>10, <1>11 DEF Inv, VoteInv

----------------------------------------------------------------------------
LEMMA InitInv == Init => Inv
<1> SUFFICES ASSUME Init PROVE Inv
  OBVIOUS
<1>1. NoVote \in [type : Types, ongoing : BOOLEAN, votes : Seq(Id),
                  total : Nat, left : 0..Window]
  BY DEF NoVote, Types
<1>2. NoCall \in [gens : [Id -> Nat], whom : [id : 0..Slots, gen : Nat]]
      /\ Nobody \in [id : 0..Slots, gen : Nat]
  BY DEF NoCall, Nobody
<1>3. gen \in [Id -> Nat] /\ cool \in [Id -> 0..Pause] /\ prac \in 0..1
  BY DEF Init
<1>4. TypeOK
  BY <1>1, <1>2, <1>3 DEF Init, TypeOK
<1> QED
  BY <1>4 DEF Init, Inv, VoteInv, Distinct, Present, NoVote

(* Who comes in with an id may not vote, and outnumbers who had it.        *)
LEMMA JoinInv == ASSUME Inv, NEW i \in Id, Join(i) PROVE Inv'
<1>1. gen' = [gen EXCEPT ![i] = @ + 1] /\ gen \in [Id -> Nat]
  BY DEF Join, Inv, TypeOK
<1>2. gen' \in [Id -> Nat] /\ \A j \in Id : gen[j] <= gen'[j]
  BY <1>1
<1>3. TypeOK'
  BY <1>2 DEF Join, Inv, TypeOK, lobbyVars
<1>4. VoteInv'
  <2> SUFFICES ASSUME vote.ongoing PROVE Fits' /\ Aimed'
    BY DEF VoteInv, Join
  <2>1. Fits /\ Aimed
    BY DEF Inv, VoteInv
  <2>2. called.whom.id \in Id => called.whom.gen <= gen'[called.whom.id]
    <3> SUFFICES ASSUME called.whom.id \in Id
                 PROVE  called.whom.gen <= gen'[called.whom.id]
      OBVIOUS
    <3>1. called.whom.gen \in Nat /\ gen[called.whom.id] \in Nat
          /\ gen'[called.whom.id] \in Nat
      BY <1>1, <1>2 DEF Inv, TypeOK
    <3> QED
      BY <1>2, <2>1, <3>1 DEF Aimed
  <2> QED
    BY <2>1, <2>2 DEF Fits, Aimed, Join
<1>5. Distinct'
  BY DEF Inv, Distinct, Join
<1>6. Present'
  BY <1>1 DEF Inv, Present, Join, TypeOK
<1> QED
  BY <1>3, <1>4, <1>5, <1>6 DEF Inv

(* A vote is given: it is one more, or the decision.                       *)
LEMMA SayYesInv == ASSUME Inv, NEW i \in Id, SayYes(i) PROVE Inv'
<1> DEFINE w == Add(vote, i)
<1>1. CASE ~HasVoted(vote, i) /\ Full(w)
  BY <1>1, DecideKeeps DEF SayYes, Inv, TypeOK
<1>2. CASE ~(~HasVoted(vote, i) /\ Full(w))
  <2>1. vote' = w /\ UNCHANGED <<peerVars, cool, inLobby, canVote, target, called,
                                 closing, prac, draft>>
    BY <1>2 DEF SayYes
  <2>2. CASE HasVoted(vote, i)
    <3>1. UNCHANGED vars
      BY <2>1, <2>2 DEF Add, vars, lobbyVars
    <3> QED
      BY <3>1 DEF vars, peerVars, lobbyVars, Inv, TypeOK, VoteInv, Fits, Aimed,
                  Distinct, Present
  <2>3. CASE ~HasVoted(vote, i)
    <3>1. /\ vote' \in [type : Types, ongoing : BOOLEAN, votes : Seq(Id),
                       total : Nat, left : 0..Window]
          /\ VoteInv' /\ Distinct' /\ Present'
      BY <1>2, <2>1, <2>3, AddKeeps DEF SayYes, peerVars
    <3>2. TypeOK'
      BY <2>1, <3>1 DEF Inv, TypeOK, peerVars
    <3> QED
      BY <3>1, <3>2 DEF Inv
  <2> QED
    BY <2>2, <2>3
<1> QED
  BY <1>1, <1>2

(* Time passes.                                                            *)
LEMMA TickInv == ASSUME Inv, Tick PROVE Inv'
<1>1. cool' \in [Id -> 0..Pause]
  BY DEF Tick, Inv, TypeOK
<1>2. CASE prac > 0
  <2>1. UNCHANGED <<peerVars, vote, canVote, target, called, closing, draft>>
        /\ prac' = 0 /\ inLobby' = FALSE
    BY <1>2 DEF Tick
  <2>2. TypeOK'
    <3>1. inLobby' \in BOOLEAN
      BY <2>1, Zenon
    <3>2. prac' \in 0..1
      BY <2>1
    <3> QED
      BY <1>1, <2>1, <3>1, <3>2 DEF peerVars, Inv, TypeOK
  <2>3. VoteInv' /\ Distinct' /\ Present'
    BY <2>1 DEF peerVars, Inv, VoteInv, Fits, Aimed, Distinct, Present
  <2> QED
    BY <2>2, <2>3 DEF Inv
<1>3. CASE ~(prac > 0)
  <2> DEFINE w == [vote EXCEPT !.left = @ - 1]
  <2>1. UNCHANGED <<peerVars, inLobby>>
    BY <1>3 DEF Tick
  <2>0. w.left = 0 \/ w.left \in 1..Window \/ ~vote.ongoing
    BY DEF Inv, TypeOK, VoteInv, Fits
  <2>2. CASE vote.ongoing /\ w.left = 0
    <3>1. Decide(w)
      BY <1>3, <2>2 DEF Tick
    <3> QED
      BY <1>1, <2>1, <3>1, DecideKeeps DEF Inv, TypeOK
  <2>3. CASE ~(vote.ongoing /\ w.left = 0)
    <3>1. vote' = (IF vote.ongoing THEN w ELSE vote)
          /\ UNCHANGED <<canVote, target, called, closing, prac, draft>>
      BY <1>3, <2>3 DEF Tick
    <3>2. vote' \in [type : Types, ongoing : BOOLEAN, votes : Seq(Id),
                     total : Nat, left : 0..Window]
          /\ vote'.votes = vote.votes /\ vote'.total = vote.total
          /\ vote'.type = vote.type /\ vote'.ongoing = vote.ongoing
          /\ (vote.ongoing => vote'.left \in 1..Window)
      <4>1. CASE vote.ongoing
        <5>1. vote' = w /\ w.left \in 1..Window
          BY <2>0, <2>3, <3>1, <4>1
        <5>2. w.left \in 0..Window
          BY <5>1
        <5>3. vote \in [type : Types, ongoing : BOOLEAN, votes : Seq(Id),
                        total : Nat, left : 0..Window]
          BY DEF Inv, TypeOK
        <5>4. w = [type |-> vote.type, ongoing |-> vote.ongoing,
                   votes |-> vote.votes, total |-> vote.total,
                   left |-> w.left]
          BY <5>3
        <5> HIDE DEF w
        <5> QED
          BY <5>1, <5>2, <5>3, <5>4
      <4>2. CASE ~vote.ongoing
        BY <3>1, <4>2 DEF Inv, TypeOK
      <4> QED
        BY <4>1, <4>2
    <3> QED
      BY <1>1, <2>1, <3>1, <3>2
      DEF peerVars, Inv, TypeOK, VoteInv, Fits, Aimed, Distinct, Present
  <2> QED
    BY <2>2, <2>3
<1> QED
  BY <1>2, <1>3

(* Every step keeps the invariant.                                         *)
LEMMA NextInv == Inv /\ [Next]_vars => Inv'
<1> SUFFICES ASSUME Inv, [Next]_vars PROVE Inv'
  OBVIOUS
<1>1. ASSUME NEW i \in Id, SayYes(i) PROVE Inv'
  BY <1>1, SayYesInv
<1>2. ASSUME NEW i \in Id, CallMapdraft(i) PROVE Inv'
  <2>1. target' \in Persons /\ "draft" \in Types /\ 0 \in 0..Slots
    BY <1>2 DEF CallMapdraft, Inv, TypeOK, Persons, Types
  <2> QED
    BY <1>2, <2>1, CallKeeps DEF CallMapdraft
<1>3. ASSUME NEW i \in Id, ArmMapdraft(i) PROVE Inv'
  BY <1>3 DEF ArmMapdraft, peerVars, Inv, TypeOK, VoteInv, Fits, Aimed,
              Distinct, Present
<1>4. ASSUME NEW i \in Id, CallPractice(i) PROVE Inv'
  <2>1. target' \in Persons /\ "practice" \in Types /\ 0 \in 0..Slots
    BY <1>4 DEF CallPractice, Inv, TypeOK, Persons, Types
  <2> QED
    BY <1>4, <2>1, CallKeeps DEF CallPractice
<1>5. ASSUME NEW i \in Id, NEW id \in Id, ChooseKick(i, id) PROVE Inv'
  <2>1. id \in 0..Slots /\ "kick" \in Types /\ Person(id) \in Persons
    BY DEF Id, Types, Person, Persons, Inv, TypeOK
  <2> QED
    BY <1>5, <2>1, CallKeeps DEF ChooseKick
<1>6. ASSUME NEW i \in Id, ToggleAfk(i) PROVE Inv'
  <2>1. TypeOK'
    BY <1>6 DEF ToggleAfk, Inv, TypeOK, lobbyVars
  <2> QED
    BY <1>6, <2>1 DEF ToggleAfk, lobbyVars, Inv, VoteInv, Fits, Aimed, Distinct,
                      Present
<1>7. ASSUME NEW i \in Id, Join(i) PROVE Inv'
  BY <1>7, JoinInv
<1>8. ASSUME NEW i \in Id, Leave(i) PROVE Inv'
  <2>1. TypeOK'
    BY <1>8 DEF Leave, Inv, TypeOK, lobbyVars
  <2> QED
    BY <1>8, <2>1 DEF Leave, lobbyVars, Inv, VoteInv, Fits, Aimed, Distinct,
                      Present
<1>9. ASSUME Go PROVE Inv'
  <2>1. CASE Depart
    BY <1>9, <2>1 DEF Go, Depart, peerVars, Inv, TypeOK, VoteInv, Fits, Aimed,
                      Distinct, Present
  <2>2. CASE DepartToDraft
    <3>1. draft' \in BOOLEAN /\ inLobby' \in BOOLEAN /\ Forget
      BY <2>2, Zenon DEF DepartToDraft
    <3>2. prac' \in 0..1
      BY <2>2 DEF DepartToDraft
    <3>3. TypeOK'
      BY <1>9, <3>1, <3>2, ForgetKeeps DEF Go, Inv, TypeOK, peerVars, Persons, Id
    <3> QED
      BY <3>1, <3>3, ForgetKeeps DEF Inv
  <2> QED
    BY <1>9, <2>1, <2>2 DEF Go
<1>10. ASSUME Return PROVE Inv'
  <2>1. prac' \in 0..1 /\ inLobby' \in BOOLEAN /\ Forget
    BY <1>10 DEF Return
  <2>2. TypeOK'
    BY <1>10, <2>1, ForgetKeeps DEF Return, Inv, TypeOK, peerVars, Persons, Id
  <2> QED
    BY <2>1, <2>2, ForgetKeeps DEF Inv
<1>11. ASSUME Tick PROVE Inv'
  BY <1>11, TickInv
<1>12. CASE UNCHANGED vars
  BY <1>12 DEF vars, peerVars, lobbyVars, Inv, TypeOK, VoteInv, Fits, Aimed,
               Distinct, Present
<1> QED
  BY <1>1, <1>2, <1>3, <1>4, <1>5, <1>6, <1>7, <1>8, <1>9, <1>10, <1>11, <1>12
  DEF Next, Peers

LEMMA Invariance == Spec => []Inv
<1> QED
  BY InitInv, NextInv, PTL DEF Spec

----------------------------------------------------------------------------
(* A vote that goes on has room for one more (vote_add has no check of the *)
(* array of its own).                                                      *)
THEOREM RoomForVotes == Spec => []VotesFit
<1>1. Inv => VotesFit
  BY DEF Inv, TypeOK, VoteInv, Fits, VotesFit
<1> QED
  BY <1>1, Invariance, PTL

(* Nobody votes twice, with an id of his own or of somebody who left.      *)
THEOREM NoSecondVote == Spec => []OneVoteEach
<1>1. Inv => OneVoteEach
  BY DEF Inv, Distinct, Present, OneVoteEach
<1> QED
  BY <1>1, Invariance, PTL

(* Who is thrown out by a vote is the one it was called against, or sits   *)
(* on his id after he has left.                                            *)
THEOREM KickIsAimed == Spec => KickHits
<1> DEFINE Hits == \A i \in closing' \ closing :
                      /\ i = called.whom.id
                      /\ called.whom = Person(i) \/ gen[i] > called.whom.gen
                      /\ \A n \in 2..Len(vote.votes) : vote.votes[n] # i
<1>1. ASSUME Inv, NEW w, Decide(w), vote.ongoing, w.type = vote.type PROVE Hits
  <2> SUFFICES ASSUME NEW i \in closing' \ closing
               PROVE  /\ i = called.whom.id
                      /\ called.whom = Person(i) \/ gen[i] > called.whom.gen
                      /\ \A n \in 2..Len(vote.votes) : vote.votes[n] # i
    OBVIOUS
  <2>1. w.type = "kick" /\ i = target.id /\ i \in here
    BY <1>1 DEF Decide
  <2>2. target = called.whom /\ i = called.whom.id /\ i \in Id
    BY <1>1, <2>1 DEF Inv, VoteInv, Aimed, TypeOK
  <2>3. called.whom \in [id : 0..Slots, gen : Nat] /\ gen[i] \in Nat
    BY <1>1, <2>2 DEF Inv, TypeOK
  <2>4. called.whom.gen <= gen[i]
    BY <1>1, <2>2 DEF Inv, VoteInv, Aimed
  <2>5. called.whom = [id |-> called.whom.id, gen |-> called.whom.gen]
    BY <2>3
  <2>6. called.whom = Person(i) \/ gen[i] > called.whom.gen
    BY <2>2, <2>3, <2>4, <2>5 DEF Person
  <2> QED
    BY <1>1, <2>2, <2>6 DEF Inv, VoteInv, Aimed
<1>2. ASSUME Inv, [Next]_vars PROVE [Hits]_vars
  <2>1. ASSUME NEW i \in Id, SayYes(i) PROVE Hits
    <3>1. CASE Decide(Add(vote, i))
      BY <1>2, <2>1, <3>1, <1>1 DEF SayYes, Add, HasVoted, Inv, TypeOK
    <3>2. CASE UNCHANGED closing
      BY <3>2
    <3> QED
      BY <2>1, <3>1, <3>2 DEF SayYes
  <2>2. ASSUME Tick PROVE Hits
    <3> DEFINE w == [vote EXCEPT !.left = @ - 1]
    <3>1. CASE Decide(w) /\ vote.ongoing
      BY <1>2, <3>1, <1>1 DEF Inv, TypeOK
    <3>2. CASE UNCHANGED closing
      BY <3>2
    <3> QED
      BY <2>2, <3>1, <3>2 DEF Tick
  <2>3. ASSUME closing' \subseteq closing PROVE Hits
    BY <2>3
  <2>4. ASSUME NEW i \in Id,
               \/ CallMapdraft(i) \/ ArmMapdraft(i) \/ CallPractice(i)
               \/ \E id \in Id : ChooseKick(i, id)
               \/ ToggleAfk(i) \/ Join(i) \/ Leave(i)
        PROVE  closing' \subseteq closing
    BY <2>4 DEF CallMapdraft, ArmMapdraft, CallPractice, ChooseKick, ToggleAfk,
                Join, Leave
  <2>5. ASSUME Go \/ Return \/ UNCHANGED vars PROVE closing' \subseteq closing
    BY <2>5 DEF Go, Return, vars
  <2> HIDE DEF Hits
  <2> QED
    BY <1>2, <2>1, <2>2, <2>3, <2>4, <2>5 DEF Next, Peers
<1> QED
  BY <1>2, Invariance, PTL DEF Spec, KickHits

----------------------------------------------------------------------------
(* Why a vote ends, and what may end it.                                   *)
OnlyCounts ==
    vote.ongoing /\ vote'.ongoing =>
        /\ vote'.type = vote.type /\ vote'.total = vote.total
        /\ UNCHANGED <<target, called>> /\ canVote' \subseteq canVote
        /\ \/ vote'.votes = vote.votes
           \/ \E i \in (here \cap canVote) \ (afk \cup closing) :
                 ~HasVoted(vote, i) /\ vote'.votes = Append(vote.votes, i)
        /\ vote'.left = vote.left \/ vote'.left = vote.left - 1
        /\ Tick /\ inLobby' => vote'.left = vote.left - 1

EndsInTime ==
    vote.ongoing /\ ~vote'.ongoing =>
        \/ Len(vote.votes) + 1 = vote.total
        \/ vote.left = 1
        \/ ~inLobby \/ ~inLobby'

Orderly == OnlyCounts /\ EndsInTime

LEMMA VoteUntouched ==
    ASSUME UNCHANGED <<vote, target, called>>, canVote' \subseteq canVote,
           Tick => ~inLobby'
    PROVE  Orderly
  BY DEF Orderly, OnlyCounts, EndsInTime

LEMMA SayYesOrderly == ASSUME Inv, NEW i \in Id, SayYes(i) PROVE Orderly
<1> DEFINE w == Add(vote, i)
<1>1. /\ vote.ongoing /\ inLobby /\ i \in (here \cap canVote) \ (afk \cup closing)
      /\ Fits /\ UNCHANGED <<peerVars, cool, inLobby>>
      /\ vote \in [type : Types, ongoing : BOOLEAN, votes : Seq(Id),
                   total : Nat, left : 0..Window]
  BY DEF SayYes, Speaks, Inv, VoteInv, TypeOK
<1>2. /\ w.type = vote.type /\ w.total = vote.total /\ w.left = vote.left
      /\ \/ HasVoted(vote, i) /\ w.votes = vote.votes
         \/ ~HasVoted(vote, i) /\ w.votes = Append(vote.votes, i)
  BY <1>1 DEF Add
<1>3. CASE ~HasVoted(vote, i) /\ Full(w)
  <2>1. vote' = NoVote
    BY <1>3 DEF SayYes, Decide, Forget
  <2>2. Len(vote.votes) + 1 >= vote.total
    <3> HIDE DEF w
    <3>1. w.votes = Append(vote.votes, i) /\ Len(w.votes) >= vote.total
      BY <1>2, <1>3 DEF Full
    <3>2. Len(Append(vote.votes, i)) = Len(vote.votes) + 1
      BY <1>1
    <3>3. QED
      BY <3>1, <3>2
  <2>3. Len(vote.votes) + 1 = vote.total
    BY <1>1, <2>2 DEF Fits
  <2>4. ~vote'.ongoing
    BY <2>1 DEF NoVote
  <2>5. QED
    BY <2>3, <2>4 DEF Orderly, OnlyCounts, EndsInTime
<1>4. CASE ~(~HasVoted(vote, i) /\ Full(w))
  <2>1. vote' = w /\ UNCHANGED <<canVote, target, called, prac>>
    BY <1>4 DEF SayYes
  <2>2. ASSUME Tick, inLobby' PROVE vote'.left = vote.left - 1
    <3>1. ~(prac > 0)
      BY <2>2 DEF Tick
    <3>2. vote' = [vote EXCEPT !.left = @ - 1] \/ vote' = NoVote
      BY <1>1, <2>2, <3>1 DEF Tick, Decide, Forget
    <3>3. w.left = vote.left /\ w.ongoing
      BY <1>1, <1>2 DEF Add
    <3>4. QED
      BY <1>1, <2>1, <3>2, <3>3 DEF NoVote
  <2>3. vote'.ongoing
    BY <1>1, <2>1 DEF Add
  <2> HIDE DEF w
  <2>4. QED
    BY <1>1, <1>2, <2>1, <2>2, <2>3 DEF Orderly, OnlyCounts, EndsInTime
<1>5. QED
  BY <1>3, <1>4

LEMMA TickOrderly == ASSUME Inv, Tick PROVE Orderly
<1> DEFINE w == [vote EXCEPT !.left = @ - 1]
<1>1. CASE prac > 0
  BY <1>1, VoteUntouched DEF Tick
<1>2. CASE ~(prac > 0) /\ vote.ongoing /\ w.left = 0
  <2>1. vote' = NoVote
    BY <1>2 DEF Tick, Decide, Forget
  <2>2. vote.left = 1
    BY <1>2 DEF Inv, VoteInv, Fits, TypeOK
  <2>3. QED
    BY <2>1, <2>2 DEF Orderly, OnlyCounts, EndsInTime, NoVote
<1>3. CASE ~(prac > 0) /\ vote.ongoing /\ w.left # 0
  <2>1. vote' = w /\ UNCHANGED <<canVote, target, called>>
    BY <1>3 DEF Tick
  <2>2. /\ w.type = vote.type /\ w.total = vote.total /\ w.votes = vote.votes
        /\ w.left = vote.left - 1 /\ w.ongoing = vote.ongoing
    BY DEF Inv, TypeOK
  <2> HIDE DEF w
  <2>3. QED
    BY <1>3, <2>1, <2>2 DEF Orderly, OnlyCounts, EndsInTime
<1>4. CASE ~vote.ongoing
  BY <1>4 DEF Orderly, OnlyCounts, EndsInTime
<1>5. QED
  BY <1>1, <1>2, <1>3, <1>4

(* A vote that goes on is the one that was called, and every tick of the   *)
(* lobby brings it closer to its end: it is not called anew, its total,    *)
(* its target and those who may vote are not exchanged, it loses no vote,  *)
(* and gains one only from somebody who may vote, is here and has not; it  *)
(* ends with its last vote, with its time or with a change of the phase,   *)
(* and with nobody's leaving.                                              *)
THEOREM VoteOnlyCounts == Spec => [][Orderly]_vars
<1>1. ASSUME Inv, [Next]_vars PROVE [Orderly]_vars
  <2>1. ASSUME ~vote.ongoing PROVE Orderly
    BY <2>1 DEF Orderly, OnlyCounts, EndsInTime
  <2>2. ASSUME ~inLobby \/ ~inLobby', ~vote'.ongoing PROVE Orderly
    BY <2>2 DEF Orderly, OnlyCounts, EndsInTime
  <2>3. ASSUME NEW i \in Id,
               \/ CallMapdraft(i) \/ CallPractice(i)
               \/ \E id \in Id : ChooseKick(i, id)
        PROVE  ~vote.ongoing
    BY <2>3 DEF CallMapdraft, CallPractice, ChooseKick
  <2>4. ASSUME NEW i \in Id,
               ArmMapdraft(i) \/ ToggleAfk(i) \/ Join(i) \/ Leave(i)
        PROVE  Orderly
    <3>1. UNCHANGED <<vote, target, called>> /\ canVote' \subseteq canVote
      BY <2>4 DEF ArmMapdraft, ToggleAfk, Join, Leave
    <3>2. CASE ~Tick
      BY <3>1, <3>2, VoteUntouched
    <3>3. CASE Tick
      BY <1>1, <3>3, TickOrderly
    <3>4. QED
      BY <3>2, <3>3
  <2>5. ASSUME Go PROVE Orderly
    <3>1. CASE Depart
      BY <2>5, <3>1, VoteUntouched DEF Go, Depart
    <3>2. CASE DepartToDraft
      BY <2>5, <2>2, <3>2 DEF Go, DepartToDraft, Forget, NoVote
    <3>3. QED
      BY <2>5, <3>1, <3>2 DEF Go
  <2>6. ASSUME Return PROVE Orderly
    BY <2>2, <2>6 DEF Return, Forget, NoVote
  <2>7. QED
    BY <1>1, <2>1, <2>3, <2>4, <2>5, <2>6, SayYesOrderly, TickOrderly
       DEF Next, Peers
<1>2. QED
  BY <1>1, Invariance, PTL DEF Spec
=============================================================================
