--------------------------- MODULE MapdraftProofs --------------------------
(***************************************************************************)
(* Proofs about Mapdraft: the index of the turn never goes stale, turns    *)
(* pass in order and come round equally often, for any number of players.  *)
(***************************************************************************)
EXTENDS Mapdraft, FiniteSetTheorems, SequenceTheorems, TLAPS

(* The order is sorted by id and lists players who are on the server.      *)
OrderOK ==
    phase = "MAPDRAFT" =>
        /\ order \in Seq(peers \cap inGame)
        /\ Increasing(order)

(* The inductive invariant: the index needs the order to be right.         *)
DraftInv ==
    /\ peers \subseteq Id /\ inGame \subseteq peers /\ turn \in Nat
    /\ OrderOK
    /\ TurnPresent

----------------------------------------------------------------------------
(* An index taken modulo the length is an index.                           *)
LEMMA ModIndex ==
    ASSUME NEW n \in Nat \ {0}, NEW a \in Nat
    PROVE  a % n \in 0 .. (n - 1)
  OBVIOUS

(* Cutting an entry out of a sorted order leaves a sorted order of the     *)
(* others, the ones behind it one place further to the front.              *)
LEMMA Cut ==
    ASSUME NEW S, NEW s \in Seq(S), S \subseteq Int, Increasing(s),
           NEW k \in 1 .. Len(s)
    PROVE  /\ Without(s, k) \in Seq(S \ {s[k]})
           /\ Len(Without(s, k)) = Len(s) - 1
           /\ Increasing(Without(s, k))
           /\ \A i \in 1 .. (Len(s) - 1) :
                 Without(s, k)[i] = IF i < k THEN s[i] ELSE s[i + 1]
<1> DEFINE w == Without(s, k)
<1>1. Len(s) - 1 \in Nat
  OBVIOUS
<1>2. \A i \in 1 .. (Len(s) - 1) : w[i] = IF i < k THEN s[i] ELSE s[i + 1]
  BY DEF Without
<1>3. \A i \in 1 .. (Len(s) - 1) : w[i] \in S \ {s[k]}
  <2>1. \A i \in 1 .. Len(s) : s[i] \in S /\ s[i] \in Int
    BY ElementOfSeq
  <2>2. \A i \in 1 .. Len(s) : i # k => s[i] # s[k]
    BY <2>1 DEF Increasing
  <2>3. QED
    BY <1>2, <2>1, <2>2
<1>4. w \in Seq(S \ {s[k]}) /\ Len(w) = Len(s) - 1
  <2>1. w = [i \in 1 .. (Len(s) - 1) |-> IF i < k THEN s[i] ELSE s[i + 1]]
    BY DEF Without
  <2>2. w \in [1 .. (Len(s) - 1) -> S \ {s[k]}]
    BY <2>1, <1>2, <1>3
  <2>3. QED
    BY <1>1, <2>2
<1>5. Increasing(w)
  BY <1>2, <1>4 DEF Increasing
<1>6. QED
  BY <1>2, <1>4, <1>5

(* Announcing a turn puts the index on a player.                           *)
LEMMA Announce ==
    ASSUME NEW S, NEW o \in Seq(S), NEW A, NEW t \in Nat, AnnounceTurn(o, A, t)
    PROVE  turn' \in 0 .. (Len(o) - 1) /\ o[turn' + 1] \in A
<1>1. PICK k \in Steps(o, A, t) : turn' = (t + k) % Len(o)
  BY DEF AnnounceTurn
<1>2. /\ k \in 0 .. (Len(o) - 1)
      /\ o[((t + k) % Len(o)) + 1] \in A
  BY <1>1 DEF Steps
<1>3. Len(o) \in Nat \ {0}
  BY <1>2
<1>4. t + k \in Nat
  BY <1>2
<1>5. (t + k) % Len(o) \in 0 .. (Len(o) - 1)
  BY <1>3, <1>4, ModIndex
<1>6. QED
  BY <1>1, <1>2, <1>5

(* Passing the turn ends the draft or puts the index on a player of P.     *)
LEMMA Pass ==
    ASSUME NEW P, NEW S, NEW o \in Seq(S), NEW t \in Nat,
           PassTurn(o, P, t), phase' = "MAPDRAFT"
    PROVE  /\ order' = o /\ inGame' = inGame \cap P
           /\ turn' \in Nat /\ turn' < Len(o)
           /\ o[turn' + 1] \in P \cap inGame
<1>1. Steps(o, Players(P), t) # {}
  BY DEF PassTurn, LobbyInit
<1>2. AnnounceTurn(o, Players(P), t) /\ order' = o /\ inGame' = inGame \cap P
  BY <1>1 DEF PassTurn
<1>3. turn' \in 0 .. (Len(o) - 1) /\ o[turn' + 1] \in Players(P)
  BY <1>2, Announce
<1>4. QED
  BY <1>2, <1>3 DEF Players

LEMMA PassInLobby ==
    ASSUME NEW P, NEW o, NEW t, PassTurn(o, P, t)
    PROVE  phase' = phase \/ LobbyInit(P)
  BY DEF PassTurn

(* Outside a draft the invariant says little.                              *)
LEMMA NoDraft ==
    ASSUME peers' \subseteq Id, inGame' \subseteq peers', turn' \in Nat,
           phase' # "MAPDRAFT"
    PROVE  DraftInv'
  BY DEF DraftInv, OrderOK, TurnPresent

LEMMA BackInLobby ==
    ASSUME NEW P, P = peers', P \subseteq Id, LobbyInit(P)
    PROVE  DraftInv'
  BY NoDraft DEF LobbyInit, Forget

(* A ban keeps the draft going with the next player, or ends it.           *)
LEMMA BanKeeps ==
    ASSUME DraftInv, phase = "MAPDRAFT", NEW map, BanMap(map)
    PROVE  DraftInv'
<1>0. peers' = peers
  BY DEF BanMap
<1>1. CASE \E last : Finish(last)
  BY <1>0, <1>1, NoDraft DEF Finish, Forget, DraftInv
<1>2. CASE LobbyInit(peers)
  BY <1>0, <1>2, BackInLobby DEF DraftInv
<1>3. CASE /\ Cardinality(pool \ {map}) > 1
           /\ PassTurn(order, peers, (turn + 1) % Len(order))
           /\ phase' = "MAPDRAFT" => pool' = pool \ {map}
           /\ ~LobbyInit(peers)
  <2>1. phase' = "MAPDRAFT" /\ pool' = pool \ {map}
    BY <1>3, PassInLobby
  <2>2. order \in Seq(peers \cap inGame) /\ Increasing(order)
    BY DEF DraftInv, OrderOK
  <2>3. turn \in Nat /\ turn < Len(order) /\ Len(order) \in Nat \ {0}
    BY <2>2, LenProperties DEF DraftInv, TurnPresent
  <2>4. (turn + 1) % Len(order) \in Nat
    BY <2>3, ModIndex
  <2>5. /\ order' = order /\ inGame' = inGame \cap peers
        /\ turn' \in Nat /\ turn' < Len(order)
        /\ order[turn' + 1] \in peers \cap inGame
    BY <1>3, <2>1, <2>2, <2>4, Pass
  <2>6. inGame' = inGame
    BY <2>5 DEF DraftInv
  <2>7. QED
    BY <1>0, <1>3, <2>1, <2>2, <2>5, <2>6
       DEF DraftInv, OrderOK, TurnPresent, Holder
<1>4. QED
  BY <1>1, <1>2, <1>3 DEF BanMap

(* A leave moves the index so that it stays on the same player, or passes  *)
(* the turn on.                                                            *)
LEMMA LeaveKeeps ==
    ASSUME DraftInv, NEW p \in Id, LeaveMapdraft(p)
    PROVE  DraftInv'
<1> DEFINE at == {i \in 1 .. Len(order) : order[i] = p}
           o == IF at = {} THEN order ELSE Without(order, CHOOSE i \in at : TRUE)
           P == peers \ {p}
<1>1. phase = "MAPDRAFT" /\ peers' = P /\ P \subseteq Id
  BY DEF LeaveMapdraft, Gone, DraftInv
<1>2. /\ order \in Seq(peers \cap inGame) /\ Increasing(order)
      /\ peers \cap inGame \subseteq Int
  BY <1>1 DEF DraftInv, OrderOK, Id
<1>3. /\ turn \in Nat /\ turn < Len(order) /\ Len(order) \in Nat
      /\ Cardinality(pool) > 1 /\ order[turn + 1] \in peers \cap inGame
  BY <1>1, <1>2, LenProperties DEF DraftInv, TurnPresent, Holder
<1>4. \A i \in 1 .. Len(order) : order[i] \in peers \cap inGame
  BY <1>2, ElementOfSeq
<1>5. o \in Seq(P \cap inGame) /\ Increasing(o)
  <2>1. CASE at = {}
    <3>1. \A i \in 1 .. Len(order) : order[i] \in P \cap inGame
      BY <1>4, <2>1
    <3>2. order \in [1 .. Len(order) -> P \cap inGame]
      BY <1>2, <3>1, LenProperties
    <3>3. QED
      BY <1>2, <1>3, <2>1, <3>2
  <2>2. CASE at # {}
    <3>1. PICK k \in 1 .. Len(order) :
             k = (CHOOSE i \in at : TRUE) /\ order[k] = p
      BY <2>2
    <3>2. /\ Without(order, k) \in Seq((peers \cap inGame) \ {order[k]})
          /\ Increasing(Without(order, k))
      BY <1>2, Cut
    <3>3. (peers \cap inGame) \ {order[k]} = P \cap inGame
      BY <3>1
    <3>4. QED
      BY <2>2, <3>1, <3>2, <3>3
  <2>3. QED
    BY <2>1, <2>2
<1>6. CASE LobbyInit(P)
  BY <1>1, <1>6, BackInLobby
<1>7. CASE /\ o # <<>> /\ PassTurn(o, P, turn % Len(o)) /\ ~LobbyInit(P)
           /\ phase' = "MAPDRAFT" => pool' = pool
  <2>1. phase' = "MAPDRAFT" /\ pool' = pool
    BY <1>1, <1>7, PassInLobby
  <2>2. Len(o) \in Nat \ {0}
    BY <1>5, <1>7, EmptySeq
  <2>3. turn % Len(o) \in Nat
    <3> HIDE DEF o
    <3>1. turn % Len(o) \in 0 .. (Len(o) - 1)
      BY <1>3, <2>2, ModIndex
    <3>2. QED
      BY <3>1
  <2>4. /\ order' = o /\ inGame' = inGame \cap P
        /\ turn' \in Nat /\ turn' < Len(o)
        /\ o[turn' + 1] \in P \cap inGame
    BY <1>5, <1>7, <2>1, <2>3, Pass
  <2>5. P \cap inGame = peers' \cap inGame'
    BY <1>1, <2>4
  <2>6. QED
    BY <1>1, <1>3, <1>5, <2>1, <2>4, <2>5
       DEF DraftInv, OrderOK, TurnPresent, Holder
<1>8. CASE /\ o # <<>> /\ turn + 1 \notin at
           /\ order' = o
           /\ turn' = IF \E i \in at : i <= turn THEN turn - 1 ELSE turn
           /\ inGame' = inGame \ {p}
           /\ phase' = phase /\ pool' = pool
  <2>1. P \cap inGame = peers' \cap inGame' /\ inGame' \subseteq peers'
    BY <1>1, <1>8 DEF DraftInv
  <2>2. turn' \in Nat /\ turn' < Len(o) /\ o[turn' + 1] = order[turn + 1]
    <3>1. CASE at = {}
      BY <1>3, <1>8, <3>1
    <3>2. CASE at # {}
      <4>1. PICK k \in 1 .. Len(order) :
               k = (CHOOSE i \in at : TRUE) /\ order[k] = p
        BY <3>2
      <4>2. at = {k}
        BY <1>2, <1>4, <4>1 DEF Increasing
      <4>3. k # turn + 1
        BY <1>8, <4>2
      <4>4. /\ o = Without(order, k) /\ Len(o) = Len(order) - 1
            /\ \A i \in 1 .. (Len(order) - 1) :
                  o[i] = IF i < k THEN order[i] ELSE order[i + 1]
        BY <1>2, <3>2, <4>1, Cut
      <4>5. CASE k <= turn
        <5>1. turn' = turn - 1
          BY <1>8, <4>2, <4>5
        <5>2. QED
          <6> HIDE DEF o, at, P
          <6>1. turn \in 1 .. (Len(order) - 1)
            BY <1>3, <4>1, <4>5
          <6>2. o[turn] = order[turn + 1]
            BY <1>3, <4>4, <4>5, <6>1
          <6>3. QED
            BY <1>3, <4>4, <5>1, <6>1, <6>2
      <4>6. CASE k > turn + 1
        <5>1. turn' = turn
          <6> HIDE DEF o, at, P
          <6>1. \A i \in at : ~(i <= turn)
            BY <1>3, <4>2, <4>6
          <6>2. QED
            BY <1>8, <6>1
        <5>2. QED
          BY <1>3, <4>1, <4>4, <4>6, <5>1
      <4>7. QED
        BY <1>3, <4>1, <4>3, <4>5, <4>6
    <3>3. QED
      BY <3>1, <3>2
  <2>3. o[turn' + 1] \in P \cap inGame
    BY <1>5, <2>2, ElementOfSeq
  <2>4. QED
    BY <1>1, <1>3, <1>5, <1>8, <2>1, <2>2, <2>3
       DEF DraftInv, OrderOK, TurnPresent, Holder
<1>9. QED
  BY <1>6, <1>7, <1>8 DEF LeaveMapdraft, draftVars

LEMMA StartKeeps ==
    ASSUME DraftInv, NEW enabled \in SUBSET Map, Start(enabled)
    PROVE  DraftInv'
<1>1. peers' = peers /\ peers \subseteq Id
  BY DEF Start, DraftInv
<1>2. CASE LobbyInit(peers)
  BY <1>1, <1>2, BackInLobby
<1>3. CASE phase' = "MAPVOTE" /\ UNCHANGED <<inGame, draftVars>>
  BY <1>1, <1>3, NoDraft DEF DraftInv, draftVars
<1>4. CASE \E map : Finish(map)
  BY <1>1, <1>4, NoDraft DEF Finish, Forget, DraftInv
<1>5. CASE /\ Cardinality(enabled) > 1 /\ pool' = enabled
           /\ order' \in ById(Players(peers))
           /\ AnnounceTurn(order', Players(peers), 0)
           /\ UNCHANGED inGame
  <2>1. IsFiniteSet(Players(peers)) /\ Cardinality(Players(peers)) \in Nat
    <3>1. IsFiniteSet(Id)
      BY DraftAssumption, FS_Interval DEF Id
    <3>2. Players(peers) \in SUBSET Id
      BY <1>1 DEF Players
    <3>3. QED
      BY <3>1, <3>2, FS_Subset, FS_CardinalityType
  <2>2. order' \in Seq(Players(peers)) /\ Increasing(order')
    BY <1>5, <2>1 DEF ById
  <2>3. turn' \in 0 .. (Len(order') - 1) /\ order'[turn' + 1] \in Players(peers)
    BY <1>5, <2>2, Announce
  <2>4. order' \in Seq(peers' \cap inGame')
    BY <1>1, <1>5, <2>2, SeqMonotonic DEF Players
  <2>5. Len(order') \in Nat
    BY <2>2, LenProperties
  <2>6. QED
    BY <1>1, <1>5, <2>2, <2>3, <2>4, <2>5
       DEF DraftInv, OrderOK, TurnPresent, Holder, Players
<1>6. QED
  BY <1>2, <1>3, <1>4, <1>5 DEF Start

(* What changes neither the draft nor who plays keeps the invariant.       *)
LEMMA Untouched ==
    ASSUME DraftInv, peers' \subseteq Id, inGame' \subseteq peers',
           peers \cap inGame \subseteq peers' \cap inGame',
           UNCHANGED <<phase, pool, order, turn>>
    PROVE  DraftInv'
<1>1. phase = "MAPDRAFT" => order \in Seq(peers' \cap inGame')
  BY SeqMonotonic DEF DraftInv, OrderOK
<1>2. QED
  BY <1>1 DEF DraftInv, OrderOK, TurnPresent, Holder

----------------------------------------------------------------------------
LEMMA DraftInvInit == Init => DraftInv
  BY DEF Init, DraftInv, OrderOK, TurnPresent

LEMMA DraftInvNext == DraftInv /\ [Next]_vars => DraftInv'
<1> SUFFICES ASSUME DraftInv, [Next]_vars
             PROVE  DraftInv'
  OBVIOUS
<1>1. CASE Join
  BY <1>1, Untouched DEF Join, DraftInv, draftVars
<1>2. ASSUME NEW p \in Id, LeaveQuietly(p)
      PROVE  DraftInv'
  <2>1. CASE phase = "MAPDRAFT"
    BY <1>2, <2>1, Untouched DEF LeaveQuietly, Gone, DraftInv, draftVars
  <2>2. CASE phase # "MAPDRAFT"
    BY <1>2, <2>2, NoDraft DEF LeaveQuietly, Gone, DraftInv, draftVars
  <2>3. QED
    BY <2>1, <2>2
<1>3. ASSUME NEW p \in Id, LeaveMapvote(p)
      PROVE  DraftInv'
  <2>1. peers' = peers \ {p} /\ peers' \subseteq Id
    BY <1>3 DEF LeaveMapvote, Gone, DraftInv
  <2>2. CASE LobbyInit(peers \ {p})
    BY <2>1, <2>2, BackInLobby
  <2>3. CASE inGame' = inGame \ {p} /\ UNCHANGED <<phase, draftVars>>
    BY <1>3, <2>1, <2>3, NoDraft DEF LeaveMapvote, DraftInv, draftVars
  <2>4. QED
    BY <1>3, <2>2, <2>3 DEF LeaveMapvote
<1>4. ASSUME NEW p \in Id, LeaveMapdraft(p)
      PROVE  DraftInv'
  BY <1>4, LeaveKeeps
<1>5. ASSUME NEW p \in Id, ToggleAfk(p)
      PROVE  DraftInv'
  BY <1>5, Untouched DEF ToggleAfk, DraftInv, draftVars
<1>6. ASSUME NEW enabled \in SUBSET Map, Start(enabled)
      PROVE  DraftInv'
  BY <1>6, StartKeeps
<1>7. ASSUME NEW p \in Id, NEW map \in Map, CmdBan(p, map)
      PROVE  DraftInv'
  BY <1>7, BanKeeps DEF CmdBan
<1>8. CASE Tick
  <2>1. CASE secs # 1
    BY <1>8, <2>1, Untouched DEF Tick, DraftInv
  <2>2. CASE secs = 1
    BY <1>8, <2>2, BanKeeps DEF Tick
  <2>3. QED
    BY <2>1, <2>2
<1>9. CASE MapvoteOver
  BY <1>9, BackInLobby DEF MapvoteOver, DraftInv
<1>10. CASE UNCHANGED vars
  BY <1>10, Untouched DEF vars, draftVars, DraftInv
<1>11. QED
  BY <1>1, <1>2, <1>3, <1>4, <1>5, <1>6, <1>7, <1>8, <1>9, <1>10
     DEF Next, Leave

(* Whoever leaves, goes afk or is timed out, the index of the turn points  *)
(* at a player of the order who is on the server, and there are maps to    *)
(* ban: mapdraft_turn_peer never misses, no modulo is by zero.             *)
THEOREM TurnNeverStale == Spec => []TurnPresent
<1>1. DraftInv => TurnPresent
  BY DEF DraftInv
<1>2. QED
  BY <1>1, DraftInvInit, DraftInvNext, PTL DEF Spec

----------------------------------------------------------------------------
(* Everybody up to the place t of the order o has been asked once more     *)
(* than everybody behind it.                                               *)
Shape(o, T, c, t) ==
    \A i \in 1 .. Len(o) : T[o[i]] = IF i <= t THEN c + 1 ELSE c

Level(o, T, t) == \E c \in Nat : Shape(o, T, c, t)

(* The inductive invariant behind EqualTurns.                              *)
TurnsOK ==
    /\ turns \in [Id -> Nat]
    /\ phase # "MAPDRAFT" => turns = [p \in Id |-> 0]
    /\ phase = "MAPDRAFT" => Level(order, turns, turn + 1)

LEMMA IdsAreInts == Id \subseteq Int
  BY DEF Id

(* The modulo of what is less than twice the modulus.                      *)
LEMMA ModOnce ==
    ASSUME NEW n \in Nat \ {0}, NEW a \in 0 .. (2 * n - 1)
    PROVE  a % n = IF a < n THEN a ELSE a - n
<1>1. a < n => a % n = a
  OBVIOUS
<1>2. a >= n => a % n = a - n
  <2>1. CASE a >= n
    <3>1. a = n * (a \div n) + (a % n) /\ a % n \in 0 .. (n - 1) /\ a \div n \in Int
      OBVIOUS
    <3>2. a \div n = 1
      <4>1. a \div n >= 2 => n * (a \div n) >= n * 2
        BY <3>1
      <4>2. a \div n <= 0 => n * (a \div n) <= 0
        BY <3>1
      <4>3. QED
        BY <2>1, <3>1, <4>1, <4>2
    <3>3. QED
      BY <3>1, <3>2
  <2>2. QED
    BY <2>1
<1>3. QED
  BY <1>1, <1>2

(* An index below the length, moved on by at most the length less one.     *)
LEMMA Around ==
    ASSUME NEW n \in Nat \ {0}, NEW t \in 0 .. (n - 1), NEW j \in 0 .. (n - 1)
    PROVE  (t + j) % n = IF t + j < n THEN t + j ELSE t + j - n
<1> DEFINE a == t + j
<1>1. a \in 0 .. (2 * n - 1)
  OBVIOUS
<1> HIDE DEF a
<1>2. a % n = IF a < n THEN a ELSE a - n
  BY <1>1, ModOnce
<1>3. QED
  BY <1>2 DEF a

(* When all have been asked, the round is over and the next one begins.    *)
LEMMA Wrap ==
    ASSUME NEW S, NEW o \in Seq(S), NEW T, NEW t \in 0 .. Len(o), o # <<>>,
           Level(o, T, t)
    PROVE  Level(o, T, t % Len(o)) /\ t % Len(o) \in 0 .. (Len(o) - 1)
<1>1. Len(o) \in Nat \ {0}
  BY EmptySeq, LenProperties
<1>2. PICK c \in Nat : Shape(o, T, c, t)
  BY DEF Level
<1>3. t % Len(o) = IF t < Len(o) THEN t ELSE 0
  <2> DEFINE n == Len(o)
  <2>1. n \in Nat \ {0} /\ t \in 0 .. (2 * n - 1) /\ t <= n
    BY <1>1
  <2> HIDE DEF n
  <2>2. t % n = IF t < n THEN t ELSE t - n
    BY <2>1, ModOnce
  <2>3. QED
    BY <2>1, <2>2 DEF n
<1>4. CASE t < Len(o)
  BY <1>1, <1>3, <1>4
<1>5. CASE t = Len(o)
  <2>1. Shape(o, T, c + 1, 0)
    BY <1>2, <1>5 DEF Shape
  <2>2. QED
    BY <1>1, <1>3, <1>5, <2>1 DEF Level
<1>6. QED
  BY <1>1, <1>4, <1>5

(* Announcing a turn counts a turn for whoever is passed over on the way.  *)
LEMMA AnnounceLevel ==
    ASSUME turns \in [Id -> Nat], NEW o \in Seq(Id), Increasing(o), NEW A,
           NEW t \in 0 .. (Len(o) - 1), Level(o, turns, t), AnnounceTurn(o, A, t)
    PROVE  turns' \in [Id -> Nat] /\ Level(o, turns', turn' + 1)
<1> DEFINE n == Len(o)
           at(j) == ((t + j) % n) + 1
<1>1. n \in Nat \ {0}
  BY LenProperties
<1>2. PICK k \in 0 .. (n - 1) :
         /\ turn' + 1 = at(k)
         /\ turn' = (t + k) % n
         /\ turns' = [p \in Id |-> IF \E j \in 0 .. k : o[at(j)] = p
                                  THEN turns[p] + 1 ELSE turns[p]]
  BY DEF AnnounceTurn, Steps
<1>3. PICK c \in Nat : Shape(o, turns, c, t)
  BY DEF Level
<1>4. \A i \in 1 .. n : o[i] \in Id
  BY ElementOfSeq
<1>5. \A i, j \in 1 .. n : o[i] = o[j] => i = j
  BY <1>1, <1>4 DEF Increasing, Id
<1>6. \A j \in 0 .. (n - 1) :
         at(j) = IF t + j < n THEN t + j + 1 ELSE t + j - n + 1
  <2> SUFFICES ASSUME NEW j \in 0 .. (n - 1)
               PROVE  at(j) = IF t + j < n THEN t + j + 1 ELSE t + j - n + 1
    OBVIOUS
  <2> HIDE DEF n
  <2>1. t \in 0 .. (n - 1)
    BY DEF n
  <2>2. (t + j) % n = IF t + j < n THEN t + j ELSE t + j - n
    BY <1>1, <2>1, Around
  <2> DEFINE m == (t + j) % n
  <2>3. m = (IF t + j < n THEN t + j ELSE t + j - n) /\ at(j) = m + 1
    BY <2>2
  <2> HIDE DEF m, at
  <2>4. QED
    BY <1>1, <2>1, <2>3
<1>7. \A i \in 1 .. n :
         turns'[o[i]] = IF \E j \in 0 .. k : at(j) = i
                        THEN turns[o[i]] + 1 ELSE turns[o[i]]
  <2> SUFFICES ASSUME NEW i \in 1 .. n
               PROVE  turns'[o[i]] = IF \E j \in 0 .. k : at(j) = i
                                     THEN turns[o[i]] + 1 ELSE turns[o[i]]
    OBVIOUS
  <2>1. \A j \in 0 .. k : at(j) \in 1 .. n
    <3> HIDE DEF n, at
    <3>1. t \in 0 .. (n - 1) /\ k \in 0 .. (n - 1)
      BY <1>2 DEF n
    <3> SUFFICES ASSUME NEW j \in 0 .. k
                 PROVE  at(j) \in 1 .. n
      OBVIOUS
    <3>2. at(j) = IF t + j < n THEN t + j + 1 ELSE t + j - n + 1
      BY <1>1, <1>6, <3>1
    <3>3. QED
      BY <1>1, <3>1, <3>2
  <2>2. (\E j \in 0 .. k : o[at(j)] = o[i]) <=> (\E j \in 0 .. k : at(j) = i)
    <3> HIDE DEF at
    <3>1. QED
      BY <1>5, <2>1
  <2>3. QED
    <3> HIDE DEF at, n
    <3>1. o[i] \in Id
      BY <1>4
    <3>2. QED
      BY <1>2, <2>2, <3>1
<1>8. turns' \in [Id -> Nat]
  <2> HIDE DEF at, n
  <2>1. QED
    BY <1>2
<1> HIDE DEF at
<1>9. CASE t + k < n
  <2>1. turn' + 1 = t + k + 1
    BY <1>2, <1>6, <1>9
  <2>2. \A i \in 1 .. n : (\E j \in 0 .. k : at(j) = i) <=> (t < i /\ i <= t + k + 1)
    <3> SUFFICES ASSUME NEW i \in 1 .. n
                 PROVE  (\E j \in 0 .. k : at(j) = i) <=> (t < i /\ i <= t + k + 1)
      OBVIOUS
    <3>0. t \in 0 .. (n - 1)
      OBVIOUS
    <3> HIDE DEF n
    <3>1. \A j \in 0 .. k : at(j) = t + j + 1
      BY <1>1, <1>2, <1>6, <1>9, <3>0
    <3>2. (t < i /\ i <= t + k + 1) => (i - t - 1 \in 0 .. k /\ at(i - t - 1) = i)
      <4>1. QED
        BY <1>1, <1>2, <3>0, <3>1
    <3>3. QED
      <4>1. QED
        BY <1>1, <1>2, <3>0, <3>1, <3>2
  <2>3. Shape(o, turns', c, turn' + 1)
    <3> SUFFICES ASSUME NEW i \in 1 .. n
                 PROVE  turns'[o[i]] = IF i <= turn' + 1 THEN c + 1 ELSE c
      BY DEF Shape
    <3>1. turns[o[i]] = IF i <= t THEN c + 1 ELSE c
      BY <1>3 DEF Shape
    <3>2. turns'[o[i]] = IF t < i /\ i <= t + k + 1
                         THEN turns[o[i]] + 1 ELSE turns[o[i]]
      <4>1. QED
        BY <1>7, <2>2
    <3> HIDE DEF n
    <3>3. QED
      BY <1>1, <1>2, <2>1, <3>1, <3>2
  <2>4. QED
    BY <1>8, <2>3 DEF Level
<1>10. CASE t + k >= n
  <2>0. t \in 0 .. (n - 1)
    OBVIOUS
  <2>1. turn' + 1 = t + k - n + 1
    <3> HIDE DEF n
    <3>1. QED
      BY <1>1, <1>2, <1>6, <1>10, <2>0
  <2>2. \A i \in 1 .. n :
           (\E j \in 0 .. k : at(j) = i) <=> (t < i \/ i <= t + k - n + 1)
    <3> SUFFICES ASSUME NEW i \in 1 .. n
                 PROVE  (\E j \in 0 .. k : at(j) = i) <=> (t < i \/ i <= t + k - n + 1)
      OBVIOUS
    <3> HIDE DEF n
    <3>1. \A j \in 0 .. k : at(j) = IF t + j < n THEN t + j + 1 ELSE t + j - n + 1
      BY <1>1, <1>2, <1>6, <2>0
    <3> HIDE DEF at
    <3>2. CASE t < i
      <4>1. i - t - 1 \in 0 .. k /\ at(i - t - 1) = i
        BY <1>1, <1>2, <1>10, <2>0, <3>1, <3>2
      <4>2. QED
        BY <3>2, <4>1
    <3>3. CASE i <= t /\ i <= t + k - n + 1
      <4>1. i + n - t - 1 \in 0 .. k /\ at(i + n - t - 1) = i
        BY <1>1, <1>2, <1>10, <2>0, <3>1, <3>3
      <4>2. QED
        BY <3>3, <4>1
    <3>4. CASE i <= t /\ i > t + k - n + 1
      <4>1. \A j \in 0 .. k : at(j) # i
        BY <1>1, <1>2, <1>10, <2>0, <3>1, <3>4
      <4>2. QED
        BY <1>1, <1>2, <2>0, <3>4, <4>1
    <3>5. QED
      BY <1>1, <1>2, <2>0, <3>2, <3>3, <3>4
  <2>3. Shape(o, turns', c + 1, turn' + 1)
    <3> SUFFICES ASSUME NEW i \in 1 .. n
                 PROVE  turns'[o[i]] = IF i <= turn' + 1 THEN (c + 1) + 1 ELSE c + 1
      BY DEF Shape
    <3>1. turns[o[i]] = IF i <= t THEN c + 1 ELSE c
      BY <1>3 DEF Shape
    <3>2. turns'[o[i]] = IF t < i \/ i <= t + k - n + 1
                         THEN turns[o[i]] + 1 ELSE turns[o[i]]
      <4>1. QED
        BY <1>7, <2>2
    <3> HIDE DEF n
    <3>3. QED
      BY <1>1, <1>2, <2>0, <2>1, <3>1, <3>2
  <2>4. QED
    BY <1>8, <2>3 DEF Level
<1>11. QED
  <2> HIDE DEF n, at
  <2>0. t \in Int /\ k \in Int /\ n \in Int
    BY <1>1, <1>2 DEF n
  <2>1. QED
    BY <2>0, <1>9, <1>10

(* The end of a draft clears the count.                                    *)
LEMMA CountCleared ==
    ASSUME Forget, phase' # "MAPDRAFT"
    PROVE  TurnsOK'
<1>1. turns' = [p \in Id |-> 0]
  BY DEF Forget
<1>2. turns' \in [Id -> Nat]
  BY <1>1
<1>3. QED
  BY <1>1, <1>2 DEF TurnsOK

LEMMA CountKept ==
    ASSUME TurnsOK, UNCHANGED <<phase, order, turn, turns>>
    PROVE  TurnsOK'
  BY DEF TurnsOK

(* Passing the turn keeps everybody level.                                 *)
LEMMA PassLevel ==
    ASSUME TurnsOK, phase = "MAPDRAFT", NEW P, NEW o \in Seq(Id), Increasing(o),
           o # <<>>, NEW t \in 0 .. Len(o), Level(o, turns, t),
           PassTurn(o, P, t % Len(o))
    PROVE  TurnsOK'
<1>1. CASE LobbyInit(P)
  BY <1>1, CountCleared DEF LobbyInit
<1>2. CASE ~LobbyInit(P)
  <2>1. /\ order' = o /\ AnnounceTurn(o, Players(P), t % Len(o))
        /\ phase' = phase
    BY <1>2 DEF PassTurn
  <2>2. Level(o, turns, t % Len(o)) /\ t % Len(o) \in 0 .. (Len(o) - 1)
    BY Wrap
  <2> DEFINE next == t % Len(o)
  <2>3. next \in 0 .. (Len(o) - 1) /\ Level(o, turns, next)
        /\ AnnounceTurn(o, Players(P), next)
    BY <2>1, <2>2
  <2> HIDE DEF next
  <2>4. turns' \in [Id -> Nat] /\ Level(o, turns', turn' + 1)
    BY <2>3, AnnounceLevel DEF TurnsOK
  <2>5. QED
    BY <2>1, <2>4 DEF TurnsOK
<1>3. QED
  BY <1>1, <1>2

LEMMA BanLevel ==
    ASSUME DraftInv, TurnsOK, phase = "MAPDRAFT", NEW map, BanMap(map)
    PROVE  TurnsOK'
<1>1. CASE \E last : Finish(last)
  BY <1>1, CountCleared DEF Finish
<1>2. CASE LobbyInit(peers)
  BY <1>2, CountCleared DEF LobbyInit
<1>3. CASE PassTurn(order, peers, (turn + 1) % Len(order))
  <2>1. order \in Seq(Id) /\ Increasing(order)
    <3>1. order \in Seq(peers \cap inGame) /\ peers \cap inGame \subseteq Id
      BY DEF DraftInv, OrderOK
    <3>2. QED
      BY <3>1, SeqMonotonic DEF DraftInv, OrderOK
  <2>2. turn + 1 \in 0 .. Len(order) /\ order # <<>>
    BY <2>1, LenProperties, EmptySeq DEF DraftInv, TurnPresent
  <2>3. Level(order, turns, turn + 1)
    BY DEF TurnsOK
  <2>4. QED
    BY <1>3, <2>1, <2>2, <2>3, PassLevel
<1>4. QED
  BY <1>1, <1>2, <1>3 DEF BanMap

(* What the places of an order without its k-th entry are level with.      *)
LEMMA CutLevel ==
    ASSUME NEW s \in Seq(Id), Increasing(s), NEW k \in 1 .. Len(s), NEW T,
           NEW t \in 0 .. Len(s), Level(s, T, t)
    PROVE  Level(Without(s, k), T, IF k <= t THEN t - 1 ELSE t)
<1> DEFINE w == Without(s, k)
           u == IF k <= t THEN t - 1 ELSE t
<1>1. /\ Len(w) = Len(s) - 1
      /\ \A i \in 1 .. (Len(s) - 1) : w[i] = IF i < k THEN s[i] ELSE s[i + 1]
  BY Cut, IdsAreInts
<1>2. PICK c \in Nat : Shape(s, T, c, t)
  BY DEF Level
<1>3. ASSUME NEW i \in 1 .. (Len(s) - 1)
      PROVE  T[w[i]] = IF i <= u THEN c + 1 ELSE c
  <2>0. Len(s) \in Nat
    OBVIOUS
  <2>1. CASE i < k
    <3>1. T[s[i]] = IF i <= t THEN c + 1 ELSE c
      BY <1>2, <2>0 DEF Shape
    <3>2. w[i] = s[i]
      BY <1>1, <2>1
    <3> HIDE DEF w
    <3>3. QED
      BY <2>0, <2>1, <3>1, <3>2
  <2>2. CASE i >= k
    <3>1. T[s[i + 1]] = IF i + 1 <= t THEN c + 1 ELSE c
      BY <1>2, <2>0 DEF Shape
    <3>2. w[i] = s[i + 1]
      BY <1>1, <2>2
    <3> HIDE DEF w
    <3>3. QED
      BY <2>0, <2>2, <3>1, <3>2
  <2>3. QED
    BY <2>0, <2>1, <2>2
<1>4. Shape(w, T, c, u)
  <2> HIDE DEF w, u
  <2>1. QED
    BY <1>1, <1>3 DEF Shape
<1>5. QED
  BY <1>4 DEF Level

(* A leaver is cut out before the index or behind it, or holds the turn.   *)
LEMMA LeaveLevel ==
    ASSUME DraftInv, TurnsOK, NEW p \in Id, LeaveMapdraft(p)
    PROVE  TurnsOK'
<1> DEFINE at == {i \in 1 .. Len(order) : order[i] = p}
           o == IF at = {} THEN order ELSE Without(order, CHOOSE i \in at : TRUE)
           P == peers \ {p}
<1>1. phase = "MAPDRAFT"
  BY DEF LeaveMapdraft
<1>2. order \in Seq(Id) /\ Increasing(order)
  <2>1. order \in Seq(peers \cap inGame) /\ peers \cap inGame \subseteq Id
    BY <1>1 DEF DraftInv, OrderOK
  <2>2. QED
    BY <1>1, <2>1, SeqMonotonic DEF DraftInv, OrderOK
<1>3. turn \in Nat /\ turn < Len(order) /\ Len(order) \in Nat
  BY <1>1, <1>2, LenProperties DEF DraftInv, TurnPresent
<1>4. Level(order, turns, turn + 1)
  BY <1>1 DEF TurnsOK
<1>5. \A i, j \in 1 .. Len(order) : order[i] = order[j] => i = j
  <2>1. \A i \in 1 .. Len(order) : order[i] \in Int
    BY <1>2, ElementOfSeq, IdsAreInts
  <2>2. QED
    BY <1>2, <2>1 DEF Increasing
<1>6. CASE LobbyInit(P)
  BY <1>6, CountCleared DEF LobbyInit
<1>7. CASE at = {} /\ ~LobbyInit(P)
  <2>1. turn + 1 \notin at /\ UNCHANGED <<phase, order, turn, turns>>
    BY <1>1, <1>7 DEF LeaveMapdraft
  <2>2. QED
    BY <2>1, CountKept
<1>8. CASE at # {} /\ ~LobbyInit(P)
  <2>1. PICK k \in 1 .. Len(order) : k = (CHOOSE i \in at : TRUE) /\ order[k] = p
    BY <1>8
  <2>2. at = {k} /\ o = Without(order, k)
    BY <1>5, <1>8, <2>1
  <2>3. o \in Seq(Id) /\ Len(o) = Len(order) - 1 /\ Increasing(o)
    <3>1. /\ Without(order, k) \in Seq(Id \ {order[k]})
          /\ Len(Without(order, k)) = Len(order) - 1
          /\ Increasing(Without(order, k))
      BY <1>2, Cut, IdsAreInts
    <3>2. Without(order, k) \in Seq(Id)
      BY <3>1, SeqMonotonic
    <3>3. QED
      BY <2>2, <3>1, <3>2
  <2>4. Level(o, turns, IF k <= turn + 1 THEN turn ELSE turn + 1)
    <3>1. turn + 1 \in 0 .. Len(order)
      BY <1>3
    <3> DEFINE v == turn + 1
    <3>2. Level(Without(order, k), turns, IF k <= v THEN v - 1 ELSE v)
      <4>1. v \in 0 .. Len(order) /\ Level(order, turns, v)
        BY <1>4, <3>1
      <4> HIDE DEF v
      <4>2. QED
        BY <1>2, <4>1, CutLevel
    <3>3. v - 1 = turn
      BY <1>3
    <3>4. QED
      BY <2>2, <3>2, <3>3
  <2>5. CASE k = turn + 1
    <3>1. o # <<>> /\ PassTurn(o, P, turn % Len(o))
      BY <1>8, <2>2, <2>5 DEF LeaveMapdraft
    <3>2. turn \in 0 .. Len(o) /\ Level(o, turns, turn)
      <4> HIDE DEF o
      <4>1. QED
        BY <1>3, <2>3, <2>4, <2>5
    <3> HIDE DEF o, at, P
    <3>3. QED
      BY <1>1, <2>3, <3>1, <3>2, PassLevel
  <2>6. CASE k # turn + 1
    <3>1. /\ order' = o /\ phase' = phase /\ turns' = turns
          /\ turn' = IF \E i \in at : i <= turn THEN turn - 1 ELSE turn
      BY <1>8, <2>2, <2>6 DEF LeaveMapdraft
    <3>2. turn' = IF k <= turn THEN turn - 1 ELSE turn
      BY <2>2, <3>1
    <3>3. turn' + 1 = IF k <= turn + 1 THEN turn ELSE turn + 1
      <4> HIDE DEF o, at, P
      <4>1. QED
        BY <1>3, <2>6, <3>2
    <3>4. Level(order', turns', turn' + 1)
      BY <2>4, <3>1, <3>3
    <3>5. QED
      BY <1>1, <3>1, <3>4 DEF TurnsOK
  <2>7. QED
    BY <2>5, <2>6
<1>9. QED
  BY <1>6, <1>7, <1>8

(* Nobody has been asked when the draft begins.                            *)
LEMMA StartLevel ==
    ASSUME DraftInv, TurnsOK, NEW enabled \in SUBSET Map, Start(enabled)
    PROVE  TurnsOK'
<1>0. phase = "LOBBY" /\ turns = [p \in Id |-> 0]
  BY DEF Start, TurnsOK
<1>1. CASE LobbyInit(peers)
  BY <1>1, CountCleared DEF LobbyInit
<1>2. CASE phase' = "MAPVOTE" /\ UNCHANGED turns
  BY <1>0, <1>2 DEF TurnsOK
<1>3. CASE \E map : Finish(map)
  BY <1>3, CountCleared DEF Finish
<1>4. CASE /\ phase' = "MAPDRAFT"
           /\ order' \in ById(Players(peers))
           /\ AnnounceTurn(order', Players(peers), 0)
  <2>1. IsFiniteSet(Players(peers)) /\ Cardinality(Players(peers)) \in Nat
        /\ Players(peers) \subseteq Id
    <3>1. IsFiniteSet(Id)
      BY DraftAssumption, FS_Interval DEF Id
    <3>2. Players(peers) \in SUBSET Id
      BY DEF Players, DraftInv
    <3>3. QED
      BY <3>1, <3>2, FS_Subset, FS_CardinalityType
  <2>2. order' \in Seq(Players(peers)) /\ Increasing(order')
    BY <1>4, <2>1 DEF ById
  <2>3. order' \in Seq(Id)
    BY <2>1, <2>2, SeqMonotonic
  <2>4. 0 \in 0 .. (Len(order') - 1)
    <3>1. Steps(order', Players(peers), 0) # {}
      BY <1>4 DEF AnnounceTurn
    <3>2. PICK k \in 0 .. (Len(order') - 1) : TRUE
      BY <3>1 DEF Steps
    <3>3. Len(order') \in Nat
      BY <2>3, LenProperties
    <3>4. QED
      BY <3>2, <3>3
  <2>5. Level(order', turns, 0)
    <3>1. \A i \in 1 .. Len(order') : order'[i] \in Id
      BY <2>3, ElementOfSeq
    <3>2. \A i \in 1 .. Len(order') : turns[order'[i]] = 0 /\ ~(i <= 0)
      BY <1>0, <2>3, <3>1, LenProperties
    <3>3. Shape(order', turns, 0, 0)
      BY <3>2 DEF Shape
    <3>4. QED
      BY <3>3 DEF Level
  <2>6. turns' \in [Id -> Nat] /\ Level(order', turns', turn' + 1)
    <3> DEFINE o == order'
    <3> HIDE DEF o
    <3>1. o \in Seq(Id) /\ Increasing(o) /\ 0 \in 0 .. (Len(o) - 1)
          /\ Level(o, turns, 0) /\ AnnounceTurn(o, Players(peers), 0)
      BY <1>4, <2>2, <2>3, <2>4, <2>5 DEF o
    <3>2. turns \in [Id -> Nat]
      BY DEF TurnsOK
    <3>3. turns' \in [Id -> Nat] /\ Level(o, turns', turn' + 1)
      BY <3>1, <3>2, AnnounceLevel
    <3>4. QED
      BY <3>3 DEF o
  <2>7. QED
    BY <1>4, <2>6 DEF TurnsOK
<1>5. QED
  BY <1>1, <1>2, <1>3, <1>4 DEF Start

LEMMA TurnsOKInit == Init => TurnsOK
  BY DEF Init, TurnsOK

LEMMA TurnsOKNext == DraftInv /\ TurnsOK /\ [Next]_vars => TurnsOK'
<1> SUFFICES ASSUME DraftInv, TurnsOK, [Next]_vars
             PROVE  TurnsOK'
  OBVIOUS
<1>1. CASE Join
  BY <1>1, CountKept DEF Join, draftVars
<1>2. ASSUME NEW p \in Id, LeaveQuietly(p)
      PROVE  TurnsOK'
  BY <1>2, CountKept DEF LeaveQuietly, draftVars
<1>3. ASSUME NEW p \in Id, LeaveMapvote(p)
      PROVE  TurnsOK'
  BY <1>3, CountKept, CountCleared DEF LeaveMapvote, LobbyInit, draftVars
<1>4. ASSUME NEW p \in Id, LeaveMapdraft(p)
      PROVE  TurnsOK'
  BY <1>4, LeaveLevel
<1>5. ASSUME NEW p \in Id, ToggleAfk(p)
      PROVE  TurnsOK'
  BY <1>5, CountKept DEF ToggleAfk, draftVars
<1>6. ASSUME NEW enabled \in SUBSET Map, Start(enabled)
      PROVE  TurnsOK'
  BY <1>6, StartLevel
<1>7. ASSUME NEW p \in Id, NEW map \in Map, CmdBan(p, map)
      PROVE  TurnsOK'
  BY <1>7, BanLevel DEF CmdBan
<1>8. CASE Tick
  <2>1. CASE secs # 1
    BY <1>8, <2>1, CountKept DEF Tick
  <2>2. CASE secs = 1
    BY <1>8, <2>2, BanLevel DEF Tick
  <2>3. QED
    BY <2>1, <2>2
<1>9. CASE MapvoteOver
  BY <1>9, CountCleared DEF MapvoteOver, LobbyInit
<1>10. CASE UNCHANGED vars
  BY <1>10, CountKept DEF vars, draftVars
<1>11. QED
  BY <1>1, <1>2, <1>3, <1>4, <1>5, <1>6, <1>7, <1>8, <1>9, <1>10
     DEF Next, Leave

(* Nobody gets two turns more than somebody else of the order, whoever     *)
(* leaves: the index of mapdraft_state_left loses nobody and repeats       *)
(* nobody.                                                                 *)
THEOREM TurnsComeRound == Spec => []EqualTurns
<1>1. DraftInv /\ TurnsOK => EqualTurns
  <2> SUFFICES ASSUME DraftInv, TurnsOK, phase = "MAPDRAFT",
                      NEW i \in 1 .. Len(order), NEW j \in 1 .. Len(order)
               PROVE  turns[order[i]] <= turns[order[j]] + 1
    BY DEF EqualTurns, RangeOf
  <2>1. PICK c \in Nat : Shape(order, turns, c, turn + 1)
    BY DEF TurnsOK, Level
  <2>2. turns[order[i]] \in {c, c + 1} /\ turns[order[j]] \in {c, c + 1}
    BY <2>1 DEF Shape
  <2>3. QED
    BY <2>2
<1>2. QED
  BY <1>1, DraftInvInit, DraftInvNext, TurnsOKInit, TurnsOKNext, PTL DEF Spec

----------------------------------------------------------------------------
(* What TurnPasses says of a step.                                         *)
Passed ==
    phase = "MAPDRAFT" /\ phase' = "MAPDRAFT" =>
        IF pool' = pool /\ Holder \in peers'
        THEN Holder' = Holder
        ELSE /\ Holder' \in Players(peers)'
             /\ \A q \in RangeOf(order') :
                   Before(order, Holder, q, Holder') => q \notin Players(peers)'

(* How far the i-th place of an order of n comes after the k-th.           *)
Distance(n, k, i) == (i + n - k - 1) % n

LEMMA DistanceIs ==
    ASSUME NEW n \in Nat \ {0}, NEW k \in 1 .. n, NEW i \in 1 .. n
    PROVE  Distance(n, k, i) = IF i <= k THEN i + n - k - 1 ELSE i - k - 1
<1> DEFINE a == i + n - k - 1
<1>1. a \in 0 .. (2 * n - 1) /\ (a < n <=> i <= k)
  OBVIOUS
<1>2. Distance(n, k, i) = a % n
  BY DEF Distance
<1>3. a - n = i - k - 1
  OBVIOUS
<1> HIDE DEF a
<1>4. a % n = IF a < n THEN a ELSE a - n
  BY <1>1, ModOnce
<1>5. QED
  BY <1>1, <1>2, <1>3, <1>4 DEF a

(* Nobody is twice in an order, so the places that Before chooses are the  *)
(* only ones.                                                              *)
LEMMA BeforeIs ==
    ASSUME NEW o \in Seq(Id), Increasing(o),
           NEW k \in 1 .. Len(o), NEW i \in 1 .. Len(o), NEW j \in 1 .. Len(o)
    PROVE  Before(o, o[k], o[i], o[j])
             <=> Distance(Len(o), k, i) < Distance(Len(o), k, j)
<1>1. \A x, y \in 1 .. Len(o) : o[x] = o[y] => x = y
  <2>1. \A x \in 1 .. Len(o) : o[x] \in Int
    BY ElementOfSeq, IdsAreInts
  <2>2. QED
    BY <2>1 DEF Increasing
<1> DEFINE at(x) == CHOOSE y \in 1 .. Len(o) : o[y] = x
<1>2. \A x \in 1 .. Len(o) : at(o[x]) = x
  BY <1>1
<1>3. at(o[k]) = k /\ at(o[i]) = i /\ at(o[j]) = j
  BY <1>2
<1>4. Before(o, o[k], o[i], o[j])
        <=> (at(o[i]) + Len(o) - at(o[k]) - 1) % Len(o)
              < (at(o[j]) + Len(o) - at(o[k]) - 1) % Len(o)
  BY DEF Before
<1>5. QED
  BY <1>3, <1>4 DEF Distance

(* The search of mapdraft_announce_turn finds the first who can play: if d *)
(* tells after how many places the search reaches each, nobody nearer can. *)
LEMMA FirstWins ==
    ASSUME NEW o \in Seq(Id), NEW A, NEW t \in 0 .. (Len(o) - 1),
           AnnounceTurn(o, A, t), NEW d,
           \A i \in 1 .. Len(o) :
              /\ d[i] \in 0 .. (Len(o) - 1)
              /\ i = IF t + d[i] < Len(o) THEN t + d[i] + 1
                                         ELSE t + d[i] - Len(o) + 1
    PROVE  /\ turn' + 1 \in 1 .. Len(o) /\ o[turn' + 1] \in A
           /\ \A i \in 1 .. Len(o) : d[i] < d[turn' + 1] => o[i] \notin A
<1> DEFINE n == Len(o)
           at(j) == ((t + j) % n) + 1
<1>0. n \in Nat \ {0} /\ t \in 0 .. (n - 1)
  BY LenProperties
<1>1. PICK k \in 0 .. (n - 1) :
         /\ turn' + 1 = at(k) /\ o[at(k)] \in A
         /\ \A j \in 0 .. (n - 1) : o[at(j)] \in A => k <= j
  BY DEF AnnounceTurn, Steps
<1>2. \A j \in 0 .. (n - 1) :
         at(j) = IF t + j < n THEN t + j + 1 ELSE t + j - n + 1
  <2> SUFFICES ASSUME NEW j \in 0 .. (n - 1)
               PROVE  at(j) = IF t + j < n THEN t + j + 1 ELSE t + j - n + 1
    OBVIOUS
  <2> HIDE DEF n
  <2>2. (t + j) % n = IF t + j < n THEN t + j ELSE t + j - n
    BY <1>0, Around
  <2> DEFINE m == (t + j) % n
  <2>3. m = (IF t + j < n THEN t + j ELSE t + j - n) /\ at(j) = m + 1
    BY <2>2
  <2> HIDE DEF m, at
  <2>4. QED
    BY <1>0, <2>3
<1>3. \A i \in 1 .. n : d[i] \in 0 .. (n - 1) /\ at(d[i]) = i
  <2> SUFFICES ASSUME NEW i \in 1 .. n
               PROVE  d[i] \in 0 .. (n - 1) /\ at(d[i]) = i
    OBVIOUS
  <2>1. /\ d[i] \in 0 .. (n - 1)
        /\ i = IF t + d[i] < n THEN t + d[i] + 1 ELSE t + d[i] - n + 1
    OBVIOUS
  <2> HIDE DEF n, at
  <2>2. QED
    BY <1>2, <2>1
<1> HIDE DEF n, at
<1>4. at(k) \in 1 .. n
  BY <1>0, <1>2
<1>5. d[at(k)] = k
  <2>1. d[at(k)] \in 0 .. (n - 1) /\ at(d[at(k)]) = at(k)
    BY <1>3, <1>4
  <2> DEFINE e == d[at(k)]
  <2>2. e \in 0 .. (n - 1) /\ at(e) = at(k)
    BY <2>1
  <2> HIDE DEF e
  <2>3. /\ at(e) = IF t + e < n THEN t + e + 1 ELSE t + e - n + 1
        /\ at(k) = IF t + k < n THEN t + k + 1 ELSE t + k - n + 1
    BY <1>2, <2>2
  <2>4. e = k
    <3>1. (IF t + e < n THEN t + e + 1 ELSE t + e - n + 1)
            = (IF t + k < n THEN t + k + 1 ELSE t + k - n + 1)
      BY <2>2, <2>3
    <3>2. k \in 0 .. (n - 1)
      OBVIOUS
    <3>3. QED
      BY <1>0, <2>2, <3>1, <3>2
  <2>5. QED
    BY <2>4 DEF e
<1>6. \A i \in 1 .. n : d[i] < k => o[i] \notin A
  <2> SUFFICES ASSUME NEW i \in 1 .. n, d[i] < k, o[i] \in A
               PROVE  FALSE
    OBVIOUS
  <2>0. d[i] \in 0 .. (n - 1) /\ at(d[i]) = i
    BY <1>3
  <2>1. d[i] \in 0 .. (n - 1) /\ o[at(d[i])] \in A
    BY <2>0
  <2>2. k <= d[i]
    BY <1>1, <2>1
  <2>3. d[i] \in Int /\ k \in Int
    BY <1>0, <2>1
  <2>4. QED
    BY <2>2, <2>3
<1>7. QED
  BY <1>1, <1>4, <1>5, <1>6 DEF n

(* What the invariant says of the order during a draft.                    *)
LEMMA OrderFacts ==
    ASSUME DraftInv, phase = "MAPDRAFT"
    PROVE  /\ order \in Seq(Id) /\ Increasing(order)
           /\ Len(order) \in Nat \ {0}
           /\ turn \in 0 .. (Len(order) - 1) /\ turn + 1 \in 1 .. Len(order)
           /\ Holder \in peers
<1>1. order \in Seq(peers \cap inGame) /\ peers \cap inGame \subseteq Id
  BY DEF DraftInv, OrderOK
<1>2. order \in Seq(Id) /\ Increasing(order)
  BY <1>1, SeqMonotonic DEF DraftInv, OrderOK
<1>3. Len(order) \in Nat /\ turn \in Nat /\ turn < Len(order) /\ Holder \in peers
  BY <1>2, LenProperties DEF DraftInv, TurnPresent
<1>4. QED
  BY <1>2, <1>3

(* A ban passes the turn to the next who can play.                         *)
LEMMA BanPasses ==
    ASSUME DraftInv, phase = "MAPDRAFT", phase' = "MAPDRAFT",
           NEW map \in pool, BanMap(map)
    PROVE  Passed
<1> DEFINE n == Len(order)
           d == [i \in 1 .. n |-> Distance(n, turn + 1, i)]
           next == (turn + 1) % n
<1>1. /\ pool' = pool \ {map} /\ peers' = peers /\ afk' = afk
      /\ order' = order /\ inGame' = inGame \cap peers
      /\ AnnounceTurn(order, Players(peers), next)
  BY DEF BanMap, Finish, LobbyInit, PassTurn
<1>2. pool' # pool
  BY <1>1
<1>3. /\ order \in Seq(Id) /\ Increasing(order) /\ n \in Nat \ {0}
      /\ turn \in 0 .. (n - 1) /\ turn + 1 \in 1 .. n
  BY OrderFacts
<1> HIDE DEF n
<1>4. next = IF turn + 1 < n THEN turn + 1 ELSE 0
  <2> DEFINE a == turn + 1
  <2>1. a \in 0 .. (2 * n - 1) /\ a <= n
    BY <1>3
  <2> HIDE DEF a
  <2>2. a % n = IF a < n THEN a ELSE a - n
    BY <1>3, <2>1, ModOnce
  <2>3. a % n = IF a < n THEN a ELSE 0
    BY <1>3, <2>1, <2>2
  <2>4. QED
    BY <2>3 DEF a
<1> HIDE DEF next
<1>5. next \in 0 .. (n - 1)
  BY <1>3, <1>4
<1>6. \A i \in 1 .. n :
         /\ d[i] = Distance(n, turn + 1, i)
         /\ d[i] = IF i <= turn + 1 THEN i + n - (turn + 1) - 1
                                   ELSE i - (turn + 1) - 1
  BY <1>3, DistanceIs
<1> HIDE DEF d
<1>7. \A i \in 1 .. n :
         /\ d[i] \in 0 .. (n - 1)
         /\ i = IF next + d[i] < n THEN next + d[i] + 1 ELSE next + d[i] - n + 1
  <2> SUFFICES ASSUME NEW i \in 1 .. n
               PROVE  /\ d[i] \in 0 .. (n - 1)
                      /\ i = IF next + d[i] < n THEN next + d[i] + 1
                                                ELSE next + d[i] - n + 1
    OBVIOUS
  <2>1. d[i] = IF i <= turn + 1 THEN i + n - (turn + 1) - 1
                                ELSE i - (turn + 1) - 1
    BY <1>6
  <2>2. QED
    BY <1>3, <1>4, <2>1
<1>8. /\ turn' + 1 \in 1 .. n /\ order[turn' + 1] \in Players(peers)
      /\ \A i \in 1 .. n : d[i] < d[turn' + 1] => order[i] \notin Players(peers)
  BY <1>1, <1>3, <1>5, <1>7, FirstWins DEF n
<1>9. Players(peers)' = Players(peers)
  BY <1>1 DEF Players
<1>10. ASSUME NEW q \in RangeOf(order'), Before(order, Holder, q, Holder')
       PROVE  q \notin Players(peers)
  <2>1. PICK i \in 1 .. n : q = order[i]
    BY <1>1, <1>10 DEF RangeOf, n
  <2>2. Holder = order[turn + 1] /\ Holder' = order[turn' + 1]
    BY <1>1 DEF Holder
  <2>3. Distance(n, turn + 1, i) < Distance(n, turn + 1, turn' + 1)
    BY <1>3, <1>8, <1>10, <2>1, <2>2, BeforeIs DEF n
  <2>4. d[i] < d[turn' + 1]
    BY <1>6, <1>8, <2>3
  <2>5. QED
    BY <1>8, <2>1, <2>4
<1>11. Holder' \in Players(peers)
  BY <1>1, <1>8 DEF Holder
<1>12. QED
  BY <1>2, <1>9, <1>10, <1>11 DEF Passed

(* Who leaves takes his turn with him, and nobody else's.                  *)
LEMMA LeavePasses ==
    ASSUME DraftInv, NEW p \in Id, LeaveMapdraft(p), phase' = "MAPDRAFT"
    PROVE  Passed
<1> DEFINE at == {i \in 1 .. Len(order) : order[i] = p}
           o == IF at = {} THEN order ELSE Without(order, CHOOSE i \in at : TRUE)
           P == peers \ {p}
           n == Len(order)
<1>1. phase = "MAPDRAFT" /\ peers' = P /\ afk' = afk \ {p} /\ ~LobbyInit(P)
  BY DEF LeaveMapdraft, Gone, LobbyInit
<1>2. /\ order \in Seq(Id) /\ Increasing(order) /\ n \in Nat \ {0}
      /\ turn \in 0 .. (n - 1) /\ turn + 1 \in 1 .. n /\ Holder \in peers
  BY <1>1, OrderFacts
<1>3. \A i, j \in 1 .. n : order[i] = order[j] => i = j
  <2>1. \A i \in 1 .. n : order[i] \in Int
    BY <1>2, ElementOfSeq, IdsAreInts
  <2>2. QED
    BY <1>2, <2>1 DEF Increasing
<1>4. CASE at = {}
  <2>1. turn + 1 \notin at /\ UNCHANGED <<order, turn, pool>>
    BY <1>1, <1>4 DEF LeaveMapdraft
  <2>2. Holder # p
    BY <1>2, <1>4 DEF Holder
  <2>3. QED
    BY <1>1, <1>2, <2>1, <2>2 DEF Passed, Holder
<1>5. ASSUME NEW k \in 1 .. n, order[k] = p
      PROVE  Passed
  <2>1. at = {k} /\ o = Without(order, k)
    BY <1>3, <1>5
  <2>2. /\ o \in Seq(Id) /\ Len(o) = n - 1
        /\ \A i \in 1 .. (n - 1) : o[i] = IF i < k THEN order[i] ELSE order[i + 1]
    <3>1. /\ Without(order, k) \in Seq(Id \ {order[k]})
          /\ Len(Without(order, k)) = n - 1
          /\ \A i \in 1 .. (n - 1) :
                Without(order, k)[i] = IF i < k THEN order[i] ELSE order[i + 1]
      BY <1>2, Cut, IdsAreInts
    <3>2. Without(order, k) \in Seq(Id)
      BY <3>1, SeqMonotonic
    <3>3. QED
      BY <2>1, <3>1, <3>2
  <2>3. CASE k # turn + 1
    <3>1. /\ order' = o /\ pool' = pool
          /\ turn' = IF \E i \in at : i <= turn THEN turn - 1 ELSE turn
      BY <1>1, <2>1, <2>3 DEF LeaveMapdraft
    <3>2. turn' = IF k <= turn THEN turn - 1 ELSE turn
      BY <2>1, <3>1
    <3> HIDE DEF o, at, P, n
    <3>3. turn' + 1 \in 1 .. (n - 1) /\ (turn' + 1 < k <=> turn < k)
          /\ turn' = (IF turn < k THEN turn ELSE turn - 1)
      BY <1>2, <2>3, <3>2
    <3>4. o[turn' + 1] = order[turn + 1]
      <4>1. o[turn' + 1] = IF turn' + 1 < k THEN order[turn' + 1]
                                           ELSE order[(turn' + 1) + 1]
        BY <2>2, <3>3
      <4>2. CASE turn < k
        BY <1>2, <3>3, <4>1, <4>2
      <4>3. CASE ~(turn < k)
        <5>1. (turn' + 1) + 1 = turn + 1
          BY <1>2, <3>3, <4>3
        <5>2. QED
          BY <3>3, <4>1, <4>3, <5>1
      <4>4. QED
        BY <4>2, <4>3
    <3>5. Holder' = Holder
      BY <3>1, <3>4 DEF Holder
    <3>6. order[turn + 1] # p
      BY <1>2, <1>3, <1>5, <2>3
    <3>7. QED
      BY <1>1, <1>2, <3>1, <3>5, <3>6 DEF Passed, Holder, P
  <2>4. CASE k = turn + 1
    <3> DEFINE next == turn % Len(o)
               d == [i \in 1 .. (n - 1) |->
                       Distance(n, turn + 1, IF i < k THEN i ELSE i + 1)]
    <3>1. /\ o # <<>> /\ order' = o /\ inGame' = inGame \cap P
          /\ AnnounceTurn(o, Players(P), next)
      BY <1>1, <2>1, <2>4 DEF LeaveMapdraft, PassTurn
    <3>2. n - 1 \in Nat \ {0} /\ turn <= n - 1
      <4> HIDE DEF o
      <4>1. Len(o) # 0
        BY <2>2, <3>1, EmptySeq
      <4>2. QED
        BY <1>2, <2>2, <4>1
    <3>3. next = IF turn < n - 1 THEN turn ELSE 0
      <4> DEFINE m == n - 1
      <4>1. m \in Nat \ {0} /\ turn \in 0 .. m /\ next = turn % m
        BY <1>2, <2>2, <3>2
      <4> HIDE DEF m
      <4>2. turn \in 0 .. (2 * m - 1)
        BY <4>1
      <4>3. turn % m = IF turn < m THEN turn ELSE turn - m
        BY <4>1, <4>2, ModOnce
      <4>4. next = IF turn < m THEN turn ELSE 0
        <5> DEFINE r == turn % m
        <5>1. next = r /\ r = IF turn < m THEN turn ELSE turn - m
          BY <4>1, <4>3
        <5> HIDE DEF r, next
        <5>2. QED
          BY <4>1, <5>1
      <4>5. QED
        BY <4>4 DEF m
    <3> HIDE DEF next, o, at
    <3>4. next \in 0 .. (n - 2)
      <4> HIDE DEF n
      <4>1. QED
        BY <1>2, <3>2, <3>3
    <3>5. \A i \in 1 .. (n - 1) :
             /\ d[i] = Distance(n, turn + 1, IF i < k THEN i ELSE i + 1)
             /\ d[i] = IF i <= turn THEN i + n - turn - 2 ELSE i - turn - 1
      <4> HIDE DEF n
      <4> SUFFICES ASSUME NEW i \in 1 .. (n - 1)
                   PROVE  /\ d[i] = Distance(n, turn + 1, IF i < k THEN i ELSE i + 1)
                          /\ d[i] = IF i <= turn THEN i + n - turn - 2 ELSE i - turn - 1
        OBVIOUS
      <4> DEFINE j == IF i < k THEN i ELSE i + 1
      <4>1. j \in 1 .. n
        BY <1>2
      <4>2. d[i] = Distance(n, turn + 1, j)
        OBVIOUS
      <4> HIDE DEF d
      <4>3. j = IF i <= turn THEN i ELSE i + 1
        BY <1>2, <2>4
      <4> HIDE DEF j
      <4>4. Distance(n, turn + 1, j) = IF j <= turn + 1 THEN j + n - (turn + 1) - 1
                                                        ELSE j - (turn + 1) - 1
        BY <1>2, <4>1, DistanceIs
      <4>5. d[i] = IF i <= turn THEN i + n - turn - 2 ELSE i - turn - 1
        BY <1>2, <4>2, <4>3, <4>4
      <4>6. QED
        BY <4>2, <4>5 DEF j
    <3> HIDE DEF d
    <3>6. \A i \in 1 .. Len(o) :
             /\ d[i] \in 0 .. (Len(o) - 1)
             /\ i = IF next + d[i] < Len(o) THEN next + d[i] + 1
                                           ELSE next + d[i] - Len(o) + 1
      <4> HIDE DEF n
      <4> SUFFICES ASSUME NEW i \in 1 .. (n - 1)
                   PROVE  /\ d[i] \in 0 .. (n - 2)
                          /\ i = IF next + d[i] < n - 1 THEN next + d[i] + 1
                                                        ELSE next + d[i] - (n - 1) + 1
        BY <1>2, <2>2
      <4>1. d[i] = IF i <= turn THEN i + n - turn - 2 ELSE i - turn - 1
        BY <3>5
      <4>2. QED
        BY <1>2, <3>2, <3>3, <4>1
    <3>7. /\ turn' + 1 \in 1 .. Len(o) /\ o[turn' + 1] \in Players(P)
          /\ \A i \in 1 .. Len(o) : d[i] < d[turn' + 1] => o[i] \notin Players(P)
      <4>1. next \in 0 .. (Len(o) - 1)
        BY <2>2, <3>4, <1>2
      <4>2. QED
        BY <2>2, <3>1, <3>6, <4>1, FirstWins
    <3>8. Players(peers)' = Players(P)
      BY <1>1, <3>1 DEF Players
    <3>9. Holder = p /\ Holder \notin peers'
      BY <1>1, <1>5, <2>4 DEF Holder
    <3>10. Holder' = o[turn' + 1]
      BY <3>1 DEF Holder
    <3>11. ASSUME NEW q \in RangeOf(order'), Before(order, Holder, q, Holder')
           PROVE  q \notin Players(P)
      <4>1. PICK i \in 1 .. Len(o) : q = o[i]
        BY <3>1, <3>11 DEF RangeOf
      <4> DEFINE place(x) == IF x < k THEN x ELSE x + 1
      <4>2. \A x \in 1 .. (n - 1) : place(x) \in 1 .. n /\ o[x] = order[place(x)]
        <5> HIDE DEF n
        <5>1. QED
          BY <1>2, <2>2
      <4>3. i \in 1 .. (n - 1) /\ turn' + 1 \in 1 .. (n - 1)
        BY <2>2, <3>7
      <4>4. \A x \in 1 .. (n - 1) : d[x] = Distance(n, turn + 1, place(x))
        BY <3>5
      <4> DEFINE u == place(i)
                 v == place(turn' + 1)
      <4> HIDE DEF place
      <4>5. /\ u \in 1 .. n /\ o[i] = order[u]
            /\ v \in 1 .. n /\ o[turn' + 1] = order[v]
            /\ d[i] = Distance(n, turn + 1, u)
            /\ d[turn' + 1] = Distance(n, turn + 1, v)
        BY <4>2, <4>3, <4>4
      <4> HIDE DEF u, v
      <4>6. Before(order, order[turn + 1], order[u], order[v])
        BY <3>10, <3>11, <4>1, <4>5 DEF Holder
      <4>7. Distance(n, turn + 1, u) < Distance(n, turn + 1, v)
        BY <1>2, <4>5, <4>6, BeforeIs
      <4>8. QED
        BY <3>7, <4>1, <4>5, <4>7
    <3>12. QED
      BY <3>7, <3>8, <3>9, <3>10, <3>11 DEF Passed
  <2>5. QED
    BY <2>3, <2>4
<1>6. QED
  BY <1>4, <1>5

LEMMA NothingPassed ==
    ASSUME DraftInv, UNCHANGED <<order, turn, pool>>,
           phase = "MAPDRAFT" => peers \cap inGame \subseteq peers'
    PROVE  Passed
  BY DEF Passed, Holder, DraftInv, TurnPresent

LEMMA PassedNext == DraftInv /\ [Next]_vars => Passed
<1> SUFFICES ASSUME DraftInv, [Next]_vars, phase = "MAPDRAFT", phase' = "MAPDRAFT"
             PROVE  Passed
  BY DEF Passed
<1>1. CASE Join
  BY <1>1, NothingPassed DEF Join, draftVars
<1>2. ASSUME NEW p \in Id, LeaveQuietly(p)
      PROVE  Passed
  BY <1>2, NothingPassed DEF LeaveQuietly, Gone, draftVars
<1>3. ASSUME NEW p \in Id, LeaveMapvote(p)
      PROVE  Passed
  BY <1>3 DEF LeaveMapvote
<1>4. ASSUME NEW p \in Id, LeaveMapdraft(p)
      PROVE  Passed
  BY <1>4, LeavePasses
<1>5. ASSUME NEW p \in Id, ToggleAfk(p)
      PROVE  Passed
  BY <1>5, NothingPassed DEF ToggleAfk, draftVars
<1>6. ASSUME NEW enabled \in SUBSET Map, Start(enabled)
      PROVE  Passed
  BY <1>6 DEF Start
<1>7. ASSUME NEW p \in Id, NEW map \in Map, CmdBan(p, map)
      PROVE  Passed
  BY <1>7, BanPasses DEF CmdBan
<1>8. CASE Tick
  <2>1. CASE secs # 1
    BY <1>8, <2>1, NothingPassed DEF Tick
  <2>2. CASE secs = 1
    BY <1>8, <2>2, BanPasses DEF Tick
  <2>3. QED
    BY <2>1, <2>2
<1>9. CASE MapvoteOver
  BY <1>9 DEF MapvoteOver
<1>10. CASE UNCHANGED vars
  BY <1>10, NothingPassed DEF vars, draftVars
<1>11. QED
  BY <1>1, <1>2, <1>3, <1>4, <1>5, <1>6, <1>7, <1>8, <1>9, <1>10
     DEF Next, Leave

(* A turn ends with a ban or with its holder's leaving, and then passes to *)
(* the next of the order who can play; no other join, leave or .afk moves  *)
(* it.                                                                     *)
THEOREM TurnsPassInOrder == Spec => TurnPasses
<1>1. DraftInv /\ [Next]_vars => [Passed]_vars
  BY PassedNext
<1>2. QED
  BY <1>1, DraftInvInit, DraftInvNext, PTL DEF Spec, TurnPasses, Passed

----------------------------------------------------------------------------
(* Why a draft ends.  It gets shorter: first by its pool, then by its      *)
(* order, then by the seconds of the turn; the timer is always running.    *)
TimerRuns == phase = "MAPDRAFT" => secs \in 1 .. PickTime /\ IsFiniteSet(pool)

Shorter ==
    \/ Cardinality(pool') < Cardinality(pool)
    \/ pool' = pool /\ Len(order') < Len(order)
    \/ pool' = pool /\ order' = order /\ secs' < secs

RunsOut ==
    phase = "MAPDRAFT" /\ phase' = "MAPDRAFT" =>
        Shorter \/ (UNCHANGED <<pool, order, secs>> /\ ~Tick)

LEMMA PassTime ==
    ASSUME NEW o, NEW P, NEW t, PassTurn(o, P, t), phase' = "MAPDRAFT"
    PROVE  secs' = PickTime /\ order' = o
  BY DEF PassTurn, AnnounceTurn, LobbyInit

(* A ban shrinks the pool, or the draft is over.                           *)
LEMMA BanShortens ==
    ASSUME DraftInv, TimerRuns, phase = "MAPDRAFT", NEW map \in pool, BanMap(map),
           phase' = "MAPDRAFT"
    PROVE  Cardinality(pool') < Cardinality(pool) /\ TimerRuns'
<1>1. PassTurn(order, peers, (turn + 1) % Len(order)) /\ pool' = pool \ {map}
  BY DEF BanMap, Finish, LobbyInit
<1>2. secs' = PickTime
  BY <1>1, PassTime
<1>3. /\ IsFiniteSet(pool \ {map})
      /\ Cardinality(pool \ {map}) = Cardinality(pool) - 1
      /\ Cardinality(pool) \in Nat
  BY FS_RemoveElement, FS_CardinalityType DEF TimerRuns
<1>4. QED
  BY <1>1, <1>2, <1>3, DraftAssumption DEF TimerRuns

(* A leave shrinks the order whenever it gives the turn to somebody else.  *)
LEMMA LeaveShortens ==
    ASSUME DraftInv, TimerRuns, NEW p \in Id, LeaveMapdraft(p), phase' = "MAPDRAFT"
    PROVE  /\ Shorter \/ UNCHANGED <<pool, order, secs>>
           /\ TimerRuns'
<1> DEFINE at == {i \in 1 .. Len(order) : order[i] = p}
           o == IF at = {} THEN order ELSE Without(order, CHOOSE i \in at : TRUE)
           P == peers \ {p}
<1>1. /\ phase = "MAPDRAFT" /\ order \in Seq(peers \cap inGame)
      /\ Increasing(order) /\ peers \cap inGame \subseteq Int
      /\ PickTime \in 1 .. PickTime
  BY DraftAssumption DEF LeaveMapdraft, DraftInv, OrderOK, Id
<1>2. at # {} => Len(o) < Len(order)
  <2> SUFFICES ASSUME at # {} PROVE Len(o) < Len(order)
    OBVIOUS
  <2>1. PICK k \in 1 .. Len(order) : k = (CHOOSE i \in at : TRUE)
    OBVIOUS
  <2>2. Len(Without(order, k)) = Len(order) - 1 /\ Len(order) \in Nat
    BY <1>1, Cut, LenProperties
  <2>3. o = Without(order, k)
    BY <2>1
  <2> HIDE DEF o
  <2>4. QED
    BY <2>2, <2>3
<1>3. at = {} => o = order
  OBVIOUS
<1>4. CASE /\ turn + 1 \in at /\ PassTurn(o, P, turn % Len(o)) /\ pool' = pool
  <2>1. secs' = PickTime /\ order' = o /\ at # {}
    BY <1>4, PassTime
  <2>2. QED
    BY <1>1, <1>2, <1>4, <2>1 DEF Shorter, TimerRuns
<1>5. CASE order' = o /\ UNCHANGED <<pool, secs>>
  BY <1>1, <1>2, <1>3, <1>5 DEF Shorter, TimerRuns
<1>6. QED
  BY <1>1, <1>4, <1>5 DEF LeaveMapdraft, LobbyInit

LEMMA RunsOutNext ==
    ASSUME DraftInv, TimerRuns, [Next]_vars
    PROVE  RunsOut /\ TimerRuns'
<1> SUFFICES ASSUME phase' = "MAPDRAFT"
             PROVE  TimerRuns' /\ (phase = "MAPDRAFT" =>
                       Shorter \/ (UNCHANGED <<pool, order, secs>> /\ ~Tick))
  BY DEF RunsOut, TimerRuns
<1>1. ASSUME UNCHANGED <<phase, pool, order, secs>>
      PROVE  /\ TimerRuns'
             /\ phase = "MAPDRAFT" => ~Tick
  <2>1. TimerRuns'
    BY <1>1 DEF TimerRuns
  <2>2. ASSUME phase = "MAPDRAFT", Tick PROVE FALSE
    <3>1. CASE secs # 1
      BY <1>1, <2>2, <3>1 DEF Tick, TimerRuns
    <3>2. CASE secs = 1
      BY <1>1, <2>2, <3>2, BanShortens, FS_CardinalityType DEF Tick, TimerRuns
    <3>3. QED
      BY <3>1, <3>2
  <2>3. QED
    BY <2>1, <2>2
<1>2. CASE Join \/ UNCHANGED vars
  BY <1>1, <1>2 DEF Join, vars, draftVars
<1>3. ASSUME NEW p \in Id, LeaveQuietly(p) \/ ToggleAfk(p)
      PROVE  UNCHANGED <<phase, pool, order, secs>>
  BY <1>3 DEF LeaveQuietly, ToggleAfk, draftVars
<1>4. ASSUME NEW p \in Id, LeaveMapvote(p) PROVE FALSE
  BY <1>4 DEF LeaveMapvote, LobbyInit
<1>5. ASSUME NEW p \in Id, LeaveMapdraft(p)
      PROVE  /\ TimerRuns' /\ ~Tick
             /\ Shorter \/ UNCHANGED <<pool, order, secs>>
  <2>1. peers' = peers \ {p} /\ p \in peers
    BY <1>5 DEF LeaveMapdraft, Gone
  <2>2. ~Tick
    BY <2>1 DEF Tick, BanMap
  <2>3. QED
    BY <1>5, <2>2, LeaveShortens
<1>6. ASSUME NEW enabled \in SUBSET Map, Start(enabled) PROVE TimerRuns' /\ phase # "MAPDRAFT"
  <2>1. /\ phase = "LOBBY" /\ pool' = enabled
        /\ AnnounceTurn(order', Players(peers), 0)
    BY <1>6 DEF Start, LobbyInit, Finish
  <2>2. secs' = PickTime
    BY <2>1 DEF AnnounceTurn
  <2>3. IsFiniteSet(enabled)
    BY DraftAssumption, FS_Subset
  <2>4. QED
    BY <2>1, <2>2, <2>3, DraftAssumption DEF TimerRuns
<1>7. ASSUME NEW p \in Id, NEW map \in Map, CmdBan(p, map)
      PROVE  TimerRuns' /\ Shorter
  <2>1. phase = "MAPDRAFT" /\ map \in pool /\ BanMap(map)
    BY <1>7 DEF CmdBan
  <2>2. Cardinality(pool') < Cardinality(pool) /\ TimerRuns'
    BY <2>1, BanShortens
  <2>3. QED
    BY <2>2 DEF Shorter
<1>8. CASE Tick
  <2>1. CASE secs # 1
    <3>1. phase = "MAPDRAFT" /\ secs' = secs - 1 /\ UNCHANGED <<pool, order>>
      BY <1>8, <2>1 DEF Tick
    <3>2. secs \in 1 .. PickTime /\ IsFiniteSet(pool) /\ PickTime \in Nat
      BY <3>1, DraftAssumption DEF TimerRuns
    <3>3. secs' \in 1 .. PickTime /\ secs' < secs
      BY <2>1, <3>1, <3>2
    <3>4. QED
      BY <3>1, <3>2, <3>3 DEF Shorter, TimerRuns
  <2>2. CASE secs = 1
    BY <1>8, <2>2, BanShortens DEF Tick, Shorter
  <2>3. QED
    BY <2>1, <2>2
<1>9. CASE MapvoteOver
  BY <1>9 DEF MapvoteOver, LobbyInit
<1>10. QED
  BY <1>1, <1>2, <1>3, <1>4, <1>5, <1>6, <1>7, <1>8, <1>9 DEF Next, Leave

(* Why every draft ends: whatever the players do, a draft that goes on is  *)
(* never longer afterwards, by the maps still in the pool, then by those   *)
(* who take turns, then by the seconds of the turn; and every second of    *)
(* the pick timer makes it shorter.                                        *)
THEOREM DraftsRunOut == Spec => []TimerRuns /\ [][RunsOut]_vars
<1>1. Init => DraftInv /\ TimerRuns
  BY DraftInvInit DEF Init, TimerRuns
<1>2. DraftInv /\ TimerRuns /\ [Next]_vars => (DraftInv /\ TimerRuns)' /\ RunsOut
  BY DraftInvNext, RunsOutNext
<1>3. QED
  BY <1>1, <1>2, PTL DEF Spec
=============================================================================
