------------------------------ MODULE Mapdraft -----------------------------
(***************************************************************************)
(* The map draft of a lobby (Mapdraft.c): the players ban maps in turns,   *)
(* by id, until one is left; whose turn it is is an index into an array    *)
(* that shrinks when somebody leaves.  The rest of the lobby is reduced to *)
(* who is there, who is afk and when a draft starts.                       *)
(*                                                                         *)
(* Ids are ENet slots: a newcomer gets the lowest free one.  arrivals and  *)
(* turns are history variables that no action reads.                       *)
(***************************************************************************)
EXTENDS Integers, Sequences, FiniteSets

CONSTANTS
    Slots,       \* ids are 1 .. Slots
    Map,         \* the maps a draft may use (MAP_COUNT of them)
    NoMap,       \* lobby.mapdraft_map = -1
    PickTime,    \* DRAFT_PICK_TIME (15)
    Afkers       \* the peers that use .afk

ASSUME DraftAssumption ==
    /\ Slots \in Nat
    /\ IsFiniteSet(Map)
    /\ NoMap \notin Map
    /\ PickTime \in Nat \ {0}
    /\ Afkers \subseteq 1 .. Slots

VARIABLES
    phase,       \* "LOBBY", "MAPDRAFT", or "MAPVOTE" when nothing can be banned
    peers,       \* Server.peers
    inGame,      \* peers with in_game
    afk,         \* peers with afk
    pool,        \* lobby.draft_pool
    order,       \* lobby.draft_order
    turn,        \* lobby.draft_turn, an index from 0
    secs,        \* lobby.draft_timer_sec
    winner,      \* lobby.mapdraft_map
    arrivals,    \* history: the peers in the order they joined
    turns        \* history: how often each was given a turn or passed over

draftVars == <<pool, order, turn, secs>>
vars == <<phase, peers, inGame, afk, draftVars, winner, arrivals, turns>>

Id == 1 .. Slots

----------------------------------------------------------------------------
Players(P) == (P \cap inGame) \ afk

RangeOf(s) == {s[i] : i \in 1 .. Len(s)}

(* The peers S sorted by id (the insertion sort of mapdraft_init).         *)
Increasing(s) == \A i, j \in 1 .. Len(s) : i < j => s[i] < s[j]

ById(S) == {s \in [1 .. Cardinality(S) -> S] : Increasing(s)}

(* Mutant of Without: the last entry goes, whoever left.                   *)
WithoutLast(s, k) == SubSeq(s, 1, Len(s) - 1)

(* The order s with its k-th entry cut out.                                *)
Without(s, k) ==
    [i \in 1 .. (Len(s) - 1) |-> IF i < k THEN s[i] ELSE s[i + 1]]

(* The draft's fields, which no code reads outside a draft, are cleared.   *)
Forget ==
    /\ pool' = {} /\ order' = <<>> /\ turn' = 0 /\ secs' = 0
    /\ turns' = [p \in Id |-> 0]

(* lobby_init: everybody waits in the lobby again.                         *)
LobbyInit(P) ==
    /\ phase' = "LOBBY"
    /\ inGame' = P
    /\ Forget
    /\ UNCHANGED winner

(* mapdraft_announce_turn for the order o, the players A and the index t;  *)
(* nothing but the caller's lobby_init follows when nobody can play.       *)
Steps(o, A, t) == {k \in 0 .. (Len(o) - 1) : o[((t + k) % Len(o)) + 1] \in A}

AnnounceTurn(o, A, t) ==
    \E k \in Steps(o, A, t) :
        /\ \A j \in Steps(o, A, t) : k <= j
        /\ turn' = (t + k) % Len(o)
        /\ secs' = PickTime
        /\ turns' = [p \in Id |->
              IF \E j \in 0 .. k : o[((t + j) % Len(o)) + 1] = p
              THEN turns[p] + 1 ELSE turns[p]]

(* mapdraft_finish                                                         *)
Finish(map) ==
    /\ phase' = "LOBBY"
    /\ winner' = map
    /\ Forget
    /\ UNCHANGED inGame

(* Mutant of PassTurn: the next turn goes to its index, present or not.    *)
PassTurnBlindly(o, P, next) ==
    /\ order' = o /\ turn' = next /\ secs' = PickTime
    /\ turns' = [turns EXCEPT ![o[next + 1]] = @ + 1]
    /\ inGame' = inGame \cap P
    /\ UNCHANGED <<phase, winner>>

(* Whose turn it is after a change, the index having moved to next; the    *)
(* draft is off if nobody of the order can play.                           *)
PassTurn(o, P, next) ==
    IF Steps(o, Players(P), next) # {}
    THEN /\ order' = o
         /\ AnnounceTurn(o, Players(P), next)
         /\ inGame' = inGame \cap P
         /\ UNCHANGED <<phase, winner>>
    ELSE LobbyInit(P)

(* mapdraft_ban_map                                                        *)
BanMap(map) ==
    /\ LET rest == pool \ {map} IN
       \/ \E last \in rest : rest = {last} /\ Finish(last)
       \/ rest = {} /\ LobbyInit(peers)
       \/ /\ Cardinality(rest) > 1
          /\ PassTurn(order, peers, (turn + 1) % Len(order))
          /\ phase' = "MAPDRAFT" => pool' = rest
    /\ UNCHANGED <<peers, afk, arrivals>>

----------------------------------------------------------------------------
Init ==
    /\ phase = "LOBBY"
    /\ peers = {} /\ inGame = {} /\ afk = {}
    /\ pool = {} /\ order = <<>> /\ turn = 0 /\ secs = 0
    /\ winner = NoMap
    /\ arrivals = <<>>
    /\ turns = [p \in Id |-> 0]

(* ENet hands out the first free slot.                                     *)
Join ==
    /\ peers # Id
    /\ \E p \in Id \ peers :
        /\ \A q \in Id \ peers : p <= q
        /\ peers' = peers \cup {p}
        /\ inGame' = IF phase = "LOBBY" THEN inGame \cup {p} ELSE inGame
        /\ arrivals' = Append(arrivals, p)
    /\ UNCHANGED <<phase, afk, draftVars, winner, turns>>

(* The list without p.                                                     *)
Gone(p) ==
    /\ p \in peers
    /\ peers' = peers \ {p}
    /\ afk' = afk \ {p}
    /\ arrivals' = SelectSeq(arrivals, LAMBDA q : q # p)

LeaveQuietly(p) ==
    /\ Gone(p)
    /\ phase = "LOBBY" \/ p \notin inGame
    /\ inGame' = inGame \ {p}
    /\ UNCHANGED <<phase, draftVars, winner, turns>>

LeaveMapvote(p) ==
    /\ phase = "MAPVOTE" /\ p \in inGame
    /\ Gone(p)
    /\ IF Cardinality(Players(peers \ {p})) <= 1
       THEN LobbyInit(peers \ {p})
       ELSE inGame' = inGame \ {p} /\ UNCHANGED <<phase, draftVars, winner, turns>>

(* Mutant of LeaveMapdraft: the index stays although the order shrinks     *)
(* before it.                                                              *)
LeaveKeepsIndex(p) ==
    /\ phase = "MAPDRAFT" /\ p \in inGame
    /\ Gone(p)
    /\ LET at == {i \in 1 .. Len(order) : order[i] = p}
           o == IF at = {} THEN order ELSE Without(order, CHOOSE i \in at : TRUE)
           P == peers \ {p}
       IN IF Cardinality(Players(P)) <= 1 \/ o = <<>>
          THEN LobbyInit(P)
          ELSE /\ order' = o
               /\ inGame' = inGame \ {p}
               /\ UNCHANGED <<phase, pool, turn, secs, winner, turns>>

(* mapdraft_state_left: the leaver is cut out of the order, and the index  *)
(* follows whose turn it was.                                              *)
LeaveMapdraft(p) ==
    /\ phase = "MAPDRAFT" /\ p \in inGame
    /\ Gone(p)
    /\ LET at == {i \in 1 .. Len(order) : order[i] = p}
           o == IF at = {} THEN order ELSE Without(order, CHOOSE i \in at : TRUE)
           P == peers \ {p}
       IN \/ /\ Cardinality(Players(P)) <= 1 \/ o = <<>>
             /\ LobbyInit(P)
          \/ /\ Cardinality(Players(P)) > 1 /\ o # <<>>
             /\ turn + 1 \in at
             /\ PassTurn(o, P, turn % Len(o))
             /\ phase' = "MAPDRAFT" => pool' = pool
          \/ /\ Cardinality(Players(P)) > 1 /\ o # <<>>
             /\ turn + 1 \notin at
             /\ order' = o
             /\ turn' = IF \E i \in at : i <= turn THEN turn - 1 ELSE turn
             /\ inGame' = inGame \ {p}
             /\ UNCHANGED <<phase, pool, secs, winner, turns>>

Leave(p) == LeaveQuietly(p) \/ LeaveMapvote(p) \/ LeaveMapdraft(p)

(* .afk, which leaves the order and the turn alone.                        *)
ToggleAfk(p) ==
    /\ p \in peers \cap Afkers
    /\ afk' = IF p \in afk THEN afk \ {p} ELSE afk \cup {p}
    /\ UNCHANGED <<phase, peers, inGame, draftVars, winner, arrivals, turns>>

(* mapdraft_init with the maps that are enabled at that moment.            *)
Start(enabled) ==
    /\ phase = "LOBBY" /\ peers # {}
    /\ \/ Players(peers) = {} /\ LobbyInit(peers)
       \/ /\ Players(peers) # {} /\ enabled = {}
          /\ phase' = "MAPVOTE"
          /\ UNCHANGED <<inGame, draftVars, winner, turns>>
       \/ /\ Players(peers) # {}
          /\ \E map \in enabled : enabled = {map} /\ Finish(map)
       \/ /\ Players(peers) # {} /\ Cardinality(enabled) > 1
          /\ phase' = "MAPDRAFT"
          /\ pool' = enabled
          /\ order' \in ById(Players(peers))
          /\ AnnounceTurn(order', Players(peers), 0)
          /\ UNCHANGED <<inGame, winner>>
    /\ UNCHANGED <<peers, afk, arrivals>>

(* .b <map>, from the peer whose turn it is.                               *)
CmdBan(p, map) ==
    /\ phase = "MAPDRAFT"
    /\ p \in peers
    /\ turn < Len(order) /\ order[turn + 1] = p
    /\ map \in pool
    /\ BanMap(map)

(* Mutant of Tick: only a player who is there is timed out.                *)
TickIfNotAfk ==
    /\ phase = "MAPDRAFT"
    /\ \/ /\ secs # 1
          /\ secs' = secs - 1
          /\ UNCHANGED <<phase, peers, inGame, afk, pool, order, turn, winner,
                         arrivals, turns>>
       \/ /\ secs = 1 /\ order[turn + 1] \notin afk
          /\ \E map \in pool : BanMap(map)

(* mapdraft_state_tick, once a second.                                     *)
Tick ==
    /\ phase = "MAPDRAFT"
    /\ \/ /\ secs # 1
          /\ secs' = secs - 1
          /\ UNCHANGED <<phase, peers, inGame, afk, pool, order, turn, winner,
                         arrivals, turns>>
       \/ /\ secs = 1
          /\ \E map \in pool : BanMap(map)

(* The map vote runs its course (module Match): back to the lobby.         *)
MapvoteOver ==
    /\ phase = "MAPVOTE"
    /\ LobbyInit(peers)
    /\ UNCHANGED <<peers, afk, arrivals>>

Next ==
    \/ Join
    \/ \E p \in Id : Leave(p) \/ ToggleAfk(p)
    \/ \E enabled \in SUBSET Map : Start(enabled)
    \/ \E p \in Id, map \in Map : CmdBan(p, map)
    \/ Tick
    \/ MapvoteOver

Spec == Init /\ [][Next]_vars

FairSpec == Spec /\ WF_vars(Tick)

----------------------------------------------------------------------------
(* Type invariant.                                                         *)
TypeOK ==
    /\ phase \in {"LOBBY", "MAPDRAFT", "MAPVOTE"}
    /\ peers \subseteq Id /\ inGame \subseteq peers /\ afk \subseteq peers
    /\ pool \subseteq Map
    /\ order \in Seq(Id)
    /\ turn \in Nat /\ secs \in 0 .. PickTime
    /\ winner \in Map \cup {NoMap}
    /\ arrivals \in Seq(Id)
    /\ turns \in [Id -> Nat]

(* Whose turn it is, and the order of the turns after p's.                 *)
Holder == order[turn + 1]

Before(o, p, q, r) ==
    LET at(x) == CHOOSE i \in 1 .. Len(o) : o[i] = x
        dist(x) == (at(x) + Len(o) - at(p) - 1) % Len(o)
    IN dist(q) < dist(r)

(* During a draft there is something to ban, and the index points at a     *)
(* player of the order who is on the server: no leave makes it stale, and  *)
(* neither "% draft_order_count" nor "% draft_pool_count" divides by zero. *)
TurnPresent ==
    phase = "MAPDRAFT" =>
        /\ Cardinality(pool) > 1
        /\ turn < Len(order)
        /\ Holder \in peers \cap inGame

(* A turn ends with a ban or with its holder's leaving, whoever else comes *)
(* or goes; it then passes to the next player of the order who can play,   *)
(* nobody who can being skipped.                                           *)
TurnPasses ==
    [][phase = "MAPDRAFT" /\ phase' = "MAPDRAFT" =>
        IF pool' = pool /\ Holder \in peers'
        THEN Holder' = Holder
        ELSE /\ Holder' \in Players(peers)'
             /\ \A q \in RangeOf(order') :
                   Before(order, Holder, q, Holder') => q \notin Players(peers)']_vars

(* A turn comes round to everybody equally often, up to one, however many  *)
(* leave meanwhile; who is afk then is passed over.                        *)
EqualTurns ==
    phase = "MAPDRAFT" =>
        \A p, q \in RangeOf(order) : turns[p] <= turns[q] + 1

(* The order of the turns is the order in which the players joined.        *)
DraftInJoinOrder ==
    phase = "MAPDRAFT" =>
        \A i, j \in 1 .. Len(order) :
            i < j => \E k, l \in 1 .. Len(arrivals) :
                k < l /\ arrivals[k] = order[i] /\ arrivals[l] = order[j]

(* Every draft ends, although nobody may ban: the timer bans.              *)
DraftEnds == phase = "MAPDRAFT" ~> phase # "MAPDRAFT"
=============================================================================
