-------------------------------- MODULE Locks --------------------------------
(***************************************************************************)
(* The threads of the server and the mutexes they take: a worker per       *)
(* lobby, the console and the admin API.  What a thread does is a script   *)
(* of taking and dropping mutexes; everything else is left out.            *)
(*                                                                         *)
(* Every lobby has a state_lock; "exec" guards the console's commands and  *)
(* "known" the accounts ever seen.  All others (bans, timeouts, operators, *)
(* addresses, maps, news and the two logs) are held for a single access,   *)
(* with nothing taken meanwhile; "store" stands for any of them.           *)
(***************************************************************************)
EXTENDS Naturals, Sequences

CONSTANTS
    Lobbies,     \* number of lobbies
    Reentrant    \* TRUE: a thread may take a mutex it holds (Windows)

ASSUME LocksAssumption == Lobbies \in Nat \ {0} /\ Reentrant \in BOOLEAN

VARIABLES
    todo,       \* what every thread has still to take and drop
    crosses,    \* threads that answer a command which takes lobbies' locks
    holds       \* the mutexes every thread holds

vars == <<todo, crosses, holds>>

Lobby == 1..Lobbies
Console == 0
Api == Lobbies + 1
Thread == 0..(Lobbies + 1)      \* the worker of a lobby has its number

State(l) == <<"state", l>>
One(name) == <<name, 0>>

----------------------------------------------------------------------------
(* Scripts: a step takes a mutex, drops it, or passes it: takes it and     *)
(* drops it with nothing taken in between, which is one step here, as who  *)
(* holds a mutex and wants none makes nobody wait for good.                *)
Step(op, m) == [op |-> op, mutex |-> m]

Within(m, body) == <<Step("take", m)>> \o body \o <<Step("drop", m)>>

store == <<Step("pass", One("store"))>>
known == Within(One("known"), store)    \* with the custom ids inside
visit(l) == <<Step("pass", State(l))>>

(* The first n lobbies; the first n of those that are not l.               *)
Visits(n) == [i \in 1..n |-> Step("pass", State(i))]
Others(l, n) == [i \in 1..n |-> Step("pass", State(IF i < l THEN i ELSE i + 1))]

(* host_find_peer: a lobby, then the others until the player is found.     *)
FindPeer(l) == {visit(l) \o Others(l, n) : n \in 0..(Lobbies - 1)}

(* server_force_exe_key, host_find_peer_by_id: the lobbies from the first. *)
FindKey == {Visits(n) : n \in Lobby}

----------------------------------------------------------------------------
(* peer_identity: bans and operators; then, with the lobby, addresses, the *)
(* whitelist, timeouts, the joins' log and the accounts.                   *)
Identity(l) == {store \o Within(State(l), store \o known)}

(* peer_msg: chat (logged, then a command or a vote that kicks), the rest. *)
Message(l) == {Within(State(l), store \o store)}

(* A tick: play time, a vote that kicks, a draft, a map vote, the results. *)
Tick(l) == {Within(State(l), store), Within(State(l), known)}

(* Mutant: the player is unlisted with the addresses still locked.         *)
DisconnectNested(l) == {store \o Within(One("store"), visit(l))}

(* ENET_EVENT_TYPE_DISCONNECT: the timeout, the address, the list.         *)
Disconnect(l) == {store \o visit(l)}

(* The chat's .ban and .kick with a nickname, under the lobby's lock: the  *)
(* player is known to be here, and is looked for again, then stored.       *)
KickByName(l) == {Within(State(l), store \o visit(l) \o store)}

(* .exe with a key: the lobbies from the first.                            *)
ExeByKey(l) == {Within(State(l), store \o find) : find \in FindKey}

(* .reset_id: the other lobbies, to refresh the ids they keep.             *)
ResetId(l) == {Within(State(l), store \o Others(l, Lobbies - 1))}

(* console_exec_ctx: commands on players, whitelist, bans, news; .list.    *)
Exec(l) ==
    {Within(One("exec"), find \o store) : find \in FindPeer(l) \cup FindKey}
    \cup {Within(One("exec"), Within(State(l), store))}

(* The admin API: a command for the console; the state of all lobbies; an  *)
(* operator by name; a custom id that is set, which goes through the       *)
(* lobbies with nothing held in between; a profile, the accounts.          *)
Request ==
    (UNION {Exec(l) : l \in Lobby})
    \cup {find \o store : find \in FindKey}
    \cup {Within(State(l), store) : l \in Lobby}
    \cup {store \o known}

Script(t) == CASE t = Console -> Exec(1)
               [] t = Api -> Request
               [] t \in Lobby -> Identity(t) \cup Message(t) \cup Tick(t)
                                 \cup Disconnect(t)

Command(l) == KickByName(l) \cup ExeByKey(l) \cup ResetId(l)

----------------------------------------------------------------------------
Init ==
    /\ todo = [t \in Thread |-> << >>]
    /\ crosses = {}
    /\ holds = [t \in Thread |-> {}]

(* A thread starts on something.                                           *)
Begin(t) ==
    /\ todo[t] = << >>
    /\ \/ /\ \E script \in Script(t) : todo' = [todo EXCEPT ![t] = script]
          /\ crosses' = crosses \ {t}
       \/ /\ t \in Lobby
          /\ \E script \in Command(t) : todo' = [todo EXCEPT ![t] = script]
          /\ crosses' = crosses \cup {t}
    /\ UNCHANGED holds

Takes(t) == todo[t] # << >> /\ Head(todo[t]).op # "drop"
Wants(t) == Head(todo[t]).mutex

(* What keeps a thread from taking the mutex it wants.                     *)
Blockers(t) == {u \in Thread : /\ Wants(t) \in holds[u]
                               /\ u = t => ~Reentrant}

(* MutexLock                                                               *)
Lock(t) ==
    /\ Takes(t)
    /\ Blockers(t) = {}
    /\ holds' = [holds EXCEPT ![t] = IF Head(todo[t]).op = "take"
                                     THEN @ \cup {Wants(t)} ELSE @]
    /\ todo' = [todo EXCEPT ![t] = Tail(@)]
    /\ UNCHANGED crosses

(* MutexUnlock                                                             *)
Unlock(t) ==
    /\ todo[t] # << >> /\ ~Takes(t)
    /\ holds' = [holds EXCEPT ![t] = @ \ {Wants(t)}]
    /\ todo' = [todo EXCEPT ![t] = Tail(@)]
    /\ UNCHANGED crosses

Next == \E t \in Thread : Begin(t) \/ Lock(t) \/ Unlock(t)

Spec == Init /\ [][Next]_vars

----------------------------------------------------------------------------
(* Threads that wait for one another for good.                             *)
Circle(S) ==
    /\ S # {}
    /\ \A t \in S : Takes(t) /\ Blockers(t) \cap S # {}

(* What the workers, ticks, the console and requests nest is safe: threads *)
(* that wait for one another for good have one among them that answers a   *)
(* chat command (.ban, .kick, .exe, .reset_id) which takes the locks of    *)
(* lobbies under the lock of its own.                                      *)
CircleNeedsCommand ==
    \A S \in SUBSET Thread : Circle(S) => S \cap crosses # {}

(* No worker waits for its own lock, as the comment above .reset_id says   *)
(* no chat command may.                                                    *)
NoSelfWait == \A t \in Thread : Takes(t) => t \notin Blockers(t)
=============================================================================
