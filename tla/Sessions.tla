------------------------------ MODULE Sessions ------------------------------
(***************************************************************************)
(* How a connection becomes a player of a lobby and how it goes again.     *)
(* Every lobby has its own worker thread; what they share is the list of   *)
(* addresses and device ids in use (ip_addr_list, under ip_addr_mut), the  *)
(* timeouts and the operators.  One action is what a worker does between   *)
(* two points where the others can see, or change, something shared.       *)
(*                                                                         *)
(* A connection has an address and a device id (udid), its two keys.  A    *)
(* client sends its identity once.  Bans and the whitelist are answers     *)
(* from outside.                                                           *)
(***************************************************************************)
EXTENDS Naturals, FiniteSets

CONSTANTS
    Conn,      \* connections (PeerData)
    Lobby,     \* servers of this process
    Nowhere,   \* not connected
    NoConn,    \* a worker is busy with nobody
    Key,       \* addresses and device ids
    AddrOf,    \* the address of a connection
    UdidOf,    \* its device id
    Cap,       \* players on a lobby's list (7)
    Faults     \* TRUE: a packet of the welcome may fail to be sent

ASSUME SessionsAssumption ==
    /\ IsFiniteSet(Conn) /\ NoConn \notin Conn
    /\ Nowhere \notin Lobby
    /\ AddrOf \in [Conn -> Key] /\ UdidOf \in [Conn -> Key]
    /\ \A c, d \in Conn : AddrOf[c] # UdidOf[d]
    /\ Cap \in Nat \ {0}
    /\ Faults \in BOOLEAN

VARIABLES
    at,        \* the lobby whose ENet host a connection belongs to
    tried,     \* connections that have sent their identity
    verified,  \* v->verified
    closing,   \* v->disconnecting
    owes,      \* v->should_timeout
    op,        \* v->op
    list,      \* Server.peers of every lobby
    task,      \* what the worker of every lobby is in the middle of
    book,      \* entries of ip_addr_list per key
    fine,      \* entries of the timeouts per key
    opKeys     \* keys on the list of operators

connVars == <<at, tried, verified, closing, owes, op>>
vars == <<connVars, list, task, book, fine, opKeys>>

Steps == {"idle", "looked", "passed", "joined", "left", "erased"}
Fines == {"none", "on", "over"}      \* no entry, running, expired
Keys(c) == {AddrOf[c], UdidOf[c]}

Idle == [step |-> "idle", who |-> NoConn, seen |-> "none"]
Busy(l, step) == task[l].step = step

(* Goes on with the same connection.                                       *)
Goto(l, step) ==
    task' = [task EXCEPT ![l] = [step |-> step, who |-> task[l].who,
                               seen |-> task[l].seen]]
Finish(l) == task' = [task EXCEPT ![l] = Idle]

Init ==
    /\ at = [c \in Conn |-> Nowhere]
    /\ tried = {} /\ verified = {} /\ closing = {} /\ owes = {} /\ op = {}
    /\ list = [l \in Lobby |-> {}]
    /\ task = [l \in Lobby |-> Idle]
    /\ book = [k \in Key |-> 0]
    /\ fine = [k \in Key |-> "none"]
    /\ opKeys = {}

----------------------------------------------------------------------------
(* Mutant of InUse: both keys have to be in use.                           *)
InUseBoth(c) == c \notin op /\ book[AddrOf[c]] > 0 /\ book[UdidOf[c]] > 0

(* timeout_check: the address first, the device id if it has no entry.     *)
FineOf(c) == IF fine[AddrOf[c]] # "none" THEN fine[AddrOf[c]]
                                         ELSE fine[UdidOf[c]]

(* timeout_set and timeout_revoke work on both keys.                       *)
SetFine(c, f) == fine' = [k \in Key |-> IF k \in Keys(c) THEN f ELSE fine[k]]

(* The in-use check: operators may connect twice.                          *)
InUse(c) == c \notin op /\ \E k \in Keys(c) : book[k] > 0

(* server_disconnect: ENet will report the disconnection.                  *)
Expel(c) == closing' = closing \cup {c}

----------------------------------------------------------------------------
(* ENET_EVENT_TYPE_CONNECT                                                 *)
Connect(c, l) ==
    /\ at[c] = Nowhere
    /\ Busy(l, "idle")
    /\ at' = [at EXCEPT ![c] = l]
    /\ UNCHANGED <<tried, verified, closing, owes, op, list, task, book, fine,
                   opKeys>>

(* peer_identity up to the lobby's lock: what the stores know is read, and *)
(* used later.                                                             *)
Lookup(c, l) ==
    /\ at[c] = l /\ c \notin tried
    /\ Busy(l, "idle")
    /\ tried' = tried \cup {c}
    /\ op' = IF Keys(c) \cap opKeys # {} THEN op \cup {c} ELSE op \ {c}
    /\ owes' = owes \cup {c}
    /\ closing' = closing \ {c}
    /\ task' = [task EXCEPT ![l] =
                  [step |-> "looked", who |-> c, seen |-> FineOf(c)]]
    /\ UNCHANGED <<at, verified, list, book, fine, opKeys>>

(* A full lobby sends the client to one with room; it is not disconnected, *)
(* and its should_timeout stays.                                           *)
Redirect(l) ==
    /\ Busy(l, "looked")
    /\ Cardinality(list[l]) >= Cap
    /\ \E m \in Lobby : Cardinality(list[m]) < Cap
    /\ Finish(l)
    /\ UNCHANGED <<connVars, list, book, fine, opKeys>>

(* All lobbies are full, or the identity is malformed, or the address or   *)
(* the device is in use.                                                   *)
Reject(l) ==
    /\ Busy(l, "looked")
    /\ Cardinality(list[l]) >= Cap =>
          \A m \in Lobby : Cardinality(list[m]) >= Cap
    /\ Expel(task[l].who)
    /\ Finish(l)
    /\ UNCHANGED <<at, tried, verified, owes, op, list, book, fine, opKeys>>

(* Mutant of PassInUse: a full lobby takes one more.                       *)
PassInUseFull(l) ==
    /\ Busy(l, "looked")
    /\ ~InUse(task[l].who)
    /\ Goto(l, "passed")
    /\ UNCHANGED <<connVars, list, book, fine, opKeys>>

(* The in-use check, the first critical section of the address list.       *)
PassInUse(l) ==
    /\ Busy(l, "looked")
    /\ Cardinality(list[l]) < Cap
    /\ ~InUse(task[l].who)
    /\ Goto(l, "passed")
    /\ UNCHANGED <<connVars, list, book, fine, opKeys>>

(* Banned; not on the whitelist, which costs no timeout; or still timed    *)
(* out and not sent here by another lobby.                                 *)
Deny(l) ==
    /\ Busy(l, "passed")
    /\ Expel(task[l].who)
    /\ owes' \in {owes, owes \ {task[l].who}}
    /\ Finish(l)
    /\ UNCHANGED <<at, tried, verified, op, list, book, fine, opKeys>>

(* The rate limit, for clients that were not sent here by another lobby,   *)
(* with the timeout that was read before the lock: it has run out, and     *)
(* revoking it fails when somebody else has revoked it meanwhile.          *)
Limited(c, seen) == seen # "none" /\ (seen = "on" => FineOf(c) # "on")

RevokeFails(l) ==
    /\ Busy(l, "passed")
    /\ LET c == task[l].who IN
       /\ Limited(c, task[l].seen)
       /\ \A k \in Keys(c) : fine[k] = "none"
       /\ Expel(c)
    /\ Finish(l)
    /\ UNCHANGED <<at, tried, verified, owes, op, list, book, fine, opKeys>>

(* dylist_push and server_state_joined, in whose packets a fault may hit.  *)
Admit(l) ==
    /\ Busy(l, "passed")
    /\ LET c == task[l].who IN
       /\ \/ UNCHANGED fine
          \/ /\ Limited(c, task[l].seen)
             /\ \E k \in Keys(c) : fine[k] # "none"
             /\ SetFine(c, "none")
       /\ list' = [list EXCEPT ![l] = @ \cup {c}]
       /\ \E ok \in IF Faults THEN BOOLEAN ELSE {TRUE} :
             IF ok THEN /\ Goto(l, "joined")
                        /\ UNCHANGED <<closing, owes>>
                   ELSE /\ Finish(l)
                        /\ Expel(c)
                        /\ owes' = owes \ {c}
    /\ UNCHANGED <<at, tried, verified, op, book, opKeys>>

(* The end of the welcome: a fault leaves the connection on the list and   *)
(* not verified; otherwise it is entered, in the second critical section,  *)
(* once more for every connection with the key.                            *)
Register(l) ==
    /\ Busy(l, "joined")
    /\ LET c == task[l].who IN
       \E ok \in IF Faults THEN BOOLEAN ELSE {TRUE} :
          IF ok THEN /\ book' = [k \in Key |-> IF k \in Keys(c) THEN book[k] + 1
                                                            ELSE book[k]]
                     /\ verified' = verified \cup {c}
                ELSE UNCHANGED <<book, verified>>
    /\ Finish(l)
    /\ UNCHANGED <<at, tried, closing, owes, op, list, fine, opKeys>>

----------------------------------------------------------------------------
(* What is left of a connection when its PeerData is freed.                *)
Free(c) ==
    /\ at' = [at EXCEPT ![c] = Nowhere]
    /\ tried' = tried \ {c}
    /\ verified' = verified \ {c}
    /\ closing' = closing \ {c}
    /\ owes' = owes \ {c}
    /\ op' = op \ {c}

(* ENET_EVENT_TYPE_DISCONNECT: who was not let off, and has no timeout     *)
(* yet, gets one of five seconds; who was never verified is forgotten.     *)
Gone(c, l) ==
    /\ at[c] = l
    /\ Busy(l, "idle")
    /\ IF c \in owes \ op /\ FineOf(c) = "none" THEN SetFine(c, "on")
                                              ELSE UNCHANGED fine
    /\ IF c \in verified
       THEN /\ task' = [task EXCEPT ![l] =
                            [step |-> "left", who |-> c, seen |-> "none"]]
            /\ UNCHANGED connVars
       ELSE /\ Free(c)
            /\ UNCHANGED task
    /\ UNCHANGED <<list, book, opKeys>>

(* Mutant of Erase: the address is taken off whoever else has it.          *)
EraseAll(l) ==
    /\ Busy(l, "left")
    /\ book' = [k \in Key |-> IF k \in Keys(task[l].who) THEN 0 ELSE book[k]]
    /\ Goto(l, "erased")
    /\ UNCHANGED <<connVars, list, fine, opKeys>>

(* The entries are deleted, one of each.                                   *)
Erase(l) ==
    /\ Busy(l, "left")
    /\ book' = [k \in Key |-> IF k \in Keys(task[l].who) /\ book[k] > 0
                              THEN book[k] - 1 ELSE book[k]]
    /\ Goto(l, "erased")
    /\ UNCHANGED <<connVars, list, fine, opKeys>>

(* Mutant of Unlist: the peer stays on the list.                           *)
UnlistNot(l) ==
    /\ Busy(l, "erased")
    /\ Free(task[l].who)
    /\ Finish(l)
    /\ UNCHANGED <<list, book, fine, opKeys>>

(* Under the lobby's lock the peer is taken off the list, then freed.      *)
Unlist(l) ==
    /\ Busy(l, "erased")
    /\ list' = [list EXCEPT ![l] = @ \ {task[l].who}]
    /\ Free(task[l].who)
    /\ Finish(l)
    /\ UNCHANGED <<book, fine, opKeys>>

----------------------------------------------------------------------------
(* The host, or an operator, kicks somebody on a list.                     *)
Kick(c) ==
    /\ \E l \in Lobby : c \in list[l]
    /\ SetFine(c, "on")
    /\ Expel(c)
    /\ UNCHANGED <<at, tried, verified, owes, op, list, task, book, opKeys>>

(* The host makes somebody on a list an operator, at once and by address.  *)
MakeOp(c) ==
    /\ \E l \in Lobby : c \in list[l]
    /\ op' = op \cup {c}
    /\ opKeys' = opKeys \cup {AddrOf[c]}
    /\ UNCHANGED <<at, tried, verified, closing, owes, list, task, book, fine>>

(* The host takes an operator off the list; who plays as one goes on.      *)
RevokeOp(k) ==
    /\ k \in opKeys
    /\ opKeys' = opKeys \ {k}
    /\ UNCHANGED <<connVars, list, task, book, fine>>

(* A timeout runs out; its entry stays.                                    *)
Expire(k) ==
    /\ fine[k] = "on"
    /\ fine' = [fine EXCEPT ![k] = "over"]
    /\ UNCHANGED <<connVars, list, task, book, opKeys>>

Worker(l) ==
    \/ \E c \in Conn : Connect(c, l) \/ Lookup(c, l) \/ Gone(c, l)
    \/ Redirect(l) \/ Reject(l) \/ PassInUse(l)
    \/ Deny(l) \/ RevokeFails(l) \/ Admit(l) \/ Register(l)
    \/ Erase(l) \/ Unlist(l)

Host ==
    \/ \E c \in Conn : Kick(c) \/ MakeOp(c)
    \/ \E k \in Key : RevokeOp(k) \/ Expire(k)

Next == Host \/ \E l \in Lobby : Worker(l)

Spec == Init /\ [][Next]_vars

----------------------------------------------------------------------------
(* Type invariant.                                                         *)
TypeOK ==
    /\ at \in [Conn -> Lobby \cup {Nowhere}]
    /\ tried \subseteq Conn /\ verified \subseteq Conn
    /\ closing \subseteq Conn /\ owes \subseteq Conn /\ op \subseteq Conn
    /\ list \in [Lobby -> SUBSET Conn]
    /\ task \in [Lobby -> [step : Steps, who : Conn \cup {NoConn}, seen : Fines]]
    /\ \A l \in Lobby : ~Busy(l, "idle") => task[l].who \in Conn
    /\ book \in [Key -> Nat]
    /\ fine \in [Key -> Fines]
    /\ opKeys \subseteq Key

(* The connections that are entered in the list of addresses.              *)
Booked == verified \ {task[l].who : l \in {m \in Lobby : Busy(m, "erased")}}

(* Whatever the workers of several lobbies do to it at once, the list of   *)
(* addresses has as many entries for a key as there are players with it:   *)
(* nobody who has left bars his address, nobody's entry goes with another. *)
BookBalances ==
    \A k \in Key : book[k] = Cardinality({c \in Booked : k \in Keys(c)})

(* No two players of a lobby have the same address or device, unless one   *)
(* of them is an operator.  (Of two lobbies they may: check and entry are  *)
(* two critical sections.)                                                 *)
SoleInLobby ==
    \A c, d \in verified :
        c # d /\ at[c] = at[d] /\ Keys(c) \cap Keys(d) # {}
            => c \in op \/ d \in op

(* Who is on a lobby's list is connected to it, and is verified or being   *)
(* welcomed; who is verified is on the list.                               *)
ListedConnected ==
    /\ \A l \in Lobby : \A c \in list[l] :
          at[c] = l /\ (c \in verified \/ task[l].who = c)
    /\ \A c \in verified : at[c] \in Lobby /\ c \in list[at[c]]

(* The several critical sections of a welcome and of a parting, with those *)
(* of other workers, operators, timeouts and faults between them, act as   *)
(* one step: a seat is taken at Register and left at Erase, in a lobby     *)
(* with room and without the same address or device, though the room and   *)
(* the addresses were looked up two critical sections earlier.             *)
Promise == INSTANCE Admission WITH
    seat <- [c \in Conn |-> IF c \in Booked THEN at[c] ELSE Nowhere],
    chief <- op \cap Booked
KeepsPromise == Promise!Spec
=============================================================================
