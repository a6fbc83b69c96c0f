--------------------------- MODULE SessionsProofs ---------------------------
(***************************************************************************)
(* Theorems about Sessions, for every number of lobbies, connections,      *)
(* addresses and devices.                                                  *)
(***************************************************************************)
EXTENDS Sessions, FiniteSetTheorems, TLAPS

(* What a worker is in the middle of: it welcomes somebody connected to    *)
(* its lobby who is not verified, or parts from somebody who is.           *)
Welcoming(l) == task[l].step \in {"looked", "passed", "joined"}
Parting(l) == task[l].step \in {"left", "erased"}

WorkersOK ==
    /\ \A l \in Lobby : Welcoming(l) =>
          at[task[l].who] = l /\ task[l].who \in tried \ verified
    /\ \A l \in Lobby : Parting(l) =>
          at[task[l].who] = l /\ task[l].who \in verified
    /\ \A c \in verified : at[c] \in Lobby /\ c \in tried

(* Between check and entry nobody with a key in common is verified here.   *)
CheckHolds ==
    \A l \in Lobby : task[l].step \in {"passed", "joined"} /\ task[l].who \notin op
        => \A d \in verified : at[d] = l => Keys(task[l].who) \cap Keys(d) = {}

Inv == TypeOK /\ WorkersOK /\ BookBalances /\ CheckHolds /\ SoleInLobby

----------------------------------------------------------------------------
LEMMA TypeStep == TypeOK /\ [Next]_vars => TypeOK'
<1> SUFFICES ASSUME TypeOK, [Next]_vars PROVE TypeOK'
  OBVIOUS
<1> USE SessionsAssumption DEF TypeOK, Busy, Idle, Steps, Fines, Keys
<1>0. ASSUME NEW c \in Conn PROVE FineOf(c) \in Fines
  BY DEF FineOf
<1>1. ASSUME NEW c \in Conn, NEW f \in Fines, SetFine(c, f)
      PROVE  fine' \in [Key -> Fines]
  BY <1>1 DEF SetFine
<1>2. ASSUME NEW l \in Lobby, NEW c \in Conn, Connect(c, l) PROVE TypeOK'
  BY <1>2 DEF Connect
<1>3. ASSUME NEW l \in Lobby, NEW c \in Conn, Lookup(c, l) PROVE TypeOK'
  BY <1>3, <1>0 DEF Lookup
<1>4. ASSUME NEW l \in Lobby, NEW c \in Conn, Gone(c, l) PROVE TypeOK'
  <2>1. fine' \in [Key -> Fines]
    BY <1>4, <1>1 DEF Gone
  <2>2. CASE c \in verified
    <3>1. task' = [task EXCEPT ![l] =
                     [step |-> "left", who |-> c, seen |-> "none"]]
      BY <1>4, <2>2 DEF Gone
    <3>2. UNCHANGED <<connVars, list, book, opKeys>>
      BY <1>4, <2>2 DEF Gone
    <3>3. QED
      BY <2>1, <3>1, <3>2 DEF connVars
  <2>3. CASE c \notin verified
    BY <1>4, <2>1, <2>3 DEF Gone, Free
  <2>4. QED
    BY <2>2, <2>3
<1>5. ASSUME NEW l \in Lobby, Redirect(l) PROVE TypeOK'
  BY <1>5 DEF Redirect, Finish, connVars
<1>6. ASSUME NEW l \in Lobby, Reject(l) PROVE TypeOK'
  BY <1>6 DEF Reject, Finish, Expel
<1>7. ASSUME NEW l \in Lobby, PassInUse(l) PROVE TypeOK'
  BY <1>7 DEF PassInUse, Goto, connVars
<1>8. ASSUME NEW l \in Lobby, Deny(l) PROVE TypeOK'
  BY <1>8 DEF Deny, Finish, Expel
<1>9. ASSUME NEW l \in Lobby, RevokeFails(l) PROVE TypeOK'
  BY <1>9 DEF RevokeFails, Finish, Expel
<1>10. ASSUME NEW l \in Lobby, Admit(l) PROVE TypeOK'
  <2>1. fine' \in [Key -> Fines]
    BY <1>10, <1>1 DEF Admit
  <2>2. /\ closing' \subseteq Conn /\ owes' \subseteq Conn
        /\ task' \in [Lobby -> [step : Steps, who : Conn \cup {NoConn}, seen : Fines]]
        /\ \A m \in Lobby : task'[m].step # "idle" => task'[m].who \in Conn
    <3>0. task[l].who \in Conn
      BY <1>10 DEF Admit
    <3>1. CASE Goto(l, "joined") /\ UNCHANGED <<closing, owes>>
      BY <3>0, <3>1 DEF Goto
    <3>2. CASE Finish(l) /\ Expel(task[l].who) /\ owes' = owes \ {task[l].who}
      BY <3>0, <3>2 DEF Finish, Expel
    <3>3. QED
      BY <1>10, <3>1, <3>2 DEF Admit
  <2>3. QED
    BY <1>10, <2>1, <2>2 DEF Admit
<1>11. ASSUME NEW l \in Lobby, Register(l) PROVE TypeOK'
  BY <1>11 DEF Register, Finish
<1>12. ASSUME NEW l \in Lobby, Erase(l) PROVE TypeOK'
  BY <1>12 DEF Erase, Goto, connVars
<1>13. ASSUME NEW l \in Lobby, Unlist(l) PROVE TypeOK'
  BY <1>13 DEF Unlist, Free, Finish
<1>14. ASSUME NEW c \in Conn, Kick(c) PROVE TypeOK'
  BY <1>14, <1>1 DEF Kick, Expel
<1>15. ASSUME NEW c \in Conn, MakeOp(c) PROVE TypeOK'
  BY <1>15 DEF MakeOp
<1>16. ASSUME NEW k \in Key, RevokeOp(k) \/ Expire(k) PROVE TypeOK'
  BY <1>16 DEF RevokeOp, Expire, connVars
<1>17. CASE UNCHANGED vars
  BY <1>17 DEF vars, connVars
<1>18. QED
  BY <1>2, <1>3, <1>4, <1>5, <1>6, <1>7, <1>8, <1>9, <1>10, <1>11, <1>12, <1>13,
     <1>14, <1>15, <1>16, <1>17 DEF Next, Host, Worker

----------------------------------------------------------------------------
(* Every step is one of a few kinds, as far as who is where, who is        *)
(* verified, what the workers do and the list of addresses go.             *)
Same == UNCHANGED <<at, verified, book>>

Begins(c, l) ==
    /\ task[l].step = "idle" /\ at[c] = l /\ c \notin tried
    /\ task' = [task EXCEPT ![l] =
                  [step |-> "looked", who |-> c, seen |-> FineOf(c)]]
    /\ op' \in {op \cup {c}, op \ {c}} /\ tried' = tried \cup {c}
    /\ Same

Advances(l) ==
    /\ \/ /\ task[l].step = "looked" /\ ~InUse(task[l].who)
          /\ Goto(l, "passed")
       \/ task[l].step = "passed" /\ Goto(l, "joined")
    /\ UNCHANGED op /\ UNCHANGED tried
    /\ Same

GivesUp(l) ==
    /\ Welcoming(l) /\ Finish(l)
    /\ UNCHANGED op /\ UNCHANGED tried
    /\ Same

Enters(l) ==
    /\ task[l].step = "joined" /\ Finish(l)
    /\ verified' = verified \cup {task[l].who}
    /\ book' = [k \in Key |-> IF k \in Keys(task[l].who) THEN book[k] + 1
                                                      ELSE book[k]]
    /\ UNCHANGED op /\ UNCHANGED tried /\ UNCHANGED at

Parts(c, l) ==
    /\ task[l].step = "idle" /\ at[c] = l /\ c \in verified
    /\ task' = [task EXCEPT ![l] = [step |-> "left", who |-> c, seen |-> "none"]]
    /\ UNCHANGED op /\ UNCHANGED tried
    /\ Same

Erases(l) ==
    /\ task[l].step = "left" /\ Goto(l, "erased")
    /\ book' = [k \in Key |-> IF k \in Keys(task[l].who) /\ book[k] > 0
                              THEN book[k] - 1 ELSE book[k]]
    /\ UNCHANGED <<at, verified>> /\ UNCHANGED op /\ UNCHANGED tried

(* Frees somebody: at the end of a parting, or who was never verified.     *)
Frees(c, l) ==
    /\ at[c] = l
    /\ \/ task[l].step = "erased" /\ task[l].who = c /\ Finish(l)
       \/ task[l].step = "idle" /\ c \notin verified /\ UNCHANGED task
    /\ at' = [at EXCEPT ![c] = Nowhere] /\ tried' = tried \ {c}
    /\ verified' = verified \ {c} /\ op' = op \ {c} /\ UNCHANGED book

Arrives(c, l) ==
    /\ at[c] = Nowhere /\ at' = [at EXCEPT ![c] = l]
    /\ UNCHANGED <<verified, book, task>> /\ UNCHANGED op /\ UNCHANGED tried

Elsewhere ==
    /\ op' = op \/ \E c \in Conn : op' = op \cup {c}
    /\ UNCHANGED <<task, tried>> /\ Same

LEMMA Kinds ==
    ASSUME TypeOK, WorkersOK, [Next]_vars
    PROVE  \/ \E c \in Conn, l \in Lobby :
                 Begins(c, l) \/ Parts(c, l) \/ Frees(c, l) \/ Arrives(c, l)
           \/ \E l \in Lobby : Advances(l) \/ GivesUp(l) \/ Enters(l) \/ Erases(l)
           \/ Elsewhere
<1> USE DEF Busy, Same
<1>1. ASSUME NEW l \in Lobby, NEW c \in Conn, Connect(c, l) PROVE Arrives(c, l)
  BY <1>1 DEF Connect, Arrives
<1>2. ASSUME NEW l \in Lobby, NEW c \in Conn, Lookup(c, l) PROVE Begins(c, l)
  BY <1>2 DEF Lookup, Begins
<1>3. ASSUME NEW l \in Lobby, NEW c \in Conn, Gone(c, l)
      PROVE  Parts(c, l) \/ Frees(c, l)
  BY <1>3 DEF Gone, Free, Parts, Frees, connVars
<1>4. ASSUME NEW l \in Lobby, Redirect(l) \/ Reject(l) \/ Deny(l) \/ RevokeFails(l)
      PROVE  GivesUp(l)
  BY <1>4 DEF Redirect, Reject, Deny, RevokeFails, GivesUp, Welcoming, connVars
<1>5. ASSUME NEW l \in Lobby, PassInUse(l) PROVE Advances(l)
  BY <1>5 DEF PassInUse, Advances, connVars
<1>6. ASSUME NEW l \in Lobby, Admit(l) PROVE Advances(l) \/ GivesUp(l)
  BY <1>6 DEF Admit, Advances, GivesUp, Welcoming
<1>7. ASSUME NEW l \in Lobby, Register(l) PROVE Enters(l) \/ GivesUp(l)
  BY <1>7 DEF Register, Enters, GivesUp, Welcoming
<1>8. ASSUME NEW l \in Lobby, Erase(l) PROVE Erases(l)
  BY <1>8 DEF Erase, Erases, connVars
<1>9. ASSUME NEW l \in Lobby, Unlist(l) PROVE Frees(task[l].who, l)
  BY <1>9 DEF Unlist, Free, Frees, WorkersOK, Parting
<1>10. ASSUME Host PROVE Elsewhere
  BY <1>10 DEF Host, Kick, MakeOp, RevokeOp, Expire, Elsewhere, connVars
<1>11. CASE UNCHANGED vars
  BY <1>11 DEF vars, connVars, Elsewhere
<1>12. ASSUME NEW l \in Lobby, Unlist(l) PROVE task[l].who \in Conn
  BY <1>12 DEF Unlist, TypeOK
<1>13. QED
  BY <1>1, <1>2, <1>3, <1>4, <1>5, <1>6, <1>7, <1>8, <1>9, <1>10, <1>11, <1>12
     DEF Next, Worker

(* Two workers are never busy with the same connection.                    *)
LEMMA WorkersStep ==
    ASSUME TypeOK, WorkersOK, [Next]_vars
    PROVE  WorkersOK'
<1> USE SessionsAssumption DEF TypeOK, WorkersOK, Welcoming, Parting, Same, Goto,
                               Finish, Idle, Busy
<1>1. ASSUME NEW c \in Conn, NEW l \in Lobby, Begins(c, l) PROVE WorkersOK'
  BY <1>1 DEF Begins
<1>2. ASSUME NEW c \in Conn, NEW l \in Lobby, Parts(c, l) PROVE WorkersOK'
  BY <1>2 DEF Parts
<1>3. ASSUME NEW c \in Conn, NEW l \in Lobby, Frees(c, l) PROVE WorkersOK'
  <2>1. \A m \in Lobby : task'[m].step # "idle" =>
          m # l /\ task'[m] = task[m]
    BY <1>3 DEF Frees
  <2>2. \A m \in Lobby : m # l /\ (Welcoming(m) \/ Parting(m)) => task[m].who # c
    BY <1>3 DEF Frees
  <2>3. \A d \in Conn : d # c =>
           /\ at'[d] = at[d]
           /\ d \in verified' <=> d \in verified
           /\ d \in tried' <=> d \in tried
    BY <1>3 DEF Frees
  <2>4. c \notin verified' /\ verified' \subseteq verified
    BY <1>3 DEF Frees
  <2>5. ASSUME NEW m \in Lobby, Welcoming(m)'
        PROVE  at'[task'[m].who] = m /\ task'[m].who \in tried' \ verified'
    BY <2>1, <2>2, <2>3, <2>5
  <2>6. ASSUME NEW m \in Lobby, Parting(m)'
        PROVE  at'[task'[m].who] = m /\ task'[m].who \in verified'
    BY <2>1, <2>2, <2>3, <2>6
  <2>7. ASSUME NEW d \in verified' PROVE at'[d] \in Lobby /\ d \in tried'
    BY <2>3, <2>4, <2>7
  <2>8. QED
    BY <2>5, <2>6, <2>7
<1>4. ASSUME NEW c \in Conn, NEW l \in Lobby, Arrives(c, l) PROVE WorkersOK'
  BY <1>4 DEF Arrives
<1>5. ASSUME NEW l \in Lobby, Advances(l) PROVE WorkersOK'
  <2>1. PICK s \in {"passed", "joined"} :
           Welcoming(l) /\ task' = [task EXCEPT ![l] =
             [step |-> s, who |-> task[l].who, seen |-> task[l].seen]]
    BY <1>5 DEF Advances
  <2>2. UNCHANGED <<at, verified, tried>>
    BY <1>5 DEF Advances
  <2>3. QED
    BY <2>1, <2>2
<1>6. ASSUME NEW l \in Lobby, GivesUp(l) PROVE WorkersOK'
  BY <1>6 DEF GivesUp
<1>7. ASSUME NEW l \in Lobby, Enters(l) PROVE WorkersOK'
  BY <1>7 DEF Enters
<1>8. ASSUME NEW l \in Lobby, Erases(l) PROVE WorkersOK'
  BY <1>8 DEF Erases
<1>9. ASSUME Elsewhere PROVE WorkersOK'
  BY <1>9 DEF Elsewhere
<1>10. QED
  BY Kinds, <1>1, <1>2, <1>3, <1>4, <1>5, <1>6, <1>7, <1>8, <1>9

----------------------------------------------------------------------------
(* Booked as a set without an image, and what the kinds of steps do to it. *)
LEMMA BookedIs ==
    ASSUME NEW c
    PROVE  c \in Booked <=>
              c \in verified /\ \A m \in Lobby : Busy(m, "erased") => task[m].who # c
  BY DEF Booked

LEMMA BookedKept ==
    ASSUME TypeOK, WorkersOK,
           \/ \E c \in Conn, l \in Lobby :
                Begins(c, l) \/ Parts(c, l) \/ Frees(c, l) \/ Arrives(c, l)
           \/ \E l \in Lobby : Advances(l) \/ GivesUp(l)
           \/ Elsewhere
    PROVE  Booked' = Booked /\ book' = book
<1> USE SessionsAssumption DEF TypeOK, Busy, Same, Goto, Finish, Idle
<1>1. ASSUME verified' = verified, book' = book,
             \A m \in Lobby : Busy(m, "erased")' <=> Busy(m, "erased"),
             \A m \in Lobby : Busy(m, "erased") => task'[m].who = task[m].who
      PROVE  Booked' = Booked /\ book' = book
  BY <1>1 DEF Booked
<1>2. ASSUME NEW c \in Conn, NEW l \in Lobby, Begins(c, l) \/ Parts(c, l) \/ Arrives(c, l)
      PROVE  Booked' = Booked /\ book' = book
  <2>1. /\ verified' = verified /\ book' = book
        /\ \/ task' = task
           \/ /\ task[l].step # "erased" /\ task'[l].step # "erased"
              /\ \A m \in Lobby : m # l => task'[m] = task[m]
    <3>1. CASE Arrives(c, l)
      BY <3>1 DEF Arrives
    <3>2. CASE Begins(c, l)
      BY <3>2 DEF Begins
    <3>3. CASE Parts(c, l)
      BY <3>3 DEF Parts
    <3>4. QED
      BY <1>2, <3>1, <3>2, <3>3
  <2>2. QED
    BY <1>1, <2>1
<1>3. ASSUME NEW l \in Lobby, Advances(l) \/ GivesUp(l)
      PROVE  Booked' = Booked /\ book' = book
  <2>1. /\ verified' = verified /\ book' = book
        /\ task[l].step # "erased" /\ task'[l].step # "erased"
        /\ \A m \in Lobby : m # l => task'[m] = task[m]
    BY <1>3 DEF Advances, GivesUp, Welcoming
  <2>2. QED
    BY <1>1, <2>1
<1>4. ASSUME NEW c \in Conn, NEW l \in Lobby, Frees(c, l)
      PROVE  Booked' = Booked /\ book' = book
  <2>1. /\ book' = book /\ verified' = verified \ {c}
        /\ \A m \in Lobby : m # l => task'[m] = task[m]
        /\ task'[l].step = "idle"
    BY <1>4 DEF Frees
  <2>2. \/ task[l].step = "erased" /\ task[l].who = c
        \/ task[l].step = "idle" /\ c \notin verified
    BY <1>4 DEF Frees
  <2>3. ASSUME NEW x PROVE x \in Booked' <=> x \in Booked
    BY <2>1, <2>2 DEF Booked
  <2>4. QED
    BY <2>1, <2>3
<1>5. ASSUME Elsewhere PROVE Booked' = Booked /\ book' = book
  BY <1>1, <1>5 DEF Elsewhere
<1>6. QED
  BY <1>2, <1>3, <1>4, <1>5

LEMMA BookedEnters ==
    ASSUME TypeOK, WorkersOK, NEW l \in Lobby, Enters(l)
    PROVE  /\ task[l].who \in Conn \ Booked
           /\ Booked' = Booked \cup {task[l].who}
<1> USE SessionsAssumption DEF TypeOK, Busy, Finish, Idle, WorkersOK, Parting, Welcoming
<1>1. /\ task[l].who \in Conn \ verified
      /\ verified' = verified \cup {task[l].who}
      /\ task[l].step # "erased" /\ task'[l].step # "erased"
      /\ \A m \in Lobby : m # l => task'[m] = task[m]
  BY DEF Enters
<1>2. /\ \A m \in Lobby : task[m].step = "erased" => task[m].who # task[l].who
      /\ \A m \in Lobby : task'[m].step = "erased" <=> task[m].step = "erased"
      /\ \A m \in Lobby : task[m].step = "erased" => task'[m].who = task[m].who
  BY <1>1
<1>3. ASSUME NEW x PROVE x \in Booked' <=> x \in Booked \/ x = task[l].who
  <2>1. x \in Booked' <=> x \in verified' /\ \A m \in Lobby :
                                task'[m].step = "erased" => task'[m].who # x
    BY DEF Booked
  <2>2. QED
    BY <1>1, <1>2, <2>1, BookedIs
<1>4. QED
  BY <1>1, <1>3 DEF Booked

LEMMA BookedErases ==
    ASSUME TypeOK, WorkersOK, NEW l \in Lobby, Erases(l)
    PROVE  /\ task[l].who \in Booked
           /\ Booked' = Booked \ {task[l].who}
<1> USE SessionsAssumption DEF TypeOK, Busy, Goto, WorkersOK, Parting
<1>1. /\ task[l].who \in verified /\ at[task[l].who] = l
      /\ verified' = verified
      /\ task[l].step # "erased" /\ task'[l].step = "erased"
      /\ task'[l].who = task[l].who
      /\ \A m \in Lobby : m # l => task'[m] = task[m]
  BY DEF Erases
<1>2. \A m \in Lobby : Busy(m, "erased") => task[m].who # task[l].who
  BY <1>1
<1>3. ASSUME NEW x PROVE x \in Booked' <=> x \in Booked /\ x # task[l].who
  BY <1>1 DEF Booked
<1>4. QED
  BY <1>1, <1>2, <1>3 DEF Booked

(* The count of a key's holders grows and shrinks by one with a holder.    *)
Holders(B, k) == {c \in B : k \in Keys(c)}

LEMMA HoldersStep ==
    ASSUME NEW B \in SUBSET Conn, NEW x \in Conn, NEW k
    PROVE  /\ Cardinality(Holders(B, k)) \in Nat
           /\ x \notin B => Cardinality(Holders(B \cup {x}, k)) =
                Cardinality(Holders(B, k)) + (IF k \in Keys(x) THEN 1 ELSE 0)
           /\ x \in B => Cardinality(Holders(B \ {x}, k)) =
                Cardinality(Holders(B, k)) - (IF k \in Keys(x) THEN 1 ELSE 0)
           /\ x \in B /\ k \in Keys(x) => Cardinality(Holders(B, k)) > 0
<1>1. IsFiniteSet(Holders(B, k))
  BY FS_Subset, SessionsAssumption DEF Holders
<1>2. Cardinality(Holders(B, k)) \in Nat
  BY <1>1, FS_CardinalityType
<1>3. Holders(B \cup {x}, k) = IF k \in Keys(x) THEN Holders(B, k) \cup {x}
                                             ELSE Holders(B, k)
  BY DEF Holders
<1>4. Holders(B \ {x}, k) = IF k \in Keys(x) THEN Holders(B, k) \ {x}
                                          ELSE Holders(B, k)
  BY DEF Holders
<1>5. x \in Holders(B, k) <=> x \in B /\ k \in Keys(x)
  BY DEF Holders
<1>6. /\ Cardinality(Holders(B, k) \cup {x}) =
            IF x \in Holders(B, k) THEN Cardinality(Holders(B, k))
                                   ELSE Cardinality(Holders(B, k)) + 1
      /\ Cardinality(Holders(B, k) \ {x}) =
            IF x \in Holders(B, k) THEN Cardinality(Holders(B, k)) - 1
                                   ELSE Cardinality(Holders(B, k))
  BY <1>1, FS_AddElement, FS_RemoveElement
<1>7. x \in Holders(B, k) => Cardinality(Holders(B, k)) # 0
  BY <1>1, FS_EmptySet
<1>8. QED
  BY <1>2, <1>3, <1>4, <1>5, <1>6, <1>7

LEMMA BookStep ==
    ASSUME TypeOK, WorkersOK, BookBalances, [Next]_vars
    PROVE  BookBalances'
<1> USE DEF TypeOK
<1>0. Booked \in SUBSET Conn /\ BookBalances = \A k \in Key : book[k] = Cardinality(Holders(Booked, k))
  BY DEF Booked, BookBalances, Holders
<1>1. BookBalances' = \A k \in Key : book'[k] = Cardinality(Holders(Booked', k))
  BY DEF BookBalances, Holders, Keys
<1>2. ASSUME NEW l \in Lobby, Enters(l) PROVE BookBalances'
  <2>1. ASSUME NEW k \in Key PROVE book'[k] = Cardinality(Holders(Booked', k))
    <3>1. book'[k] = book[k] + (IF k \in Keys(task[l].who) THEN 1 ELSE 0)
      BY <1>2 DEF Enters
    <3>2. book[k] = Cardinality(Holders(Booked, k))
      BY <1>0
    <3>3. Cardinality(Holders(Booked \cup {task[l].who}, k)) =
            Cardinality(Holders(Booked, k)) + (IF k \in Keys(task[l].who) THEN 1 ELSE 0)
      BY <1>0, <1>2, BookedEnters, HoldersStep
    <3>4. QED
      BY <1>2, <3>1, <3>2, <3>3, BookedEnters
  <2>2. QED
    BY <1>1, <2>1
<1>3. ASSUME NEW l \in Lobby, Erases(l) PROVE BookBalances'
  <2>1. ASSUME NEW k \in Key PROVE book'[k] = Cardinality(Holders(Booked', k))
    <3>1. book'[k] = IF k \in Keys(task[l].who) /\ book[k] > 0 THEN book[k] - 1
                                                           ELSE book[k]
      BY <1>3 DEF Erases
    <3>2. book[k] = Cardinality(Holders(Booked, k))
      BY <1>0
    <3>3. /\ Cardinality(Holders(Booked \ {task[l].who}, k)) =
              Cardinality(Holders(Booked, k)) - (IF k \in Keys(task[l].who) THEN 1 ELSE 0)
          /\ k \in Keys(task[l].who) => Cardinality(Holders(Booked, k)) > 0
          /\ Cardinality(Holders(Booked, k)) \in Nat
      <4>1. task[l].who \in Booked
        BY <1>3, BookedErases
      <4>2. QED
        BY <1>0, <4>1, HoldersStep
    <3>4. Booked' = Booked \ {task[l].who}
      BY <1>3, BookedErases
    <3>5. CASE k \in Keys(task[l].who)
      BY <3>1, <3>2, <3>3, <3>4, <3>5
    <3>6. CASE k \notin Keys(task[l].who)
      BY <3>1, <3>2, <3>3, <3>4, <3>6
    <3>7. QED
      BY <3>5, <3>6
  <2>2. QED
    BY <1>1, <2>1
<1>4. ASSUME Booked' = Booked, book' = book PROVE BookBalances'
  BY <1>0, <1>1, <1>4
<1>5. QED
  BY Kinds, BookedKept, <1>2, <1>3, <1>4

----------------------------------------------------------------------------
(* Who has passed the check has no key in common with anybody verified in  *)
(* this lobby, as long as the worker goes on with him.                     *)
LEMMA CheckStep ==
    ASSUME TypeOK, WorkersOK, BookBalances, CheckHolds, [Next]_vars
    PROVE  CheckHolds'
<1> USE SessionsAssumption DEF TypeOK, Same, Finish, Idle
<1>0. SUFFICES ASSUME NEW m \in Lobby, task'[m].step \in {"passed", "joined"},
                      task'[m].who \notin op',
                      NEW d \in verified', at'[d] = m
               PROVE  Keys(task'[m].who) \cap Keys(d) = {}
  BY DEF CheckHolds, Keys
<1>1. ASSUME verified' \subseteq verified, at'[d] = at[d], task'[m] = task[m],
             task[m].who \notin op
      PROVE  Keys(task'[m].who) \cap Keys(d) = {}
  BY <1>0, <1>1 DEF CheckHolds
<1>2. ASSUME NEW l \in Lobby, Advances(l) PROVE Keys(task'[m].who) \cap Keys(d) = {}
  <2>1. UNCHANGED <<verified, at, op>>
    BY <1>2 DEF Advances
  <2>2. CASE m = l /\ task[l].step = "passed"
    BY <1>0, <1>2, <2>1, <2>2 DEF Advances, Goto, CheckHolds
  <2>3. CASE m = l /\ task[l].step = "looked"
    <3>1. task'[l].who = task[l].who /\ ~InUse(task[l].who) /\ task[l].who \in Conn
      BY <1>2, <2>3 DEF Advances, Goto, Busy
    <3>2. \A k \in Keys(task[l].who) : book[k] = 0
      BY <1>0, <2>1, <2>3, <3>1 DEF InUse, Keys
    <3>3. d \in Booked
      BY <1>0, <2>1, <2>3, BookedIs DEF WorkersOK, Parting, Busy
    <3>4. ASSUME NEW k \in Keys(task[l].who) \cap Keys(d) PROVE FALSE
      <4>1. k \in Key /\ book[k] = Cardinality(Holders(Booked, k))
        BY <3>1 DEF BookBalances, Holders, Keys
      <4>2. Booked \in SUBSET Conn
        BY DEF Booked
      <4>3. Cardinality(Holders(Booked, k)) > 0
        BY <3>3, <4>2, HoldersStep
      <4>4. QED
        BY <3>2, <4>1, <4>3
    <3>5. QED
      BY <2>3, <3>1, <3>4
  <2>4. CASE m # l
    BY <1>0, <1>1, <1>2, <2>1, <2>4 DEF Advances, Goto
  <2>5. QED
    BY <1>2, <2>2, <2>3, <2>4 DEF Advances
<1>3. ASSUME NEW l \in Lobby, NEW c \in Conn, Begins(c, l)
      PROVE  Keys(task'[m].who) \cap Keys(d) = {}
  <2>1. m # l /\ task'[m] = task[m] /\ UNCHANGED <<verified, at>>
    BY <1>0, <1>3 DEF Begins
  <2>2. task[m].who # c
    BY <1>0, <1>3, <2>1 DEF Begins, WorkersOK, Welcoming
  <2>3. task[m].who \notin op
    BY <1>0, <1>3, <2>1, <2>2 DEF Begins
  <2>4. QED
    BY <1>1, <2>1, <2>3
<1>4. ASSUME NEW l \in Lobby, NEW c \in Conn, Frees(c, l)
      PROVE  Keys(task'[m].who) \cap Keys(d) = {}
  <2>1. m # l /\ task'[m] = task[m]
    BY <1>0, <1>4 DEF Frees
  <2>2. task[m].who # c
    BY <1>0, <1>4, <2>1 DEF Frees, WorkersOK, Welcoming
  <2>3. task[m].who \notin op /\ verified' \subseteq verified /\ d # c /\ d \in Conn
    BY <1>0, <1>4, <2>1, <2>2 DEF Frees
  <2>4. at'[d] = at[d]
    BY <1>4, <2>3 DEF Frees
  <2>5. QED
    BY <1>1, <2>1, <2>3, <2>4
<1>5. ASSUME NEW l \in Lobby, NEW c \in Conn, Arrives(c, l)
      PROVE  Keys(task'[m].who) \cap Keys(d) = {}
  <2>1. d \in verified /\ d # c
    BY <1>0, <1>5 DEF Arrives, WorkersOK
  <2>2. QED
    BY <1>0, <1>1, <1>5, <2>1 DEF Arrives
<1>6. ASSUME NEW l \in Lobby, Enters(l) PROVE Keys(task'[m].who) \cap Keys(d) = {}
  <2>1. m # l /\ task'[m] = task[m] /\ UNCHANGED <<at, op>>
    BY <1>0, <1>6 DEF Enters
  <2>2. d \in verified
    BY <1>0, <1>6, <2>1 DEF Enters, WorkersOK, Welcoming
  <2>3. QED
    BY <1>0, <2>1, <2>2 DEF CheckHolds
<1>7. ASSUME NEW l \in Lobby,
             GivesUp(l) \/ Erases(l) \/ \E c \in Conn : Parts(c, l)
      PROVE  Keys(task'[m].who) \cap Keys(d) = {}
  <2>1. m # l /\ task'[m] = task[m] /\ UNCHANGED <<at, op, verified>>
    BY <1>0, <1>7 DEF GivesUp, Parts, Erases, Goto
  <2>2. QED
    BY <1>0, <1>1, <2>1
<1>8. ASSUME Elsewhere PROVE Keys(task'[m].who) \cap Keys(d) = {}
  BY <1>0, <1>1, <1>8 DEF Elsewhere
<1>9. QED
  BY Kinds, <1>2, <1>3, <1>4, <1>5, <1>6, <1>7, <1>8

LEMMA SoleStep ==
    ASSUME TypeOK, WorkersOK, CheckHolds, SoleInLobby, [Next]_vars
    PROVE  SoleInLobby'
<1> USE SessionsAssumption DEF TypeOK, Same
<1>1. ASSUME verified' \subseteq verified,
             \A c \in verified' : at'[c] = at[c] /\ (c \in op => c \in op')
      PROVE  SoleInLobby'
  BY <1>1 DEF SoleInLobby, Keys
<1>2. ASSUME NEW l \in Lobby, Enters(l) PROVE SoleInLobby'
  <2>1. /\ task[l].who \in Conn /\ at[task[l].who] = l
        /\ verified' = verified \cup {task[l].who}
        /\ UNCHANGED <<at, op>>
        /\ task[l].who \notin op =>
              \A d \in verified : at[d] = l => Keys(task[l].who) \cap Keys(d) = {}
    BY <1>2 DEF Enters, WorkersOK, Welcoming, CheckHolds, Busy
  <2>2. QED
    BY <2>1 DEF SoleInLobby, Keys
<1>3. ASSUME NEW l \in Lobby, NEW c \in Conn, Begins(c, l) PROVE SoleInLobby'
  BY <1>1, <1>3 DEF Begins, WorkersOK
<1>4. ASSUME NEW l \in Lobby, NEW c \in Conn, Frees(c, l) PROVE SoleInLobby'
  BY <1>1, <1>4 DEF Frees
<1>5. ASSUME NEW l \in Lobby, NEW c \in Conn, Arrives(c, l) PROVE SoleInLobby'
  BY <1>1, <1>5 DEF Arrives, WorkersOK
<1>6. ASSUME NEW l \in Lobby, \/ GivesUp(l) \/ Erases(l) \/ Advances(l)
                               \/ \E c \in Conn : Parts(c, l)
      PROVE  SoleInLobby'
  BY <1>1, <1>6 DEF GivesUp, Parts, Erases, Advances
<1>7. QED
  BY Kinds, <1>1, <1>2, <1>3, <1>4, <1>5, <1>6 DEF Elsewhere

----------------------------------------------------------------------------
(* The list and the connections, when no packet of a welcome fails.        *)
SeatsOK ==
    /\ ListedConnected
    /\ \A l \in Lobby : task[l].step = "joined" => task[l].who \in list[l]
    /\ \A l \in Lobby : task[l].step \in {"looked", "passed"} =>
          task[l].who \notin list[l]
    /\ \A l \in Lobby : task[l].step = "idle" => task[l].who = NoConn

LEMMA SeatsStep ==
    ASSUME ~Faults, TypeOK, WorkersOK, SeatsOK, [Next]_vars
    PROVE  SeatsOK'
<1> USE SessionsAssumption DEF TypeOK, SeatsOK, ListedConnected, Busy, Idle, Finish, Goto
<1>1. ASSUME NEW l \in Lobby, NEW c \in Conn, Connect(c, l) PROVE SeatsOK'
  BY <1>1 DEF Connect, WorkersOK
<1>2. ASSUME NEW l \in Lobby, NEW c \in Conn, Lookup(c, l) PROVE SeatsOK'
  <2>1. c \notin verified /\ \A d \in list[l] : d \in verified
    BY <1>2 DEF Lookup, WorkersOK
  <2>2. /\ task' = [task EXCEPT ![l] =
                      [step |-> "looked", who |-> c, seen |-> FineOf(c)]]
        /\ UNCHANGED <<at, verified, list>>
    BY <1>2 DEF Lookup
  <2>3. QED
    BY <2>1, <2>2
<1>3. ASSUME NEW l \in Lobby, NEW c \in Conn, Gone(c, l) PROVE SeatsOK'
  <2>0. \A d \in list[l] : d \in verified
    BY <1>3 DEF Gone
  <2>1. CASE c \in verified
    <3>1. /\ task' = [task EXCEPT ![l] =
                        [step |-> "left", who |-> c, seen |-> "none"]]
          /\ UNCHANGED <<at, verified, list>>
      BY <1>3, <2>1 DEF Gone, connVars
    <3>2. QED
      BY <2>0, <3>1
  <2>2. CASE c \notin verified
    <3>1. \A m \in Lobby : c \notin list[m]
      BY <1>3, <2>2 DEF Gone
    <3>2. /\ at' = [at EXCEPT ![c] = Nowhere] /\ verified' = verified \ {c}
          /\ UNCHANGED <<task, list>>
      BY <1>3, <2>2 DEF Gone, Free
    <3>3. \A m \in Lobby : task[m].step = "joined" => task[m].who # c
      BY <3>1
    <3>4. QED
      BY <2>2, <3>1, <3>2, <3>3
  <2>3. QED
    BY <2>1, <2>2
<1>4. ASSUME NEW l \in Lobby, Redirect(l) \/ Reject(l) \/ Deny(l) \/ RevokeFails(l)
      PROVE  SeatsOK'
  <2>1. /\ task[l].step \in {"looked", "passed"} /\ task' = [task EXCEPT ![l] = Idle]
        /\ UNCHANGED <<at, verified, list>>
    BY <1>4 DEF Redirect, Reject, Deny, RevokeFails, connVars
  <2>2. \A c \in list[l] : c \in verified
    BY <2>1
  <2>3. QED
    BY <2>1, <2>2
<1>5. ASSUME NEW l \in Lobby, PassInUse(l) PROVE SeatsOK'
  BY <1>5 DEF PassInUse, connVars
<1>6. ASSUME NEW l \in Lobby, Admit(l) PROVE SeatsOK'
  <2>1. /\ task[l].step = "passed" /\ Goto(l, "joined")
        /\ list' = [list EXCEPT ![l] = @ \cup {task[l].who}]
        /\ UNCHANGED <<at, verified>>
    BY <1>6 DEF Admit
  <2>2. at[task[l].who] = l
    BY <2>1 DEF WorkersOK, Welcoming
  <2>3. QED
    BY <2>1, <2>2
<1>7. ASSUME NEW l \in Lobby, Register(l) PROVE SeatsOK'
  <2>1. /\ task[l].step = "joined" /\ task' = [task EXCEPT ![l] = Idle]
        /\ verified' = verified \cup {task[l].who}
        /\ UNCHANGED <<at, list>>
    BY <1>7 DEF Register
  <2>2. at[task[l].who] = l /\ task[l].who \in list[l]
    BY <2>1 DEF WorkersOK, Welcoming
  <2>3. QED
    BY <2>1, <2>2
<1>8. ASSUME NEW l \in Lobby, Erase(l) PROVE SeatsOK'
  BY <1>8 DEF Erase, connVars
<1>9. ASSUME NEW l \in Lobby, Unlist(l) PROVE SeatsOK'
  <2>1. /\ task[l].step = "erased" /\ at[task[l].who] = l
        /\ task[l].who \in verified
    BY <1>9 DEF Unlist, WorkersOK, Parting
  <2>2. \A m \in Lobby : m # l => task[l].who \notin list[m]
    BY <2>1
  <2>3. \A m \in Lobby : task[m].step = "joined" => task[m].who # task[l].who
    BY <2>1 DEF WorkersOK, Welcoming
  <2>4. QED
    BY <1>9, <2>1, <2>2, <2>3 DEF Unlist, Free
<1>10. ASSUME Host PROVE SeatsOK'
  BY <1>10 DEF Host, Kick, MakeOp, RevokeOp, Expire, connVars
<1>11. CASE UNCHANGED vars
  BY <1>11 DEF vars, connVars
<1>12. QED
  BY <1>1, <1>2, <1>3, <1>4, <1>5, <1>6, <1>7, <1>8, <1>9, <1>10, <1>11
     DEF Next, Worker

----------------------------------------------------------------------------
(* Room for whoever is about to take a seat: his place on the list was     *)
(* taken when there was some, and every player has one of his own.         *)
RoomOK ==
    /\ \A l \in Lobby : Cardinality(list[l]) <= Cap
    /\ \A l \in Lobby : task[l].step = "passed" => Cardinality(list[l]) < Cap
    /\ \A l \in Lobby : task[l].step = "joined" => task[l].who \in list[l]
    /\ \A c \in verified : c \in list[at[c]]

LEMMA ListFinite ==
    ASSUME TypeOK, NEW l \in Lobby
    PROVE  list[l] \in SUBSET Conn /\ IsFiniteSet(list[l]) /\ Cardinality(list[l]) \in Nat
  BY SessionsAssumption, FS_Subset, FS_CardinalityType DEF TypeOK

LEMMA RoomStep ==
    ASSUME TypeOK, WorkersOK, RoomOK, [Next]_vars
    PROVE  RoomOK'
<1> USE SessionsAssumption DEF TypeOK, RoomOK, Busy, Idle, Finish, Goto
<1>1. ASSUME UNCHANGED list, verified' \subseteq verified,
             \A c \in verified' : at'[c] = at[c],
             \A m \in Lobby : task'[m].step \in {"passed", "joined"} =>
                task'[m].step = task[m].step /\ task'[m].who = task[m].who
      PROVE  RoomOK'
  BY <1>1
<1>2. ASSUME NEW l \in Lobby, NEW c \in Conn, Connect(c, l) PROVE RoomOK'
  BY <1>1, <1>2 DEF Connect, WorkersOK
<1>3. ASSUME NEW l \in Lobby, NEW c \in Conn, Lookup(c, l) PROVE RoomOK'
  BY <1>1, <1>3 DEF Lookup
<1>4. ASSUME NEW l \in Lobby, NEW c \in Conn, Gone(c, l) PROVE RoomOK'
  BY <1>1, <1>4 DEF Gone, Free, connVars
<1>5. ASSUME NEW l \in Lobby, Redirect(l) \/ Reject(l) \/ Deny(l) \/ RevokeFails(l)
      PROVE  RoomOK'
  BY <1>1, <1>5 DEF Redirect, Reject, Deny, RevokeFails, connVars
<1>6. ASSUME NEW l \in Lobby, PassInUse(l) PROVE RoomOK'
  BY <1>6 DEF PassInUse, connVars
<1>7. ASSUME NEW l \in Lobby, Admit(l) PROVE RoomOK'
  <2>1. /\ task[l].step = "passed" /\ task[l].who \in Conn
        /\ list' = [list EXCEPT ![l] = @ \cup {task[l].who}]
        /\ UNCHANGED <<at, verified>>
        /\ Goto(l, "joined") \/ Finish(l)
    BY <1>7 DEF Admit
  <2>2. /\ Cardinality(list[l]) < Cap /\ Cardinality(list[l]) \in Nat
        /\ Cardinality(list[l] \cup {task[l].who}) \in
              {Cardinality(list[l]), Cardinality(list[l]) + 1}
    BY <2>1, ListFinite, FS_AddElement
  <2>3. /\ list'[l] = list[l] \cup {task[l].who}
        /\ \A m \in Lobby : m # l => list'[m] = list[m]
        /\ \A m \in Lobby : m # l => task'[m] = task[m]
        /\ task'[l].step \in {"joined", "idle"}
        /\ task'[l].step = "joined" => task'[l].who = task[l].who
    BY <2>1
  <2>4. \A c \in verified' : c \in list'[at'[c]]
    BY <2>1, <2>3 DEF WorkersOK
  <2>5. Cardinality(list'[l]) <= Cap
    BY <2>2, <2>3
  <2>6. QED
    BY <2>3, <2>4, <2>5
<1>8. ASSUME NEW l \in Lobby, Register(l) PROVE RoomOK'
  <2>1. /\ task[l].step = "joined" /\ task' = [task EXCEPT ![l] = Idle]
        /\ verified' \in {verified, verified \cup {task[l].who}}
        /\ UNCHANGED <<at, list>>
    BY <1>8 DEF Register
  <2>2. at[task[l].who] = l /\ task[l].who \in list[l]
    BY <2>1 DEF WorkersOK, Welcoming
  <2>3. QED
    BY <2>1, <2>2
<1>9. ASSUME NEW l \in Lobby, Erase(l) PROVE RoomOK'
  BY <1>1, <1>9 DEF Erase, connVars
<1>10. ASSUME NEW l \in Lobby, Unlist(l) PROVE RoomOK'
  <2>1. /\ task[l].step = "erased" /\ task' = [task EXCEPT ![l] = Idle]
        /\ list' = [list EXCEPT ![l] = @ \ {task[l].who}]
        /\ at' = [at EXCEPT ![task[l].who] = Nowhere]
        /\ verified' = verified \ {task[l].who}
    BY <1>10 DEF Unlist, Free
  <2>2. Cardinality(list[l] \ {task[l].who}) <= Cardinality(list[l])
        /\ Cardinality(list[l] \ {task[l].who}) \in Nat
    BY ListFinite, FS_Subset, FS_CardinalityType
  <2>3. /\ list'[l] = list[l] \ {task[l].who} /\ task'[l].step = "idle"
        /\ \A m \in Lobby : m # l => list'[m] = list[m] /\ task'[m] = task[m]
    BY <2>1
  <2>4. at[task[l].who] = l
    BY <2>1 DEF WorkersOK, Parting
  <2>5. \A m \in Lobby : task'[m].step = "joined" => task'[m].who \in list'[m]
    BY <2>3
  <2>6. \A c \in verified' : c \in list'[at'[c]]
    BY <2>1, <2>3 DEF WorkersOK
  <2>7. ASSUME NEW m \in Lobby
        PROVE  /\ Cardinality(list'[m]) <= Cap
               /\ task'[m].step = "passed" => Cardinality(list'[m]) < Cap
    <3>1. CASE m = l
      <4>1. Cardinality(list[l]) <= Cap /\ Cardinality(list[l]) \in Nat
        BY ListFinite
      <4>2. list'[m] = list[l] \ {task[l].who} /\ task'[m].step = "idle"
        BY <2>3, <3>1
      <4>3. Cardinality(list'[m]) \in Nat /\ Cardinality(list'[m]) <= Cardinality(list[l])
        BY ONLY <2>2, <4>2
      <4>4. Cardinality(list'[m]) <= Cap
        BY ONLY <4>1, <4>3, SessionsAssumption DEF SessionsAssumption
      <4>5. QED
        BY ONLY <4>2, <4>4
    <3>2. CASE m # l
      BY <2>3, <3>2
    <3>3. QED
      BY <3>1, <3>2
  <2>8. QED
    BY <2>5, <2>6, <2>7
<1>11. ASSUME Host PROVE RoomOK'
  BY <1>1, <1>11 DEF Host, Kick, MakeOp, RevokeOp, Expire, connVars
<1>12. CASE UNCHANGED vars
  BY <1>1, <1>12 DEF vars, connVars
<1>13. QED
  BY <1>2, <1>3, <1>4, <1>5, <1>6, <1>7, <1>8, <1>9, <1>10, <1>11, <1>12
     DEF Next, Worker

----------------------------------------------------------------------------
LEMMA InvInit == Init => Inv /\ SeatsOK
<1> SUFFICES ASSUME Init PROVE Inv /\ SeatsOK
  OBVIOUS
<1> USE SessionsAssumption DEF Init, Idle, Busy
<1>1. TypeOK
  BY DEF TypeOK, Steps, Fines
<1>2. WorkersOK /\ CheckHolds /\ SoleInLobby /\ SeatsOK
  BY DEF WorkersOK, Welcoming, Parting, CheckHolds, SoleInLobby, SeatsOK, ListedConnected
<1>3. BookBalances
  <2>1. ASSUME NEW k \in Key PROVE {c \in Booked : k \in Keys(c)} = {}
    BY DEF Booked
  <2>2. QED
    BY <2>1, FS_EmptySet DEF BookBalances
<1>4. QED
  BY <1>1, <1>2, <1>3 DEF Inv

LEMMA InvStep == Inv /\ [Next]_vars => Inv'
  BY TypeStep, WorkersStep, BookStep, CheckStep, SoleStep DEF Inv

(* The types.                                                              *)
THEOREM SessionTypes == Spec => []TypeOK
<1>1. Inv => TypeOK
  BY DEF Inv
<1>2. QED
  BY InvInit, InvStep, <1>1, PTL DEF Spec

(* The list of addresses counts the players: nobody's address is barred    *)
(* when he has gone, nobody's entry goes with another, although several    *)
(* workers check, enter and erase in several critical sections; and even   *)
(* if welcomes fail halfway.                                               *)
THEOREM AddressesCounted == Spec => []BookBalances
<1>1. Inv => BookBalances
  BY DEF Inv
<1>2. QED
  BY InvInit, InvStep, <1>1, PTL DEF Spec

(* In one lobby an address or a device is used once, operators aside.      *)
THEOREM OncePerLobby == Spec => []SoleInLobby
<1>1. Inv => SoleInLobby
  BY DEF Inv
<1>2. QED
  BY InvInit, InvStep, <1>1, PTL DEF Spec

(* A lobby's list holds its connected players, as long as no packet of a   *)
(* welcome fails to be sent.                                               *)
THEOREM ListIsLive == ~Faults => (Spec => []ListedConnected)
<1> SUFFICES ASSUME ~Faults PROVE Spec => []ListedConnected
  OBVIOUS
<1> DEFINE I == Inv /\ SeatsOK
<1>1. Init => I
  BY InvInit
<1>2. I /\ [Next]_vars => I'
  BY InvStep, SeatsStep DEF Inv
<1>3. I => ListedConnected
  BY DEF SeatsOK
<1>4. QED
  BY <1>1, <1>2, <1>3, PTL DEF Spec

----------------------------------------------------------------------------
(* The refinement: seats are taken by Enters and left by Erases; all other *)
(* steps are unseen, but for the operators'.                               *)
seatOf == [c \in Conn |-> IF c \in Booked THEN at[c] ELSE Nowhere]
chiefs == op \cap Booked

LEMMA BookedAt ==
    ASSUME TypeOK, WorkersOK
    PROVE  /\ Booked \subseteq verified /\ verified \subseteq Conn
           /\ \A c \in Booked : at[c] \in Lobby
  BY DEF TypeOK, WorkersOK, Booked

LEMMA PlayersListed ==
    ASSUME TypeOK, WorkersOK, RoomOK, NEW l \in Lobby
    PROVE  Promise!Players(l) = {c \in Booked : at[c] = l}
           /\ Promise!Players(l) \subseteq list[l]
<1>1. Promise!Players(l) = {c \in Booked : at[c] = l}
  BY BookedAt, SessionsAssumption DEF Promise!Players
<1>2. QED
  BY <1>1, BookedAt DEF RoomOK

LEMMA Unseen ==
    ASSUME UNCHANGED <<book, Booked>>, op' \cap Booked = op \cap Booked,
           \A c \in Booked : at'[c] = at[c]
    PROVE  UNCHANGED Promise!vars
<1>1. [c \in Conn |-> IF c \in Booked' THEN at'[c] ELSE Nowhere]
      = [c \in Conn |-> IF c \in Booked THEN at[c] ELSE Nowhere]
  OBVIOUS
<1>2. op' \cap Booked' = op \cap Booked
  OBVIOUS
<1>3. QED
  BY <1>1, <1>2 DEF Promise!vars

(* Admission counts as Sessions does.                                      *)
LEMMA SameCount == \A S : Promise!Cardinality(S) = Cardinality(S)
  BY DEF Promise!Cardinality, Cardinality

LEMMA EntersSeats ==
    ASSUME Inv, RoomOK, NEW l \in Lobby, Enters(l), NEW c, c = task[l].who
    PROVE  c \in Conn /\ Promise!Enter(c, l)
<1>1. TypeOK /\ WorkersOK /\ CheckHolds
  BY DEF Inv
<1>2. /\ task[l].step = "joined" /\ c \in Conn /\ at[c] = l
      /\ c \notin Booked /\ c \notin verified /\ Booked' = Booked \cup {c}
      /\ UNCHANGED <<at, op>>
      /\ book' = [k \in Key |-> IF k \in Keys(c) THEN book[k] + 1 ELSE book[k]]
  BY <1>1, BookedEnters DEF Enters, WorkersOK, Welcoming
<1>3. Promise!Players(l) = {d \in Booked : at[d] = l}
      /\ Promise!Players(l) \subseteq list[l]
  BY <1>1, PlayersListed
<1>4. Cardinality(Promise!Players(l)) < Cap
  <2>1. c \in list[l] /\ c \notin Promise!Players(l)
    BY <1>2, <1>3 DEF RoomOK
  <2>2. /\ IsFiniteSet(list[l]) /\ Cardinality(list[l]) \in Nat
        /\ Cardinality(list[l]) <= Cap
    BY <1>1, ListFinite DEF RoomOK
  <2>3. Promise!Players(l) \subseteq list[l] \ {c}
    BY <1>3, <2>1
  <2>4. Cardinality(list[l] \ {c}) = Cardinality(list[l]) - 1
        /\ IsFiniteSet(list[l] \ {c})
    BY <2>1, <2>2, FS_RemoveElement
  <2>5. Cardinality(Promise!Players(l)) <= Cardinality(list[l] \ {c})
        /\ Cardinality(Promise!Players(l)) \in Nat
    BY <2>3, <2>4, FS_Subset, FS_CardinalityType
  <2>6. QED
    BY <2>2, <2>4, <2>5, SessionsAssumption
<1>5. (op' \cap Booked') \in {op \cap Booked, (op \cap Booked) \cup {c}}
  BY <1>2
<1>6. c \notin op' \cap Booked' =>
         \A d \in Promise!Players(l) : Promise!Keys(c) \cap Promise!Keys(d) = {}
  <2> SUFFICES ASSUME c \notin op, NEW d \in Promise!Players(l)
               PROVE  Keys(c) \cap Keys(d) = {}
    BY <1>2 DEF Promise!Keys, Keys
  <2>1. d \in verified /\ at[d] = l
    BY <1>1, <1>3, BookedAt
  <2>2. QED
    BY <1>1, <1>2, <2>1 DEF CheckHolds
<1>7. seatOf' = [seatOf EXCEPT ![c] = l] /\ seatOf[c] = Nowhere
  BY <1>2 DEF seatOf
<1>8. book' = [k \in Key |-> IF k \in Promise!Keys(c) THEN book[k] + 1 ELSE book[k]]
  BY <1>2 DEF Promise!Keys, Keys
<1>9. Promise!Enter(c, l)
  <2>1. /\ seatOf[c] = Nowhere /\ seatOf' = [seatOf EXCEPT ![c] = l]
        /\ Cardinality(Promise!Players(l)) < Cap
        /\ (op' \cap Booked') \in {op \cap Booked, (op \cap Booked) \cup {c}}
        /\ c \notin op' \cap Booked' =>
             \A d \in Promise!Players(l) : Promise!Keys(c) \cap Promise!Keys(d) = {}
        /\ book' = [k \in Key |-> IF k \in Promise!Keys(c) THEN book[k] + 1
                                                        ELSE book[k]]
    BY <1>4, <1>5, <1>6, <1>7, <1>8
  <2>2. QED
    BY ONLY <2>1, SameCount DEF Promise!Enter, seatOf
<1>10. QED
  BY <1>2, <1>9

LEMMA ErasesSeats ==
    ASSUME Inv, NEW l \in Lobby, Erases(l), NEW c, c = task[l].who
    PROVE  c \in Conn /\ Promise!Leave(c)
<1>1. TypeOK /\ WorkersOK /\ BookBalances
  BY DEF Inv
<1>2. /\ c \in Conn /\ c \in Booked /\ Booked' = Booked \ {c}
      /\ UNCHANGED <<at, op>>
      /\ book' = [k \in Key |-> IF k \in Keys(c) /\ book[k] > 0
                                THEN book[k] - 1 ELSE book[k]]
  BY <1>1, BookedErases, BookedAt DEF Erases
<1>3. ASSUME NEW k \in Key, k \in Keys(c)
      PROVE  book[k] > 0
  <2>1. book[k] = Cardinality(Holders(Booked, k)) /\ Booked \in SUBSET Conn
    BY <1>1, BookedAt DEF BookBalances, Holders
  <2>2. QED
    BY <1>2, <1>3, <2>1, HoldersStep
<1>4. book' = [k \in Key |-> IF k \in Keys(c) THEN book[k] - 1 ELSE book[k]]
  BY <1>2, <1>3
<1>5. seatOf' = [seatOf EXCEPT ![c] = Nowhere] /\ seatOf[c] \in Lobby
  BY <1>1, <1>2, BookedAt DEF seatOf
<1>6. op' \cap Booked' = (op \cap Booked) \ {c}
  BY <1>2
<1>7. QED
  BY <1>2, <1>4, <1>5, <1>6 DEF Promise!Leave, Promise!Keys, Keys, seatOf

LEMMA PromiseStep ==
    ASSUME Inv, RoomOK, [Next]_vars
    PROVE  [Promise!Next]_Promise!vars
<1>1. TypeOK /\ WorkersOK
  BY DEF Inv
<1>2. Booked \subseteq verified /\ verified \subseteq Conn
  BY <1>1, BookedAt
<1>3. ASSUME NEW l \in Lobby, Enters(l) PROVE Promise!Next
  <2>1. PICK c : c = task[l].who
    OBVIOUS
  <2>2. c \in Conn /\ Promise!Enter(c, l)
    BY <1>3, <2>1, EntersSeats
  <2>3. QED
    BY <2>2 DEF Promise!Next
<1>4. ASSUME NEW l \in Lobby, Erases(l) PROVE Promise!Next
  <2>1. PICK c : c = task[l].who
    OBVIOUS
  <2>2. c \in Conn /\ Promise!Leave(c)
    BY <1>4, <2>1, ErasesSeats
  <2>3. QED
    BY <2>2 DEF Promise!Next
<1>5. ASSUME NEW l \in Lobby, Advances(l) \/ GivesUp(l)
      PROVE  UNCHANGED Promise!vars
  <2>1. UNCHANGED <<book, Booked>>
    BY <1>1, <1>5, BookedKept
  <2>2. op' = op /\ at' = at
    BY <1>5 DEF Advances, GivesUp, Same
  <2>3. QED
    BY <2>1, <2>2, Unseen
<1>6. ASSUME NEW c \in Conn, NEW l \in Lobby,
             Begins(c, l) \/ Parts(c, l) \/ Frees(c, l) \/ Arrives(c, l)
      PROVE  UNCHANGED Promise!vars
  <2>1. UNCHANGED <<book, Booked>>
    BY <1>1, <1>6, BookedKept
  <2>2. CASE Begins(c, l)
    <3>1. c \notin Booked /\ at' = at /\ op' \in {op \cup {c}, op \ {c}}
      BY <1>1, <1>2, <2>2 DEF Begins, Same, WorkersOK
    <3>2. QED
      BY <2>1, <3>1, Unseen
  <2>3. CASE Parts(c, l)
    BY <2>1, <2>3, Unseen DEF Parts, Same
  <2>4. CASE Frees(c, l)
    <3>1. c \notin Booked'
      BY <2>4 DEF Frees, Booked
    <3>2. /\ at' = [at EXCEPT ![c] = Nowhere] /\ op' = op \ {c}
          /\ at \in [Conn -> Lobby \cup {Nowhere}]
      BY <1>1, <2>4 DEF Frees, TypeOK
    <3>3. QED
      BY <1>2, <2>1, <3>1, <3>2, Unseen
  <2>5. CASE Arrives(c, l)
    <3>1. c \notin Booked
      BY <1>1, <1>2, <2>5, SessionsAssumption DEF Arrives, WorkersOK
    <3>2. /\ at' = [at EXCEPT ![c] = l] /\ op' = op
          /\ at \in [Conn -> Lobby \cup {Nowhere}]
      BY <1>1, <2>5 DEF Arrives, TypeOK
    <3>3. QED
      BY <1>2, <2>1, <3>1, <3>2, Unseen
  <2>6. QED
    BY <1>6, <2>2, <2>3, <2>4, <2>5
<1>7. ASSUME Elsewhere PROVE [Promise!Next]_Promise!vars
  <2>1. UNCHANGED <<book, Booked>> /\ at' = at
    BY <1>1, <1>7, BookedKept DEF Elsewhere, Same
  <2>2. CASE op' = op
    BY <2>1, <2>2, Unseen
  <2>3. ASSUME NEW c \in Conn, op' = op \cup {c}, c \notin Booked
        PROVE  UNCHANGED Promise!vars
    BY <2>1, <2>3, Unseen
  <2>4. ASSUME NEW c \in Conn, op' = op \cup {c}, c \in Booked
        PROVE  Promise!Next
    <3>1. seatOf[c] \in Lobby /\ seatOf' = seatOf
      BY <1>1, <2>1, <2>4, BookedAt DEF seatOf
    <3>2. op' \cap Booked' = (op \cap Booked) \cup {c}
      BY <2>1, <2>4
    <3>3. Promise!Promote(c)
      BY <2>1, <3>1, <3>2 DEF Promise!Promote, seatOf
    <3>4. QED
      BY <3>3 DEF Promise!Next
  <2>5. QED
    BY <1>7, <2>2, <2>3, <2>4 DEF Elsewhere
<1>8. QED
  BY <1>1, Kinds, <1>3, <1>4, <1>5, <1>6, <1>7

LEMMA RoomInit == Init => RoomOK
<1> SUFFICES ASSUME Init PROVE RoomOK
  OBVIOUS
<1>1. Cardinality({}) = 0
  BY FS_EmptySet
<1>2. QED
  BY <1>1, SessionsAssumption DEF Init, RoomOK, Idle

LEMMA PromiseInit == Init => Promise!Init
<1> SUFFICES ASSUME Init PROVE Promise!Init
  OBVIOUS
<1>1. Booked = {}
  BY DEF Init, Booked
<1>2. QED
  BY <1>1 DEF Init, Promise!Init

(* The list never holds more than the lobby has room for, although the     *)
(* room is looked up before the lobby's other checks and used after them.  *)
THEOREM ListHasRoom == Spec => []RoomOK
<1>1. Inv /\ RoomOK /\ [Next]_vars => (Inv /\ RoomOK)'
  BY InvStep, RoomStep DEF Inv
<1>2. Init => Inv /\ RoomOK
  BY InvInit, RoomInit
<1>3. QED
  BY <1>1, <1>2, PTL DEF Spec

(* Admissions and departures of all lobbies act as single steps: a seat is *)
(* taken together with its entries in the list of addresses, in a lobby    *)
(* with room in which the address and the device do not play already, and  *)
(* it is left together with them; whether or not packets of welcomes fail. *)
THEOREM AdmissionIsAtomic == Spec => KeepsPromise
<1>1. Inv /\ RoomOK /\ [Next]_vars => (Inv /\ RoomOK)'
  BY InvStep, RoomStep DEF Inv
<1>2. Init => Inv /\ RoomOK /\ Promise!Init
  BY InvInit, RoomInit, PromiseInit
<1>3. Inv /\ RoomOK /\ [Next]_vars => [Promise!Next]_Promise!vars
  BY PromiseStep
<1>4. QED
  BY <1>1, <1>2, <1>3, PTL DEF Spec, KeepsPromise, Promise!Spec
=============================================================================
