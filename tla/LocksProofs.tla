---------------------------- MODULE LocksProofs ----------------------------
(***************************************************************************)
(* For any number of lobbies, the threads that wait for one another for    *)
(* good need one among them that answers a chat command which takes the    *)
(* locks of lobbies under its own.                                         *)
(*                                                                         *)
(* All other scripts take mutexes in one order: the console's, a lobby's,  *)
(* the accounts', the rest.  That a thread only takes what is above all it *)
(* holds is a fact about what is left of its script, which every step      *)
(* keeps, as dropping the head of a script leaves the order of its rest.   *)
(***************************************************************************)
EXTENDS Locks, SequenceTheorems, TLAPS

(* The order.                                                              *)
Rank(m) == CASE m[1] = "exec" -> 0
             [] m[1] = "state" -> 1
             [] m[1] = "known" -> 2
             [] OTHER -> 3

Mutex == {"exec", "state", "known", "store"} \X (0..Lobbies)
Steps == [op : {"take", "drop", "pass"}, mutex : Mutex]

TakesAt(s, i) == s[i].op = "take"
DropsAt(s, i) == s[i].op = "drop"

(* What a thread holds that has s to go: what s drops and does not take.   *)
Open(s) ==
    {m \in Mutex : /\ \E i \in 1..Len(s) : DropsAt(s, i) /\ s[i].mutex = m
                   /\ \A i \in 1..Len(s) : TakesAt(s, i) => s[i].mutex # m}

(* A mutex is taken once at most, and dropped once, afterwards.            *)
Once(s) ==
    \A i, j \in 1..Len(s) :
        s[i].mutex = s[j].mutex =>
            /\ TakesAt(s, i) /\ TakesAt(s, j) => i = j
            /\ DropsAt(s, i) /\ DropsAt(s, j) => i = j
            /\ TakesAt(s, i) /\ DropsAt(s, j) => i < j

(* What is held when the i-th step takes or passes a mutex, that is, what  *)
(* is dropped after it and not taken from it on, ranks below the mutex.    *)
Ordered(s) ==
    \A i, j \in 1..Len(s) :
        /\ i < j /\ ~DropsAt(s, i) /\ DropsAt(s, j)
        /\ \A k \in i..Len(s) : TakesAt(s, k) => s[k].mutex # s[j].mutex
        => Rank(s[j].mutex) < Rank(s[i].mutex)

(* Every take is followed by its drop.                                     *)
Closing(s) ==
    \A i \in 1..Len(s) : TakesAt(s, i) =>
        \E j \in 1..Len(s) : DropsAt(s, j) /\ s[j].mutex = s[i].mutex

Neat(s) == s \in Seq(Steps) /\ Once(s) /\ Closing(s)

----------------------------------------------------------------------------
(* What a step does to the rest of a script.                               *)
LEMMA TailAt ==
    ASSUME NEW s \in Seq(Steps), s # << >>
    PROVE  /\ Tail(s) \in Seq(Steps) /\ Len(s) \in Nat \ {0}
           /\ Len(Tail(s)) = Len(s) - 1
           /\ \A i \in 1..(Len(s) - 1) : Tail(s)[i] = s[i + 1]
           /\ Head(s) = s[1] /\ \A i \in 1..Len(s) : s[i] \in Steps
  BY HeadTailProperties, ElementOfSeq, EmptySeq

LEMMA MutexAt ==
    ASSUME NEW s \in Seq(Steps), NEW i \in 1..Len(s)
    PROVE  s[i].mutex \in Mutex
<1>1. s[i] \in Steps
  BY ElementOfSeq
<1>2. QED
  BY <1>1 DEF Steps

LEMMA TailNeat ==
    ASSUME NEW s \in Seq(Steps), s # << >>, Neat(s)
    PROVE  Neat(Tail(s))
<1>1. Once(Tail(s))
  <2> SUFFICES ASSUME NEW i \in 1..(Len(s) - 1), NEW j \in 1..(Len(s) - 1),
                      Tail(s)[i].mutex = Tail(s)[j].mutex
               PROVE  /\ TakesAt(Tail(s), i) /\ TakesAt(Tail(s), j) => i = j
                      /\ DropsAt(Tail(s), i) /\ DropsAt(Tail(s), j) => i = j
                      /\ TakesAt(Tail(s), i) /\ DropsAt(Tail(s), j) => i < j
    BY TailAt DEF Once
  <2>1. i + 1 \in 1..Len(s) /\ j + 1 \in 1..Len(s)
    BY TailAt
  <2>2. Tail(s)[i] = s[i + 1] /\ Tail(s)[j] = s[j + 1]
    BY TailAt
  <2>3. QED
    BY <2>1, <2>2 DEF Neat, Once, TakesAt, DropsAt
<1>2. Closing(Tail(s))
  <2> SUFFICES ASSUME NEW i \in 1..(Len(s) - 1), TakesAt(Tail(s), i)
               PROVE  \E j \in 1..(Len(s) - 1) :
                         DropsAt(Tail(s), j) /\ Tail(s)[j].mutex = Tail(s)[i].mutex
    BY TailAt DEF Closing
  <2>1. i + 1 \in 1..Len(s) /\ TakesAt(s, i + 1) /\ Tail(s)[i] = s[i + 1]
    BY TailAt DEF TakesAt
  <2>2. PICK j \in 1..Len(s) : DropsAt(s, j) /\ s[j].mutex = s[i + 1].mutex
    BY <2>1 DEF Neat, Closing
  <2>3. i + 1 < j
    BY <2>1, <2>2 DEF Neat, Once
  <2>4. j - 1 \in 1..(Len(s) - 1) /\ Tail(s)[j - 1] = s[j]
    BY <2>3, TailAt
  <2>5. QED
    BY <2>1, <2>2, <2>4 DEF DropsAt
<1>3. QED
  BY <1>1, <1>2, TailAt DEF Neat

LEMMA TailOrdered ==
    ASSUME NEW s \in Seq(Steps), s # << >>, Ordered(s)
    PROVE  Ordered(Tail(s))
<1> SUFFICES ASSUME NEW i \in 1..(Len(s) - 1), NEW j \in 1..(Len(s) - 1),
                    i < j, ~DropsAt(Tail(s), i), DropsAt(Tail(s), j),
                    \A k \in i..(Len(s) - 1) :
                       TakesAt(Tail(s), k) => Tail(s)[k].mutex # Tail(s)[j].mutex
             PROVE  Rank(Tail(s)[j].mutex) < Rank(Tail(s)[i].mutex)
  BY TailAt DEF Ordered
<1>1. i + 1 \in 1..Len(s) /\ j + 1 \in 1..Len(s) /\ i + 1 < j + 1
  BY TailAt
<1>2. Tail(s)[i] = s[i + 1] /\ Tail(s)[j] = s[j + 1]
  BY TailAt
<1>3. ASSUME NEW k \in (i + 1)..Len(s), TakesAt(s, k)
      PROVE  s[k].mutex # s[j + 1].mutex
  <2>1. k - 1 \in i..(Len(s) - 1) /\ k - 1 \in 1..(Len(s) - 1) /\ (k - 1) + 1 = k
    BY TailAt
  <2>2. Tail(s)[k - 1] = s[k]
    BY <2>1, TailAt
  <2>3. QED
    BY <1>2, <1>3, <2>1, <2>2 DEF TakesAt
<1>4. QED
  BY <1>1, <1>2, <1>3 DEF Ordered, DropsAt

(* What is held once the head of the script is done.                       *)
LEMMA OpenTail ==
    ASSUME NEW s \in Seq(Steps), s # << >>, Neat(s)
    PROVE  /\ Head(s).op = "take" => Open(Tail(s)) = Open(s) \cup {Head(s).mutex}
           /\ Head(s).op = "drop" => Open(Tail(s)) = Open(s) \ {Head(s).mutex}
           /\ Head(s).op = "pass" => Open(Tail(s)) = Open(s)
<1> DEFINE Dropped(q, m) == \E i \in 1..Len(q) : DropsAt(q, i) /\ q[i].mutex = m
           Taken(q, m) == \E i \in 1..Len(q) : TakesAt(q, i) /\ q[i].mutex = m
<1>1. \A q, m : m \in Open(q) <=> m \in Mutex /\ Dropped(q, m) /\ ~Taken(q, m)
  BY DEF Open
<1>2. ASSUME NEW m
      PROVE  /\ Dropped(s, m) <=> \/ Dropped(Tail(s), m)
                                  \/ DropsAt(s, 1) /\ s[1].mutex = m
             /\ Taken(s, m) <=> \/ Taken(Tail(s), m)
                                \/ TakesAt(s, 1) /\ s[1].mutex = m
  <2>1. ASSUME NEW i \in 1..Len(s)
        PROVE  i = 1 \/ (i - 1 \in 1..Len(Tail(s)) /\ Tail(s)[i - 1] = s[i])
    BY TailAt
  <2>2. ASSUME NEW i \in 1..Len(Tail(s))
        PROVE  i + 1 \in 1..Len(s) /\ Tail(s)[i] = s[i + 1]
    BY TailAt
  <2>3. 1 \in 1..Len(s)
    BY TailAt
  <2>4. Dropped(s, m) <=> Dropped(Tail(s), m) \/ (DropsAt(s, 1) /\ s[1].mutex = m)
    BY <2>1, <2>2, <2>3 DEF DropsAt
  <2>5. Taken(s, m) <=> Taken(Tail(s), m) \/ (TakesAt(s, 1) /\ s[1].mutex = m)
    BY <2>1, <2>2, <2>3 DEF TakesAt
  <2>6. QED
    BY <2>4, <2>5
<1>3. s[1] = Head(s) /\ s[1].mutex \in Mutex /\ 1 \in 1..Len(s)
  <2>1. s[1] = Head(s) /\ s[1] \in Steps /\ 1 \in 1..Len(s)
    BY TailAt
  <2>2. QED
    BY <2>1 DEF Steps
<1>4. Neat(Tail(s)) /\ Len(Tail(s)) = Len(s) - 1
  BY TailNeat, TailAt
<1> HIDE DEF Dropped, Taken
<1>5. CASE Head(s).op = "take"
  <2>1. Dropped(s, s[1].mutex) /\ Taken(s, s[1].mutex)
    BY <1>3, <1>5 DEF Neat, Closing, TakesAt, Dropped, Taken
  <2>2. ~Taken(Tail(s), s[1].mutex)
    <3> SUFFICES ASSUME NEW i \in 1..(Len(s) - 1), TakesAt(Tail(s), i),
                        Tail(s)[i].mutex = s[1].mutex
                 PROVE  FALSE
      BY <1>4 DEF Taken
    <3>1. i + 1 \in 1..Len(s) /\ Tail(s)[i] = s[i + 1] /\ i + 1 # 1
      BY TailAt
    <3>2. QED
      BY <1>3, <1>5, <3>1 DEF Neat, Once, TakesAt
  <2>3. \A m : m \in Open(Tail(s)) <=> m \in Open(s) \cup {Head(s).mutex}
    BY <1>1, <1>2, <1>3, <1>5, <2>1, <2>2 DEF TakesAt, DropsAt
  <2>4. QED
    BY <1>5, <2>3
<1>6. CASE Head(s).op = "drop"
  <2>1. ~Dropped(Tail(s), s[1].mutex)
    <3> SUFFICES ASSUME NEW i \in 1..(Len(s) - 1), DropsAt(Tail(s), i),
                        Tail(s)[i].mutex = s[1].mutex
                 PROVE  FALSE
      BY <1>4 DEF Dropped
    <3>1. i + 1 \in 1..Len(s) /\ Tail(s)[i] = s[i + 1] /\ i + 1 # 1
      BY TailAt
    <3>2. QED
      BY <1>3, <1>6, <3>1 DEF Neat, Once, DropsAt
  <2>2. \A m : m \in Open(Tail(s)) <=> m \in Open(s) \ {Head(s).mutex}
    BY <1>1, <1>2, <1>3, <1>6, <2>1 DEF TakesAt, DropsAt
  <2>3. QED
    BY <1>6, <2>2
<1>7. CASE Head(s).op = "pass"
  <2>1. \A m : m \in Open(Tail(s)) <=> m \in Open(s)
    BY <1>1, <1>2, <1>3, <1>7 DEF TakesAt, DropsAt
  <2>2. QED
    BY <1>7, <2>1
<1>8. QED
  BY <1>5, <1>6, <1>7

(* A thread wants what is above all it holds.                              *)
LEMMA HeadAbove ==
    ASSUME NEW s \in Seq(Steps), s # << >>, Ordered(s), Head(s).op # "drop",
           NEW m \in Open(s)
    PROVE  Rank(m) < Rank(Head(s).mutex)
<1>1. s[1] = Head(s) /\ 1 \in 1..Len(s)
  BY TailAt
<1>2. PICK j \in 1..Len(s) : DropsAt(s, j) /\ s[j].mutex = m
  BY DEF Open
<1>3. j # 1 /\ 1 < j
  BY <1>1, <1>2 DEF DropsAt
<1>4. \A k \in 1..Len(s) : TakesAt(s, k) => s[k].mutex # s[j].mutex
  BY <1>2 DEF Open
<1>5. QED
  BY <1>1, <1>2, <1>3, <1>4 DEF Ordered, DropsAt

----------------------------------------------------------------------------
(* The scripts.                                                            *)
Whole(s) == Neat(s) /\ Open(s) = {}

Passes(p) == p \in Seq(Steps) /\ \A i \in 1..Len(p) : p[i].op = "pass"

LEMMA JustPasses ==
    ASSUME NEW p, Passes(p)
    PROVE  Whole(p) /\ Ordered(p)
  BY DEF Passes, Whole, Neat, Once, Closing, Ordered, Open, TakesAt, DropsAt

LEMMA WithinAt ==
    ASSUME NEW m \in Mutex, NEW p \in Seq(Steps)
    PROVE  /\ Within(m, p) \in Seq(Steps)
           /\ Len(Within(m, p)) = Len(p) + 2 /\ Len(p) \in Nat
           /\ Within(m, p)[1] = Step("take", m)
           /\ Within(m, p)[Len(p) + 2] = Step("drop", m)
           /\ \A i \in 1..Len(p) : Within(m, p)[i + 1] = p[i]
<1>1. <<Step("take", m)>> \in Seq(Steps) /\ <<Step("drop", m)>> \in Seq(Steps)
  BY DEF Steps, Step
<1>2. QED
  BY <1>1 DEF Within

(* A mutex around a script that neither takes nor drops it.                *)
LEMMA WithinWhole ==
    ASSUME NEW m \in Mutex, NEW b, Whole(b),
           \A i \in 1..Len(b) : b[i].op = "pass" \/ b[i].mutex # m
    PROVE  /\ Whole(Within(m, b))
           /\ Ordered(b) /\ (\A i \in 1..Len(b) : Rank(m) < Rank(b[i].mutex))
              => Ordered(Within(m, b))
<1> DEFINE w == Within(m, b)
           n == Len(b) + 2
<1>1. b \in Seq(Steps) /\ Once(b) /\ Closing(b) /\ Open(b) = {}
  BY DEF Whole, Neat
<1>2. /\ w \in Seq(Steps) /\ Len(w) = n /\ Len(b) \in Nat
      /\ w[1].mutex = m /\ w[1].op = "take"
      /\ w[n].mutex = m /\ w[n].op = "drop"
      /\ \A i \in 1..Len(b) : w[i + 1] = b[i]
  <2>1. /\ Step("take", m).mutex = m /\ Step("take", m).op = "take"
        /\ Step("drop", m).mutex = m /\ Step("drop", m).op = "drop"
    BY DEF Step
  <2>2. QED
    BY <1>1, <2>1, WithinAt
<1>3. \A i \in 1..n : i = 1 \/ i = n \/ (i - 1 \in 1..Len(b) /\ w[i] = b[i - 1])
  <2>1. \A i \in 1..n : i = 1 \/ i = n \/ (i - 1 \in 1..Len(b) /\ i - 1 + 1 = i)
    BY <1>2
  <2>2. QED
    BY <1>2, <2>1
<1>4. \A i \in 1..Len(b) : TakesAt(b, i) \/ DropsAt(b, i) => b[i].mutex # m
  BY DEF TakesAt, DropsAt
<1>5. 1 \in 1..n /\ n \in 1..n /\ 1 < n /\ n \in Nat
  BY <1>2
<1>6. \A i \in 1..n : /\ TakesAt(w, i) <=> i = 1 \/ (1 < i /\ i < n /\ TakesAt(b, i - 1))
                      /\ DropsAt(w, i) <=> i = n \/ (1 < i /\ i < n /\ DropsAt(b, i - 1))
  BY <1>2, <1>3, <1>5 DEF TakesAt, DropsAt
<1>7. \A i \in 1..n : 1 < i /\ i < n => i - 1 \in 1..Len(b) /\ w[i].mutex = b[i - 1].mutex
  BY <1>2, <1>3, <1>5
<1> HIDE DEF w, n
<1>8. Once(w)
  <2> SUFFICES ASSUME NEW i \in 1..n, NEW j \in 1..n, w[i].mutex = w[j].mutex
               PROVE  /\ TakesAt(w, i) /\ TakesAt(w, j) => i = j
                      /\ DropsAt(w, i) /\ DropsAt(w, j) => i = j
                      /\ TakesAt(w, i) /\ DropsAt(w, j) => i < j
    BY <1>2 DEF Once
  <2>1. CASE 1 < i /\ i < n /\ 1 < j /\ j < n
    <3>1. i - 1 \in 1..Len(b) /\ j - 1 \in 1..Len(b)
          /\ b[i - 1].mutex = b[j - 1].mutex
      BY <1>7, <2>1
    <3>2. QED
      BY <1>1, <1>5, <1>6, <2>1, <3>1 DEF Once
  <2>2. CASE ~(1 < i /\ i < n /\ 1 < j /\ j < n)
    <3>1. \A k \in 1..n : 1 < k /\ k < n /\ (TakesAt(w, k) \/ DropsAt(w, k))
                           => w[k].mutex # m
      BY <1>4, <1>6, <1>7
    <3>2. \A k \in 1..n : k = 1 \/ k = n \/ (1 < k /\ k < n)
      BY <1>5
    <3>3. ~DropsAt(w, 1) /\ ~TakesAt(w, n)
      BY <1>5, <1>6
    <3>4. QED
      BY <1>2, <1>5, <2>2, <3>1, <3>2, <3>3
  <2>3. QED
    BY <2>1, <2>2
<1>9. Closing(w)
  <2> SUFFICES ASSUME NEW i \in 1..n, TakesAt(w, i)
               PROVE  \E j \in 1..n : DropsAt(w, j) /\ w[j].mutex = w[i].mutex
    BY <1>2 DEF Closing
  <2>1. CASE i = 1
    BY <1>2, <1>5, <1>6, <2>1
  <2>2. CASE i # 1
    <3>1. i - 1 \in 1..Len(b) /\ TakesAt(b, i - 1) /\ w[i].mutex = b[i - 1].mutex
      BY <1>6, <1>7, <2>2
    <3>2. PICK k \in 1..Len(b) : DropsAt(b, k) /\ b[k].mutex = b[i - 1].mutex
      BY <1>1, <3>1 DEF Closing
    <3>3. k + 1 \in 1..n /\ w[k + 1] = b[k] /\ k + 1 - 1 = k /\ 1 < k + 1 /\ k + 1 < n
      BY <1>2 DEF n
    <3>4. QED
      BY <1>6, <3>1, <3>2, <3>3
  <2>3. QED
    BY <2>1, <2>2
<1>10. Open(w) = {}
  <2> SUFFICES ASSUME NEW i \in 1..n, DropsAt(w, i)
               PROVE  \E j \in 1..n : TakesAt(w, j) /\ w[j].mutex = w[i].mutex
    BY <1>2 DEF Open
  <2>1. CASE i = n
    BY <1>2, <1>5, <1>6, <2>1
  <2>2. CASE i # n
    <3>1. i - 1 \in 1..Len(b) /\ DropsAt(b, i - 1) /\ w[i].mutex = b[i - 1].mutex
      BY <1>6, <1>7, <2>2
    <3>2. b[i - 1].mutex \in Mutex
      BY <1>1, <3>1, MutexAt
    <3>3. PICK k \in 1..Len(b) : TakesAt(b, k) /\ b[k].mutex = b[i - 1].mutex
      BY <1>1, <3>1, <3>2 DEF Open
    <3>4. k + 1 \in 1..n /\ w[k + 1] = b[k] /\ k + 1 - 1 = k /\ 1 < k + 1 /\ k + 1 < n
      BY <1>2 DEF n
    <3>5. QED
      BY <1>6, <3>1, <3>3, <3>4
  <2>3. QED
    BY <2>1, <2>2
<1>11. ASSUME Ordered(b), \A i \in 1..Len(b) : Rank(m) < Rank(b[i].mutex)
       PROVE  Ordered(w)
  <2> SUFFICES ASSUME NEW i \in 1..n, NEW j \in 1..n,
                      i < j, ~DropsAt(w, i), DropsAt(w, j),
                      \A k \in i..n : TakesAt(w, k) => w[k].mutex # w[j].mutex
               PROVE  Rank(w[j].mutex) < Rank(w[i].mutex)
    BY <1>2 DEF Ordered
  <2>1. i # 1
    <3>1. SUFFICES ASSUME i = 1
                   PROVE  FALSE
      OBVIOUS
    <3>2. \E k \in 1..n : TakesAt(w, k) /\ w[k].mutex = w[j].mutex
      <4>1. CASE j = n
        BY <1>2, <1>5, <1>6, <4>1
      <4>2. CASE j # n
        <5>1. w[j].mutex \in Mutex
          BY <1>2, MutexAt
        <5>2. QED
          BY <1>2, <1>10, <5>1 DEF Open
      <4>3. QED
        BY <4>1, <4>2
    <3>3. QED
      BY <3>1, <3>2
  <2>2. 1 < i /\ i < n /\ i - 1 \in 1..Len(b) /\ w[i].mutex = b[i - 1].mutex
    BY <1>5, <1>7, <2>1
  <2>3. CASE j = n
    BY <1>2, <1>11, <2>2, <2>3
  <2>4. CASE j # n
    <3>1. 1 < j /\ j < n /\ j - 1 \in 1..Len(b) /\ w[j].mutex = b[j - 1].mutex
      BY <1>5, <1>7, <2>2, <2>4
    <3>2. i - 1 < j - 1 /\ ~DropsAt(b, i - 1) /\ DropsAt(b, j - 1)
      BY <1>6, <2>2, <3>1
    <3>3. ASSUME NEW k \in (i - 1)..Len(b), TakesAt(b, k)
          PROVE  b[k].mutex # b[j - 1].mutex
      <4>1. k \in 1..Len(b) /\ k + 1 \in i..n /\ k + 1 \in 1..n
            /\ 1 < k + 1 /\ k + 1 < n /\ k + 1 - 1 = k
        BY <1>2, <2>2 DEF n
      <4>2. TakesAt(w, k + 1) /\ w[k + 1].mutex = b[k].mutex
        BY <1>6, <1>7, <3>3, <4>1
      <4>3. QED
        BY <3>1, <4>1, <4>2
    <3>4. QED
      BY <1>11, <2>2, <3>1, <3>2, <3>3 DEF Ordered
  <2>5. QED
    BY <2>3, <2>4
<1>12. QED
  BY <1>2, <1>8, <1>9, <1>10, <1>11 DEF Whole, Neat, w

(* A mutex that is passed first.                                           *)
LEMMA PassFirst ==
    ASSUME NEW m \in Mutex, NEW s, Whole(s)
    PROVE  LET q == <<Step("pass", m)>> \o s
           IN /\ Whole(q) /\ Len(q) = Len(s) + 1 /\ q[1].mutex = m
              /\ \A i \in 1..Len(s) : q[i + 1] = s[i]
              /\ Ordered(s) => Ordered(q)
<1> DEFINE q == <<Step("pass", m)>> \o s
           n == Len(s) + 1
<1>1. s \in Seq(Steps) /\ Once(s) /\ Closing(s) /\ Open(s) = {}
  BY DEF Whole, Neat
<1>2. <<Step("pass", m)>> \in Seq(Steps)
  BY DEF Steps, Step
<1>3. /\ q \in Seq(Steps) /\ Len(q) = n /\ Len(s) \in Nat
      /\ q[1] = Step("pass", m) /\ \A i \in 1..Len(s) : q[i + 1] = s[i]
  BY <1>1, <1>2
<1>4. q[1].mutex = m /\ ~TakesAt(q, 1) /\ ~DropsAt(q, 1)
  BY <1>3 DEF Step, TakesAt, DropsAt
<1>5. \A i \in 1..n : i = 1 \/ (i - 1 \in 1..Len(s) /\ q[i] = s[i - 1])
  <2>1. \A i \in 1..n : i = 1 \/ (i - 1 \in 1..Len(s) /\ i - 1 + 1 = i)
    BY <1>3
  <2>2. QED
    BY <1>3, <2>1
<1>6. \A i \in 1..Len(s) : i + 1 \in 1..n
  BY <1>3
<1> HIDE DEF q, n
<1>7. Once(q)
  <2> SUFFICES ASSUME NEW i \in 1..n, NEW j \in 1..n, q[i].mutex = q[j].mutex
               PROVE  /\ TakesAt(q, i) /\ TakesAt(q, j) => i = j
                      /\ DropsAt(q, i) /\ DropsAt(q, j) => i = j
                      /\ TakesAt(q, i) /\ DropsAt(q, j) => i < j
    BY <1>3 DEF Once
  <2>1. CASE i = 1 \/ j = 1
    BY <1>4, <2>1
  <2>2. CASE i # 1 /\ j # 1
    BY <1>1, <1>5, <2>2 DEF Once, TakesAt, DropsAt
  <2>3. QED
    BY <2>1, <2>2
<1>8. Closing(q)
  <2> SUFFICES ASSUME NEW i \in 1..n, TakesAt(q, i)
               PROVE  \E j \in 1..n : DropsAt(q, j) /\ q[j].mutex = q[i].mutex
    BY <1>3 DEF Closing
  <2>1. i - 1 \in 1..Len(s) /\ q[i] = s[i - 1]
    BY <1>4, <1>5
  <2>2. PICK k \in 1..Len(s) : DropsAt(s, k) /\ s[k].mutex = s[i - 1].mutex
    BY <1>1, <2>1 DEF Closing, TakesAt
  <2>3. k + 1 \in 1..n /\ q[k + 1] = s[k]
    BY <1>3, <1>6
  <2>4. QED
    BY <2>1, <2>2, <2>3 DEF DropsAt
<1>9. Open(q) = {}
  <2> SUFFICES ASSUME NEW i \in 1..n, DropsAt(q, i)
               PROVE  \E j \in 1..n : TakesAt(q, j) /\ q[j].mutex = q[i].mutex
    BY <1>3 DEF Open
  <2>1. i - 1 \in 1..Len(s) /\ q[i] = s[i - 1]
    BY <1>4, <1>5
  <2>2. s[i - 1].mutex \in Mutex
    BY <1>1, <2>1, MutexAt
  <2>3. PICK k \in 1..Len(s) : TakesAt(s, k) /\ s[k].mutex = s[i - 1].mutex
    BY <1>1, <2>1, <2>2 DEF Open, DropsAt
  <2>4. k + 1 \in 1..n /\ q[k + 1] = s[k]
    BY <1>3, <1>6
  <2>5. QED
    BY <2>1, <2>3, <2>4 DEF TakesAt
<1>10. ASSUME Ordered(s)
       PROVE  Ordered(q)
  <2> SUFFICES ASSUME NEW i \in 1..n, NEW j \in 1..n,
                      i < j, ~DropsAt(q, i), DropsAt(q, j),
                      \A k \in i..n : TakesAt(q, k) => q[k].mutex # q[j].mutex
               PROVE  Rank(q[j].mutex) < Rank(q[i].mutex)
    BY <1>3 DEF Ordered
  <2>1. j - 1 \in 1..Len(s) /\ q[j] = s[j - 1]
    BY <1>4, <1>5
  <2>2. i # 1
    <3>1. q[j].mutex \in Mutex
      BY <1>3, MutexAt
    <3>2. PICK k \in 1..n : TakesAt(q, k) /\ q[k].mutex = q[j].mutex
      BY <1>3, <1>9, <3>1 DEF Open
    <3>3. QED
      BY <3>2
  <2>3. i - 1 \in 1..Len(s) /\ q[i] = s[i - 1]
    BY <1>5, <2>2
  <2>4. ASSUME NEW k \in (i - 1)..Len(s), TakesAt(s, k)
        PROVE  s[k].mutex # s[j - 1].mutex
    <3>1. k \in 1..Len(s) /\ k + 1 \in i..n
      BY <1>3, <2>3 DEF n
    <3>2. q[k + 1] = s[k]
      BY <1>3, <3>1
    <3>3. QED
      BY <2>1, <2>4, <3>1, <3>2 DEF TakesAt
  <2>5. i - 1 < j - 1 /\ ~DropsAt(s, i - 1) /\ DropsAt(s, j - 1)
    BY <2>1, <2>3 DEF DropsAt
  <2>6. QED
    BY <1>10, <2>1, <2>3, <2>4, <2>5 DEF Ordered
<1>11. QED
  BY <1>3, <1>4, <1>7, <1>8, <1>9, <1>10 DEF Whole, Neat, q, n

----------------------------------------------------------------------------
(* A script in order, all of whose mutexes rank above r.                   *)
Above(r, s) == \A i \in 1..Len(s) : r < Rank(s[i].mutex)
Sound(s, r) == Whole(s) /\ Ordered(s) /\ Above(r, s)

LEMMA RankIsInt == \A m : Rank(m) \in 0..3
  BY DEF Rank

LEMMA SoundWithin ==
    ASSUME NEW m \in Mutex, NEW b, Sound(b, Rank(m)), NEW r \in Int, r < Rank(m)
    PROVE  Sound(Within(m, b), r)
<1>1. \A i \in 1..Len(b) : Rank(m) < Rank(b[i].mutex) /\ b[i].mutex # m
  BY RankIsInt DEF Sound, Above
<1>2. Whole(Within(m, b)) /\ Ordered(Within(m, b))
  BY <1>1, WithinWhole DEF Sound
<1>3. b \in Seq(Steps)
  BY DEF Sound, Whole, Neat
<1>4. \A i \in 1..Len(b) : r < Rank(b[i].mutex)
  BY <1>1, RankIsInt
<1> DEFINE w == Within(m, b)
<1>5. /\ Len(w) = Len(b) + 2 /\ Len(b) \in Nat
      /\ w[1].mutex = m /\ w[Len(b) + 2].mutex = m
      /\ \A i \in 1..Len(b) : w[i + 1] = b[i]
  <2>1. Step("take", m).mutex = m /\ Step("drop", m).mutex = m
    BY DEF Step
  <2>2. QED
    BY <1>3, <2>1, WithinAt
<1> HIDE DEF w
<1>6. ASSUME NEW i \in 1..Len(w)
      PROVE  r < Rank(w[i].mutex)
  <2>1. i = 1 \/ i = Len(b) + 2 \/ (i - 1 \in 1..Len(b) /\ i - 1 + 1 = i)
    BY <1>5
  <2>2. CASE i - 1 \in 1..Len(b) /\ i - 1 + 1 = i
    BY <1>4, <1>5, <2>2
  <2>3. QED
    BY <1>5, <2>1, <2>2
<1>7. QED
  BY <1>2, <1>6 DEF Sound, Above, w

LEMMA SoundPassFirst ==
    ASSUME NEW m \in Mutex, NEW s, NEW r \in Int, Sound(s, r), r < Rank(m)
    PROVE  Sound(<<Step("pass", m)>> \o s, r)
<1> DEFINE q == <<Step("pass", m)>> \o s
<1>1. /\ Whole(q) /\ Ordered(q) /\ Len(q) = Len(s) + 1 /\ q[1].mutex = m
      /\ \A i \in 1..Len(s) : q[i + 1] = s[i]
  BY PassFirst DEF Sound
<1>2. Len(s) \in Nat
  BY DEF Sound, Whole, Neat
<1>3. \A i \in 1..Len(q) : i = 1 \/ (i - 1 \in 1..Len(s) /\ i - 1 + 1 = i)
  BY <1>1, <1>2
<1>4. \A i \in 1..Len(q) : r < Rank(q[i].mutex)
  BY <1>1, <1>3 DEF Sound, Above
<1>5. QED
  BY <1>1, <1>4 DEF Sound, Above

LEMMA Mutexes ==
    /\ \A l \in Lobby : State(l) \in Mutex /\ Rank(State(l)) = 1
    /\ One("exec") \in Mutex /\ Rank(One("exec")) = 0
    /\ One("known") \in Mutex /\ Rank(One("known")) = 2
    /\ One("store") \in Mutex /\ Rank(One("store")) = 3
  BY LocksAssumption DEF State, One, Mutex, Rank, Lobby

LEMMA SoundLower ==
    ASSUME NEW s, NEW r \in Int, NEW q \in Int, q <= r, Sound(s, r)
    PROVE  Sound(s, q)
  BY RankIsInt DEF Sound, Above

(* Scripts that only pass mutexes: any concatenation of them.              *)
PassesAbove(p, r) == Passes(p) /\ Above(r, p)

LEMMA PassesSound ==
    ASSUME NEW p, NEW r, PassesAbove(p, r)
    PROVE  Sound(p, r)
  BY JustPasses DEF PassesAbove, Sound

LEMMA PassesConcat ==
    ASSUME NEW p, NEW q, NEW r, PassesAbove(p, r), PassesAbove(q, r)
    PROVE  PassesAbove(p \o q, r)
<1>1. p \in Seq(Steps) /\ q \in Seq(Steps)
  BY DEF PassesAbove, Passes
<1>2. p \o q \in Seq(Steps) /\ Len(p \o q) = Len(p) + Len(q)
      /\ Len(p) \in Nat /\ Len(q) \in Nat
  BY <1>1
<1>3. ASSUME NEW i \in 1..Len(p \o q)
      PROVE  (p \o q)[i].op = "pass" /\ r < Rank((p \o q)[i].mutex)
  <2>1. CASE i <= Len(p)
    <3>1. i \in 1..Len(p) /\ (p \o q)[i] = p[i]
      BY <1>1, <1>2, <2>1
    <3>2. QED
      BY <3>1 DEF PassesAbove, Passes, Above
  <2>2. CASE i > Len(p)
    <3>1. i - Len(p) \in 1..Len(q) /\ (p \o q)[i] = q[i - Len(p)]
      BY <1>1, <1>2, <2>2
    <3>2. QED
      BY <3>1 DEF PassesAbove, Passes, Above
  <2>3. QED
    BY <1>2, <2>1, <2>2
<1>4. QED
  BY <1>2, <1>3 DEF PassesAbove, Passes, Above

LEMMA OnePass ==
    ASSUME NEW m \in Mutex, NEW r, r < Rank(m)
    PROVE  PassesAbove(<<Step("pass", m)>>, r)
<1>1. Step("pass", m) \in Steps /\ Step("pass", m).op = "pass"
      /\ Step("pass", m).mutex = m
  BY DEF Step, Steps
<1>2. QED
  BY <1>1 DEF PassesAbove, Passes, Above

LEMMA StorePasses == \A r \in -1..2 : PassesAbove(store, r)
  BY OnePass, Mutexes DEF store

LEMMA LobbyPasses ==
    ASSUME NEW l \in Lobby, NEW r \in {-1, 0}
    PROVE  PassesAbove(visit(l), r)
  BY OnePass, Mutexes DEF visit

LEMMA VisitsPass ==
    ASSUME NEW n \in 0..Lobbies, NEW r \in {-1, 0}
    PROVE  PassesAbove(Visits(n), r)
<1>1. \A i \in 1..n : i \in Lobby
  BY LocksAssumption DEF Lobby
<1>2. \A i \in 1..n : /\ Step("pass", State(i)) \in Steps
                      /\ Step("pass", State(i)).op = "pass"
                      /\ r < Rank(Step("pass", State(i)).mutex)
  BY <1>1, Mutexes DEF Step, Steps
<1>3. n \in Nat
  BY LocksAssumption
<1>4. Visits(n) \in Seq(Steps) /\ Len(Visits(n)) = n
      /\ \A i \in 1..n : Visits(n)[i] = Step("pass", State(i))
  BY <1>2, <1>3 DEF Visits
<1>5. QED
  BY <1>2, <1>4 DEF PassesAbove, Passes, Above

LEMMA OthersPass ==
    ASSUME NEW l \in Lobby, NEW n \in 0..(Lobbies - 1), NEW r \in {-1, 0}
    PROVE  PassesAbove(Others(l, n), r)
<1> DEFINE other(i) == IF i < l THEN i ELSE i + 1
<1>1. \A i \in 1..n : other(i) \in Lobby
  BY LocksAssumption DEF Lobby
<1>2. \A i \in 1..n : /\ Step("pass", State(other(i))) \in Steps
                      /\ Step("pass", State(other(i))).op = "pass"
                      /\ r < Rank(Step("pass", State(other(i))).mutex)
  BY <1>1, Mutexes DEF Step, Steps
<1>3. n \in Nat
  BY LocksAssumption
<1>4. Others(l, n) = [i \in 1..n |-> Step("pass", State(other(i)))]
  BY DEF Others
<1> HIDE DEF other
<1>5. Others(l, n) \in Seq(Steps) /\ Len(Others(l, n)) = n
      /\ \A i \in 1..n : Others(l, n)[i] = Step("pass", State(other(i)))
  BY <1>2, <1>3, <1>4
<1>6. QED
  BY <1>2, <1>5 DEF PassesAbove, Passes, Above

LEMMA FindPasses ==
    ASSUME NEW l \in Lobby, NEW find \in FindPeer(l) \cup FindKey, NEW r \in {-1, 0}
    PROVE  PassesAbove(find, r)
<1>1. CASE find \in FindPeer(l)
  BY <1>1, LobbyPasses, OthersPass, PassesConcat DEF FindPeer
<1>2. CASE find \in FindKey
  BY <1>2, VisitsPass, LocksAssumption DEF FindKey, Lobby
<1>3. QED
  BY <1>1, <1>2

----------------------------------------------------------------------------
(* Everything but the chat's commands takes mutexes in order.              *)
LEMMA KnownSound == Sound(known, 1)
  BY StorePasses, PassesSound, SoundWithin, Mutexes DEF known

LEMMA StateSound ==
    ASSUME NEW l \in Lobby, NEW b, Sound(b, 1)
    PROVE  Sound(Within(State(l), b), -1) /\ Sound(Within(State(l), b), 0)
  BY SoundWithin, Mutexes

LEMMA StoreFirst ==
    ASSUME NEW s, NEW r \in -1..2, Sound(s, r)
    PROVE  Sound(store \o s, r)
  BY SoundPassFirst, Mutexes DEF store

LEMMA ExecSound ==
    ASSUME NEW l \in Lobby, NEW s \in Exec(l)
    PROVE  Sound(s, -1)
<1>1. \A find \in FindPeer(l) \cup FindKey : Sound(find \o store, 0)
  BY FindPasses, StorePasses, PassesConcat, PassesSound
<1>2. Sound(Within(State(l), store), 0)
  BY StateSound, StorePasses, PassesSound
<1>3. QED
  BY <1>1, <1>2, SoundWithin, Mutexes DEF Exec

LEMMA ThreadsDiffer ==
    /\ Console # Api /\ Console \notin Lobby /\ Api \notin Lobby /\ 1 \in Lobby
    /\ Thread = {Console, Api} \cup Lobby
  BY LocksAssumption DEF Thread, Console, Api, Lobby

LEMMA WorkerSound ==
    ASSUME NEW t \in Lobby,
           NEW s \in Identity(t) \cup Message(t) \cup Tick(t) \cup Disconnect(t)
    PROVE  Sound(s, -1)
<1>1. /\ Sound(store, 1) /\ Sound(store \o store, 1) /\ Sound(store \o known, 1)
      /\ Sound(known, 1) /\ Sound(visit(t), -1)
  BY StorePasses, LobbyPasses, PassesSound, PassesConcat, KnownSound, StoreFirst
<1>2. CASE s \in Identity(t)
  <2>1. Sound(Within(State(t), store \o known), -1)
    BY <1>1, StateSound
  <2>2. Sound(store \o Within(State(t), store \o known), -1)
    BY <2>1, StoreFirst
  <2>3. QED
    BY <1>2, <2>2 DEF Identity
<1>3. CASE s \in Message(t) \cup Tick(t)
  BY <1>1, <1>3, StateSound DEF Message, Tick
<1>4. CASE s \in Disconnect(t)
  <2>1. Sound(store \o visit(t), -1)
    BY <1>1, StoreFirst
  <2>2. QED
    BY <1>4, <2>1 DEF Disconnect
<1>5. QED
  BY <1>2, <1>3, <1>4

LEMMA RequestSound ==
    ASSUME NEW s \in Request
    PROVE  Sound(s, -1)
<1>1. \A find \in FindKey : Sound(find \o store, -1)
  BY FindPasses, StorePasses, PassesConcat, PassesSound, ThreadsDiffer
<1>2. \A l \in Lobby : Sound(Within(State(l), store), -1)
  BY StateSound, StorePasses, PassesSound
<1>3. Sound(store \o known, -1)
  <2>1. Sound(known, -1)
    BY KnownSound, SoundLower
  <2>2. QED
    BY <2>1, StoreFirst
<1>4. CASE s \in UNION {Exec(l) : l \in Lobby}
  BY <1>4, ExecSound
<1>5. CASE \E find \in FindKey : s = find \o store
  BY <1>1, <1>5
<1>6. CASE \E l \in Lobby : s = Within(State(l), store)
  BY <1>2, <1>6
<1>7. CASE s = store \o known
  BY <1>3, <1>7
<1>8. QED
  BY <1>4, <1>5, <1>6, <1>7 DEF Request

LEMMA ScriptSound ==
    ASSUME NEW t \in Thread, NEW s \in Script(t)
    PROVE  Sound(s, -1)
<1>1. CASE t = Console
  <2>1. s \in Exec(1)
    BY <1>1, ThreadsDiffer DEF Script
  <2>2. QED
    BY <2>1, ExecSound, ThreadsDiffer
<1>2. CASE t = Api
  <2>1. s \in Request
    BY <1>2, ThreadsDiffer DEF Script
  <2>2. QED
    BY <2>1, RequestSound
<1>3. CASE t \in Lobby
  <2>1. s \in Identity(t) \cup Message(t) \cup Tick(t) \cup Disconnect(t)
    BY <1>3, ThreadsDiffer DEF Script
  <2>2. QED
    BY <1>3, <2>1, WorkerSound
<1>4. QED
  BY <1>1, <1>2, <1>3, ThreadsDiffer

(* The chat's commands still drop what they take.                          *)
LEMMA CommandWhole ==
    ASSUME NEW l \in Lobby, NEW s \in Command(l)
    PROVE  Whole(s)
<1>1. \A p : Passes(p) => Whole(Within(State(l), p))
  BY JustPasses, WithinWhole, Mutexes DEF Passes
<1>2. Lobbies - 1 \in 0..(Lobbies - 1)
  BY LocksAssumption
<1>3. PassesAbove(store \o visit(l) \o store, -1)
  BY StorePasses, LobbyPasses, PassesConcat
<1>4. \A find \in FindKey : PassesAbove(store \o find, -1)
  BY StorePasses, FindPasses, PassesConcat
<1>5. PassesAbove(store \o Others(l, Lobbies - 1), -1)
  BY <1>2, StorePasses, OthersPass, PassesConcat
<1>6. QED
  BY <1>1, <1>3, <1>4, <1>5
     DEF Command, KickByName, ExeByKey, ResetId, PassesAbove

----------------------------------------------------------------------------
(* The invariant: what is left of a script says what its thread holds, and *)
(* is in order unless the thread answers one of the chat's commands.       *)
IInv ==
    /\ todo \in [Thread -> Seq(Steps)]
    /\ holds \in [Thread -> SUBSET Mutex]
    /\ \A t \in Thread :
          /\ Neat(todo[t])
          /\ holds[t] = Open(todo[t])
          /\ t \notin crosses => Ordered(todo[t])

LEMMA EmptyWhole == Whole(<< >>) /\ Ordered(<< >>)
<1>1. << >> \in Seq(Steps) /\ Len(<< >>) = 0
  OBVIOUS
<1>2. Passes(<< >>)
  BY <1>1 DEF Passes
<1>3. QED
  BY <1>2, JustPasses

LEMMA InitIInv == Init => IInv
<1> SUFFICES ASSUME Init
             PROVE  IInv
  OBVIOUS
<1>1. << >> \in Seq(Steps) /\ Neat(<< >>) /\ Open(<< >>) = {} /\ Ordered(<< >>)
  BY EmptyWhole DEF Whole, Neat
<1>2. QED
  BY <1>1 DEF Init, IInv

LEMMA BeginIInv ==
    ASSUME IInv, NEW t \in Thread, Begin(t)
    PROVE  IInv'
<1>1. holds' = holds /\ holds[t] = {}
  <2>1. todo[t] = << >> /\ holds[t] = Open(todo[t])
    BY DEF Begin, IInv
  <2>2. QED
    BY <2>1, EmptyWhole DEF Begin, Whole
<1>2. PICK s : /\ todo' = [todo EXCEPT ![t] = s]
               /\ Whole(s)
               /\ Ordered(s) \/ t \in crosses'
               /\ \A u \in Thread : u # t => (u \in crosses' <=> u \in crosses)
  <2>1. CASE \E s \in Script(t) : todo' = [todo EXCEPT ![t] = s]
                                  /\ crosses' = crosses \ {t}
    BY <2>1, ScriptSound DEF Sound
  <2>2. CASE t \in Lobby /\ \E s \in Command(t) :
                todo' = [todo EXCEPT ![t] = s] /\ crosses' = crosses \cup {t}
    BY <2>2, CommandWhole
  <2>3. QED
    BY <2>1, <2>2 DEF Begin
<1>3. s \in Seq(Steps) /\ Neat(s) /\ Open(s) = {}
  BY <1>2 DEF Whole, Neat
<1>4. todo' \in [Thread -> Seq(Steps)] /\ todo'[t] = s
      /\ \A u \in Thread : u # t => todo'[u] = todo[u]
  BY <1>2, <1>3 DEF IInv
<1>5. QED
  BY <1>1, <1>2, <1>3, <1>4 DEF IInv

LEMMA StepIInv ==
    ASSUME IInv, NEW t \in Thread, Lock(t) \/ Unlock(t)
    PROVE  IInv'
<1> DEFINE s == todo[t]
<1>1. s \in Seq(Steps) /\ s # << >> /\ Neat(s) /\ crosses' = crosses
      /\ holds[t] = Open(s) /\ todo' = [todo EXCEPT ![t] = Tail(s)]
  BY DEF IInv, Lock, Unlock, Takes
<1>2. Tail(s) \in Seq(Steps) /\ Neat(Tail(s)) /\ (Ordered(s) => Ordered(Tail(s)))
  BY <1>1, TailAt, TailNeat, TailOrdered
<1>3. Head(s) \in Steps
  BY <1>1, TailAt
<1>4. Head(s).op \in {"take", "drop", "pass"}
  BY <1>3 DEF Steps
<1>5. holds' = [holds EXCEPT ![t] = Open(Tail(s))]
  <2>1. CASE Lock(t)
    <3>1. Head(s).op # "drop"
      BY <2>1 DEF Lock, Takes
    <3>2. holds' = [holds EXCEPT ![t] = IF Head(s).op = "take"
                      THEN Open(s) \cup {Head(s).mutex} ELSE Open(s)]
      BY <1>1, <2>1 DEF Lock, Wants, IInv
    <3>3. QED
      BY <1>1, <1>4, <3>1, <3>2, OpenTail
  <2>2. CASE Unlock(t)
    <3>1. Head(s).op = "drop"
      BY <1>1, <2>2 DEF Unlock, Takes
    <3>2. holds' = [holds EXCEPT ![t] = Open(s) \ {Head(s).mutex}]
      BY <1>1, <2>2 DEF Unlock, Wants, IInv
    <3>3. QED
      BY <1>1, <3>1, <3>2, OpenTail
  <2>3. QED
    BY <2>1, <2>2
<1>6. todo' \in [Thread -> Seq(Steps)] /\ todo'[t] = Tail(s)
      /\ \A u \in Thread : u # t => todo'[u] = todo[u]
  BY <1>1, <1>2 DEF IInv
<1>7. holds' \in [Thread -> SUBSET Mutex] /\ holds'[t] = Open(Tail(s))
      /\ \A u \in Thread : u # t => holds'[u] = holds[u]
  <2>1. Open(Tail(s)) \subseteq Mutex
    BY DEF Open
  <2>2. QED
    BY <1>5, <2>1 DEF IInv
<1> HIDE DEF s
<1>8. ASSUME NEW u \in Thread
      PROVE  /\ Neat(todo'[u]) /\ holds'[u] = Open(todo'[u])
             /\ u \notin crosses' => Ordered(todo'[u])
  <2>1. CASE u = t
    BY <1>1, <1>2, <1>6, <1>7, <2>1 DEF IInv, s
  <2>2. CASE u # t
    BY <1>1, <1>6, <1>7, <2>2 DEF IInv
  <2>3. QED
    BY <2>1, <2>2
<1>9. QED
  BY <1>6, <1>7, <1>8 DEF IInv

(* Threads that hold what their scripts say take mutexes upwards, until    *)
(* one of them answers a command.                                          *)
THEOREM HoldsWhatScriptsSay == Spec => []IInv
<1>1. IInv /\ [Next]_vars => IInv'
  <2> SUFFICES ASSUME IInv, [Next]_vars
               PROVE  IInv'
    OBVIOUS
  <2>1. CASE UNCHANGED vars
    BY <2>1 DEF vars, IInv
  <2>2. CASE Next
    BY <2>2, BeginIInv, StepIInv DEF Next
  <2>3. QED
    BY <2>1, <2>2
<1>2. QED
  BY <1>1, InitIInv, PTL DEF Spec

(* In a circle of threads none of which answers a command, everybody waits *)
(* for somebody who wants what ranks above: no rank is high enough.        *)
LEMMA NoCircleUpwards == IInv => CircleNeedsCommand
<1> SUFFICES ASSUME IInv, NEW S \in SUBSET Thread, Circle(S), S \cap crosses = {}
             PROVE  FALSE
  BY DEF CircleNeedsCommand
<1> DEFINE rank(t) == Rank(Wants(t))
<1>1. ASSUME NEW t \in S
      PROVE  \E u \in S : rank(t) < rank(u)
  <2>1. PICK u \in S : u \in Blockers(t)
    BY DEF Circle
  <2>2. Wants(t) \in holds[u] /\ u \in Thread /\ u \notin crosses
    BY <2>1 DEF Blockers
  <2>3. /\ todo[u] \in Seq(Steps) /\ todo[u] # << >> /\ Ordered(todo[u])
        /\ holds[u] = Open(todo[u]) /\ Head(todo[u]).op # "drop"
    BY <2>2 DEF IInv, Circle, Takes
  <2>4. QED
    BY <2>2, <2>3, HeadAbove DEF Wants
<1>2. \A t \in S : rank(t) \in 0..3
  BY RankIsInt
<1> HIDE DEF rank
<1>3. PICK t0 \in S : TRUE
  BY DEF Circle
<1>4. PICK t1 \in S : rank(t0) < rank(t1)
  BY <1>1
<1>5. PICK t2 \in S : rank(t1) < rank(t2)
  BY <1>1
<1>6. PICK t3 \in S : rank(t2) < rank(t3)
  BY <1>1
<1>7. PICK t4 \in S : rank(t3) < rank(t4)
  BY <1>1
<1>8. QED
  BY <1>2, <1>4, <1>5, <1>6, <1>7

(* CircleNeedsCommand holds for any number of lobbies: the workers' own    *)
(* handlers, the console and the admin API never wait for one another for  *)
(* good; only a command of the chat that takes the locks of lobbies under  *)
(* the one its worker holds can make them.                                 *)
THEOREM OnlyCommandsDeadlock == Spec => []CircleNeedsCommand
  BY HoldsWhatScriptsSay, NoCircleUpwards, PTL

----------------------------------------------------------------------------
(* Who is in the middle of something, and who of them cannot go on.        *)
Busy == {t \in Thread : todo[t] # << >>}
Stuck(t) == Takes(t) /\ Blockers(t) # {}

SomebodyMoves ==
    Busy # {} /\ Busy \cap crosses = {} => \E t \in Busy : ~Stuck(t)

(* A thread that keeps another waiting is itself in the middle of          *)
(* something, as it holds what the rest of its script drops.               *)
LEMMA HoldersBusy ==
    ASSUME IInv, NEW u \in Thread, holds[u] # {}
    PROVE  u \in Busy
  BY EmptyWhole DEF IInv, Busy, Whole

(* The server as a whole never stands still: as long as no chat command    *)
(* that takes lobbies' locks is being answered, one of the threads that    *)
(* have something to do can take, or drop, its next mutex.  Locks are left *)
(* with the script that took them, so nobody waits for an idle thread.     *)
THEOREM NeverAllStuck == Spec => []SomebodyMoves
<1>1. IInv => SomebodyMoves
  <2> SUFFICES ASSUME IInv, Busy # {}, Busy \cap crosses = {},
                      \A t \in Busy : Stuck(t)
               PROVE  FALSE
    BY DEF SomebodyMoves
  <2>1. ASSUME NEW t \in Busy PROVE Blockers(t) \cap Busy # {}
    <3>1. PICK u \in Thread : u \in Blockers(t)
      BY DEF Stuck, Blockers
    <3>2. u \in Busy
      BY <3>1, HoldersBusy DEF Blockers
    <3>3. QED
      BY <3>1, <3>2
  <2>2. Circle(Busy) /\ Busy \in SUBSET Thread
    BY <2>1 DEF Circle, Stuck, Busy
  <2>3. QED
    BY <2>2, NoCircleUpwards DEF CircleNeedsCommand
<1>2. QED
  BY <1>1, HoldsWhatScriptsSay, PTL
=============================================================================
