--------------------------- MODULE MapPickProofs ---------------------------
(***************************************************************************)
(* Proofs about MapPick, for any number of maps and any rates: when the    *)
(* draw of a vote cannot get stuck.                                        *)
(***************************************************************************)
EXTENDS MapPick, FiniteSetTheorems, TLAPS

(* After a vote every rate but that of the map chosen is positive: the     *)
(* rates of the others have just grown.                                    *)
LEMMA RatesGrow ==
    ASSUME TypeOK, NEW won \in Map
    PROVE  /\ Rates(won) \in [Map -> 0 .. Full]
           /\ \A m \in Map \ {won} : Rates(won)[m] > 0
<1> DEFINE C == Charged(won)
<1>1. \A m \in Map : Slots(m) \in Nat
  <2> SUFFICES ASSUME NEW m \in Map PROVE Slots(m) \in Nat
    OBVIOUS
  <2>1. IsFiniteSet(Slot)
    <3>1. \A n \in Nat : IsFiniteSet(1 .. n)
      BY FS_Interval
    <3>2. QED
      BY <3>1 DEF Slot
  <2>2. IsFiniteSet({i \in Slot : offered[i] = m})
    BY <2>1, FS_Subset
  <2>3. QED
    BY <2>2, FS_CardinalityType DEF Slots
<1>2. \A m \in Map : Slots(m) * Step \in Nat
  BY <1>1, PickAssumption
<1>3. \A m \in Map : C[m] \in 0 .. Full
  <2> SUFFICES ASSUME NEW m \in Map PROVE C[m] \in 0 .. Full
    OBVIOUS
  <2> DEFINE k == Slots(m) * Step
             r == IF m = won THEN Less(rate[m], Full) ELSE rate[m]
  <2>1. k \in Nat /\ rate[m] \in 0 .. Full /\ Full \in Nat
    BY <1>2, PickAssumption DEF TypeOK
  <2>2. r \in 0 .. Full
    <3> HIDE DEF k
    <3>1. QED
      BY <2>1 DEF Less
  <2>3. C[m] = Less(r, k)
    BY DEF Charged
  <2>4. QED
    <3> HIDE DEF k, r, C
    <3>1. QED
      BY <2>1, <2>2, <2>3 DEF Less
<1>4. \A m \in Map : Rates(won)[m] = IF m = won THEN C[m] ELSE Capped(C[m] + Step)
  BY DEF Rates
<1>5. Rates(won) = [m \in Map |-> Rates(won)[m]]
  BY DEF Rates
<1>6. \A m \in Map : /\ Rates(won)[m] \in 0 .. Full
                     /\ m # won => Rates(won)[m] > 0
  <2> HIDE DEF C
  <2>1. QED
    BY <1>3, <1>4, PickAssumption DEF Capped
<1>7. QED
  BY <1>5, <1>6

(* While maps are drawn there are enough of them, and a slot is left.      *)
Drawing == phase = "DRAWING" => drawn \in 0 .. 2 /\ Cardinality(enabled) > 3

LEMMA TypeNext == TypeOK /\ Drawing /\ [Next]_vars => TypeOK'
<1> SUFFICES ASSUME TypeOK, Drawing, [Next]_vars PROVE TypeOK'
  OBVIOUS
<1> USE DEF TypeOK, Slot
<1>1. ASSUME NEW L \in Lists, SetMaps(L)
      PROVE  TypeOK'
  BY <1>1 DEF SetMaps
<1>2. CASE OfferAll
  <2>1. offered' \in [Slot -> Map]
    BY <1>2, PickAssumption DEF OfferAll
  <2>2. QED
    BY <1>2, <2>1 DEF OfferAll
<1>3. CASE StartDraw
  BY <1>3 DEF StartDraw
<1>4. ASSUME NEW m \in Map, Draw(m)
      PROVE  TypeOK'
  BY <1>4 DEF Draw, Drawing
<1>5. ASSUME NEW m \in Map, Redraw(m)
      PROVE  TypeOK'
  BY <1>5 DEF Redraw, vars
<1>6. ASSUME NEW m \in Map, DraftOver(m)
      PROVE  TypeOK'
  BY <1>6 DEF DraftOver
<1>7. ASSUME NEW i \in Slot, Choose(i)
      PROVE  TypeOK'
  <2>1. offered[i] \in Map
    OBVIOUS
  <2>2. rate' \in [Map -> 0 .. Full]
    BY <1>7, <2>1, RatesGrow DEF Choose
  <2>3. QED
    BY <1>7, <2>1, <2>2 DEF Choose
<1>8. CASE Abandon
  BY <1>8 DEF Abandon
<1>9. CASE UNCHANGED vars
  BY <1>9 DEF vars
<1>10. QED
  BY <1>1, <1>2, <1>3, <1>4, <1>5, <1>6, <1>7, <1>8, <1>9 DEF Next

LEMMA DrawingNext == TypeOK /\ Drawing /\ [Next]_vars => Drawing'
<1> SUFFICES ASSUME TypeOK, Drawing, [Next]_vars PROVE Drawing'
  OBVIOUS
<1> USE DEF Drawing
<1>1. ASSUME NEW m \in Map, Draw(m)
      PROVE  Drawing'
  BY <1>1 DEF Draw, TypeOK
<1>2. CASE UNCHANGED <<phase, drawn, enabled>>
  BY <1>2
<1>3. CASE StartDraw
  BY <1>3 DEF StartDraw
<1>4. ASSUME phase' # "DRAWING"
      PROVE  Drawing'
  BY <1>4
<1>5. ASSUME NEW L \in Lists, SetMaps(L)
      PROVE  phase' # "DRAWING"
  BY <1>5 DEF SetMaps
<1>6. OfferAll \/ Abandon => phase' # "DRAWING"
  BY DEF OfferAll, Abandon
<1>7. ASSUME NEW i \in Slot, Choose(i)
      PROVE  phase' # "DRAWING"
  BY <1>7 DEF Choose
<1>8. ASSUME NEW m \in Map, Redraw(m) \/ DraftOver(m)
      PROVE  UNCHANGED <<phase, drawn, enabled>>
  BY <1>8 DEF Redraw, DraftOver, vars
<1>9. UNCHANGED vars => UNCHANGED <<phase, drawn, enabled>>
  BY DEF vars
<1>10. QED
  BY <1>1, <1>2, <1>3, <1>4, <1>5, <1>6, <1>7, <1>8, <1>9 DEF Next

(* The type invariant: no rate leaves its range.                           *)
LEMMA AlwaysTyped == Spec => [](TypeOK /\ Drawing)
<1>1. Init => TypeOK /\ Drawing
  BY PickAssumption DEF Init, TypeOK, Drawing, Slot
<1>2. TypeOK /\ Drawing /\ [Next]_vars => (TypeOK /\ Drawing)'
  BY TypeNext, DrawingNext
<1>3. QED
  BY <1>1, <1>2, PTL DEF Spec

(* The maps' numbers and rates stay in range, and a draw fills its three   *)
(* slots and no fourth.                                                    *)
THEOREM RatesInRange == Spec => []TypeOK
  BY AlwaysTyped, PTL

----------------------------------------------------------------------------
LEMMA OneBarredNext == TypeOK /\ OneBarred /\ [Next]_vars => OneBarred'
<1> SUFFICES ASSUME TypeOK, OneBarred, [Next]_vars PROVE OneBarred'
  OBVIOUS
<1>1. ASSUME NEW i \in Slot, Choose(i)
      PROVE  OneBarred'
  <2>1. offered[i] \in Map
    BY DEF TypeOK
  <2>2. \A m \in Map \ {offered[i]} : rate'[m] > 0
    BY <1>1, <2>1, RatesGrow DEF Choose
  <2>3. QED
    BY <2>2 DEF OneBarred
<1>2. CASE UNCHANGED rate
  BY <1>2 DEF OneBarred
<1>3. QED
  BY <1>1, <1>2 DEF Next, SetMaps, OfferAll, StartDraw, Draw, Redraw,
     DraftOver, Abandon, vars

(* At any time at most one map is barred from the draw by its rate: the    *)
(* map chosen by the last vote.                                            *)
THEOREM OnlyOneBarred == Spec => []OneBarred
<1>1. Init => OneBarred
  BY PickAssumption DEF Init, OneBarred
<1>2. TypeOK /\ Drawing /\ OneBarred /\ [Next]_vars => OneBarred'
  BY OneBarredNext
<1>3. QED
  BY <1>1, <1>2, AlwaysTyped, PTL DEF Spec

(* Where nothing is drafted, that map is also the one played last.         *)
BarredIsLast == \A m \in Map : rate[m] = 0 => m = lastMap

LEMMA BarredNext ==
    ~Drafts /\ TypeOK /\ BarredIsLast /\ [Next]_vars => BarredIsLast'
<1> SUFFICES ASSUME ~Drafts, TypeOK, BarredIsLast, [Next]_vars
             PROVE  BarredIsLast'
  OBVIOUS
<1>1. ASSUME NEW i \in Slot, Choose(i)
      PROVE  BarredIsLast'
  <2>1. offered[i] \in Map
    BY DEF TypeOK
  <2>2. \A m \in Map \ {offered[i]} : rate'[m] > 0
    BY <1>1, <2>1, RatesGrow DEF Choose
  <2>3. lastMap' = offered[i]
    BY <1>1 DEF Choose
  <2>4. QED
    BY <2>2, <2>3 DEF BarredIsLast
<1>2. CASE UNCHANGED <<rate, lastMap>>
  BY <1>2 DEF BarredIsLast
<1>3. QED
  BY <1>1, <1>2 DEF Next, SetMaps, OfferAll, StartDraw, Draw, Redraw,
     DraftOver, Abandon, vars

(* A set grows by one element at a time.                                   *)
LEMMA OneMore ==
    ASSUME NEW S, IsFiniteSet(S), NEW k \in Nat, Cardinality(S) <= k, NEW x
    PROVE  IsFiniteSet(S \cup {x}) /\ Cardinality(S \cup {x}) <= k + 1
<1>1. Cardinality(S) \in Nat
  BY FS_CardinalityType
<1>2. /\ IsFiniteSet(S \cup {x})
      /\ \/ Cardinality(S \cup {x}) = Cardinality(S)
         \/ Cardinality(S \cup {x}) = Cardinality(S) + 1
  BY FS_AddElement, Zenon
<1>3. QED
  BY <1>1, <1>2

(* Whatever three elements cover is no larger, nor what four cover.        *)
LEMMA Few ==
    ASSUME NEW S, NEW a, NEW b, NEW c
    PROVE  /\ S \subseteq {a, b, c} => Cardinality(S) <= 3
           /\ \A d : S \subseteq {a, b, c, d} => Cardinality(S) <= 4
<1> DEFINE A == {a}
           B == A \cup {b}
           C == B \cup {c}
<1>1. IsFiniteSet(A) /\ Cardinality(A) = 1
  BY FS_Singleton
<1>2. IsFiniteSet(B) /\ Cardinality(B) <= 2
  <2> HIDE DEF A
  <2>1. QED
    BY <1>1, OneMore
<1>3. IsFiniteSet(C) /\ Cardinality(C) <= 3
  <2> HIDE DEF B
  <2>1. IsFiniteSet(B \cup {c}) /\ Cardinality(B \cup {c}) <= 2 + 1
    BY <1>2, OneMore
  <2>2. QED
    BY <2>1
<1>4. \A d : IsFiniteSet(C \cup {d}) /\ Cardinality(C \cup {d}) <= 4
  <2> HIDE DEF C
  <2>1. QED
    BY <1>3, OneMore
<1>5. \A T : IsFiniteSet(T) /\ S \subseteq T =>
            /\ Cardinality(S) \in Nat /\ Cardinality(T) \in Nat
            /\ Cardinality(S) <= Cardinality(T)
  BY FS_Subset, FS_CardinalityType
<1>6. S \subseteq {a, b, c} => S \subseteq C
  OBVIOUS
<1>7. \A d : S \subseteq {a, b, c, d} => S \subseteq C \cup {d}
  OBVIOUS
<1>8. QED
  <2> HIDE DEF C
  <2>1. S \subseteq {a, b, c} => Cardinality(S) <= 3
    BY <1>3, <1>5, <1>6
  <2>2. ASSUME NEW d, S \subseteq {a, b, c, d}
        PROVE  Cardinality(S) <= 4
    <3>1. IsFiniteSet(C \cup {d}) /\ Cardinality(C \cup {d}) <= 4
      BY <1>4
    <3>2. S \subseteq C \cup {d}
      BY <1>7, <2>2
    <3>3. QED
      BY <1>5, <3>1, <3>2
  <2>3. QED
    BY <2>1, <2>2

(* Of five maps the last one, two that are drawn and one that is barred    *)
(* leave a candidate; of four, if the barred one is the last one.          *)
LEMMA Candidate ==
    ASSUME TypeOK, OneBarred, drawn \in 0 .. 2,
           \/ Cardinality(enabled) > 4
           \/ Cardinality(enabled) > 3 /\ BarredIsLast
    PROVE  Drawable # {}
<1> SUFFICES ASSUME Drawable = {} PROVE FALSE
  OBVIOUS
<1> DEFINE a == offered[1]
           b == offered[2]
<1>1. Drawn \subseteq {a, b}
  BY DEF Drawn
<1>2. PICK z : \A m \in Map : rate[m] = 0 => m = z
  BY DEF OneBarred
<1>3. \A m \in Map : rate[m] > 0 \/ rate[m] = 0
  BY PickAssumption DEF TypeOK
<1>4. enabled \subseteq Map
  BY PickAssumption DEF TypeOK
<1>5. \A m \in enabled : m = lastMap \/ rate[m] = 0 \/ m \in {a, b}
  BY <1>1, <1>3, <1>4 DEF Drawable
<1>6. enabled \subseteq {lastMap, a, b, z}
  BY <1>2, <1>4, <1>5
<1>7. Cardinality(enabled) <= 4 /\ Cardinality(enabled) \in Nat
  <2>1. IsFiniteSet(enabled)
    BY <1>4, PickAssumption, FS_Subset
  <2> HIDE DEF a, b
  <2>2. QED
    BY <1>6, <2>1, Few, FS_CardinalityType
<1>8. CASE BarredIsLast
  <2>1. enabled \subseteq {lastMap, a, b}
    BY <1>4, <1>5, <1>8 DEF BarredIsLast
  <2> HIDE DEF a, b
  <2>2. Cardinality(enabled) <= 3
    BY <2>1, Few
  <2>3. QED
    BY <1>7, <2>2
<1>9. QED
  BY <1>7, <1>8

(* The draw of a vote never runs out of candidates: with drafts as long as *)
(* the host does not enable exactly four maps, without drafts for every    *)
(* list.                                                                   *)
THEOREM DrawNeverStuck ==
    ASSUME Drafts => \A L \in Lists : Cardinality(L) # 4
    PROVE  Spec => []CanDraw
<1>1. CASE Drafts
  <2>1. TypeOK /\ Drawing /\ OneBarred => CanDraw
    <3> SUFFICES ASSUME TypeOK, Drawing, OneBarred, phase = "DRAWING"
                 PROVE  Drawable # {}
      BY DEF CanDraw
    <3>1. enabled \in Lists /\ IsFiniteSet(enabled)
      BY PickAssumption, FS_Subset DEF TypeOK
    <3>2. Cardinality(enabled) > 4
      BY <1>1, <3>1, FS_CardinalityType DEF Drawing
    <3>3. QED
      BY <3>2, Candidate DEF Drawing
  <2>2. QED
    BY <2>1, AlwaysTyped, OnlyOneBarred, PTL
<1>2. CASE ~Drafts
  <2>1. Init => BarredIsLast
    BY PickAssumption DEF Init, BarredIsLast
  <2>2. TypeOK /\ Drawing /\ BarredIsLast /\ [Next]_vars => BarredIsLast'
    BY <1>2, BarredNext
  <2>3. TypeOK /\ Drawing /\ OneBarred /\ BarredIsLast => CanDraw
    BY Candidate DEF CanDraw, Drawing
  <2>4. QED
    BY <2>1, <2>2, <2>3, AlwaysTyped, OnlyOneBarred, PTL DEF Spec
<1>3. QED
  BY <1>1, <1>2
=============================================================================
