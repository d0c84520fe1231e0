---------------------------- MODULE Drivers_proofs ----------------------------
(***************************************************************************)
(* Proofs about Drivers, for any pins, bindings, combinations, ports and   *)
(* number of packets.                                                      *)
(***************************************************************************)
EXTENDS Drivers, SequenceTheorems, FiniteSetTheorems, WellFoundedInduction, TLAPS

-----------------------------------------------------------------------------
(* Induction over the natural numbers, for a property given as a set.      *)

\* A set of natural numbers has a least element.
LEMMA LeastElement ==
  ASSUME NEW T \in SUBSET Nat, T # {}
  PROVE  \E x \in T : \A y \in T : x <= y
<1> DEFINE R == OpToRel(<, Nat)
<1>1. IsWellFoundedOn(R, Nat)
  BY NatLessThanWellFounded
<1>2. \A x, y \in Nat : x < y => <<x, y>> \in R
  BY DEF OpToRel
<1> HIDE DEF R
<1>3. PICK x \in T : \A y \in T : ~ (<<y, x>> \in R)
  BY <1>1, WFMin
<1>4. ASSUME NEW y \in T PROVE x <= y
  <2>1. x \in Nat /\ y \in Nat /\ ~ (<<y, x>> \in R)
    BY <1>3
  <2>2. ~ (y < x)
    BY <2>1, <1>2
  <2> QED
    BY <2>1, <2>2
<1> QED
  BY <1>4

\* What holds of 0, and with every number of the next one, holds of all.
LEMMA SetInduction ==
  ASSUME NEW S, 0 \in S, \A n \in Nat : n \in S => n + 1 \in S
  PROVE  Nat \subseteq S
<1> DEFINE T == Nat \ S
<1> SUFFICES ASSUME T # {} PROVE FALSE
  OBVIOUS
<1>1. PICK x \in T : \A y \in T : x <= y
  <2> HIDE DEF T
  <2>1. T \in SUBSET Nat
    BY DEF T
  <2> QED BY <2>1, LeastElement
<1>2. x # 0 /\ x \in Nat
  OBVIOUS
<1>3. x - 1 \in Nat /\ x - 1 \notin T
  BY <1>1, <1>2
<1> QED
  BY <1>1, <1>2, <1>3

\* The same up to N.
LEMMA InductionUpTo ==
  ASSUME NEW N \in Nat, NEW S, 0 \in S, \A n \in 0 .. N - 1 : n \in S => n + 1 \in S
  PROVE  0 .. N \subseteq S
<1> DEFINE T == {n \in Nat : n <= N => n \in S}
<1>1. 0 \in T
  OBVIOUS
<1>2. ASSUME NEW n \in Nat, n \in T PROVE n + 1 \in T
  BY <1>2
<1> HIDE DEF T
<1>3. Nat \subseteq T
  BY <1>1, <1>2, SetInduction
<1> QED
  BY <1>3 DEF T

\* A loop of N rounds over T, and what it has after each of them.
Rounds(N, T) == [1 .. N -> [T -> T]]
LoopUpTo(f, n, T, start, Round) ==
  /\ f \in [0 .. n -> T] /\ f[0] = start
  /\ \A k \in 1 .. n : f[k] = Round[k][f[k - 1]]

\* It can be run to its end.
LEMMA LoopRuns ==
  ASSUME NEW N \in Nat, NEW T, NEW start \in T, NEW Round \in Rounds(N, T)
  PROVE  \E f : LoopUpTo(f, N, T, start, Round)
<1> USE DEF Rounds, LoopUpTo
<1> DEFINE Runs(f, n) == LoopUpTo(f, n, T, start, Round)
           S == {n \in 0 .. N : \E f : Runs(f, n)}
<1>1. 0 \in S
  <2>1. Runs([k \in 0 .. 0 |-> start], 0)
    OBVIOUS
  <2> HIDE DEF Runs
  <2> QED
    BY <2>1
<1>2. ASSUME NEW n \in 0 .. N - 1, n \in S PROVE n + 1 \in S
  <2>1. PICK f : Runs(f, n)
    BY <1>2
  <2> DEFINE g == [k \in 0 .. n + 1 |-> IF k = n + 1 THEN Round[n + 1][f[n]] ELSE f[k]]
  <2>2. Round[n + 1][f[n]] \in T
    BY <2>1
  <2>3. g \in [0 .. n + 1 -> T] /\ g[0] = start
    BY <2>1, <2>2
  <2>4. ASSUME NEW k \in 1 .. n + 1 PROVE g[k] = Round[k][g[k - 1]]
    <3>1. g[k - 1] = f[k - 1]
      OBVIOUS
    <3>2. CASE k = n + 1
      BY <3>1, <3>2
    <3>3. CASE k # n + 1
      BY <2>1, <3>1, <3>3
    <3> QED
      BY <3>2, <3>3
  <2> HIDE DEF g
  <2>5. Runs(g, n + 1)
    BY <2>3, <2>4
  <2> HIDE DEF Runs
  <2> QED
    BY <2>5
<1> HIDE DEF S
<1>3. 0 .. N \subseteq S
  BY <1>1, <1>2, InductionUpTo
<1>4. N \in S
  BY <1>3
<1> QED
  BY <1>4 DEF S

-----------------------------------------------------------------------------
(* The combinations of the mapping.                                        *)

Combo == [simulated : Button, keys : SUBSET Button]

\* The buttons after each of the first n combinations.
AfterUpTo(f, start, n) ==
  /\ f \in [0 .. n -> SUBSET Button] /\ f[0] = start
  /\ \A k \in 1 .. n : f[k] = Combine(f[k - 1], Combos[k])

\* A combination leaves buttons.
LEMMA CombineType ==
  ASSUME NEW B \in SUBSET Button, NEW combo \in Combo
  PROVE  Combine(B, combo) \in SUBSET Button
BY DEF Combine, Combo

\* The list of combinations.
LEMMA CombosType == Len(Combos) \in Nat /\ \A k \in 1 .. Len(Combos) : Combos[k] \in Combo
BY DriverConstantsOK, LenProperties, ElementOfSeq DEF Combo

\* The loop over the combinations can be run to its end.
LEMMA AfterExists ==
  ASSUME NEW start \in SUBSET Button
  PROVE  \E f : AfterUpTo(f, start, Len(Combos))
<1> DEFINE N == Len(Combos)
           Round == [k \in 1 .. N |-> [B \in SUBSET Button |-> Combine(B, Combos[k])]]
<1>1. N \in Nat /\ \A k \in 1 .. N : Combos[k] \in Combo
  BY CombosType
<1> HIDE DEF N
<1>2. Round \in Rounds(N, SUBSET Button)
  BY <1>1, CombineType DEF Rounds
<1>3. \A k \in 1 .. N : \A B \in SUBSET Button : Round[k][B] = Combine(B, Combos[k])
  OBVIOUS
<1> HIDE DEF Round
<1>4. PICK f : LoopUpTo(f, N, SUBSET Button, start, Round)
  BY <1>1, <1>2, LoopRuns
<1>5. ASSUME NEW k \in 1 .. N PROVE f[k] = Combine(f[k - 1], Combos[k])
  <2>1. f[k - 1] \in SUBSET Button
    BY <1>1, <1>4 DEF LoopUpTo
  <2> QED
    BY <1>3, <1>4, <2>1 DEF LoopUpTo
<1> QED
  BY <1>4, <1>5 DEF AfterUpTo, LoopUpTo, N

\* Map is what the loop ends with.
LEMMA MapLoop ==
  ASSUME NEW raw
  PROVE  \E f : AfterUpTo(f, Pressed(raw), Len(Combos)) /\ Map(raw) = f[Len(Combos)]
<1> DEFINE N == Len(Combos)
           Loop(f) == [n \in 0 .. N |->
                         IF n = 0 THEN Pressed(raw) ELSE Combine(f[n - 1], Combos[n])]
           after == CHOOSE f : f = Loop(f)
<1>1. Pressed(raw) \in SUBSET Button
  BY DEF Pressed
<1>2. N \in Nat
  BY DriverConstantsOK, LenProperties
<1>3. PICK f : AfterUpTo(f, Pressed(raw), N)
  BY <1>1, AfterExists
<1>4. f = Loop(f)
  BY <1>2, <1>3 DEF AfterUpTo
<1>5. after = Loop(after)
  <2> HIDE DEF Loop
  <2> QED BY <1>4
<1>6. Map(raw) = after[N]
  BY DEF Map
<1>7. /\ after[0] = Pressed(raw)
      /\ \A k \in 1 .. N : after[k] = Combine(after[k - 1], Combos[k])
      /\ after = [k \in 0 .. N |-> after[k]]
  <2> DEFINE g == after
  <2>1. g = Loop(g)
    BY <1>5
  <2> HIDE DEF g
  <2>2. g[0] = Pressed(raw) /\ g = [k \in 0 .. N |-> g[k]]
    BY <1>2, <2>1
  <2>3. ASSUME NEW k \in 1 .. N PROVE g[k] = Combine(g[k - 1], Combos[k])
    BY <1>2, <2>1
  <2> QED
    BY <2>2, <2>3 DEF g
<1> HIDE DEF after
<1>8. \A k \in 0 .. N : after[k] \in SUBSET Button
  <2> DEFINE S == {n \in 0 .. N : after[n] \in SUBSET Button}
  <2>1. 0 \in S
    BY <1>1, <1>2, <1>7
  <2>2. ASSUME NEW n \in 0 .. N - 1, n \in S PROVE n + 1 \in S
    <3>1. Combos[n + 1] \in Combo /\ after[n] \in SUBSET Button
      BY <1>2, <2>2, CombosType
    <3>2. after[n + 1] = Combine(after[n], Combos[n + 1])
      <4>1. n + 1 \in 1 .. N /\ (n + 1) - 1 = n
        BY <1>2
      <4> QED
        BY <1>7, <4>1
    <3>3. after[n + 1] \in SUBSET Button
      BY <3>1, <3>2, CombineType
    <3> QED
      BY <1>2, <3>3
  <2> HIDE DEF S
  <2>3. 0 .. N \subseteq S
    BY <1>2, <2>1, <2>2, InductionUpTo
  <2> QED
    BY <2>3 DEF S
<1>9. AfterUpTo(after, Pressed(raw), N)
  BY <1>7, <1>8 DEF AfterUpTo
<1> QED
  BY <1>6, <1>9

\* What a pad shows are buttons.
LEMMA MapType == \A raw : Map(raw) \in SUBSET Button
<1> SUFFICES ASSUME NEW raw PROVE Map(raw) \in SUBSET Button
  OBVIOUS
<1>1. PICK f : AfterUpTo(f, Pressed(raw), Len(Combos)) /\ Map(raw) = f[Len(Combos)]
  BY MapLoop
<1>2. Len(Combos) \in Nat
  BY DriverConstantsOK, LenProperties
<1> QED
  BY <1>1, <1>2 DEF AfterUpTo

-----------------------------------------------------------------------------
(* The bindings.                                                           *)

Parsed == [slots : 0 .. 2, pins : SUBSET Pin, axes : SUBSET Axis]

\* What parseBinding has after each of the first n items.
ParsedUpTo(f, items, n) ==
  /\ f \in [0 .. n -> Parsed] /\ f[0] = Unbound
  /\ \A k \in 1 .. n : f[k] = TakesItem(f[k - 1], items[k])

\* An item is taken.
LEMMA TakesItemType ==
  ASSUME NEW bound \in Parsed, NEW item
  PROVE  TakesItem(bound, item) \in Parsed
<1>0. TooLarge \cap Pin = {}
  BY DriverConstantsOK DEF Pin
<1>1. bound = [slots |-> bound.slots, pins |-> bound.pins, axes |-> bound.axes]
  BY DEF Parsed
<1>2. bound.slots \in 0 .. 2 /\ bound.pins \subseteq Pin /\ bound.axes \subseteq Axis
  BY DEF Parsed
<1>3. CASE item \in Pin /\ bound.slots # 2
  <2>1. TakesItem(bound, item) = [slots |-> bound.slots + 1, pins |-> bound.pins \cup {item}, axes |-> bound.axes]
    BY <1>0, <1>1, <1>3 DEF TakesItem
  <2> QED
    BY <1>2, <1>3, <2>1 DEF Parsed
<1>4. CASE (item \in Pin /\ bound.slots = 2) \/ item \in TooLarge
  BY <1>0, <1>4 DEF TakesItem
<1>5. CASE item \notin Pin /\ item \notin TooLarge
  <2>1. TakesItem(bound, item) = [slots |-> bound.slots, pins |-> bound.pins, axes |-> {item} \cap Axis]
    BY <1>1, <1>5 DEF TakesItem
  <2> QED
    BY <1>2, <2>1 DEF Parsed
<1> QED
  BY <1>2, <1>3, <1>4, <1>5

\* parseBinding is what its loop ends with.
LEMMA ParseLoop ==
  ASSUME NEW items \in Seq(STRING)
  PROVE  \E f : ParsedUpTo(f, items, Len(items)) /\ ParseBinding(items) = f[Len(items)]
<1> DEFINE N == Len(items)
           Round == [k \in 1 .. N |-> [bound \in Parsed |-> TakesItem(bound, items[k])]]
           Loop(f) == [n \in 0 .. N |->
                         IF n = 0 THEN Unbound ELSE TakesItem(f[n - 1], items[n])]
           after == CHOOSE f : f = Loop(f)
<1>1. N \in Nat
  BY LenProperties
<1>2. Unbound \in Parsed
  BY DEF Unbound, Parsed
<1>3. \E f : ParsedUpTo(f, items, N)
  <2> HIDE DEF N
  <2>1. Round \in Rounds(N, Parsed)
    BY <1>1, TakesItemType DEF Rounds
  <2>2. \A k \in 1 .. N : \A bound \in Parsed : Round[k][bound] = TakesItem(bound, items[k])
    OBVIOUS
  <2> HIDE DEF Round
  <2>3. PICK f : LoopUpTo(f, N, Parsed, Unbound, Round)
    BY <1>1, <1>2, <2>1, LoopRuns
  <2>4. ASSUME NEW k \in 1 .. N PROVE f[k] = TakesItem(f[k - 1], items[k])
    <3>1. f[k - 1] \in Parsed
      BY <1>1, <2>3 DEF LoopUpTo
    <3> QED
      BY <2>2, <2>3, <3>1 DEF LoopUpTo
  <2> QED
    BY <2>3, <2>4 DEF ParsedUpTo, LoopUpTo
<1>4. PICK f : ParsedUpTo(f, items, N)
  BY <1>3
<1>5. f = Loop(f)
  BY <1>1, <1>4 DEF ParsedUpTo
<1>6. after = Loop(after)
  <2> HIDE DEF Loop
  <2> QED BY <1>5
<1>7. ParseBinding(items) = after[N]
  BY DEF ParseBinding
<1>8. /\ after[0] = Unbound
      /\ \A k \in 1 .. N : after[k] = TakesItem(after[k - 1], items[k])
      /\ after = [k \in 0 .. N |-> after[k]]
  <2> DEFINE g == after
  <2>1. g = Loop(g)
    BY <1>6
  <2> HIDE DEF g
  <2>2. g[0] = Unbound /\ g = [k \in 0 .. N |-> g[k]]
    BY <1>1, <2>1
  <2>3. ASSUME NEW k \in 1 .. N PROVE g[k] = TakesItem(g[k - 1], items[k])
    BY <1>1, <2>1
  <2> QED
    BY <2>2, <2>3 DEF g
<1> HIDE DEF after
<1>9. \A k \in 0 .. N : after[k] \in Parsed
  <2> DEFINE S == {n \in 0 .. N : after[n] \in Parsed}
  <2>1. 0 \in S
    BY <1>1, <1>2, <1>8
  <2>2. ASSUME NEW n \in 0 .. N - 1, n \in S PROVE n + 1 \in S
    <3>1. after[n + 1] = TakesItem(after[n], items[n + 1])
      <4>1. n + 1 \in 1 .. N /\ (n + 1) - 1 = n
        BY <1>1
      <4> QED
        BY <1>8, <4>1
    <3>2. after[n + 1] \in Parsed
      BY <2>2, <3>1, TakesItemType
    <3> QED
      BY <1>1, <3>2
  <2> HIDE DEF S
  <2>3. 0 .. N \subseteq S
    BY <1>1, <2>1, <2>2, InductionUpTo
  <2> QED
    BY <2>3 DEF S
<1>10. ParsedUpTo(after, items, N)
  BY <1>8, <1>9 DEF ParsedUpTo
<1> QED
  BY <1>7, <1>10

\* The pins among the first n items, counted.
PinsUpTo(items, n) == {j \in 1 .. n : items[j] \in Pin}

LEMMA CountPins ==
  ASSUME NEW items, NEW n \in Nat
  PROVE  /\ Cardinality(PinsUpTo(items, n)) \in Nat
         /\ Cardinality(PinsUpTo(items, n + 1)) =
              Cardinality(PinsUpTo(items, n)) + (IF items[n + 1] \in Pin THEN 1 ELSE 0)
         /\ PinsUpTo(items, 0) = {} /\ Cardinality({}) = 0
<1>0. PinsUpTo(items, 0) = {} /\ Cardinality({}) = 0
  BY FS_EmptySet DEF PinsUpTo
<1>1. IsFiniteSet(PinsUpTo(items, n))
  <2>1. IsFiniteSet(1 .. n)
    BY FS_Interval
  <2> QED
    BY <2>1, FS_Subset DEF PinsUpTo
<1>2. Cardinality(PinsUpTo(items, n)) \in Nat
  BY <1>1, FS_CardinalityType
<1>3. CASE items[n + 1] \in Pin
  <2>1. PinsUpTo(items, n + 1) = PinsUpTo(items, n) \cup {n + 1} /\ n + 1 \notin PinsUpTo(items, n)
    BY <1>3 DEF PinsUpTo
  <2>2. Cardinality(PinsUpTo(items, n + 1)) = Cardinality(PinsUpTo(items, n)) + 1
    BY <1>1, <2>1, FS_AddElement
  <2> QED
    BY <1>0, <1>2, <1>3, <2>2
<1>4. CASE items[n + 1] \notin Pin
  <2>1. PinsUpTo(items, n + 1) = PinsUpTo(items, n)
    BY <1>4 DEF PinsUpTo
  <2> QED
    BY <1>0, <1>2, <1>4, <2>1
<1> QED
  BY <1>3, <1>4

\* What n items have bound: the first two pins, and the axis that no later name has replaced.
Means(items, bound, n) ==
  /\ bound.slots = 2 \/ bound.slots = Cardinality(PinsUpTo(items, n))
  /\ bound.slots = 2 => Cardinality(PinsUpTo(items, n)) >= 2
  /\ bound.pins = {items[i] : i \in {j \in PinsUpTo(items, n) : Cardinality(PinsUpTo(items, j)) <= 2}}
  /\ bound.axes = {a \in Axis : \E i \in 1 .. n :
                     items[i] = a /\ \A j \in i + 1 .. n : items[j] \in Pin \cup TooLarge}

LEMMA TakesItemMeans ==
  ASSUME NEW items, NEW n \in Nat, NEW bound \in Parsed, Means(items, bound, n)
  PROVE  Means(items, TakesItem(bound, items[n + 1]), n + 1)
<1> DEFINE item == items[n + 1]
           next == TakesItem(bound, item)
           count(k) == Cardinality(PinsUpTo(items, k))
           early(k) == {j \in PinsUpTo(items, k) : count(j) <= 2}
           axes(k) == {a \in Axis : \E i \in 1 .. k :
                         items[i] = a /\ \A j \in i + 1 .. k : items[j] \in Pin \cup TooLarge}
<1>1. /\ count(n) \in Nat /\ count(n + 1) = count(n) + (IF item \in Pin THEN 1 ELSE 0)
  BY CountPins
<1>2. /\ bound.slots \in 0 .. 2 /\ (bound.slots = 2 => count(n) >= 2)
      /\ bound.slots = 2 \/ bound.slots = count(n)
      /\ bound.pins = {items[i] : i \in early(n)}
      /\ bound.axes = axes(n)
  BY DEF Means, Parsed
<1>3. bound = [slots |-> bound.slots, pins |-> bound.pins, axes |-> bound.axes]
  BY DEF Parsed
<1>4. Pin \cap Axis = {} /\ TooLarge \cap Pin = {} /\ TooLarge \cap Axis = {}
  BY DriverConstantsOK DEF Pin
<1>5. PinsUpTo(items, n + 1) = PinsUpTo(items, n) \cup (IF item \in Pin THEN {n + 1} ELSE {})
  BY DEF PinsUpTo
<1> HIDE DEF count
<1>6. early(n + 1) = early(n) \cup (IF item \in Pin /\ count(n + 1) <= 2 THEN {n + 1} ELSE {})
  BY <1>5
<1>7. item \in Pin \cup TooLarge => axes(n + 1) = axes(n)
  <2> SUFFICES ASSUME item \in Pin \cup TooLarge, NEW a \in Axis
               PROVE  a \in axes(n + 1) <=> a \in axes(n)
    OBVIOUS
  <2>1. ASSUME a \in axes(n + 1) PROVE a \in axes(n)
    <3>1. PICK i \in 1 .. n + 1 :
            items[i] = a /\ \A j \in i + 1 .. n + 1 : items[j] \in Pin \cup TooLarge
      BY <2>1
    <3>2. i # n + 1
      BY <3>1, <1>4
    <3> QED
      BY <3>1, <3>2
  <2>2. ASSUME a \in axes(n) PROVE a \in axes(n + 1)
    <3>1. PICK i \in 1 .. n :
            items[i] = a /\ \A j \in i + 1 .. n : items[j] \in Pin \cup TooLarge
      BY <2>2
    <3>2. \A j \in i + 1 .. n + 1 : items[j] \in Pin \cup TooLarge
      BY <3>1
    <3> QED
      BY <3>1, <3>2
  <2> QED
    BY <2>1, <2>2
<1>8. item \notin Pin \cup TooLarge => axes(n + 1) = {item} \cap Axis
  <2> SUFFICES ASSUME item \notin Pin \cup TooLarge, NEW a \in Axis
               PROVE  a \in axes(n + 1) <=> a = item
    OBVIOUS
  <2>1. ASSUME a \in axes(n + 1) PROVE a = item
    <3>1. PICK i \in 1 .. n + 1 :
            items[i] = a /\ \A j \in i + 1 .. n + 1 : items[j] \in Pin \cup TooLarge
      BY <2>1
    <3>2. ~ (i <= n)
      BY <3>1
    <3> QED
      BY <3>1, <3>2
  <2>2. a = item => a \in axes(n + 1)
    OBVIOUS
  <2> QED
    BY <2>1, <2>2
<1>9. /\ next.slots = 2 \/ next.slots = count(n + 1)
      /\ next.slots = 2 => count(n + 1) >= 2
  <2>1. CASE item \in Pin /\ bound.slots # 2
    <3>1. next.slots = bound.slots + 1
      BY <1>3, <1>4, <2>1 DEF TakesItem
    <3> QED
      BY <1>1, <1>2, <2>1, <3>1
  <2>2. CASE ~ (item \in Pin /\ bound.slots # 2)
    <3>1. next.slots = bound.slots
      BY <1>3, <1>4, <2>2 DEF TakesItem
    <3> HIDE DEF next
    <3> QED
      BY <1>1, <1>2, <2>2, <3>1
  <2> QED
    BY <2>1, <2>2
<1>10. next.pins = {items[i] : i \in early(n + 1)}
  <2> HIDE DEF early
  <2>1. CASE item \in Pin /\ bound.slots # 2
    <3>1. next.pins = bound.pins \cup {item}
      BY <1>3, <1>4, <2>1 DEF TakesItem
    <3>2. count(n + 1) <= 2
      BY <1>1, <1>2, <2>1
    <3> QED
      BY <1>2, <1>6, <2>1, <3>1, <3>2
  <2>2. CASE ~ (item \in Pin /\ bound.slots # 2)
    <3>1. next.pins = bound.pins
      BY <1>3, <1>4, <2>2 DEF TakesItem
    <3>2. ~ (item \in Pin /\ count(n + 1) <= 2)
      BY <1>1, <1>2, <2>2
    <3> QED
      BY <1>2, <1>6, <3>1, <3>2
  <2> QED
    BY <2>1, <2>2
<1>11. next.axes = axes(n + 1)
  <2> HIDE DEF axes
  <2> QED
    BY <1>2, <1>3, <1>4, <1>7, <1>8 DEF TakesItem
<1> QED
  BY <1>9, <1>10, <1>11 DEF Means, count

\* parseBinding binds what config.ini says that the items mean, for any items: of the pins the
\* first two, of the axes the last, unless an item behind it is neither axis nor number.
THEOREM BoundIsMeant ==
  ASSUME NEW items \in Seq(STRING), NEW r \in Raw
  PROVE  r \in Bound(items) <=> MeansRaw(items, r)
<1> DEFINE N == Len(items)
<1>1. N \in Nat /\ DOMAIN items = 1 .. N
  BY LenProperties
<1>2. PICK f : ParsedUpTo(f, items, N) /\ ParseBinding(items) = f[N]
  BY ParseLoop
<1> HIDE DEF N
<1> DEFINE S == {n \in 0 .. N : Means(items, f[n], n)}
<1>3. 0 \in S
  <2>1. PinsUpTo(items, 0) = {} /\ Cardinality({}) = 0
    BY CountPins
  <2>2. f[0] = Unbound
    BY <1>2 DEF ParsedUpTo
  <2>3. Means(items, Unbound, 0)
    <3>1. Unbound.slots = 0 /\ Unbound.pins = {} /\ Unbound.axes = {}
      BY DEF Unbound
    <3>2. \A i \in 1 .. 0 : FALSE
      OBVIOUS
    <3>3. {a \in Axis : \E i \in 1 .. 0 :
             items[i] = a /\ \A j \in i + 1 .. 0 : items[j] \in Pin \cup TooLarge} = {}
      BY <3>2, Zenon
    <3>4. {items[i] : i \in {j \in PinsUpTo(items, 0) : Cardinality(PinsUpTo(items, j)) <= 2}} = {}
      BY <2>1
    <3>5. Unbound.slots = Cardinality(PinsUpTo(items, 0)) /\ Unbound.slots # 2
      <4>1. 0 # 2
        OBVIOUS
      <4> QED
        BY <2>1, <3>1, <4>1, Zenon
    <3>6. Unbound.pins =
            {items[i] : i \in {j \in PinsUpTo(items, 0) : Cardinality(PinsUpTo(items, j)) <= 2}}
      BY <3>1, <3>4, Zenon
    <3>7. Unbound.axes =
            {a \in Axis : \E i \in 1 .. 0 :
               items[i] = a /\ \A j \in i + 1 .. 0 : items[j] \in Pin \cup TooLarge}
      BY <3>1, <3>3, Zenon
    <3> QED
      BY <3>5, <3>6, <3>7, Zenon DEF Means
  <2> QED
    BY <1>1, <2>2, <2>3
<1>4. ASSUME NEW n \in 0 .. N - 1, n \in S PROVE n + 1 \in S
  <2>1. f[n] \in Parsed /\ f[n + 1] = TakesItem(f[n], items[n + 1])
    BY <1>1, <1>2 DEF ParsedUpTo
  <2>2. Means(items, f[n + 1], n + 1)
    BY <1>4, <2>1, TakesItemMeans
  <2> QED
    BY <1>1, <2>2
<1> HIDE DEF S
<1>5. 0 .. N \subseteq S
  BY <1>1, <1>3, <1>4, InductionUpTo
<1>6. Means(items, ParseBinding(items), N)
  BY <1>1, <1>2, <1>5 DEF S
<1>7. CASE r \in Pin
  <2>1. r \in Bound(items) <=> r \in ParseBinding(items).pins
    BY <1>6, <1>7 DEF Bound, Means, Pin
  <2>2. r \in ParseBinding(items).pins <=>
          \E i \in 1 .. N : items[i] = r /\ Cardinality(PinsUpTo(items, i)) <= 2
    <3>1. ParseBinding(items).pins =
            {items[i] : i \in {j \in PinsUpTo(items, N) : Cardinality(PinsUpTo(items, j)) <= 2}}
      BY <1>6 DEF Means
    <3>2. \A i : i \in PinsUpTo(items, N) <=> i \in 1 .. N /\ items[i] \in Pin
      BY DEF PinsUpTo
    <3> QED
      BY <1>7, <3>1, <3>2
  <2> QED
    BY <1>1, <1>7, <2>1, <2>2 DEF MeansRaw, PinsUpTo, Pin
<1>8. CASE r \in Axis
  <2>1. ParseBinding(items).pins \subseteq Pin
    BY <1>6 DEF Means, PinsUpTo
  <2>2. r \in Bound(items) <=> r \in ParseBinding(items).axes
    BY <1>8, <2>1 DEF Bound, Pin
  <2> QED
    BY <1>1, <1>6, <1>8, <2>2 DEF MeansRaw, Means, Pin, N
<1> QED
  BY <1>7, <1>8 DEF Pin

\* A button is pressed when a raw input is held that its setting means.
LEMMA BindingsAreRead == \A raw \in SUBSET Raw : Pressed(raw) = Held(raw)
<1> SUFFICES ASSUME NEW raw \in SUBSET Raw, NEW b \in Button
             PROVE  Bound(Binding[b]) \cap raw # {} <=> \E r \in raw : MeansRaw(Binding[b], r)
  BY DEF Pressed, Held, Config
<1>1. Binding[b] \in Seq(STRING)
  BY DriverConstantsOK
<1>2. \A r \in raw : r \in Bound(Binding[b]) <=> MeansRaw(Binding[b], r)
  BY <1>1, BoundIsMeant
<1> QED
  BY <1>2

-----------------------------------------------------------------------------
(* The mapping gives what the combinations mean.                           *)

\* F is made of the combinations among the first n that count.
CountsUpTo(F, raw, n) ==
  /\ F \subseteq 1 .. n
  /\ \A i \in 1 .. n :
       i \in F <=> /\ Combos[i].keys \subseteq Held(raw)
                   /\ \A j \in F : j < i => Combos[j].keys \cap Combos[i].keys = {}

\* There is such a set.
LEMMA CountingExists ==
  ASSUME NEW raw
  PROVE  \A n \in Nat : \E F : CountsUpTo(F, raw, n)
<1> DEFINE S == {n \in Nat : \E F : CountsUpTo(F, raw, n)}
<1>1. 0 \in S
  <2>1. CountsUpTo({}, raw, 0)
    BY DEF CountsUpTo
  <2> QED
    BY <2>1
<1>2. ASSUME NEW n \in Nat, n \in S PROVE n + 1 \in S
  <2>1. PICK F : CountsUpTo(F, raw, n)
    BY <1>2
  <2> DEFINE counts == /\ Combos[n + 1].keys \subseteq Held(raw)
                       /\ \A j \in F : Combos[j].keys \cap Combos[n + 1].keys = {}
             G == IF counts THEN F \cup {n + 1} ELSE F
  <2>2. F \subseteq 1 .. n /\ G \subseteq 1 .. n + 1 /\ \A i \in 1 .. n : i \in G <=> i \in F
    <3>1. F \subseteq 1 .. n
      BY <2>1 DEF CountsUpTo
    <3> HIDE DEF counts
    <3> QED
      BY <3>1
  <2>3. n + 1 \in G <=> counts
    BY <2>2
  <2> HIDE DEF G
  <2>4. ASSUME NEW i \in 1 .. n + 1
        PROVE  i \in G <=> /\ Combos[i].keys \subseteq Held(raw)
                           /\ \A j \in G : j < i => Combos[j].keys \cap Combos[i].keys = {}
    <3>1. CASE i = n + 1
      <4>1. \A j \in G : j < i <=> j \in F
        BY <2>2, <3>1
      <4>2. \A j \in F : j \in G
        BY <2>2
      <4> QED
        BY <2>3, <3>1, <4>1, <4>2
    <3>2. CASE i \in 1 .. n
      <4>1. \A j \in G : j < i => j \in F
        BY <2>2, <3>2
      <4>2. \A j \in F : j \in G
        BY <2>2
      <4>3. i \in F <=> /\ Combos[i].keys \subseteq Held(raw)
                        /\ \A j \in F : j < i => Combos[j].keys \cap Combos[i].keys = {}
        BY <2>1, <3>2 DEF CountsUpTo
      <4> QED
        BY <2>2, <3>2, <4>1, <4>2, <4>3
    <3> QED
      BY <3>1, <3>2
  <2>5. CountsUpTo(G, raw, n + 1)
    BY <2>2, <2>4 DEF CountsUpTo
  <2> QED
    BY <2>5
<1> HIDE DEF S
<1>3. Nat \subseteq S
  BY <1>1, <1>2, SetInduction
<1> QED
  BY <1>3 DEF S

\* So that Counting is one.
LEMMA CountingCounts ==
  ASSUME NEW raw
  PROVE  CountsUpTo(Counting(raw), raw, Len(Combos))
<1>1. Len(Combos) \in Nat /\ DOMAIN Combos = 1 .. Len(Combos)
  BY DriverConstantsOK, LenProperties
<1>2. PICK F : CountsUpTo(F, raw, Len(Combos))
  BY <1>1, CountingExists
<1>3. \E G \in SUBSET DOMAIN Combos : \A i \in DOMAIN Combos :
        i \in G <=> /\ Combos[i].keys \subseteq Held(raw)
                    /\ \A j \in G : j < i => Combos[j].keys \cap Combos[i].keys = {}
  BY <1>1, <1>2 DEF CountsUpTo
<1> QED
  BY <1>1, <1>3 DEF Counting, CountsUpTo

\* MapRawInputToNormalized, which takes the combinations one after the other out of the buttons
\* that are left, shows the buttons that are meant, for any combinations that simulate no key of
\* their own or of a later one.
THEOREM MapIsMeant ==
  ASSUME NoKeySimulated, NEW raw \in SUBSET Raw
  PROVE  Map(raw) = Meant(raw)
<1> DEFINE N == Len(Combos)
           F == Counting(raw)
           keys(n) == UNION {Combos[i].keys : i \in F \cap 1 .. n}
           simulated(n) == {Combos[i].simulated : i \in F \cap 1 .. n}
<1>1. N \in Nat /\ DOMAIN Combos = 1 .. N
  BY DriverConstantsOK, LenProperties
<1>2. PICK f : AfterUpTo(f, Held(raw), N) /\ Map(raw) = f[N]
  BY MapLoop, BindingsAreRead
<1>3. CountsUpTo(F, raw, N)
  BY CountingCounts
<1> HIDE DEF N, F
<1> DEFINE S == {n \in Nat : n <= N => f[n] = (Held(raw) \ keys(n)) \cup simulated(n)}
<1>4. 0 \in S
  BY <1>2 DEF AfterUpTo
<1>5. ASSUME NEW n \in Nat, n \in S PROVE n + 1 \in S
  <2>1. SUFFICES ASSUME n + 1 <= N
                 PROVE  f[n + 1] = (Held(raw) \ keys(n + 1)) \cup simulated(n + 1)
    OBVIOUS
  <2> DEFINE combo == Combos[n + 1]
  <2>2. f[n] = (Held(raw) \ keys(n)) \cup simulated(n)
    BY <1>1, <1>5, <2>1
  <2>3. f[n + 1] = Combine(f[n], combo)
    BY <1>1, <1>2, <2>1 DEF AfterUpTo
  <2>4. \A i \in 1 .. n + 1 : Combos[i].simulated \notin combo.keys
    BY <1>1, <2>1 DEF NoKeySimulated
  <2>5. simulated(n) \cap combo.keys = {}
    BY <2>4
  <2>6. combo.keys \subseteq f[n] <=> n + 1 \in F
    <3>1. combo.keys \subseteq f[n] <=> combo.keys \subseteq Held(raw) \ keys(n)
      BY <2>2, <2>5
    <3>2. n + 1 \in F <=> /\ combo.keys \subseteq Held(raw)
                          /\ \A j \in F : j < n + 1 => Combos[j].keys \cap combo.keys = {}
      BY <1>1, <1>3, <2>1 DEF CountsUpTo
    <3>3. \A j \in F : j < n + 1 <=> j \in F \cap 1 .. n
      BY <1>1, <1>3 DEF CountsUpTo
    <3>4. combo.keys \cap keys(n) = {} <=> \A j \in F \cap 1 .. n : Combos[j].keys \cap combo.keys = {}
      OBVIOUS
    <3> QED
      BY <3>1, <3>2, <3>3, <3>4
  <2>7. CASE n + 1 \in F
    <3>1. F \cap 1 .. n + 1 = (F \cap 1 .. n) \cup {n + 1}
      BY <2>7
    <3>2. keys(n + 1) = keys(n) \cup combo.keys /\ simulated(n + 1) = simulated(n) \cup {combo.simulated}
      BY <3>1
    <3>3. f[n + 1] = (f[n] \cup {combo.simulated}) \ combo.keys
      BY <2>3, <2>6, <2>7 DEF Combine
    <3>4. combo.simulated \notin combo.keys
      BY <2>4
    <3> QED
      BY <2>2, <2>5, <3>2, <3>3, <3>4
  <2>8. CASE n + 1 \notin F
    <3>1. F \cap 1 .. n + 1 = F \cap 1 .. n
      BY <2>8
    <3>2. f[n + 1] = f[n]
      BY <2>3, <2>6, <2>8 DEF Combine
    <3> QED
      BY <2>2, <3>1, <3>2
  <2> QED
    BY <2>7, <2>8
<1> HIDE DEF S
<1>6. Nat \subseteq S
  BY <1>4, <1>5, SetInduction
<1>7. f[N] = (Held(raw) \ keys(N)) \cup simulated(N)
  BY <1>1, <1>6 DEF S
<1>8. F \cap 1 .. N = F
  BY <1>3 DEF CountsUpTo
<1>9. Meant(raw) = (Held(raw) \ UNION {Combos[i].keys : i \in F}) \cup {Combos[i].simulated : i \in F}
  BY DEF Meant, F
<1> QED
  BY <1>2, <1>7, <1>8, <1>9

-----------------------------------------------------------------------------
(* What a step does to the packets.                                        *)

PacketSet == [kind : {"input", "key", "other"}, port : Port, state : [Port -> State], seq : 0 .. MaxSent]

\* The type invariant, in the form that a step keeps.
TypeInv ==
  /\ driver \in Driver /\ outPipe \in BOOLEAN
  /\ device \in [Port -> State]
  /\ queue \in Seq(PacketSet)
  /\ sent \in 0 .. MaxSent /\ Len(queue) <= sent
  /\ seq \in 0 .. sent /\ unacked \in {0, seq}
  /\ step \in 0 .. InitPackets /\ pc \in {"init", "run", "failed"}
  /\ rawInput \in SUBSET Raw /\ buffer \in PacketSet /\ index \in Port
  /\ shown \in [Port -> {Unplugged} \cup SUBSET Button]
  /\ newest \in PacketSet

\* No port of an Xbox One controller can be unplugged.
PluggedIn ==
  driver = "xboxone" =>
    /\ device[0] \in SUBSET Raw
    /\ \A i \in 1 .. Len(queue) : queue[i].state[0] \in SUBSET Raw

\* The constants, and what is said of them.
LEMMA Constants ==
  /\ Ports \in Nat \ {0} /\ MaxSent \in Nat /\ InitPackets \in Nat
  /\ 0 \in Port /\ Port \subseteq Nat
  /\ Mode \in Raw /\ Unplugged \notin SUBSET Raw
  /\ {} \in State /\ Unplugged \in State /\ SUBSET Raw \subseteq State
<1>1. "unplugged" \notin Raw
  BY DriverConstantsOK
<1> QED
  BY <1>1, DriverConstantsOK DEF Port, Unplugged, State

\* A packet.
LEMMA PacketType ==
  ASSUME NEW kind \in {"input", "key", "other"}, NEW port \in Port,
         NEW state \in [Port -> State], NEW n \in 0 .. MaxSent
  PROVE  /\ Packet(kind, port, state, n) \in PacketSet
         /\ Packet(kind, port, state, n).kind = kind /\ Packet(kind, port, state, n).port = port
         /\ Packet(kind, port, state, n).state = state /\ Packet(kind, port, state, n).seq = n
BY DEF Packet, PacketSet

LEMMA NothingType == Nothing \in PacketSet /\ Nothing.kind = "other" /\ Nothing.port = 0
<1> DEFINE state == [p \in Port |-> {}]
<1>1. state \in [Port -> State] /\ 0 \in 0 .. MaxSent /\ 0 \in Port
  BY Constants
<1>2. Nothing = Packet("other", 0, state, 0)
  BY DEF Nothing
<1> HIDE DEF state
<1> QED
  BY <1>1, <1>2, PacketType

\* What the device adds to the queue, and how its own state goes with it.
Reports(p) ==
  /\ p \in PacketSet /\ device' \in [Port -> State]
  /\ driver = "xboxone" => p.state[0] \in SUBSET Raw /\ device'[0] \in SUBSET Raw
  /\ driver \notin {"wii", "hid"} => p.port = 0
  /\ \/ /\ p.kind = "input" /\ p.state = device'
        /\ UNCHANGED <<seq, unacked>>
        /\ driver = "xboxone" => (Mode \in device'[0] <=> Mode \in device[0])
     \/ /\ driver = "xboxone" /\ p.kind = "key" /\ p.state = device'
        /\ p.seq = seq + 1 /\ seq' = seq + 1 /\ unacked' = seq + 1
     \/ /\ unacked # 0 /\ p.kind = "key" /\ p.state = device /\ p.seq = unacked
        /\ UNCHANGED <<device, seq, unacked>>
     \/ /\ p.kind = "other"
        /\ UNCHANGED <<device, seq, unacked>>

LEMMA DeviceReports ==
  ASSUME TypeInv, PluggedIn, unacked # 0 => driver = "xboxone", Device
  PROVE  \E p : Reports(p) /\ Sends(p)
<1>0. 0 \in Port /\ 0 \in 0 .. MaxSent /\ seq \in Nat /\ unacked \in Nat
  BY Constants DEF TypeInv
<1>1. CASE ModeKey
  <2> DEFINE p == Packet("key", 0, device', seq + 1)
  <2>1. driver = "xboxone" /\ Sends(p) /\ seq' = seq + 1 /\ unacked' = seq + 1
    BY <1>1 DEF ModeKey
  <2>2. device' = [device EXCEPT ![0] = Toggled(device[0], Mode)]
    BY <1>1 DEF ModeKey
  <2>3. Toggled(device[0], Mode) \in SUBSET Raw
    BY <2>1, Constants DEF PluggedIn, Toggled
  <2>4. device' \in [Port -> State] /\ device'[0] \in SUBSET Raw
    BY <1>0, <2>2, <2>3, Constants DEF TypeInv
  <2>5. seq + 1 \in 0 .. MaxSent
    BY <2>1, Constants DEF TypeInv, Sends
  <2>6. /\ p \in PacketSet /\ p.kind = "key" /\ p.port = 0
        /\ p.state = device' /\ p.seq = seq + 1
    BY <1>0, <2>4, <2>5, PacketType
  <2> HIDE DEF p
  <2>7. Reports(p)
    BY <2>1, <2>4, <2>6 DEF Reports
  <2> QED
    BY <2>1, <2>7
<1>2. CASE KeyAgain
  <2> DEFINE p == Packet("key", 0, device, unacked)
  <2>1. unacked # 0 /\ Sends(p) /\ UNCHANGED <<device, seq, unacked>>
    BY <1>2 DEF KeyAgain
  <2>2. unacked \in 0 .. MaxSent /\ device \in [Port -> State]
    BY Constants DEF TypeInv
  <2>3. /\ p \in PacketSet /\ p.kind = "key" /\ p.port = 0
        /\ p.state = device /\ p.seq = unacked
    BY <1>0, <2>2, PacketType
  <2> HIDE DEF p
  <2>4. Reports(p)
    BY <2>1, <2>2, <2>3 DEF Reports, PluggedIn
  <2> QED
    BY <2>1, <2>4
<1>3. CASE SendsOther
  <2>1. Sends(Nothing) /\ UNCHANGED <<device, seq, unacked>>
    BY <1>3 DEF SendsOther
  <2>2. Nothing.state[0] \in SUBSET Raw
    BY <1>0 DEF Nothing, Packet
  <2>3. Reports(Nothing)
    BY <2>1, <2>2, NothingType DEF Reports, TypeInv, PluggedIn
  <2> QED
    BY <2>1, <2>3
<1>4. ASSUME NEW k \in Port, PlugsOrUnplugs(k) PROVE \E p : Reports(p) /\ Sends(p)
  <2> DEFINE p == Packet("input", k, device', 0)
  <2>1. driver = "wii" /\ Sends(p) /\ UNCHANGED <<seq, unacked>>
    BY <1>4 DEF PlugsOrUnplugs, HasPorts
  <2>2. device' = [device EXCEPT ![k] = IF device[k] = Unplugged THEN {} ELSE Unplugged]
    BY <1>4 DEF PlugsOrUnplugs
  <2>3. device' \in [Port -> State]
    BY <2>2, Constants DEF TypeInv
  <2>4. p \in PacketSet /\ p.kind = "input" /\ p.state = device'
    BY <1>0, <2>3, PacketType
  <2> HIDE DEF p
  <2>5. Reports(p)
    BY <2>1, <2>3, <2>4 DEF Reports
  <2> QED
    BY <2>1, <2>5
<1>5. ASSUME NEW k \in Port, NEW r \in Raw, Moves(k, r) PROVE \E p : Reports(p) /\ Sends(p)
  <2> DEFINE p == Packet("input", k, device', 0)
  <2>1. /\ device[k] # Unplugged /\ r # Mode /\ (k # 0 => driver \in {"wii", "hid"})
        /\ Sends(p) /\ UNCHANGED <<seq, unacked>>
        /\ device' = [device EXCEPT ![k] = Toggled(device[k], r)]
    BY <1>5 DEF Moves
  <2>2. Toggled(device[k], r) \in SUBSET Raw
    BY <2>1 DEF TypeInv, State, Toggled
  <2>3. device' \in [Port -> State]
    BY <2>1, <2>2, Constants DEF TypeInv
  <2>4. /\ p \in PacketSet /\ p.kind = "input" /\ p.port = k /\ p.state = device'
    BY <1>0, <2>3, PacketType
  <2>5. driver = "xboxone" => device'[0] \in SUBSET Raw /\ (Mode \in device'[0] <=> Mode \in device[0])
    <3>1. SUFFICES ASSUME driver = "xboxone"
                   PROVE  device'[0] \in SUBSET Raw /\ (Mode \in device'[0] <=> Mode \in device[0])
      OBVIOUS
    <3>2. k = 0 /\ device'[0] = Toggled(device[0], r)
      BY <1>0, <2>1, <3>1 DEF TypeInv
    <3> QED
      BY <2>1, <2>2, <3>2 DEF Toggled
  <2> HIDE DEF p
  <2>6. Reports(p)
    BY <2>1, <2>3, <2>4, <2>5 DEF Reports
  <2> QED
    BY <2>1, <2>6
<1> QED
  BY <1>1, <1>2, <1>3, <1>4, <1>5 DEF Device

\* The first n packets leave the queue.
Drops(n) ==
  /\ n \in 0 .. Len(queue)
  /\ queue' \in Seq(PacketSet) /\ Len(queue') = Len(queue) - n
  /\ \A i \in 1 .. Len(queue') : queue'[i] = queue[i + n]

LEMMA QueueDrops ==
  ASSUME queue \in Seq(PacketSet)
  PROVE  /\ UNCHANGED queue => Drops(0)
         /\ queue # <<>> /\ queue' = Tail(queue) => Drops(1) /\ Len(queue) >= 1
         /\ \A n \in 1 .. Len(queue) : queue' = SubSeq(queue, n + 1, Len(queue)) => Drops(n)
<1>1. Len(queue) \in Nat
  BY LenProperties
<1>2. UNCHANGED queue => Drops(0)
  BY <1>1 DEF Drops
<1>3. ASSUME queue # <<>>, queue' = Tail(queue) PROVE Drops(1) /\ Len(queue) >= 1
  <2>1. /\ queue' \in Seq(PacketSet) /\ Len(queue') = Len(queue) - 1
        /\ \A i \in 1 .. Len(queue') : queue'[i] = queue[i + 1]
    BY <1>3, HeadTailProperties
  <2>2. Len(queue) >= 1
    BY <1>1, <1>3, EmptySeq
  <2> QED
    BY <1>1, <2>1, <2>2 DEF Drops
<1>4. ASSUME NEW n \in 1 .. Len(queue), queue' = SubSeq(queue, n + 1, Len(queue)) PROVE Drops(n)
  <2>1. \A i \in n + 1 .. Len(queue) : queue[i] \in PacketSet
    BY <1>1, ElementOfSeq
  <2>2. /\ queue' \in Seq(PacketSet)
        /\ Len(queue') = Len(queue) - n
        /\ \A i \in 1 .. Len(queue') : queue'[i] = queue[i + n]
    BY <1>1, <1>4, <2>1, SubSeqProperties
  <2> QED
    BY <1>1, <2>2 DEF Drops
<1> QED
  BY <1>2, <1>3, <1>4

\* A packet joins it.
LEMMA QueueGrows ==
  ASSUME queue \in Seq(PacketSet), NEW p \in PacketSet, queue' = Append(queue, p)
  PROVE  /\ queue' \in Seq(PacketSet) /\ Len(queue') = Len(queue) + 1 /\ Len(queue) \in Nat
         /\ \A i \in 1 .. Len(queue) : queue'[i] = queue[i]
         /\ queue'[Len(queue) + 1] = p
BY AppendProperties, LenProperties

\* Initialize, as far as the packets go.
Initializes ==
  /\ pc = "init" /\ UNCHANGED <<driver, outPipe, device, sent, seq, unacked, local>>
  /\ step' \in 0 .. InitPackets /\ pc' \in {"init", "run", "failed"}
  /\ \/ UNCHANGED <<queue, newest>>
     \/ /\ Drops(1) /\ Len(queue) >= 1
        /\ newest' = IF Len(queue) = 1 THEN Nothing ELSE newest

LEMMA InitializeShape ==
  ASSUME TypeInv, Initialize
  PROVE  Initializes
<1>0. step \in 0 .. InitPackets /\ InitPackets \in Nat /\ pc \in {"init", "run", "failed"}
  BY Constants DEF TypeInv
<1>1. ReadsAway => \/ UNCHANGED <<queue, newest>>
                   \/ /\ Drops(1) /\ Len(queue) >= 1
                      /\ newest' = IF Len(queue) = 1 THEN Nothing ELSE newest
  BY QueueDrops DEF ReadsAway, TypeInv
<1>2. /\ Starts => step' \in 0 .. InitPackets /\ pc' \in {"init", "run", "failed"}
      /\ InitFails => step' \in 0 .. InitPackets /\ pc' \in {"init", "run", "failed"}
      /\ UNCHANGED <<step, pc>> => step' \in 0 .. InitPackets /\ pc' \in {"init", "run", "failed"}
  BY <1>0 DEF Starts, InitFails
<1>3. \A d : Initializing(d) =>
        pc = "init" /\ UNCHANGED <<driver, outPipe, device, sent, seq, unacked, local>>
  BY DEF Initializing
<1>4. CASE InitializesXbox \/ InitializesXbox360 \/ InitializesWii
  BY <1>2, <1>3, <1>4 DEF InitializesXbox, InitializesXbox360, InitializesWii, Initializes
<1>5. CASE InitializesDualshock3 \/ InitializesHid \/ NoOutPipe \/ InitBytesFail
  BY <1>2, <1>3, <1>5 DEF InitializesDualshock3, InitializesHid, NoOutPipe, InitBytesFail, Initializes
<1>6. CASE FlushesSwitch \/ InitializesSwitch
  BY <1>1, <1>2, <1>3, <1>6 DEF FlushesSwitch, InitializesSwitch, Initializes
<1>7. CASE SendsInitBytes
  <2>1. pc = "init" /\ UNCHANGED <<driver, outPipe, device, sent, seq, unacked, local>>
    BY <1>3, <1>7 DEF SendsInitBytes
  <2>2. CASE step = InitPackets
    BY <1>2, <1>7, <2>1, <2>2 DEF SendsInitBytes, Initializes
  <2>3. CASE step # InitPackets
    <3>1. step' = step + 1 /\ ReadsAway /\ UNCHANGED pc
      BY <1>7, <2>3 DEF SendsInitBytes
    <3>2. step' \in 0 .. InitPackets /\ pc' \in {"init", "run", "failed"}
      BY <1>0, <2>3, <3>1
    <3> QED
      BY <1>1, <2>1, <3>1, <3>2 DEF Initializes
  <2> QED
    BY <2>2, <2>3
<1> QED
  BY <1>4, <1>5, <1>6, <1>7 DEF Initialize

\* A drain takes the first n packets and parses the last of them.
LEMMA ReceivesShape ==
  ASSUME TypeInv, NEW n, Receives(n)
  PROVE  /\ n \in 1 .. Len(queue) /\ queue[n] \in PacketSet /\ Drops(n)
         /\ pc = "run" /\ (driver = "wii" => index = 0) /\ ParseData(queue[n])
         /\ UNCHANGED <<driver, outPipe, device, sent, seq, newest, step, pc>>
<1>1. n \in 1 .. Len(queue)
  BY LenProperties DEF Receives, TypeInv
<1>2. queue[n] \in PacketSet
  BY <1>1, ElementOfSeq DEF TypeInv
<1>3. Drops(n)
  BY <1>1, QueueDrops DEF Receives, TypeInv
<1> QED
  BY <1>1, <1>2, <1>3 DEF Receives

-----------------------------------------------------------------------------
(* Types.                                                                  *)

\* What is shown of a raw state.
Displayed(raw) == IF raw = Unplugged THEN Unplugged ELSE Map(raw)

LEMMA ShowType ==
  ASSUME TypeInv, NEW p \in Port, NEW raw, Show(p, raw)
  PROVE  /\ shown' \in [Port -> {Unplugged} \cup SUBSET Button]
         /\ shown' = [shown EXCEPT ![p] = Displayed(raw)]
         /\ shown'[p] = Displayed(raw) /\ \A q \in Port \ {p} : shown'[q] = shown[q]
<1>1. Displayed(raw) \in {Unplugged} \cup SUBSET Button
  BY MapType DEF Displayed
<1>2. shown' = [shown EXCEPT ![p] = Displayed(raw)]
  BY DEF Show, Displayed
<1> QED
  BY <1>1, <1>2 DEF TypeInv

LocalOK ==
  /\ rawInput' \in SUBSET Raw /\ buffer' \in PacketSet /\ index' \in Port
  /\ shown' \in [Port -> {Unplugged} \cup SUBSET Button]
  /\ unacked' \in {0, seq}

LEMMA ParsedType ==
  ASSUME TypeInv, NEW packet \in PacketSet, ParseData(packet),
         driver = "xboxone" => packet.state[0] \in SUBSET Raw
  PROVE  LocalOK
<1>0. /\ rawInput \in SUBSET Raw /\ buffer \in PacketSet /\ index \in Port
      /\ shown \in [Port -> {Unplugged} \cup SUBSET Button] /\ unacked \in {0, seq}
      /\ 0 \in Port /\ packet.port \in Port
  BY Constants DEF TypeInv, PacketSet
<1>1. Unparsed => LocalOK
  BY <1>0 DEF Unparsed, local, LocalOK
<1>2. ASSUME NEW p \in Port, ShowsInput(packet, p) PROVE LocalOK
  BY <1>0, <1>1, <1>2, ShowType DEF ShowsInput, LocalOK
<1>3. Acks(packet) => unacked' \in {0, seq}
  BY <1>0 DEF Acks
<1>4. CASE driver = "xboxone" /\ ParsesXboxOne(packet)
  <2>1. packet.state[0] \in SUBSET Raw /\ Mode \in Raw
    BY <1>4, Constants
  <2>2. CASE TakesInput(packet)
    <3>1. rawInput' \in SUBSET Raw /\ UNCHANGED <<unacked, buffer, index>>
      BY <1>0, <2>1, <2>2 DEF TakesInput
    <3>2. Show(0, rawInput')
      BY <2>2 DEF TakesInput
    <3> QED
      BY <1>0, <3>1, <3>2, ShowType DEF LocalOK
  <2>3. CASE TakesKey(packet)
    <3>1. rawInput' \in SUBSET Raw /\ UNCHANGED <<buffer, index>>
      BY <1>0, <2>1, <2>3 DEF TakesKey
    <3>2. Show(0, rawInput') /\ unacked' \in {0, seq}
      BY <1>0, <1>3, <2>3 DEF TakesKey
    <3> QED
      BY <1>0, <3>1, <3>2, ShowType DEF LocalOK
  <2>4. CASE AckFails(packet)
    <3>1. rawInput' \in SUBSET Raw /\ UNCHANGED <<buffer, index, shown>>
      BY <1>0, <2>1, <2>4 DEF AckFails
    <3>2. unacked' \in {0, seq}
      BY <1>0, <1>3, <2>4 DEF AckFails
    <3> QED
      BY <1>0, <3>1, <3>2 DEF LocalOK
  <2> QED
    BY <1>1, <1>4, <2>2, <2>3, <2>4 DEF ParsesXboxOne
<1>5. CASE ParsesWii(packet)
  <2>1. buffer' \in PacketSet /\ UNCHANGED <<rawInput, unacked>>
    BY <1>5 DEF ParsesWii
  <2>2. 1 % Ports \in Port
    BY Constants DEF Port
  <2>3. index' \in Port
    BY <1>0, <1>5, <2>2 DEF ParsesWii
  <2>4. shown' \in [Port -> {Unplugged} \cup SUBSET Button]
    BY <1>0, <1>5, ShowType DEF ParsesWii
  <2> QED
    BY <1>0, <2>1, <2>3, <2>4 DEF LocalOK
<1>6. CASE ParsesSwitch(packet) \/ ParsesDualshock3(packet) \/ ParsesXbox360(packet) \/ ParsesXbox(packet)
  BY <1>0, <1>2, <1>6 DEF ParsesSwitch, ParsesDualshock3, ParsesXbox360, ParsesXbox
<1>7. CASE ParsesHid(packet)
  BY <1>0, <1>2, <1>7 DEF ParsesHid
<1> QED
  BY <1>4, <1>5, <1>6, <1>7 DEF ParseData

\* The invariant.
DriverInv ==
  /\ TypeInv
  /\ PluggedIn
  /\ driver # "xboxone" => unacked = 0

LEMMA InitDriver == Init => DriverInv
<1> SUFFICES ASSUME Init PROVE DriverInv
  OBVIOUS
<1>1. device \in [Port -> State] /\ shown \in [Port -> {Unplugged} \cup SUBSET Button] /\ (driver = "xboxone" => device[0] = {})
  BY Constants DEF Init, HasPorts
<1>2. queue \in Seq(PacketSet) /\ Len(queue) = 0
  BY EmptySeq DEF Init
<1>3. TypeInv
  BY <1>1, <1>2, Constants, NothingType DEF Init, TypeInv
<1>4. PluggedIn
  <2>1. 1 .. Len(queue) = {}
    BY <1>2
  <2> QED
    BY <1>1, <2>1 DEF PluggedIn
<1>5. unacked = 0
  BY DEF Init
<1> QED
  BY <1>3, <1>4, <1>5 DEF DriverInv

\* Packets that are read leave the ones behind them as they were.
LEMMA DropsPlugged ==
  ASSUME PluggedIn, Len(queue) \in Nat, NEW n, Drops(n), UNCHANGED <<driver, device>>
  PROVE  PluggedIn'
<1> SUFFICES ASSUME driver = "xboxone"
             PROVE  device[0] \in SUBSET Raw /\ \A i \in 1 .. Len(queue') : queue'[i].state[0] \in SUBSET Raw
  BY DEF PluggedIn
<1>1. device[0] \in SUBSET Raw /\ \A i \in 1 .. Len(queue) : queue[i].state[0] \in SUBSET Raw
  BY DEF PluggedIn
<1>2. ASSUME NEW i \in 1 .. Len(queue')
      PROVE  queue'[i].state[0] \in SUBSET Raw
  <2>1. n \in 0 .. Len(queue) /\ Len(queue') = Len(queue) - n /\ queue'[i] = queue[i + n]
    BY DEF Drops
  <2>2. i + n \in 1 .. Len(queue)
    BY ONLY Len(queue) \in Nat, <2>1, i \in 1 .. Len(queue')
  <2> QED
    BY <1>1, <2>1, <2>2
<1> QED
  BY <1>1, <1>2

LEMMA StepDriver == DriverInv /\ [Next]_vars => DriverInv'
<1> SUFFICES ASSUME DriverInv, [Next]_vars PROVE DriverInv'
  OBVIOUS
<1>0. /\ TypeInv /\ PluggedIn /\ (driver # "xboxone" => unacked = 0)
      /\ queue \in Seq(PacketSet) /\ Len(queue) \in Nat
  BY LenProperties DEF DriverInv, TypeInv
<1>1. CASE UNCHANGED vars
  BY <1>0, <1>1 DEF vars, world, local, DriverInv, TypeInv, PluggedIn
<1>2. CASE Device
  <2>1. PICK p : Reports(p) /\ Sends(p)
    BY <1>0, <1>2, DeviceReports
  <2>2. /\ sent < MaxSent /\ sent' = sent + 1 /\ queue' = Append(queue, p) /\ newest' = p
        /\ UNCHANGED <<driver, outPipe, step, pc, rawInput, buffer, index, shown>>
    BY <2>1 DEF Sends, local
  <2>3. /\ p \in PacketSet /\ device' \in [Port -> State]
        /\ driver = "xboxone" => p.state[0] \in SUBSET Raw /\ device'[0] \in SUBSET Raw
        /\ \/ UNCHANGED <<seq, unacked>>
           \/ driver = "xboxone" /\ seq' = seq + 1 /\ unacked' = seq + 1
    BY <2>1 DEF Reports
  <2>4. /\ queue' \in Seq(PacketSet) /\ Len(queue') = Len(queue) + 1
        /\ \A i \in 1 .. Len(queue) : queue'[i] = queue[i]
        /\ queue'[Len(queue) + 1] = p
    BY <1>0, <2>2, <2>3, QueueGrows
  <2>5. TypeInv'
    BY <1>0, <2>2, <2>3, <2>4, Constants DEF TypeInv
  <2>6. PluggedIn'
    BY <1>0, <2>2, <2>3, <2>4 DEF PluggedIn
  <2> QED
    BY <1>0, <2>2, <2>3, <2>5, <2>6 DEF DriverInv
<1>3. CASE Initialize
  <2>1. Initializes
    BY <1>0, <1>3, InitializeShape
  <2>2. PICK n \in 0 .. Len(queue) : Drops(n) /\ newest' \in {newest, Nothing}
    BY <1>0, <2>1, QueueDrops DEF Initializes, Drops
  <2>3. UNCHANGED <<driver, outPipe, device, sent, seq, unacked, rawInput, buffer, index, shown>>
    BY <2>1 DEF Initializes, local
  <2>4. TypeInv'
    BY <1>0, <2>1, <2>2, <2>3, NothingType DEF TypeInv, Initializes, Drops
  <2>5. PluggedIn'
    BY <1>0, <2>2, <2>3, DropsPlugged
  <2> QED
    BY <1>0, <2>3, <2>4, <2>5 DEF DriverInv
<1>4. CASE ServesNextPort
  <2>1. /\ Show(index, buffer.state[index]) /\ index' = (index + 1) % Ports
        /\ UNCHANGED <<driver, outPipe, device, queue, sent, seq, newest, unacked, step, pc, rawInput, buffer>>
    BY <1>4 DEF ServesNextPort, world
  <2>2. shown' \in [Port -> {Unplugged} \cup SUBSET Button]
    BY <1>0, <2>1, ShowType DEF TypeInv
  <2>3. index' \in Port
    BY <1>0, <2>1, Constants DEF TypeInv, Port
  <2>4. TypeInv'
    BY <1>0, <2>1, <2>2, <2>3 DEF TypeInv
  <2> QED
    BY <1>0, <2>1, <2>4 DEF DriverInv, PluggedIn
<1>5. ASSUME NEW n, Receives(n) PROVE DriverInv'
  <2>1. /\ n \in 1 .. Len(queue) /\ queue[n] \in PacketSet /\ Drops(n)
        /\ ParseData(queue[n])
        /\ UNCHANGED <<driver, outPipe, device, sent, seq, newest, step, pc>>
    BY <1>0, <1>5, ReceivesShape
  <2>2. LocalOK
    BY <1>0, <2>1, ParsedType DEF PluggedIn
  <2>3. TypeInv'
    BY <1>0, <2>1, <2>2 DEF TypeInv, LocalOK, Drops
  <2>4. PluggedIn'
    BY <1>0, <2>1, DropsPlugged
  <2>5. driver # "xboxone" => unacked' = 0
    <3>1. driver # "xboxone" => UNCHANGED unacked
      <4>1. \A p : ShowsInput(queue[n], p) => UNCHANGED unacked
        BY DEF ShowsInput, Unparsed
      <4>2. ParsesWii(queue[n]) => UNCHANGED unacked
        BY DEF ParsesWii
      <4> QED
        BY <2>1, <4>1, <4>2 DEF ParseData, ParsesSwitch, ParsesDualshock3, ParsesXbox360,
                                ParsesXbox, ParsesHid
    <3> QED
      BY <1>0, <3>1
  <2> QED
    BY <2>1, <2>3, <2>4, <2>5 DEF DriverInv
<1> QED
  BY <1>1, <1>2, <1>3, <1>4, <1>5 DEF Next, Reads, Quiet

LEMMA DriverTyped == DriverInv => TypeOK
<1> SUFFICES ASSUME DriverInv PROVE TypeOK
  OBVIOUS
<1>1. /\ TypeInv
      /\ \A i \in 1 .. Len(queue) : queue[i] \in PacketSet
  BY LenProperties, ElementOfSeq DEF DriverInv, TypeInv
<1>2. \A p \in PacketSet : PacketOK(p)
  BY DEF PacketSet, PacketOK
<1> QED
  BY <1>1, <1>2 DEF TypeInv, TypeOK

\* The types of the drivers' state: the queue never holds more packets than were sent, and the
\* port served next is one that the adapter has.
THEOREM TypeCorrect == Spec => []TypeOK
<1>1. Init => DriverInv
  BY InitDriver
<1>2. DriverInv /\ [Next]_vars => DriverInv'
  BY StepDriver
<1>3. DriverInv => TypeOK
  BY DriverTyped
<1> QED
  BY <1>1, <1>2, <1>3, PTL DEF Spec

-----------------------------------------------------------------------------
(* The virtual key of an Xbox One controller.                              *)

Keys == {i \in 1 .. Len(queue) : queue[i].kind = "key"}

\* The keys that are under way are in the order of their numbers.
KeysInOrder ==
  /\ \A i \in Keys : queue[i].seq \in 1 .. seq
  /\ \A i, j \in Keys : i < j => queue[i].seq <= queue[j].seq

\* The last key tells what the device holds.
LastKeyTold == \A i \in Keys : queue[i].seq = seq => (Mode \in queue[i].state[0] <=> Mode \in device[0])

\* When the device has its acknowledgement, no older key is under way.
AckedIsLast == unacked = 0 => \A i \in Keys : queue[i].seq = seq

Taken == seq > 0 /\ unacked = 0 => (Mode \in rawInput <=> Mode \in device[0])

AckInv == KeysInOrder /\ AckedIsLast /\ (driver = "xboxone" => LastKeyTold /\ Taken)

LEMMA InitAck == Init => AckInv
<1> SUFFICES ASSUME Init PROVE AckInv
  OBVIOUS
<1>1. Keys = {}
  BY EmptySeq DEF Init, Keys
<1>2. seq = 0
  BY DEF Init
<1> QED
  BY <1>1, <1>2 DEF AckInv, KeysInOrder, LastKeyTold, AckedIsLast, Taken

\* Packets that leave the queue take nothing from what is known of the others.
LEMMA DropsAck ==
  ASSUME TypeInv, KeysInOrder, NEW n, Drops(n), UNCHANGED <<seq, device>>
  PROVE  /\ KeysInOrder' /\ (LastKeyTold => LastKeyTold')
         /\ \A i \in Keys' : i + n \in Keys /\ queue'[i] = queue[i + n]
<1>1. n \in Nat /\ Len(queue) \in Nat
  BY LenProperties DEF Drops, TypeInv
<1>2. \A i \in Keys' : i \in Nat /\ i + n \in Keys /\ queue'[i] = queue[i + n]
  BY <1>1 DEF Drops, Keys
<1>3. KeysInOrder'
  <2>1. \A i \in Keys' : queue'[i].seq \in 1 .. seq
    BY <1>2 DEF KeysInOrder
  <2>2. ASSUME NEW i \in Keys', NEW j \in Keys', i < j PROVE queue'[i].seq <= queue'[j].seq
    <3>1. i + n < j + n
      BY <1>1, <1>2, <2>2
    <3> QED
      BY <1>2, <3>1 DEF KeysInOrder
  <2> QED
    BY <2>1, <2>2 DEF KeysInOrder
<1>4. LastKeyTold => LastKeyTold'
  BY <1>2 DEF LastKeyTold
<1> QED
  BY <1>2, <1>3, <1>4

LEMMA StepAck == DriverInv /\ AckInv /\ [Next]_vars => AckInv'
<1> SUFFICES ASSUME DriverInv, AckInv, [Next]_vars PROVE AckInv'
  OBVIOUS
<1>0. /\ TypeInv /\ PluggedIn /\ (driver # "xboxone" => unacked = 0)
      /\ queue \in Seq(PacketSet) /\ Len(queue) \in Nat /\ seq \in Nat /\ unacked \in {0, seq}
      /\ KeysInOrder /\ AckedIsLast /\ (driver = "xboxone" => LastKeyTold /\ Taken)
  BY LenProperties DEF DriverInv, TypeInv, AckInv
<1>1. ASSUME UNCHANGED <<queue, device, seq, unacked, rawInput, driver>> PROVE AckInv'
  <2>1. Keys' = Keys
    BY <1>1 DEF Keys
  <2> QED
    BY <1>0, <1>1, <2>1 DEF AckInv, KeysInOrder, LastKeyTold, AckedIsLast, Taken
<1>2. CASE Device
  <2>1. PICK p : Reports(p) /\ Sends(p)
    BY <1>0, <1>2, DeviceReports
  <2>2. queue' = Append(queue, p) /\ UNCHANGED <<driver, rawInput>> /\ p \in PacketSet
    BY <2>1 DEF Sends, local, Reports
  <2>3. /\ Len(queue') = Len(queue) + 1
        /\ \A i \in 1 .. Len(queue) : queue'[i] = queue[i]
        /\ queue'[Len(queue) + 1] = p
    BY <1>0, <2>2, QueueGrows
  <2> DEFINE last == Len(queue) + 1
  <2>4. /\ \A i \in Keys' : i \in 1 .. last
        /\ \A i \in 1 .. Len(queue) : i \in Keys' <=> i \in Keys
        /\ last \in Keys' <=> p.kind = "key"
        /\ \A i \in Keys : i \in 1 .. Len(queue)
    BY <1>0, <2>3 DEF Keys
  <2>5. ASSUME p.kind # "key" PROVE \A i \in Keys' : i \in Keys /\ queue'[i] = queue[i]
    BY <1>0, <2>3, <2>4, <2>5
  <2>6. CASE p.kind # "key"
    <3>1. UNCHANGED <<seq, unacked>> /\ (driver = "xboxone" => (Mode \in device'[0] <=> Mode \in device[0]))
      BY <2>1, <2>6 DEF Reports
    <3>2. KeysInOrder' /\ AckedIsLast'
      BY <1>0, <2>5, <2>6, <3>1 DEF KeysInOrder, AckedIsLast
    <3>3. driver = "xboxone" => LastKeyTold' /\ Taken'
      BY <1>0, <2>2, <2>5, <2>6, <3>1 DEF LastKeyTold, Taken
    <3> QED
      BY <2>2, <3>2, <3>3 DEF AckInv
  <2>7. CASE /\ driver = "xboxone" /\ p.kind = "key" /\ p.state = device'
             /\ p.seq = seq + 1 /\ seq' = seq + 1 /\ unacked' = seq + 1
    <3>1. \A i \in Keys' : \/ i \in Keys /\ queue'[i] = queue[i] /\ queue[i].seq \in 1 .. seq /\ i < last
                           \/ i = last /\ queue'[i] = p
      BY <1>0, <2>3, <2>4 DEF KeysInOrder
    <3> HIDE DEF last
    <3>2. KeysInOrder'
      <4>1. \A i \in Keys' : queue'[i].seq \in 1 .. seq'
        BY <1>0, <2>7, <3>1
      <4>2. ASSUME NEW i \in Keys', NEW j \in Keys', i < j PROVE queue'[i].seq <= queue'[j].seq
        <5>1. i \in Keys /\ queue'[i] = queue[i] /\ queue[i].seq \in 1 .. seq
          BY <1>0, <2>7, <3>1, <4>2, <2>4 DEF last
        <5>2. CASE j = last
          BY <1>0, <2>7, <3>1, <5>1, <5>2 DEF last
        <5>3. CASE j # last
          BY <1>0, <2>7, <3>1, <4>2, <5>1, <5>3 DEF KeysInOrder
        <5> QED
          BY <5>2, <5>3
      <4> QED
        BY <4>1, <4>2 DEF KeysInOrder
    <3>3. LastKeyTold' /\ AckedIsLast' /\ Taken'
      BY <1>0, <2>7, <3>1 DEF LastKeyTold, AckedIsLast, Taken
    <3> QED
      BY <3>2, <3>3 DEF AckInv
  <2>8. CASE /\ unacked # 0 /\ p.kind = "key" /\ p.state = device /\ p.seq = unacked
             /\ UNCHANGED <<device, seq, unacked>>
    <3>1. \A i \in Keys' : \/ i \in Keys /\ queue'[i] = queue[i] /\ queue[i].seq \in 1 .. seq /\ i < last
                           \/ i = last /\ queue'[i] = p
      BY <1>0, <2>3, <2>4 DEF KeysInOrder
    <3>2. unacked = seq /\ driver = "xboxone"
      BY <1>0, <2>8
    <3> HIDE DEF last
    <3>3. KeysInOrder'
      <4>1. \A i \in Keys' : queue'[i].seq \in 1 .. seq'
        BY <1>0, <2>8, <3>1, <3>2
      <4>2. ASSUME NEW i \in Keys', NEW j \in Keys', i < j PROVE queue'[i].seq <= queue'[j].seq
        <5>1. i \in Keys /\ queue'[i] = queue[i] /\ queue[i].seq \in 1 .. seq
          BY <1>0, <2>8, <3>1, <3>2, <4>2, <2>4 DEF last
        <5>2. CASE j = last
          BY <1>0, <2>8, <3>1, <3>2, <5>1, <5>2 DEF last
        <5>3. CASE j # last
          BY <1>0, <2>8, <3>1, <3>2, <4>2, <5>1, <5>3 DEF KeysInOrder
        <5> QED
          BY <5>2, <5>3
      <4> QED
        BY <4>1, <4>2 DEF KeysInOrder
    <3>4. LastKeyTold' /\ AckedIsLast' /\ Taken'
      BY <1>0, <2>8, <3>1, <3>2 DEF LastKeyTold, AckedIsLast, Taken
    <3> QED
      BY <3>3, <3>4 DEF AckInv
  <2> QED
    BY <2>1, <2>6, <2>7, <2>8 DEF Reports
<1>3. CASE Initialize
  <2>1. Initializes
    BY <1>0, <1>3, InitializeShape
  <2>2. PICK n : Drops(n)
    BY <1>0, <2>1, QueueDrops DEF Initializes
  <2>3. UNCHANGED <<driver, device, seq, unacked, rawInput>>
    BY <2>1 DEF Initializes, local
  <2>4. /\ KeysInOrder' /\ (LastKeyTold => LastKeyTold')
        /\ \A i \in Keys' : i + n \in Keys /\ queue'[i] = queue[i + n]
    BY <1>0, <2>2, <2>3, DropsAck
  <2>5. AckedIsLast' /\ (driver = "xboxone" => Taken')
    BY <1>0, <2>3, <2>4 DEF AckedIsLast, Taken
  <2> QED
    BY <1>0, <2>3, <2>4, <2>5 DEF AckInv
<1>4. ASSUME NEW n, Receives(n) PROVE AckInv'
  <2> DEFINE packet == queue[n]
  <2>1. /\ n \in 1 .. Len(queue) /\ packet \in PacketSet /\ Drops(n)
        /\ ParseData(packet)
        /\ UNCHANGED <<driver, outPipe, device, sent, seq, newest, step, pc>>
    BY <1>0, <1>4, ReceivesShape
  <2>2. /\ KeysInOrder' /\ (LastKeyTold => LastKeyTold')
        /\ \A i \in Keys' : i + n \in Keys /\ queue'[i] = queue[i + n]
    BY <1>0, <2>1, DropsAck
  <2>3. packet.kind = "key" => n \in Keys
    BY <2>1 DEF Keys
  <2> HIDE DEF packet
  <2>4. CASE UNCHANGED unacked /\ driver # "xboxone"
    <3>1. AckedIsLast'
      BY <1>0, <2>1, <2>2, <2>4 DEF AckedIsLast
    <3> QED
      BY <2>1, <2>2, <2>4, <3>1 DEF AckInv
  <2>5. CASE driver = "xboxone" /\ UNCHANGED unacked /\ (Mode \in rawInput' <=> Mode \in rawInput)
    <3>1. AckedIsLast' /\ Taken'
      BY <1>0, <2>1, <2>2, <2>5 DEF AckedIsLast, Taken
    <3> QED
      BY <1>0, <2>1, <2>2, <2>5, <3>1 DEF AckInv
  <2>6. CASE /\ driver = "xboxone" /\ packet.kind = "key"
             /\ UNCHANGED unacked \/ Acks(packet)
             /\ Mode \in rawInput' <=> Mode \in packet.state[0]
    <3>1. unacked' = 0 => packet.seq = seq
      BY <1>0, <2>3, <2>6 DEF Acks, AckedIsLast, packet
    <3>2. packet.seq = seq => (Mode \in packet.state[0] <=> Mode \in device[0])
      BY <1>0, <2>3, <2>6 DEF LastKeyTold, packet
    <3>3. Taken'
      BY <2>1, <2>6, <3>1, <3>2 DEF Taken
    <3>4. packet.seq = seq => \A i \in Keys' : queue'[i].seq = seq
      <4>1. SUFFICES ASSUME packet.seq = seq, NEW i \in Keys' PROVE queue'[i].seq = seq
        OBVIOUS
      <4>2. i \in Nat \ {0} /\ n < i + n
        BY <2>1 DEF Keys, Drops
      <4>3. queue[n].seq <= queue[i + n].seq /\ queue[i + n].seq \in 1 .. seq
        BY <1>0, <2>2, <2>3, <2>6, <4>2 DEF KeysInOrder
      <4> QED
        BY <1>0, <2>2, <4>1, <4>3 DEF packet
    <3>5. AckedIsLast'
      BY <2>1, <3>1, <3>4 DEF AckedIsLast
    <3> QED
      BY <1>0, <2>1, <2>2, <2>6, <3>3, <3>5 DEF AckInv
  <2>7. driver # "xboxone" => UNCHANGED unacked
    BY <2>1 DEF ParseData, ParsesSwitch, ParsesDualshock3, ParsesXbox360, ParsesXbox, ParsesHid,
                ParsesWii, ShowsInput, Unparsed
  <2>8. driver = "xboxone" => ParsesXboxOne(packet)
    BY <2>1 DEF ParseData
  <2>9. ASSUME ParsesXboxOne(packet)
        PROVE  \/ UNCHANGED unacked /\ (Mode \in rawInput' <=> Mode \in rawInput)
               \/ /\ packet.kind = "key"
                  /\ UNCHANGED unacked \/ Acks(packet)
                  /\ Mode \in rawInput' <=> Mode \in packet.state[0]
    BY <2>9 DEF ParsesXboxOne, TakesInput, TakesKey, AckFails, Unparsed, local
  <2> QED
    BY <2>4, <2>5, <2>6, <2>7, <2>8, <2>9
<1>5. CASE ServesNextPort
  BY <1>1, <1>5 DEF ServesNextPort, world
<1>6. CASE UNCHANGED vars
  BY <1>1, <1>6 DEF vars, world, local
<1> QED
  BY <1>2, <1>3, <1>4, <1>5, <1>6 DEF Next, Reads, Quiet

\* An Xbox One controller that stops sending its Xbox button, because WriteAckModeReport's
\* acknowledgement has arrived, is understood: what the driver holds is what the user holds.
THEOREM AckedKeysAreTaken == Spec => []AckedIsTaken
<1>1. Init => DriverInv /\ AckInv
  BY InitDriver, InitAck
<1>2. DriverInv /\ AckInv /\ [Next]_vars => (DriverInv /\ AckInv)'
  BY StepDriver, StepAck
<1>3. DriverInv /\ AckInv => AckedIsTaken
  BY DEF AckInv, Taken, AckedIsTaken
<1> QED
  BY <1>1, <1>2, <1>3, PTL DEF Spec

-----------------------------------------------------------------------------
(* The latest state.                                                       *)

\* The last packet tells the device's state, is the last one in the queue as long as that holds
\* any, and is forgotten with it by an initialisation that reads them away.
NewestTold == newest.kind \in {"input", "key"} => newest.state = device
NewestQueued == queue # <<>> => queue[Len(queue)] = newest
NewestDropped == pc = "init" /\ queue = <<>> => newest = Nothing
OnePort == driver \notin {"wii", "hid"} => newest.port = 0

\* What of m_buffer the ports of an adapter show, while the rest of them wait for their turn.
PortsServed ==
  /\ driver # "wii" => index = 0
  /\ driver = "wii" /\ index # 0 =>
       buffer.kind = "input" /\ \A p \in 0 .. index - 1 : shown[p] = Displayed(buffer.state[p])
  /\ driver = "wii" /\ index = 0 /\ buffer.kind = "input" =>
       \A p \in Port : shown[p] = Displayed(buffer.state[p])

\* What each driver made of the last packet, when that was an input report.
NewestParsed ==
  /\ driver = "wii" => buffer = newest
  /\ driver = "xboxone" =>
       /\ rawInput = (newest.state[0] \ {Mode}) \cup (rawInput \cap {Mode})
       /\ shown[0] = Displayed(rawInput)
  /\ driver \notin {"wii", "xboxone"} =>
       shown[newest.port] = Displayed(newest.state[newest.port])

NewestShown == pc = "run" /\ queue = <<>> /\ newest.kind = "input" => NewestParsed

LatestInv == NewestTold /\ NewestQueued /\ NewestDropped /\ OnePort /\ PortsServed /\ NewestShown

LEMMA InitLatest == Init => LatestInv
<1> SUFFICES ASSUME Init PROVE LatestInv
  OBVIOUS
<1>1. /\ queue = <<>> /\ newest = Nothing /\ buffer = Nothing /\ index = 0 /\ pc = "init"
      /\ Nothing.kind = "other" /\ Nothing.port = 0
  BY NothingType DEF Init
<1> QED
  BY <1>1 DEF LatestInv, NewestTold, NewestQueued, NewestDropped, OnePort, PortsServed, NewestShown

LEMMA NextPort == \A p \in Port : (p + 1) % Ports = IF p + 1 = Ports THEN 0 ELSE p + 1
BY Constants DEF Port

\* A drain of the whole queue parses the last packet.
LEMMA ParsesNewest ==
  ASSUME TypeInv, NEW packet \in PacketSet, packet.kind = "input", ParseData(packet), OnePort,
         packet = newest, UNCHANGED <<driver, newest>>, driver = "xboxone" => packet.state[0] \in SUBSET Raw
  PROVE  NewestParsed'
<1>1. 0 \in Port /\ packet.port \in Port
  BY Constants DEF PacketSet
<1>2. driver = "wii" => buffer' = newest
  BY DEF ParseData, ParsesWii
<1>3. ASSUME driver = "xboxone"
      PROVE  /\ rawInput' = (newest.state[0] \ {Mode}) \cup (rawInput' \cap {Mode})
             /\ shown'[0] = Displayed(rawInput')
  <2>1. TakesInput(packet)
    BY <1>3 DEF ParseData, ParsesXboxOne
  <2>2. rawInput' = (packet.state[0] \ {Mode}) \cup (rawInput \cap {Mode}) /\ Show(0, rawInput')
    BY <2>1 DEF TakesInput
  <2>3. shown'[0] = Displayed(rawInput')
    BY <1>1, <2>2, ShowType
  <2>4. rawInput' \cap {Mode} = rawInput \cap {Mode}
    BY <2>2
  <2> QED
    BY <2>2, <2>3, <2>4
<1>4. ASSUME driver \notin {"wii", "xboxone"}
      PROVE  shown'[newest.port] = Displayed(newest.state[newest.port])
  <2>1. Show(packet.port, packet.state[packet.port])
    BY <1>4 DEF ParseData, ParsesSwitch, ParsesDualshock3, ParsesXbox360, ParsesXbox, ParsesHid,
                ShowsInput, OnePort
  <2>2. shown'[packet.port] = Displayed(packet.state[packet.port])
    BY <1>1, <2>1, ShowType
  <2> QED
    BY <2>2
<1> QED
  BY <1>2, <1>3, <1>4 DEF NewestParsed

LEMMA ReceivesPorts ==
  ASSUME TypeInv, PortsServed, NEW packet \in PacketSet, ParseData(packet), UNCHANGED driver,
         driver = "wii" => index = 0
  PROVE  PortsServed'
<1>1. CASE driver # "wii"
  <2>1. UNCHANGED index
    BY <1>1 DEF ParseData, ParsesSwitch, ParsesDualshock3, ParsesXbox360, ParsesXbox, ParsesHid,
                ParsesXboxOne, TakesInput, TakesKey, AckFails, ShowsInput, Unparsed, local
  <2> QED
    BY <1>1, <2>1 DEF PortsServed
<1>2. CASE driver = "wii" /\ packet.kind # "input"
  <2>1. buffer' = packet /\ index' = 0
    BY <1>2 DEF ParseData, ParsesWii
  <2> QED
    BY <1>2, <2>1 DEF PortsServed
<1>3. CASE driver = "wii" /\ packet.kind = "input"
  <2>1. buffer' = packet /\ Show(0, packet.state[0]) /\ index' = 1 % Ports
    BY <1>3 DEF ParseData, ParsesWii
  <2>2. index' = IF 1 = Ports THEN 0 ELSE 1
    BY <2>1, NextPort, Constants
  <2>3. shown'[0] = Displayed(packet.state[0])
    BY <2>1, ShowType, Constants
  <2>4. Ports = 1 => \A p \in Port : p = 0
    BY DEF Port
  <2> QED
    BY <1>3, <2>1, <2>2, <2>3, <2>4 DEF PortsServed
<1> QED
  BY <1>1, <1>2, <1>3

LEMMA StepLatest == DriverInv /\ LatestInv /\ [Next]_vars => LatestInv'
<1> SUFFICES ASSUME DriverInv, LatestInv, [Next]_vars PROVE LatestInv'
  OBVIOUS
<1>0. /\ TypeInv /\ PluggedIn /\ (driver # "xboxone" => unacked = 0)
      /\ queue \in Seq(PacketSet) /\ Len(queue) \in Nat
      /\ NewestTold /\ NewestQueued /\ NewestDropped /\ OnePort /\ PortsServed /\ NewestShown
      /\ \A q \in Seq(PacketSet) : q = <<>> <=> Len(q) = 0
  BY LenProperties, EmptySeq DEF DriverInv, TypeInv, LatestInv
<1>1. CASE UNCHANGED vars
  <2>1. PortsServed' /\ NewestShown'
    BY <1>0, <1>1 DEF vars, world, local, PortsServed, NewestShown, NewestParsed
  <2> QED
    BY <1>0, <1>1, <2>1 DEF vars, world, LatestInv, NewestTold, NewestQueued, NewestDropped, OnePort
<1>2. CASE Device
  <2>1. PICK p : Reports(p) /\ Sends(p)
    BY <1>0, <1>2, DeviceReports
  <2>2. /\ queue' = Append(queue, p) /\ newest' = p /\ p \in PacketSet
        /\ UNCHANGED <<driver, pc, rawInput, buffer, index, shown>>
    BY <2>1 DEF Sends, local, Reports
  <2>3. /\ queue' \in Seq(PacketSet) /\ Len(queue') = Len(queue) + 1 /\ queue'[Len(queue')] = p
    BY <1>0, <2>2, QueueGrows
  <2>4. queue' # <<>>
    BY <1>0, <2>3
  <2>5. NewestTold' /\ OnePort'
    BY <2>1, <2>2 DEF Reports, NewestTold, OnePort
  <2>6. NewestQueued' /\ NewestDropped' /\ NewestShown'
    BY <2>2, <2>3, <2>4 DEF NewestQueued, NewestDropped, NewestShown
  <2>7. PortsServed'
    BY <1>0, <2>2 DEF PortsServed
  <2> QED
    BY <2>5, <2>6, <2>7 DEF LatestInv
<1>3. CASE Initialize
  <2>1. Initializes
    BY <1>0, <1>3, InitializeShape
  <2>2. pc = "init" /\ UNCHANGED <<driver, device, index, buffer, shown>> /\ newest' \in {newest, Nothing}
    BY <2>1 DEF Initializes, local
  <2>3. NewestTold' /\ OnePort'
    BY <1>0, <2>2, NothingType DEF NewestTold, OnePort
  <2>4. PortsServed'
    BY <1>0, <2>2 DEF PortsServed
  <2>5. NewestQueued' /\ (queue' = <<>> => newest' = Nothing)
    <3>1. CASE UNCHANGED <<queue, newest>>
      BY <1>0, <2>2, <3>1 DEF NewestQueued, NewestDropped
    <3>2. CASE /\ Drops(1) /\ Len(queue) >= 1
               /\ newest' = IF Len(queue) = 1 THEN Nothing ELSE newest
      <4>1. queue' \in Seq(PacketSet) /\ Len(queue') = Len(queue) - 1
        BY <3>2 DEF Drops
      <4>2. CASE Len(queue) = 1
        BY <1>0, <3>2, <4>1, <4>2 DEF NewestQueued
      <4>3. CASE Len(queue) > 1
        <5>1. queue' # <<>> /\ queue # <<>> /\ newest' = newest
          BY <1>0, <3>2, <4>1, <4>3
        <5>2. queue'[Len(queue')] = queue[Len(queue)]
          BY <1>0, <3>2, <4>1, <4>3 DEF Drops
        <5> QED
          BY <1>0, <5>1, <5>2 DEF NewestQueued
      <4>4. Len(queue) = 1 \/ Len(queue) > 1
        BY <1>0, <3>2
      <4> QED
        BY <4>2, <4>3, <4>4
    <3> QED
      BY <2>1, <3>1, <3>2 DEF Initializes
  <2>6. NewestDropped' /\ NewestShown'
    BY <2>5, NothingType DEF NewestDropped, NewestShown
  <2> QED
    BY <2>3, <2>4, <2>5, <2>6 DEF LatestInv
<1>4. CASE ServesNextPort
  <2>1. /\ Show(index, buffer.state[index]) /\ index' = (index + 1) % Ports /\ index # 0
        /\ UNCHANGED <<driver, device, queue, newest, pc, buffer>>
    BY <1>4 DEF ServesNextPort, world
  <2>2. driver = "wii"
    BY <1>0, <2>1 DEF PortsServed
  <2>3. index \in Port /\ index \in Nat /\ index' = IF index + 1 = Ports THEN 0 ELSE index + 1
    BY <1>0, <2>1, NextPort, Constants DEF TypeInv
  <2>4. shown'[index] = Displayed(buffer.state[index]) /\ \A q \in Port \ {index} : shown'[q] = shown[q]
    BY <1>0, <2>1, <2>3, ShowType
  <2>5. buffer.kind = "input" /\ \A p \in 0 .. index - 1 : shown[p] = Displayed(buffer.state[p])
    BY <1>0, <2>1, <2>2 DEF PortsServed
  <2>6. \A p \in 0 .. index : shown'[p] = Displayed(buffer.state[p])
    <3>1. \A p \in 0 .. index - 1 : p \in Port \ {index}
      BY <2>3, Constants DEF Port
    <3>2. \A p \in 0 .. index : p = index \/ p \in 0 .. index - 1
      BY <2>3
    <3> QED
      BY <2>4, <2>5, <3>1, <3>2
  <2>7. PortsServed'
    <3>1. CASE index + 1 = Ports
      <4>1. Port = 0 .. index
        BY <2>3, <3>1, Constants DEF Port
      <4> QED
        BY <2>1, <2>2, <2>3, <2>6, <3>1, <4>1 DEF PortsServed
    <3>2. CASE index + 1 # Ports
      <4>1. index' = index + 1 /\ 0 .. index' - 1 = 0 .. index /\ index' # 0
        BY <2>3, <3>2
      <4> QED
        BY <2>1, <2>2, <2>5, <2>6, <4>1 DEF PortsServed
    <3> QED
      BY <3>1, <3>2
  <2>8. NewestShown'
    BY <1>0, <2>1, <2>2 DEF NewestShown, NewestParsed
  <2> QED
    BY <1>0, <2>1, <2>7, <2>8 DEF LatestInv, NewestTold, NewestQueued, NewestDropped, OnePort
<1>5. ASSUME NEW n, Receives(n) PROVE LatestInv'
  <2> DEFINE packet == queue[n]
  <2>1. /\ n \in 1 .. Len(queue) /\ packet \in PacketSet /\ Drops(n) /\ ParseData(packet)
        /\ pc = "run" /\ (driver = "wii" => index = 0)
        /\ UNCHANGED <<driver, device, newest, pc>>
    BY <1>0, <1>5, ReceivesShape
  <2>2. queue' \in Seq(PacketSet) /\ Len(queue') = Len(queue) - n
    BY <2>1 DEF Drops
  <2>3. driver = "xboxone" => packet.state[0] \in SUBSET Raw
    BY <1>0, <2>1 DEF PluggedIn
  <2>4. NewestQueued'
    <3>1. SUFFICES ASSUME queue' # <<>> PROVE queue'[Len(queue')] = newest
      BY <2>1 DEF NewestQueued
    <3>2. Len(queue') >= 1 /\ Len(queue') + n = Len(queue) /\ queue # <<>>
      BY <1>0, <2>1, <2>2, <3>1
    <3>3. queue'[Len(queue')] = queue[Len(queue)]
      BY <1>0, <2>1, <2>2, <3>2 DEF Drops
    <3> QED
      BY <1>0, <3>2, <3>3 DEF NewestQueued
  <2>5. PortsServed'
    <3> HIDE DEF packet
    <3> QED
      BY <1>0, <2>1, ReceivesPorts
  <2>6. NewestShown'
    <3>1. SUFFICES ASSUME queue' = <<>>, newest.kind = "input" PROVE NewestParsed'
      BY <2>1 DEF NewestShown
    <3>2. n = Len(queue) /\ queue # <<>>
      BY <1>0, <2>1, <2>2, <3>1
    <3>3. packet = newest
      BY <1>0, <3>2 DEF NewestQueued
    <3> HIDE DEF packet
    <3> QED
      BY <1>0, <2>1, <2>3, <3>1, <3>3, ParsesNewest
  <2> QED
    BY <1>0, <2>1, <2>4, <2>5, <2>6 DEF LatestInv, NewestTold, NewestDropped, OnePort
<1> QED
  BY <1>1, <1>2, <1>3, <1>4, <1>5 DEF Next, Reads, Quiet

\* The last report of an adapter, or of a joystick, is what the pad shows.
LEMMA LatestDisplayed ==
  ASSUME DriverInv, LatestInv, pc = "run", queue = <<>>, index = 0, newest.kind = "input"
  PROVE  /\ shown[newest.port] = Displayed(Raws(newest.port))
         /\ driver = "wii" => \A p \in Port : shown[p] = Displayed(Raws(p))
<1>1. newest \in PacketSet /\ newest.state = device /\ newest.port \in Port /\ NewestParsed
  BY DEF DriverInv, TypeInv, LatestInv, NewestTold, NewestShown, PacketSet
<1>2. driver = "wii" => \A p \in Port : shown[p] = Displayed(device[p])
  BY <1>1 DEF NewestParsed, LatestInv, PortsServed
<1>3. driver = "xboxone" => newest.port = 0 /\ shown[0] = Displayed(Raws(0))
  BY <1>1 DEF NewestParsed, Raws, LatestInv, OnePort
<1> QED
  BY <1>1, <1>2, <1>3 DEF Raws, NewestParsed

\* And that is what its user holds, through the bindings and combinations of config.ini, when
\* these do not simulate each other's keys.
LEMMA DisplayedIsMeant ==
  ASSUME DriverInv, NoKeySimulated, NEW p \in Port, shown[p] = Displayed(Raws(p)),
         driver = "xboxone" => p = 0
  PROVE  Shows(p)
<1>1. device \in [Port -> State] /\ rawInput \in SUBSET Raw /\ PluggedIn /\ Unplugged \notin SUBSET Raw
  BY Constants DEF DriverInv, TypeInv
<1>2. CASE driver = "xboxone"
  <2>1. Raws(p) \in SUBSET Raw /\ device[p] # Unplugged
    BY <1>1, <1>2 DEF Raws, PluggedIn
  <2> QED
    BY <1>1, <2>1, MapIsMeant DEF Shows, Displayed
<1>3. CASE driver # "xboxone"
  <2>1. Raws(p) = device[p] /\ (device[p] = Unplugged \/ device[p] \in SUBSET Raw)
    BY <1>1, <1>3 DEF Raws, State
  <2> QED
    BY <1>1, <2>1, MapIsMeant DEF Shows, Displayed
<1> QED
  BY <1>2, <1>3

\* "For a gamepad only the latest state matters": whatever a drain of ReadEndpointLatest skips,
\* the pads show the state that the last packet told, for combinations as config.ini has them.
THEOREM TheLatestIsShown == NoKeySimulated => (Spec => []LatestIsShown)
<1> SUFFICES ASSUME NoKeySimulated PROVE Spec => []LatestIsShown
  OBVIOUS
<1>1. Init => DriverInv /\ LatestInv
  BY InitDriver, InitLatest
<1>2. DriverInv /\ LatestInv /\ [Next]_vars => (DriverInv /\ LatestInv)'
  BY StepDriver, StepLatest
<1>3. DriverInv /\ LatestInv => LatestIsShown
  <2> SUFFICES ASSUME DriverInv, LatestInv, pc = "run", queue = <<>>, index = 0, newest.kind = "input"
               PROVE  Shows(newest.port) /\ (driver = "wii" => \A p \in Port : Shows(p))
    BY DEF LatestIsShown
  <2>1. newest.port \in Port /\ (driver = "xboxone" => newest.port = 0)
    BY DEF DriverInv, TypeInv, PacketSet, LatestInv, OnePort
  <2> QED
    BY <2>1, LatestDisplayed, DisplayedIsMeant
<1> QED
  BY <1>1, <1>2, <1>3, PTL DEF Spec
=============================================================================
