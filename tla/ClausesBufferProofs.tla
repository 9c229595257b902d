-------------------------- MODULE ClausesBufferProofs --------------------------
(***************************************************************************)
(* That the ring of words keeps its records apart, and implements the      *)
(* exchange of records, for any size of the ring, of the clauses, and any  *)
(* number of threads and workers, with -removeolder or not.                *)
(*                                                                         *)
(* Positions are compared by their distance, the number of words from one  *)
(* to the other the way last and first go.  The lemmas about records are   *)
(* about a function P, the positions before the records and before the     *)
(* one to come; b of the n records have left, and record i follows P[i].   *)
(***************************************************************************)
EXTENDS ClausesBuffer, FiniteSetTheorems, SequenceTheorems, TLAPS

Dist(p, q) == IF q >= p THEN q - p ELSE q - p + MaxSize

(* Records b + 1 to n lie one behind the other and do not come round to    *)
(* the first of them again.                                                *)
Laid(E, P, b, n) ==
  /\ n \in Nat /\ b \in 0..n
  /\ P \in [1..(n + 1) -> Index]
  /\ \A i \in (b + 1)..n :
       /\ E[NextIndex(P[i])] \in Nat \ {0}
       /\ Dist(P[b + 1], P[i + 1]) = Dist(P[b + 1], P[i]) + RecordSize(E, P[i])

(* What removeLastClause sees of them; C has the cursors as records.       *)
View(P, n, b, C) ==
  [last |-> P[b + 1], queuesize |-> Dist(P[b + 1], P[n + 1]),
   cursor |-> [t \in Threads |-> P[C[t] + 1]], removed |-> b]
Moved(C, m) == [t \in Threads |-> IF C[t] < m THEN m ELSE C[t]]

-----------------------------------------------------------------------------
(* A set of naturals that is not empty has a least element.  Of the        *)
(* intervals that start at 0 and end in it, one contains no other.         *)
LEMMA LeastNatural ==
  ASSUME NEW T \in SUBSET Nat, T # {}
  PROVE  \E x \in T : \A y \in T : x <= y
<1> DEFINE Starts == {0..m : m \in T}
<1>1. ASSUME NEW m \in T PROVE 0..m \in FiniteSubsetsOf(Nat)
  <2>1. IsFiniteSet(0..m) /\ 0..m \in SUBSET Nat
    BY FS_Interval
  <2> QED
    BY <2>1 DEF FiniteSubsetsOf
<1>2. Starts \subseteq FiniteSubsetsOf(Nat) /\ Starts # {}
  BY <1>1
<1> HIDE DEF Starts
<1>3. PICK A \in Starts : \A B \in Starts : <<B, A>> \notin StrictSubsetOrdering(Nat)
  BY <1>2, FS_StrictSubsetOrderingWellFounded, WFMin, Zenon
<1>4. PICK m \in T : A = 0..m
  BY <1>3 DEF Starts
<1>5. ASSUME NEW y \in T, y < m PROVE FALSE
  <2>1. 0..y \in Starts
    BY DEF Starts
  <2>2. m \in 0..m /\ m \notin 0..y
    BY <1>5
  <2>3. 0..y \subseteq 0..m /\ 0..y \in SUBSET Nat /\ 0..m \in SUBSET Nat
    BY <1>5
  <2> QED
    BY <1>3, <1>4, <2>1, <2>2, <2>3 DEF StrictSubsetOrdering
<1> QED
  BY <1>4, <1>5

(* Induction over the natural numbers.                                     *)
LEMMA SetInduction ==
  ASSUME NEW S, 0 \in S, \A n \in Nat : n \in S => n + 1 \in S
  PROVE  Nat \subseteq S
<1> SUFFICES ASSUME Nat \ S # {} PROVE FALSE
  OBVIOUS
<1>1. PICK m \in Nat \ S : \A y \in Nat \ S : m <= y
  BY LeastNatural, Zenon
<1>2. m # 0 /\ m - 1 \in Nat
  BY <1>1
<1>3. m - 1 \in S
  BY <1>1, <1>2
<1> QED
  BY <1>1, <1>2, <1>3

(* Positions.                                                              *)
LEMMA RingFacts ==
  ASSUME NEW p \in Index
  PROVE  /\ NextIndex(p) = AddIndex(p, 1) /\ NextIndex(p) \in Index
         /\ \A a \in 0..MaxSize : AddIndex(p, a) \in Index
         /\ \A q \in Index : Dist(p, q) \in 0..(MaxSize - 1) /\ AddIndex(p, Dist(p, q)) = q
         /\ \A a \in 0..(MaxSize - 1) : Dist(p, AddIndex(p, a)) = a
         /\ \A a, c \in Nat : a + c <= MaxSize =>
              AddIndex(AddIndex(p, a), c) = AddIndex(p, a + c)
         /\ Dist(p, p) = 0 /\ AddIndex(p, 0) = p
BY SizeAssumption DEF Index, NextIndex, AddIndex, Dist

LEMMA DistIs ==
  ASSUME NEW p \in Index, NEW q \in Index
  PROVE  /\ Dist(p, q) \in Nat /\ Dist(p, q) < MaxSize /\ Dist(p, q) \in 0..(MaxSize - 1)
         /\ AddIndex(p, Dist(p, q)) = q
BY SizeAssumption DEF Index, AddIndex, Dist

LEMMA AddTwice ==
  ASSUME NEW p \in Index, NEW a \in Nat, NEW c \in Nat, a + c <= MaxSize
  PROVE  AddIndex(AddIndex(p, a), c) = AddIndex(p, a + c)
BY SizeAssumption DEF Index, AddIndex

LEMMA DistBetween ==
  ASSUME NEW p \in Index, NEW q \in Index, NEW r \in Index, Dist(p, q) <= Dist(p, r)
  PROVE  Dist(q, r) = Dist(p, r) - Dist(p, q)
BY SizeAssumption DEF Index, Dist

(* Every record has a word and more, so that positions are in order.       *)
LEMMA Further ==
  ASSUME NEW E, NEW P, NEW b, NEW n, Laid(E, P, b, n),
         NEW i \in (b + 1)..(n + 1), NEW j \in i..(n + 1)
  PROVE  Dist(P[b + 1], P[i]) + (j - i) <= Dist(P[b + 1], P[j])
<1> DEFINE S == {m \in Nat : i + m <= n + 1 =>
                               Dist(P[b + 1], P[i]) + m <= Dist(P[b + 1], P[i + m])}
<1>1. n \in Nat /\ b \in Nat /\ b <= n /\ i \in Nat /\ j \in Nat /\ b + 1 \in 1..(n + 1)
  BY DEF Laid
<1>2. \A k \in (b + 1)..(n + 1) : P[k] \in Index /\ Dist(P[b + 1], P[k]) \in Int
  <2> SUFFICES ASSUME NEW k \in (b + 1)..(n + 1)
               PROVE  P[k] \in Index /\ Dist(P[b + 1], P[k]) \in Int
    OBVIOUS
  <2>1. P[k] \in Index /\ P[b + 1] \in Index
    BY <1>1 DEF Laid
  <2> QED
    BY <2>1, DistIs
<1>3. 0 \in S
  <2>1. i + 0 = i
    BY <1>1
  <2> QED
    BY <1>2, <2>1
<1>4. ASSUME NEW m \in Nat, m \in S PROVE m + 1 \in S
  <2> SUFFICES ASSUME i + (m + 1) <= n + 1
               PROVE  Dist(P[b + 1], P[i]) + (m + 1) <= Dist(P[b + 1], P[i + (m + 1)])
    OBVIOUS
  <2>1. i + m \in (b + 1)..n /\ i + (m + 1) = (i + m) + 1 /\ i + m <= n + 1
    BY <1>1
  <2>2. Dist(P[b + 1], P[i]) + m <= Dist(P[b + 1], P[i + m])
    BY <1>4, <2>1
  <2>3. /\ E[NextIndex(P[i + m])] \in Nat
        /\ Dist(P[b + 1], P[(i + m) + 1]) = Dist(P[b + 1], P[i + m]) + RecordSize(E, P[i + m])
    BY <2>1 DEF Laid
  <2>4. RecordSize(E, P[i + m]) \in Nat /\ RecordSize(E, P[i + m]) >= 3
    BY <2>3 DEF RecordSize, HeaderSize
  <2>5. Dist(P[b + 1], P[i]) \in Int /\ Dist(P[b + 1], P[i + m]) \in Int
    BY <1>2, <2>1
  <2> QED
    BY <2>1, <2>2, <2>3, <2>4, <2>5
<1> HIDE DEF S
<1>5. j - i \in Nat /\ i + (j - i) = j /\ j <= n + 1
  BY <1>1
<1>6. j - i \in S
  BY <1>3, <1>4, <1>5, SetInduction
<1> QED
  BY <1>5, <1>6 DEF S

(* There is no room for more records than words, no two of them follow the *)
(* same position, and later records are laid out like all of them.         *)
LEMMA LaidFacts ==
  ASSUME NEW E, NEW P, NEW b, NEW n, Laid(E, P, b, n)
  PROVE  /\ n - b \in 0..(MaxSize - 1)
         /\ \A i, j \in (b + 1)..(n + 1) : P[i] = P[j] => i = j
         /\ \A i, j \in (b + 1)..(n + 1) : i < j => Dist(P[b + 1], P[i]) < Dist(P[b + 1], P[j])
         /\ \A i \in (b + 1)..(n + 1) : P[i] \in Index
         /\ \A c \in b..n :
              /\ Laid(E, P, c, n)
              /\ \A i \in (c + 1)..(n + 1) :
                   Dist(P[c + 1], P[i]) = Dist(P[b + 1], P[i]) - Dist(P[b + 1], P[c + 1])
<1>1. n \in Nat /\ b \in Nat /\ b <= n /\ b + 1 \in (b + 1)..(n + 1) /\ n + 1 \in (b + 1)..(n + 1)
  BY DEF Laid
<1>2. \A i \in (b + 1)..(n + 1) : P[i] \in Index
  BY <1>1 DEF Laid
<1>3. \A i \in (b + 1)..(n + 1) : Dist(P[b + 1], P[i]) \in 0..(MaxSize - 1)
  BY <1>1, <1>2, RingFacts
<1>4. ASSUME NEW i \in (b + 1)..(n + 1), NEW j \in (b + 1)..(n + 1), i < j
      PROVE  Dist(P[b + 1], P[i]) + (j - i) <= Dist(P[b + 1], P[j])
  <2>1. j \in i..(n + 1)
    BY <1>1, <1>4
  <2> QED
    BY <2>1, Further
<1>5. ASSUME NEW i \in (b + 1)..(n + 1), NEW j \in (b + 1)..(n + 1), i < j
      PROVE  Dist(P[b + 1], P[i]) < Dist(P[b + 1], P[j])
  <2>1. Dist(P[b + 1], P[i]) \in Int /\ Dist(P[b + 1], P[j]) \in Int /\ i \in Int /\ j \in Int
    BY <1>1, <1>3
  <2> QED
    BY <1>4, <1>5, <2>1
<1>6. ASSUME NEW i \in (b + 1)..(n + 1), NEW j \in (b + 1)..(n + 1), P[i] = P[j]
      PROVE  i = j
  <2>1. ~(i < j) /\ ~(j < i)
    BY <1>3, <1>5, <1>6
  <2> QED
    BY <1>1, <2>1
<1>7. n - b \in 0..(MaxSize - 1)
  <2>1. n + 1 \in (b + 1)..(n + 1)
    BY <1>1
  <2>2. Dist(P[b + 1], P[b + 1]) + ((n + 1) - (b + 1)) <= Dist(P[b + 1], P[n + 1])
    BY <1>1, <2>1, Further
  <2>3. Dist(P[b + 1], P[b + 1]) \in 0..(MaxSize - 1) /\ Dist(P[b + 1], P[n + 1]) \in 0..(MaxSize - 1)
    BY <1>1, <1>3
  <2> QED
    BY <1>1, <2>2, <2>3, SizeAssumption
<1>8. ASSUME NEW c \in b..n
      PROVE  /\ \A i \in (c + 1)..(n + 1) :
                  Dist(P[c + 1], P[i]) = Dist(P[b + 1], P[i]) - Dist(P[b + 1], P[c + 1])
             /\ Laid(E, P, c, n)
  <2>1. c \in Nat /\ c <= n /\ c + 1 \in (b + 1)..(n + 1)
    BY <1>1
  <2>2. ASSUME NEW i \in (c + 1)..(n + 1)
        PROVE  Dist(P[c + 1], P[i]) = Dist(P[b + 1], P[i]) - Dist(P[b + 1], P[c + 1])
    <3>1. i \in (b + 1)..(n + 1)
      BY <1>1, <2>1
    <3>2. c + 1 = i \/ c + 1 < i
      BY <2>1
    <3>3. Dist(P[b + 1], P[c + 1]) <= Dist(P[b + 1], P[i])
      BY <1>3, <1>5, <2>1, <3>1, <3>2
    <3> QED
      BY <1>1, <1>2, <2>1, <3>1, <3>3, DistBetween
  <2>3. ASSUME NEW i \in (c + 1)..n
        PROVE  /\ E[NextIndex(P[i])] \in Nat \ {0}
               /\ Dist(P[c + 1], P[i + 1]) = Dist(P[c + 1], P[i]) + RecordSize(E, P[i])
    <3>1. i \in (b + 1)..n /\ i \in (c + 1)..(n + 1) /\ i + 1 \in (c + 1)..(n + 1)
          /\ i \in (b + 1)..(n + 1) /\ i + 1 \in (b + 1)..(n + 1)
      BY <1>1, <2>1
    <3>2. /\ E[NextIndex(P[i])] \in Nat \ {0}
          /\ Dist(P[b + 1], P[i + 1]) = Dist(P[b + 1], P[i]) + RecordSize(E, P[i])
      BY <3>1 DEF Laid
    <3>3. RecordSize(E, P[i]) \in Int
      BY <3>2 DEF RecordSize, HeaderSize
    <3>4. /\ Dist(P[b + 1], P[i]) \in Int /\ Dist(P[b + 1], P[i + 1]) \in Int
          /\ Dist(P[b + 1], P[c + 1]) \in Int
      BY <1>3, <2>1, <3>1
    <3>5. /\ Dist(P[c + 1], P[i]) = Dist(P[b + 1], P[i]) - Dist(P[b + 1], P[c + 1])
          /\ Dist(P[c + 1], P[i + 1]) = Dist(P[b + 1], P[i + 1]) - Dist(P[b + 1], P[c + 1])
      BY <2>2, <3>1
    <3> QED
      BY <3>2, <3>3, <3>4, <3>5
  <2>4. c \in 0..n
    BY <1>1, <2>1
  <2> QED
    BY <1>1, <2>2, <2>3, <2>4 DEF Laid
<1> QED
  BY <1>2, <1>5, <1>6, <1>7, <1>8

-----------------------------------------------------------------------------
(* Functions defined by recursion along the records: there is one.         *)
LEMMA TrailIs ==
  ASSUME NEW E, NEW p
  PROVE  Trail(E, p) = [k \in 0..MaxSize |->
           IF k = 0 THEN p
           ELSE AddIndex(Trail(E, p)[k - 1], RecordSize(E, Trail(E, p)[k - 1]))]
<1> DEFINE S == {m \in Nat :
                   \E f : f = [k \in 0..m |->
                     IF k = 0 THEN p ELSE AddIndex(f[k - 1], RecordSize(E, f[k - 1]))]}
<1>1. 0 \in S
  <2> DEFINE g == [k \in 0..0 |-> p]
  <2>1. g = [k \in 0..0 |->
               IF k = 0 THEN p ELSE AddIndex(g[k - 1], RecordSize(E, g[k - 1]))]
    OBVIOUS
  <2> QED
    BY <2>1
<1>2. ASSUME NEW m \in Nat, m \in S PROVE m + 1 \in S
  <2>1. PICK f : f = [k \in 0..m |->
                        IF k = 0 THEN p ELSE AddIndex(f[k - 1], RecordSize(E, f[k - 1]))]
    BY <1>2
  <2>2. PICK g : g = [k \in 0..(m + 1) |->
                        IF k <= m THEN f[k] ELSE AddIndex(f[m], RecordSize(E, f[m]))]
    OBVIOUS
  <2>3. ASSUME NEW k \in 0..(m + 1)
        PROVE  g[k] = IF k = 0 THEN p ELSE AddIndex(g[k - 1], RecordSize(E, g[k - 1]))
    <3>1. CASE k = 0
      <4>1. f[0] = p
        BY <2>1
      <4> QED
        BY <2>2, <3>1, <4>1
    <3>2. CASE k # 0 /\ k <= m
      <4>1. f[k] = AddIndex(f[k - 1], RecordSize(E, f[k - 1]))
        BY <2>1, <3>2
      <4>2. g[k] = f[k] /\ g[k - 1] = f[k - 1]
        BY <2>2, <3>2
      <4> QED
        BY <3>2, <4>1, <4>2
    <3>3. CASE k = m + 1
      <4>1. g[k] = AddIndex(f[m], RecordSize(E, f[m])) /\ g[k - 1] = f[m] /\ k # 0
        BY <2>2, <3>3
      <4> QED
        BY <4>1
    <3> QED
      BY <3>1, <3>2, <3>3
  <2>4. g = [k \in 0..(m + 1) |->
               IF k = 0 THEN p ELSE AddIndex(g[k - 1], RecordSize(E, g[k - 1]))]
    <3>1. g = [k \in 0..(m + 1) |-> g[k]]
      BY <2>2
    <3> QED
      BY <2>3, <3>1
  <2>5. m + 1 \in Nat
    OBVIOUS
  <2> QED
    BY <2>4, <2>5
<1> HIDE DEF S
<1>3. MaxSize \in S
  BY <1>1, <1>2, SetInduction, SizeAssumption
<1>4. \E f : f = [k \in 0..MaxSize |->
                    IF k = 0 THEN p ELSE AddIndex(f[k - 1], RecordSize(E, f[k - 1]))]
  BY <1>3 DEF S
<1>5. Trail(E, p) = CHOOSE f : f = [k \in 0..MaxSize |->
                    IF k = 0 THEN p ELSE AddIndex(f[k - 1], RecordSize(E, f[k - 1]))]
  BY DEF Trail
<1> QED
  BY <1>4, <1>5

LEMMA WordsIs ==
  ASSUME NEW E, NEW p
  PROVE  Words(E, p) = [k \in 0..MaxSize |->
           IF k = 0 THEN 0 ELSE Words(E, p)[k - 1] + RecordSize(E, Trail(E, p)[k - 1])]
<1> DEFINE S == {m \in Nat :
                   \E f : f = [k \in 0..m |->
                     IF k = 0 THEN 0 ELSE f[k - 1] + RecordSize(E, Trail(E, p)[k - 1])]}
<1>1. 0 \in S
  <2> DEFINE g == [k \in 0..0 |-> 0]
  <2>1. g = [k \in 0..0 |->
               IF k = 0 THEN 0 ELSE g[k - 1] + RecordSize(E, Trail(E, p)[k - 1])]
    OBVIOUS
  <2> QED
    BY <2>1
<1>2. ASSUME NEW m \in Nat, m \in S PROVE m + 1 \in S
  <2>1. PICK f : f = [k \in 0..m |->
                        IF k = 0 THEN 0 ELSE f[k - 1] + RecordSize(E, Trail(E, p)[k - 1])]
    BY <1>2
  <2>2. PICK g : g = [k \in 0..(m + 1) |->
                        IF k <= m THEN f[k] ELSE f[m] + RecordSize(E, Trail(E, p)[m])]
    OBVIOUS
  <2>3. ASSUME NEW k \in 0..(m + 1)
        PROVE  g[k] = IF k = 0 THEN 0 ELSE g[k - 1] + RecordSize(E, Trail(E, p)[k - 1])
    <3>1. CASE k = 0
      <4>1. f[0] = 0
        BY <2>1
      <4> QED
        BY <2>2, <3>1, <4>1
    <3>2. CASE k # 0 /\ k <= m
      <4>1. f[k] = f[k - 1] + RecordSize(E, Trail(E, p)[k - 1])
        BY <2>1, <3>2
      <4>2. g[k] = f[k] /\ g[k - 1] = f[k - 1]
        BY <2>2, <3>2
      <4> QED
        BY <3>2, <4>1, <4>2
    <3>3. CASE k = m + 1
      <4>1. g[k] = f[m] + RecordSize(E, Trail(E, p)[m]) /\ g[k - 1] = f[m] /\ k # 0 /\ k - 1 = m
        BY <2>2, <3>3
      <4> QED
        BY <4>1
    <3> QED
      BY <3>1, <3>2, <3>3
  <2>4. g = [k \in 0..(m + 1) |->
               IF k = 0 THEN 0 ELSE g[k - 1] + RecordSize(E, Trail(E, p)[k - 1])]
    <3>1. g = [k \in 0..(m + 1) |-> g[k]]
      BY <2>2
    <3> QED
      BY <2>3, <3>1
  <2>5. m + 1 \in Nat
    OBVIOUS
  <2> QED
    BY <2>4, <2>5
<1> HIDE DEF S
<1>3. MaxSize \in S
  BY <1>1, <1>2, SetInduction, SizeAssumption
<1>4. \E f : f = [k \in 0..MaxSize |->
                    IF k = 0 THEN 0 ELSE f[k - 1] + RecordSize(E, Trail(E, p)[k - 1])]
  BY <1>3 DEF S
<1>5. Words(E, p) = CHOOSE f : f = [k \in 0..MaxSize |->
                    IF k = 0 THEN 0 ELSE f[k - 1] + RecordSize(E, Trail(E, p)[k - 1])]
  BY DEF Words
<1> QED
  BY <1>4, <1>5

LEMMA DropIs ==
  Drop = [k \in 0..MaxSize |-> IF k = 0 THEN Queue ELSE RemoveLastClause(elems, Drop[k - 1])]
<1> DEFINE S == {m \in Nat :
                   \E f : f = [k \in 0..m |->
                     IF k = 0 THEN Queue ELSE RemoveLastClause(elems, f[k - 1])]}
<1>1. 0 \in S
  <2> DEFINE g == [k \in 0..0 |-> Queue]
  <2>1. g = [k \in 0..0 |-> IF k = 0 THEN Queue ELSE RemoveLastClause(elems, g[k - 1])]
    OBVIOUS
  <2> QED
    BY <2>1
<1>2. ASSUME NEW m \in Nat, m \in S PROVE m + 1 \in S
  <2>1. PICK f : f = [k \in 0..m |->
                        IF k = 0 THEN Queue ELSE RemoveLastClause(elems, f[k - 1])]
    BY <1>2
  <2>2. PICK g : g = [k \in 0..(m + 1) |->
                        IF k <= m THEN f[k] ELSE RemoveLastClause(elems, f[m])]
    OBVIOUS
  <2>3. ASSUME NEW k \in 0..(m + 1)
        PROVE  g[k] = IF k = 0 THEN Queue ELSE RemoveLastClause(elems, g[k - 1])
    <3>1. CASE k = 0
      <4>1. f[0] = Queue
        BY <2>1
      <4> QED
        BY <2>2, <3>1, <4>1
    <3>2. CASE k # 0 /\ k <= m
      <4>1. f[k] = RemoveLastClause(elems, f[k - 1])
        BY <2>1, <3>2
      <4>2. g[k] = f[k] /\ g[k - 1] = f[k - 1]
        BY <2>2, <3>2
      <4> QED
        BY <3>2, <4>1, <4>2
    <3>3. CASE k = m + 1
      <4>1. g[k] = RemoveLastClause(elems, f[m]) /\ g[k - 1] = f[m] /\ k # 0
        BY <2>2, <3>3
      <4> QED
        BY <4>1
    <3> QED
      BY <3>1, <3>2, <3>3
  <2>4. g = [k \in 0..(m + 1) |-> IF k = 0 THEN Queue ELSE RemoveLastClause(elems, g[k - 1])]
    <3>1. g = [k \in 0..(m + 1) |-> g[k]]
      BY <2>2
    <3> QED
      BY <2>3, <3>1
  <2>5. m + 1 \in Nat
    OBVIOUS
  <2> QED
    BY <2>4, <2>5
<1> HIDE DEF S
<1>3. MaxSize \in S
  BY <1>1, <1>2, SetInduction, SizeAssumption
<1>4. \E f : f = [k \in 0..MaxSize |-> IF k = 0 THEN Queue ELSE RemoveLastClause(elems, f[k - 1])]
  BY <1>3 DEF S
<1>5. Drop = CHOOSE f : f = [k \in 0..MaxSize |->
                    IF k = 0 THEN Queue ELSE RemoveLastClause(elems, f[k - 1])]
  BY DEF Drop
<1> QED
  BY <1>4, <1>5

LEMMA TrailSteps ==
  ASSUME NEW E, NEW p
  PROVE  /\ Trail(E, p)[0] = p /\ Words(E, p)[0] = 0
         /\ \A k \in 0..(MaxSize - 1) :
              /\ Trail(E, p)[k + 1] = AddIndex(Trail(E, p)[k], RecordSize(E, Trail(E, p)[k]))
              /\ Words(E, p)[k + 1] = Words(E, p)[k] + RecordSize(E, Trail(E, p)[k])
<1>1. PICK f : f = Trail(E, p)
  OBVIOUS
<1>2. PICK g : g = Words(E, p)
  OBVIOUS
<1>3. f = [k \in 0..MaxSize |-> IF k = 0 THEN p ELSE AddIndex(f[k - 1], RecordSize(E, f[k - 1]))]
  BY <1>1, TrailIs
<1>4. g = [k \in 0..MaxSize |-> IF k = 0 THEN 0 ELSE g[k - 1] + RecordSize(E, f[k - 1])]
  BY <1>1, <1>2, WordsIs
<1>5. f[0] = p /\ g[0] = 0
  BY <1>3, <1>4, SizeAssumption
<1>6. ASSUME NEW k \in 0..(MaxSize - 1)
      PROVE  f[k + 1] = AddIndex(f[k], RecordSize(E, f[k])) /\ g[k + 1] = g[k] + RecordSize(E, f[k])
  <2>1. k + 1 \in 0..MaxSize /\ k + 1 # 0 /\ (k + 1) - 1 = k
    BY SizeAssumption
  <2>2. f[k + 1] = AddIndex(f[(k + 1) - 1], RecordSize(E, f[(k + 1) - 1]))
    BY <1>3, <2>1
  <2>3. g[k + 1] = g[(k + 1) - 1] + RecordSize(E, f[(k + 1) - 1])
    BY <1>4, <2>1
  <2> QED
    BY <2>1, <2>2, <2>3
<1> QED
  BY <1>1, <1>2, <1>5, <1>6

(* Going from record to record gives the positions of P, and the words     *)
(* between them.                                                           *)
LEMMA TrailFacts ==
  ASSUME NEW E, NEW P, NEW b, NEW n, Laid(E, P, b, n)
  PROVE  \A k \in 0..(n - b) : /\ Trail(E, P[b + 1])[k] = P[b + k + 1]
                               /\ Words(E, P[b + 1])[k] = Dist(P[b + 1], P[b + k + 1])
<1>1. n \in Nat /\ b \in Nat /\ b <= n /\ MaxSize \in Nat /\ n - b \in 0..(MaxSize - 1)
  <2>1. n - b \in 0..(MaxSize - 1)
    BY LaidFacts
  <2> QED
    BY <2>1, SizeAssumption DEF Laid
<1>2. b + 1 \in (b + 1)..(n + 1) /\ P[b + 1] \in Index
  BY <1>1, LaidFacts
<1>3. PICK p : p = P[b + 1]
  OBVIOUS
<1> DEFINE S == {k \in Nat : k <= n - b => /\ Trail(E, p)[k] = P[b + k + 1]
                                           /\ Words(E, p)[k] = Dist(p, P[b + k + 1])}
<1>4. 0 \in S
  <2>1. 0 \in 0..MaxSize /\ b + 0 + 1 = b + 1
    BY <1>1
  <2>2. Trail(E, p)[0] = p
    BY TrailSteps
  <2>3. Words(E, p)[0] = 0
    BY TrailSteps
  <2>4. Dist(p, p) = 0
    BY <1>2, <1>3, RingFacts
  <2> QED
    BY <1>3, <2>1, <2>2, <2>3, <2>4
<1>5. ASSUME NEW k \in Nat, k \in S PROVE k + 1 \in S
  <2> SUFFICES ASSUME k + 1 <= n - b
               PROVE  /\ Trail(E, p)[k + 1] = P[b + (k + 1) + 1]
                      /\ Words(E, p)[k + 1] = Dist(p, P[b + (k + 1) + 1])
    OBVIOUS
  <2>1. PICK i : i = b + k + 1
    OBVIOUS
  <2>2. /\ i \in (b + 1)..n /\ i \in (b + 1)..(n + 1) /\ i + 1 \in (b + 1)..(n + 1)
        /\ b + (k + 1) + 1 = i + 1 /\ k \in 0..(MaxSize - 1)
    BY <1>1, <2>1
  <2>3. Trail(E, p)[k] = P[i] /\ Words(E, p)[k] = Dist(p, P[i])
    BY <1>1, <1>5, <2>1
  <2>4. Trail(E, p)[k + 1] = AddIndex(P[i], RecordSize(E, P[i]))
    BY <2>2, <2>3, TrailSteps
  <2>5. Words(E, p)[k + 1] = Dist(p, P[i]) + RecordSize(E, P[i])
    BY <2>2, <2>3, TrailSteps
  <2>6. Dist(p, P[i + 1]) = Dist(p, P[i]) + RecordSize(E, P[i])
    BY <1>3, <2>2 DEF Laid
  <2>7. AddIndex(P[i], RecordSize(E, P[i])) = P[i + 1]
    <3>1. P[i] \in Index /\ P[i + 1] \in Index /\ p \in Index
      BY <1>2, <1>3, <2>2, LaidFacts
    <3>2. /\ Dist(p, P[i]) \in Nat /\ Dist(p, P[i + 1]) \in 0..(MaxSize - 1)
          /\ AddIndex(p, Dist(p, P[i])) = P[i] /\ AddIndex(p, Dist(p, P[i + 1])) = P[i + 1]
      BY <1>1, <3>1, DistIs
    <3>3. RecordSize(E, P[i]) \in Nat
      <4>1. E[NextIndex(P[i])] \in Nat
        BY <2>2 DEF Laid
      <4> QED
        BY <4>1 DEF RecordSize, HeaderSize
    <3>4. Dist(p, P[i]) + RecordSize(E, P[i]) <= MaxSize
      BY <1>1, <2>6, <3>2
    <3>5. AddIndex(AddIndex(p, Dist(p, P[i])), RecordSize(E, P[i]))
            = AddIndex(p, Dist(p, P[i]) + RecordSize(E, P[i]))
      BY <3>1, <3>2, <3>3, <3>4, AddTwice
    <3> QED
      BY <2>6, <3>2, <3>5
  <2> QED
    BY <2>2, <2>4, <2>5, <2>6, <2>7
<1> HIDE DEF S
<1>6. ASSUME NEW k \in 0..(n - b)
      PROVE  /\ Trail(E, P[b + 1])[k] = P[b + k + 1]
             /\ Words(E, P[b + 1])[k] = Dist(P[b + 1], P[b + k + 1])
  <2>1. k \in S /\ k <= n - b
    BY <1>1, <1>4, <1>5, SetInduction
  <2> QED
    BY <1>3, <2>1 DEF S
<1> QED
  BY <1>6

-----------------------------------------------------------------------------
(* removeLastClause takes some of the oldest records away: the first, and  *)
(* on to the end or to a record whose counter is not 0.                    *)
LEMMA RemoveFacts ==
  ASSUME NEW E, NEW P, NEW b, NEW n, Laid(E, P, b, n), b < n, NEW C \in [Threads -> b..n]
  PROVE  \E m \in (b + 1)..n :
           /\ RemoveLastClause(E, View(P, n, b, C)) = View(P, n, m, Moved(C, m))
           /\ m < n => E[AddIndex(P[m + 1], 2)] # 0
           /\ \A i \in (b + 2)..m : E[AddIndex(P[i], 2)] = 0
<1>1. /\ n \in Nat /\ b \in Nat /\ MaxSize \in Nat /\ n - b \in 0..(MaxSize - 1)
      /\ n - b \in 1..MaxSize /\ n - b \in 0..(n - b)
  <2>1. n - b \in 0..(MaxSize - 1)
    BY LaidFacts
  <2>2. n \in Nat /\ b \in Nat /\ MaxSize \in Nat
    BY SizeAssumption DEF Laid
  <2> QED
    BY <2>1, <2>2
<1>2. PICK p : p = P[b + 1]
  OBVIOUS
<1>3. PICK trail : trail = Trail(E, p)
  OBVIOUS
<1>4. PICK sum : sum = Words(E, p)
  OBVIOUS
<1>5. \A k \in 0..(n - b) : trail[k] = P[b + k + 1] /\ sum[k] = Dist(p, P[b + k + 1])
  BY <1>2, <1>3, <1>4, TrailFacts
<1>6. PICK size : size = Dist(p, P[n + 1])
  OBVIOUS
<1> DEFINE Ends(k) == size <= sum[k] \/ E[AddIndex(trail[k], 2)] # 0
           First(k) == Ends(k) /\ \A j \in 1..(k - 1) : ~Ends(j)
<1>7. \A i, j \in (b + 1)..(n + 1) : i < j => Dist(p, P[i]) < Dist(p, P[j])
  BY <1>2, LaidFacts
<1>8. \A i \in (b + 1)..(n + 1) : P[i] \in Index /\ Dist(p, P[i]) \in Nat
  <2>1. \A i \in (b + 1)..(n + 1) : P[i] \in Index
    BY LaidFacts
  <2>2. b + 1 \in (b + 1)..(n + 1)
    BY <1>1
  <2> QED
    BY <1>2, <2>1, <2>2, DistIs
<1>9. Ends(n - b)
  <2>1. b + (n - b) + 1 = n + 1 /\ n + 1 \in (b + 1)..(n + 1)
    BY <1>1
  <2>2. sum[n - b] = size /\ size \in Nat
    BY <1>1, <1>5, <1>6, <1>8, <2>1
  <2> QED
    BY <2>2
<1>10. ASSUME NEW k \in 1..(n - b), k < n - b PROVE ~(size <= sum[k])
  <2>1. b + k + 1 \in (b + 1)..(n + 1) /\ n + 1 \in (b + 1)..(n + 1) /\ b + k + 1 < n + 1
        /\ k \in 0..(n - b)
    BY <1>1, <1>10
  <2>2. sum[k] = Dist(p, P[b + k + 1]) /\ Dist(p, P[b + k + 1]) < Dist(p, P[n + 1])
    BY <1>5, <1>7, <2>1
  <2> QED
    BY <1>6, <1>8, <2>1, <2>2
<1> HIDE DEF Ends
<1>11. \E k \in 1..MaxSize : First(k)
  <2> DEFINE T == {k \in 1..(n - b) : Ends(k)}
  <2>1. n - b \in T /\ T \in SUBSET Nat
    BY <1>1, <1>9
  <2> HIDE DEF T
  <2>2. PICK k \in T : \A j \in T : k <= j
    BY <2>1, LeastNatural
  <2>3. k \in 1..(n - b) /\ Ends(k)
    BY <2>2 DEF T
  <2>4. ASSUME NEW j \in 1..(k - 1) PROVE ~Ends(j)
    <3>1. j \in 1..(n - b) /\ ~(k <= j)
      BY <1>1, <2>3
    <3> QED
      BY <2>2, <3>1 DEF T
  <2>5. k \in 1..MaxSize
    BY <1>1, <2>3
  <2> QED
    BY <2>3, <2>4, <2>5
<1>12. PICK k : k = CHOOSE l \in 1..MaxSize : First(l)
  OBVIOUS
<1>13. k \in 1..MaxSize /\ First(k)
  BY <1>11, <1>12
<1>14. k \in 1..(n - b)
  <2>1. ~(n - b < k)
    <3> SUFFICES ASSUME n - b < k PROVE FALSE
      OBVIOUS
    <3>1. n - b \in 1..(k - 1)
      BY <1>1, <1>13
    <3> QED
      BY <1>9, <1>13, <3>1
  <2> QED
    BY <1>1, <1>13, <2>1
<1>15. PICK m : m = b + k
  OBVIOUS
<1>16. m \in (b + 1)..n /\ m + 1 = b + k + 1 /\ k \in 0..(n - b)
  BY <1>1, <1>14, <1>15
<1>17. trail[k] = P[m + 1] /\ sum[k] = Dist(p, P[m + 1])
  BY <1>5, <1>16
<1>18. m < n => E[AddIndex(P[m + 1], 2)] # 0
  <2> SUFFICES ASSUME m < n PROVE E[AddIndex(P[m + 1], 2)] # 0
    OBVIOUS
  <2>1. k < n - b
    BY <1>1, <1>15, <1>16
  <2>2. ~(size <= sum[k])
    BY <1>10, <1>14, <2>1
  <2> QED
    BY <1>13, <1>17, <2>2 DEF Ends
<1>19. ASSUME NEW i \in (b + 2)..m PROVE E[AddIndex(P[i], 2)] = 0
  <2>1. PICK j : j = i - b - 1
    OBVIOUS
  <2>2. j \in 1..(k - 1) /\ j \in 0..(n - b) /\ b + j + 1 = i
    BY <1>1, <1>15, <1>16, <2>1
  <2>3. ~Ends(j) /\ trail[j] = P[i]
    BY <1>5, <1>13, <2>2
  <2> QED
    BY <2>3 DEF Ends
<1>20. Dist(P[m + 1], P[n + 1]) = size - sum[k]
  <2>1. m \in b..n /\ n + 1 \in (m + 1)..(n + 1)
    BY <1>1, <1>16
  <2>2. Dist(P[m + 1], P[n + 1]) = Dist(P[b + 1], P[n + 1]) - Dist(P[b + 1], P[m + 1])
    BY <2>1, LaidFacts
  <2> QED
    BY <1>2, <1>6, <1>17, <2>2
<1>21. PICK passed : passed = {trail[j] : j \in 0..(k - 1)}
  OBVIOUS
<1>22. MoveCursors([t \in Threads |-> P[C[t] + 1]], passed, trail[k])
         = [t \in Threads |-> P[Moved(C, m)[t] + 1]]
  <2>1. ASSUME NEW t \in Threads
        PROVE  (IF P[C[t] + 1] \in passed THEN trail[k] ELSE P[C[t] + 1]) = P[Moved(C, m)[t] + 1]
    <3>1. C[t] \in b..n /\ C[t] \in Nat /\ C[t] + 1 \in (b + 1)..(n + 1)
      BY <1>1
    <3>2. CASE C[t] < m
      <4>1. PICK j : j = C[t] - b
        OBVIOUS
      <4>2. j \in 0..(k - 1) /\ j \in 0..(n - b) /\ b + j + 1 = C[t] + 1
        BY <1>1, <1>15, <1>16, <3>1, <3>2, <4>1
      <4>3. trail[j] = P[C[t] + 1]
        BY <1>5, <4>2
      <4>4. P[C[t] + 1] \in passed
        BY <1>21, <4>2, <4>3
      <4>5. Moved(C, m)[t] = m
        BY <3>2 DEF Moved
      <4> QED
        BY <1>17, <4>4, <4>5
    <3>3. CASE ~(C[t] < m)
      <4>1. ASSUME P[C[t] + 1] \in passed PROVE FALSE
        <5>1. PICK j \in 0..(k - 1) : P[C[t] + 1] = trail[j]
          BY <1>21, <4>1
        <5>2. j \in 0..(n - b) /\ b + j + 1 \in (b + 1)..(n + 1) /\ b + j + 1 # C[t] + 1
          BY <1>1, <1>15, <1>16, <3>1, <3>3
        <5>3. P[C[t] + 1] = P[b + j + 1]
          BY <1>5, <5>1, <5>2
        <5> QED
          BY <3>1, <5>2, <5>3, LaidFacts
      <4>2. Moved(C, m)[t] = C[t]
        BY <3>3 DEF Moved
      <4> QED
        BY <4>1, <4>2
    <3> QED
      BY <3>2, <3>3
  <2> QED
    BY <2>1 DEF MoveCursors
<1>23. RemoveLastClause(E, View(P, n, b, C)) =
         [last |-> trail[k], queuesize |-> size - sum[k],
          cursor |-> MoveCursors([t \in Threads |-> P[C[t] + 1]], passed, trail[k]),
          removed |-> b + k]
  <2>1. PICK q : q = View(P, n, b, C)
    OBVIOUS
  <2>2. /\ q.last = p /\ q.queuesize = size /\ q.removed = b
        /\ q.cursor = [t \in Threads |-> P[C[t] + 1]]
    BY <1>2, <1>6, <2>1 DEF View
  <2>3. k = CHOOSE j \in 1..MaxSize :
              /\ size <= sum[j] \/ E[AddIndex(trail[j], 2)] # 0
              /\ \A i \in 1..(j - 1) : ~(size <= sum[i] \/ E[AddIndex(trail[i], 2)] # 0)
    BY <1>12 DEF Ends
  <2>4. RemoveLastClause(E, q) =
         [last |-> trail[k], queuesize |-> size - sum[k],
          cursor |-> MoveCursors(q.cursor, passed, trail[k]), removed |-> b + k]
    BY <1>3, <1>4, <1>21, <2>2, <2>3 DEF RemoveLastClause
  <2> QED
    BY <2>1, <2>2, <2>4
<1>24. RemoveLastClause(E, View(P, n, b, C)) = View(P, n, m, Moved(C, m))
  BY <1>15, <1>17, <1>20, <1>22, <1>23 DEF View
<1> QED
  BY <1>16, <1>18, <1>19, <1>24

LEMMA MovedFacts ==
  ASSUME NEW b \in Nat, NEW n \in Nat, NEW C \in [Threads -> b..n], NEW m \in b..n
  PROVE  /\ Moved(C, m) \in [Threads -> m..n]
         /\ Moved(C, b) = C
         /\ \A l \in m..n : Moved(Moved(C, m), l) = Moved(C, l)
<1>1. \A t \in Threads : C[t] \in b..n /\ Moved(C, m)[t] = IF C[t] < m THEN m ELSE C[t]
  BY DEF Moved
<1>2. Moved(C, m) \in [Threads -> m..n]
  <2>1. \A t \in Threads : Moved(C, m)[t] \in m..n
    BY <1>1
  <2> QED
    BY <2>1 DEF Moved
<1>3. Moved(C, b) = C
  <2>1. \A t \in Threads : (IF C[t] < b THEN b ELSE C[t]) = C[t]
    BY <1>1
  <2> QED
    BY <2>1 DEF Moved
<1>4. ASSUME NEW l \in m..n PROVE Moved(Moved(C, m), l) = Moved(C, l)
  <2>1. \A t \in Threads : (IF Moved(C, m)[t] < l THEN l ELSE Moved(C, m)[t])
                             = IF C[t] < l THEN l ELSE C[t]
    BY <1>1
  <2> QED
    BY <2>1 DEF Moved
<1> QED
  BY <1>2, <1>3, <1>4

-----------------------------------------------------------------------------
(* Making room for a clause.                                               *)
LEMMA DropViews ==
  ASSUME NEW P, NEW n, Laid(elems, P, base, n), NEW C \in [Threads -> base..n],
         Queue = View(P, n, base, C), NEW size \in Sizes, NEW k \in 0..MaxSize,
         \A j \in 0..(k - 1) : Full(Drop[j], size)
  PROVE  \E b \in (base + k)..n :
           /\ Drop[k] = View(P, n, b, Moved(C, b))
           /\ k # 0 /\ b < n => elems[AddIndex(P[b + 1], 2)] # 0
<1>1. n \in Nat /\ base \in Nat /\ base <= n /\ MaxSize \in Nat
  BY SizeAssumption DEF Laid
<1>2. PICK d : d = Drop
  OBVIOUS
<1>3. d[0] = Queue /\ \A i \in 0..(MaxSize - 1) : d[i + 1] = RemoveLastClause(elems, d[i])
  <2>1. d = [i \in 0..MaxSize |-> IF i = 0 THEN Queue ELSE RemoveLastClause(elems, d[i - 1])]
    BY <1>2, DropIs
  <2>2. 0 \in 0..MaxSize
    BY <1>1
  <2>3. d[0] = Queue
    BY <2>1, <2>2
  <2>4. ASSUME NEW i \in 0..(MaxSize - 1) PROVE d[i + 1] = RemoveLastClause(elems, d[i])
    <3>1. i + 1 \in 0..MaxSize /\ i + 1 # 0 /\ (i + 1) - 1 = i
      BY <1>1
    <3> QED
      BY <2>1, <3>1
  <2> QED
    BY <2>3, <2>4
<1> DEFINE At(i) == \E b \in (base + i)..n :
                      /\ d[i] = View(P, n, b, Moved(C, b))
                      /\ i # 0 /\ b < n => elems[AddIndex(P[b + 1], 2)] # 0
           S == {i \in Nat : i <= k => At(i)}
<1>4. 0 \in S
  <2>1. Moved(C, base) = C
    BY <1>1, MovedFacts
  <2>2. base \in (base + 0)..n
    BY <1>1
  <2> QED
    BY <1>3, <2>1, <2>2
<1>5. ASSUME NEW i \in Nat, i \in S PROVE i + 1 \in S
  <2> SUFFICES ASSUME i + 1 <= k PROVE At(i + 1)
    OBVIOUS
  <2>1. i \in 0..(k - 1) /\ i \in 0..(MaxSize - 1) /\ i <= k
    BY <1>1
  <2>2. PICK b \in (base + i)..n : d[i] = View(P, n, b, Moved(C, b))
    BY <1>5, <2>1
  <2>3. b \in Nat /\ b \in base..n /\ base + i <= b
    BY <1>1, <2>1
  <2>4. b < n
    <3> SUFFICES ASSUME b = n PROVE FALSE
      BY <1>1, <2>3
    <3>1. P[n + 1] \in Index
      BY <1>1 DEF Laid
    <3>2. Dist(P[n + 1], P[n + 1]) = 0
      BY <3>1, RingFacts
    <3>3. d[i].queuesize = 0
      BY <2>2, <3>2 DEF View
    <3>4. d[i].queuesize + size + HeaderSize >= MaxSize
      BY <1>2, <2>1 DEF Full
    <3> QED
      BY <1>1, <3>3, <3>4, SizeAssumption DEF HeaderSize
  <2>5. Laid(elems, P, b, n)
    BY <2>3, LaidFacts
  <2>6. Moved(C, b) \in [Threads -> b..n]
    BY <1>1, <2>3, MovedFacts
  <2>7. PICK m \in (b + 1)..n :
          /\ RemoveLastClause(elems, View(P, n, b, Moved(C, b)))
               = View(P, n, m, Moved(Moved(C, b), m))
          /\ m < n => elems[AddIndex(P[m + 1], 2)] # 0
    BY <2>4, <2>5, <2>6, RemoveFacts
  <2>8. Moved(Moved(C, b), m) = Moved(C, m)
    <3>1. m \in b..n
      BY <2>3
    <3> QED
      BY <1>1, <2>3, <3>1, MovedFacts
  <2>9. d[i + 1] = View(P, n, m, Moved(C, m))
    BY <1>3, <2>1, <2>2, <2>7, <2>8
  <2>10. m \in (base + (i + 1))..n
    BY <1>1, <2>3
  <2> QED
    BY <2>7, <2>9, <2>10
<1> HIDE DEF S
<1>6. k \in S
  BY <1>4, <1>5, SetInduction
<1>7. At(k)
  BY <1>6 DEF S
<1> QED
  BY <1>2, <1>7

(* Room is made, by taking records away that others follow which are still *)
(* awaited.                                                                *)
LEMMA DropFacts ==
  ASSUME NEW P, NEW n, Laid(elems, P, base, n), NEW C \in [Threads -> base..n],
         Queue = View(P, n, base, C), NEW size \in Sizes
  PROVE  \E b \in base..n, k \in 0..MaxSize :
           /\ k = CHOOSE i \in 0..MaxSize :
                    ~Full(Drop[i], size) /\ \A j \in 0..(i - 1) : Full(Drop[j], size)
           /\ Drop[k] = View(P, n, b, Moved(C, b)) /\ ~Full(Drop[k], size)
           /\ b # base => Full(Queue, size)
           /\ b # base /\ b < n => elems[AddIndex(P[b + 1], 2)] # 0
<1>1. n \in Nat /\ base \in Nat /\ base <= n /\ MaxSize \in Nat
  BY SizeAssumption DEF Laid
<1> DEFINE Fits(i) == ~Full(Drop[i], size)
           T == {i \in 0..MaxSize : Fits(i)}
<1>2. T # {}
  <2> SUFFICES ASSUME \A i \in 0..MaxSize : Full(Drop[i], size) PROVE FALSE
    OBVIOUS
  <2>1. PICK k : k = n - base + 1
    OBVIOUS
  <2>2. k \in 0..MaxSize
    <3>1. n - base \in 0..(MaxSize - 1)
      BY LaidFacts
    <3> QED
      BY <1>1, <2>1, <3>1
  <2>3. \A j \in 0..(k - 1) : Full(Drop[j], size)
    <3>1. \A j \in 0..(k - 1) : j \in 0..MaxSize
      BY <1>1, <2>2
    <3> QED
      BY <3>1
  <2>4. PICK b \in (base + k)..n : TRUE
    BY <2>2, <2>3, DropViews
  <2> QED
    BY <1>1, <2>1
<1>3. T \in SUBSET Nat
  BY <1>1
<1>4. PICK l \in T : \A j \in T : l <= j
  BY <1>2, <1>3, LeastNatural
<1>5. /\ l \in 0..MaxSize /\ ~Full(Drop[l], size)
      /\ \A j \in 0..(l - 1) : Full(Drop[j], size)
  <2>1. l \in 0..MaxSize /\ ~Full(Drop[l], size)
    BY <1>4
  <2>2. ASSUME NEW j \in 0..(l - 1) PROVE Full(Drop[j], size)
    <3>1. j \in 0..MaxSize /\ ~(l <= j)
      BY <1>1, <2>1
    <3> QED
      BY <1>4, <3>1
  <2> QED
    BY <2>1, <2>2
<1>6. PICK k : k = CHOOSE i \in 0..MaxSize :
                     ~Full(Drop[i], size) /\ \A j \in 0..(i - 1) : Full(Drop[j], size)
  OBVIOUS
<1>7. /\ k \in 0..MaxSize /\ ~Full(Drop[k], size)
      /\ \A j \in 0..(k - 1) : Full(Drop[j], size)
  BY <1>5, <1>6, Zenon
<1>8. PICK b \in (base + k)..n :
        /\ Drop[k] = View(P, n, b, Moved(C, b))
        /\ k # 0 /\ b < n => elems[AddIndex(P[b + 1], 2)] # 0
  BY <1>7, DropViews
<1>9. b \in base..n
  BY <1>1, <1>7
<1>10. ASSUME k = 0 PROVE b = base
  <2>1. PICK d : d = Drop
    OBVIOUS
  <2>2. d = [i \in 0..MaxSize |-> IF i = 0 THEN Queue ELSE RemoveLastClause(elems, d[i - 1])]
    BY <2>1, DropIs
  <2>3. d[0] = Queue
    BY <1>1, <2>2
  <2>4. Queue.removed = b
    BY <1>8, <1>10, <2>1, <2>3 DEF View
  <2> QED
    BY <2>4 DEF Queue
<1>11. ASSUME k # 0 PROVE Full(Queue, size)
  <2>1. PICK d : d = Drop
    OBVIOUS
  <2>2. d = [i \in 0..MaxSize |-> IF i = 0 THEN Queue ELSE RemoveLastClause(elems, d[i - 1])]
    BY <2>1, DropIs
  <2>3. d[0] = Queue
    BY <1>1, <2>2
  <2>4. 0 \in 0..(k - 1)
    BY <1>7, <1>11
  <2> QED
    BY <1>7, <2>1, <2>3, <2>4
<1> QED
  BY <1>6, <1>7, <1>8, <1>9, <1>10, <1>11

-----------------------------------------------------------------------------
(* The inductive invariant: the records are laid out in the ring in the    *)
(* order of the log, each with what was stored, and the fields of the      *)
(* class are what removeLastClause sees of them.                           *)
Positions == [i \in 1..(Len(log) + 1) |-> Before(i)]

Types ==
  /\ elems \in [Index -> Int]
  /\ first \in Index
  /\ assertOk \in BOOLEAN
  /\ log \in Seq(Int) /\ at \in Seq(Index) /\ Len(at) = Len(log)

(* Record i of E, after position p, has the origin o and the literals i.   *)
Holds(E, p, i, o) ==
  /\ E[AddIndex(p, 3)] = o
  /\ \A k \in 4..RecordSize(E, p) : E[AddIndex(p, k)] = i
Stored == \A i \in Live : Holds(elems, Before(i), i, log[i])

IInv ==
  /\ Types
  /\ Laid(elems, Positions, base, Len(log))
  /\ Stored
  /\ \E C \in [Threads -> base..Len(log)] : Queue = View(Positions, Len(log), base, C)

-----------------------------------------------------------------------------
(* Distances and the places the code computes.                             *)
LEMMA Modulo ==
  ASSUME NEW p \in Index, NEW q \in Index
  PROVE  (q + MaxSize - p) % MaxSize = Dist(p, q)
<1>1. \A x \in 0..(MaxSize - 1) : x % MaxSize = x /\ (x + MaxSize) % MaxSize = x
  BY SizeAssumption
<1>2. p \in Int /\ q \in Int /\ 0 <= p /\ p < MaxSize /\ 0 <= q /\ q < MaxSize /\ MaxSize \in Int
  BY SizeAssumption DEF Index
<1>3. CASE q >= p
  <2>1. q - p \in 0..(MaxSize - 1) /\ q + MaxSize - p = (q - p) + MaxSize
    BY <1>2, <1>3
  <2> QED
    BY <1>1, <1>3, <2>1 DEF Dist
<1>4. CASE q < p
  <2>1. q + MaxSize - p \in 0..(MaxSize - 1) /\ ~(q >= p) /\ q - p + MaxSize = q + MaxSize - p
    BY <1>2, <1>4
  <2> QED
    BY <1>1, <2>1 DEF Dist
<1> QED
  BY <1>2, <1>3, <1>4

LEMMA NextFacts ==
  ASSUME NEW p \in Index, NEW q \in Index
  PROVE  /\ Dist(NextIndex(p), NextIndex(q)) = Dist(p, q)
         /\ NextIndex(p) = NextIndex(q) => p = q
         /\ NextIndex(p) \in Index
BY SizeAssumption DEF Index, NextIndex, Dist

(* The position before a place.                                            *)
Back(i) == IF i = 0 THEN MaxSize - 1 ELSE i - 1

LEMMA BackFacts ==
  ASSUME NEW i \in Index
  PROVE  /\ Back(i) \in Index /\ NextIndex(Back(i)) = i
         /\ \A a \in 0..MaxSize : Back(AddIndex(i, a)) = AddIndex(Back(i), a)
BY SizeAssumption DEF Index, NextIndex, AddIndex, Back

LEMMA InOrder ==
  ASSUME NEW l \in Index, NEW f \in Index, NEW q \in Index, NEW p \in Index,
         f = NextIndex(q), Dist(l, p) <= Dist(l, q)
  PROVE  ~(\/ p < l /\ l < f
           \/ f < p /\ p < l
           \/ l < f /\ f < p)
BY SizeAssumption DEF Index, NextIndex, Dist

(* The words a new record is written to, and those it leaves alone.        *)
LEMMA Written ==
  ASSUME NEW q \in Index, NEW k \in 1..(MaxSize - 1)
  PROVE  1 + Dist(NextIndex(q), AddIndex(q, k)) = k
BY SizeAssumption DEF Index, NextIndex, AddIndex, Dist

LEMMA Untouched ==
  ASSUME NEW l \in Index, NEW q \in Index, NEW w \in Index, NEW size \in Nat,
         1 <= Dist(l, w), Dist(l, w) <= Dist(l, q), Dist(l, q) + size < MaxSize
  PROVE  ~(1 + Dist(NextIndex(q), w) <= size)
BY SizeAssumption DEF Index, NextIndex, Dist

-----------------------------------------------------------------------------
(* The words of a record.                                                  *)
LEMMA WordFacts ==
  ASSUME NEW E, NEW P, NEW b, NEW n, Laid(E, P, b, n),
         NEW i \in (b + 1)..n, NEW k \in 1..RecordSize(E, P[i])
  PROVE  /\ AddIndex(P[i], k) \in Index /\ RecordSize(E, P[i]) \in Nat
         /\ Dist(P[b + 1], AddIndex(P[i], k)) = Dist(P[b + 1], P[i]) + k
         /\ Dist(P[b + 1], P[i]) + k <= Dist(P[b + 1], P[i + 1])
         /\ Dist(P[b + 1], P[i + 1]) <= Dist(P[b + 1], P[n + 1])
<1>1. n \in Nat /\ b \in Nat /\ b <= n /\ MaxSize \in Nat /\ i \in Nat
  BY SizeAssumption DEF Laid
<1>2. /\ b + 1 \in (b + 1)..(n + 1) /\ i \in (b + 1)..(n + 1) /\ i + 1 \in (b + 1)..(n + 1)
      /\ n + 1 \in (i + 1)..(n + 1) /\ n + 1 \in (b + 1)..(n + 1)
  BY <1>1
<1>3. P[b + 1] \in Index /\ P[i] \in Index /\ P[i + 1] \in Index /\ P[n + 1] \in Index
  BY <1>2, LaidFacts
<1>4. PICK p : p = P[b + 1]
  OBVIOUS
<1>5. PICK q : q = P[i]
  OBVIOUS
<1>6. PICK r : r = P[i + 1]
  OBVIOUS
<1>7. PICK s : s = RecordSize(E, q)
  OBVIOUS
<1>8. s \in Nat
  <2>1. E[NextIndex(q)] \in Nat
    BY <1>5 DEF Laid
  <2> QED
    BY <1>7, <2>1 DEF RecordSize, HeaderSize
<1>9. Dist(p, r) = Dist(p, q) + s
  BY <1>4, <1>5, <1>6, <1>7 DEF Laid
<1>10. Dist(p, r) <= Dist(p, P[n + 1])
  <2>1. Dist(p, r) + ((n + 1) - (i + 1)) <= Dist(p, P[n + 1])
    <3>1. PICK j : j = i + 1
      OBVIOUS
    <3>2. PICK m : m = n + 1
      OBVIOUS
    <3>3. j \in (b + 1)..(n + 1) /\ m \in j..(n + 1)
      BY <1>2, <3>1, <3>2
    <3>4. Dist(P[b + 1], P[j]) + (m - j) <= Dist(P[b + 1], P[m])
      BY <3>3, Further
    <3> QED
      BY <1>4, <1>6, <3>1, <3>2, <3>4
  <2>2. Dist(p, r) \in Nat /\ Dist(p, P[n + 1]) \in Nat
    BY <1>3, <1>4, <1>6, DistIs
  <2> QED
    BY <1>1, <2>1, <2>2
<1>11. /\ Dist(p, q) \in Nat /\ Dist(p, r) < MaxSize /\ Dist(p, r) \in Nat
       /\ AddIndex(p, Dist(p, q)) = q
  BY <1>3, <1>4, <1>5, <1>6, DistIs
<1>12. k \in Nat /\ k <= s /\ Dist(p, q) + k <= MaxSize - 1 /\ Dist(p, q) + k \in 0..(MaxSize - 1)
       /\ k \in 0..MaxSize
  BY <1>1, <1>5, <1>7, <1>8, <1>9, <1>11
<1>13. AddIndex(q, k) = AddIndex(p, Dist(p, q) + k)
  <2>1. Dist(p, q) + k <= MaxSize
    BY <1>1, <1>11, <1>12
  <2>2. AddIndex(AddIndex(p, Dist(p, q)), k) = AddIndex(p, Dist(p, q) + k)
    BY <1>3, <1>4, <1>11, <1>12, <2>1, AddTwice
  <2> QED
    BY <1>11, <2>2
<1>14. Dist(p, AddIndex(q, k)) = Dist(p, q) + k
  <2>1. \A a \in 0..(MaxSize - 1) : Dist(p, AddIndex(p, a)) = a
    BY <1>3, <1>4, RingFacts
  <2> QED
    BY <1>12, <1>13, <2>1
<1>15. AddIndex(q, k) \in Index
  BY <1>3, <1>5, <1>12, RingFacts
<1>16. Dist(p, q) + k <= Dist(p, r)
  BY <1>8, <1>9, <1>11, <1>12
<1> QED
  BY <1>4, <1>5, <1>6, <1>7, <1>8, <1>10, <1>14, <1>15, <1>16

(* A record ends where the next one starts.                                *)
LEMMA EndFacts ==
  ASSUME NEW E, NEW P, NEW b, NEW n, Laid(E, P, b, n), NEW i \in (b + 1)..n
  PROVE  AddIndex(P[i], RecordSize(E, P[i])) = P[i + 1]
<1>1. n \in Nat /\ b \in Nat /\ b <= n /\ MaxSize \in Nat /\ i \in Nat
  BY SizeAssumption DEF Laid
<1>2. PICK s : s = RecordSize(E, P[i])
  OBVIOUS
<1>3. s \in 1..s /\ s \in Nat
  <2>1. E[NextIndex(P[i])] \in Nat
    BY DEF Laid
  <2> QED
    BY <1>2, <2>1 DEF RecordSize, HeaderSize
<1>4. AddIndex(P[i], s) \in Index /\ Dist(P[b + 1], AddIndex(P[i], s)) = Dist(P[b + 1], P[i]) + s
  BY <1>2, <1>3, WordFacts
<1>5. Dist(P[b + 1], P[i + 1]) = Dist(P[b + 1], P[i]) + s
  BY <1>2 DEF Laid
<1>6. P[b + 1] \in Index /\ P[i + 1] \in Index
  <2>1. b + 1 \in (b + 1)..(n + 1) /\ i + 1 \in (b + 1)..(n + 1)
    BY <1>1
  <2> QED
    BY <2>1, LaidFacts
<1>7. /\ AddIndex(P[b + 1], Dist(P[b + 1], P[i + 1])) = P[i + 1]
      /\ AddIndex(P[b + 1], Dist(P[b + 1], AddIndex(P[i], s))) = AddIndex(P[i], s)
  BY <1>4, <1>6, DistIs
<1> QED
  BY <1>2, <1>4, <1>5, <1>7

(* No two records share a word.                                            *)
LEMMA Apart ==
  ASSUME NEW E, NEW P, NEW b, NEW n, Laid(E, P, b, n),
         NEW i \in (b + 1)..n, NEW k \in 1..RecordSize(E, P[i]),
         NEW j \in (b + 1)..n, NEW l \in 1..RecordSize(E, P[j]),
         AddIndex(P[i], k) = AddIndex(P[j], l)
  PROVE  i = j /\ k = l
<1>1. n \in Nat /\ b \in Nat /\ b <= n /\ MaxSize \in Nat /\ i \in Nat /\ j \in Nat
  BY SizeAssumption DEF Laid
<1> DEFINE D(m) == Dist(P[b + 1], P[m])
<1>2. D(i) + k = D(j) + l
  <2>1. Dist(P[b + 1], AddIndex(P[i], k)) = D(i) + k
    BY WordFacts
  <2>2. Dist(P[b + 1], AddIndex(P[j], l)) = D(j) + l
    BY WordFacts
  <2> QED
    BY <2>1, <2>2
<1>3. D(i) + k <= D(i + 1) /\ D(j) + l <= D(j + 1)
  BY WordFacts
<1>4. \A m \in (b + 1)..(n + 1) : D(m) \in Nat
  <2>1. \A m \in (b + 1)..(n + 1) : P[m] \in Index
    BY LaidFacts
  <2>2. b + 1 \in (b + 1)..(n + 1)
    BY <1>1
  <2> QED
    BY <2>1, <2>2, DistIs
<1>5. \A h, m \in (b + 1)..(n + 1) : h < m => D(h) < D(m)
  BY LaidFacts
<1>6. k \in Int /\ l \in Int /\ 1 <= k /\ 1 <= l
  OBVIOUS
<1> HIDE DEF D
<1>7. ~(i < j)
  <2> SUFFICES ASSUME i < j PROVE FALSE
    OBVIOUS
  <2>1. i + 1 = j \/ i + 1 < j
    BY <1>1
  <2>2. i + 1 \in (b + 1)..(n + 1) /\ j \in (b + 1)..(n + 1)
    BY <1>1
  <2>3. D(i + 1) <= D(j)
    BY <1>4, <1>5, <2>1, <2>2
  <2> QED
    BY <1>2, <1>3, <1>4, <1>6, <2>2, <2>3
<1>8. ~(j < i)
  <2> SUFFICES ASSUME j < i PROVE FALSE
    OBVIOUS
  <2>1. j + 1 = i \/ j + 1 < i
    BY <1>1
  <2>2. j + 1 \in (b + 1)..(n + 1) /\ i \in (b + 1)..(n + 1)
    BY <1>1
  <2>3. D(j + 1) <= D(i)
    BY <1>4, <1>5, <2>1, <2>2
  <2> QED
    BY <1>2, <1>3, <1>4, <1>6, <2>2, <2>3
<1>9. i = j
  BY <1>1, <1>7, <1>8
<1>10. i \in (b + 1)..(n + 1)
  BY <1>1
<1> QED
  BY <1>2, <1>4, <1>6, <1>9, <1>10

(* A record stored behind the others is laid out with them.                *)
Grows(E, F, P, Q, b, n, size) ==
  /\ size \in Nat \ {0}
  /\ Q \in [1..(n + 2) -> Index] /\ \A i \in 1..(n + 1) : Q[i] = P[i]
  /\ \A i \in (b + 1)..n : F[NextIndex(P[i])] = E[NextIndex(P[i])]
  /\ F[NextIndex(P[n + 1])] = size
  /\ Q[n + 2] = AddIndex(P[n + 1], size + 3)
  /\ Dist(P[b + 1], P[n + 1]) + size + 3 < MaxSize

LEMMA LaidPush ==
  ASSUME NEW E, NEW F, NEW P, NEW Q, NEW b, NEW n, NEW size,
         Laid(E, P, b, n), Grows(E, F, P, Q, b, n, size)
  PROVE  /\ Laid(F, Q, b, n + 1)
         /\ Dist(Q[b + 1], Q[n + 2]) = Dist(P[b + 1], P[n + 1]) + size + 3
<1>0. /\ size \in Nat \ {0}
      /\ Q \in [1..(n + 2) -> Index] /\ \A i \in 1..(n + 1) : Q[i] = P[i]
      /\ \A i \in (b + 1)..n : F[NextIndex(P[i])] = E[NextIndex(P[i])]
      /\ F[NextIndex(P[n + 1])] = size
      /\ Q[n + 2] = AddIndex(P[n + 1], size + 3)
      /\ Dist(P[b + 1], P[n + 1]) + size + 3 < MaxSize
  BY DEF Grows
<1>1. n \in Nat /\ b \in Nat /\ b <= n /\ MaxSize \in Nat /\ size \in Nat /\ (n + 1) + 1 = n + 2
  BY <1>0, SizeAssumption DEF Laid
<1>2. /\ b + 1 \in 1..(n + 1) /\ n + 1 \in 1..(n + 1)
      /\ b + 1 \in (b + 1)..(n + 1) /\ n + 1 \in (b + 1)..(n + 1)
  BY <1>1
<1>3. PICK p : p = P[b + 1]
  OBVIOUS
<1>4. PICK q : q = P[n + 1]
  OBVIOUS
<1>5. p \in Index /\ q \in Index /\ Q[b + 1] = p /\ Q[n + 1] = q
  BY <1>0, <1>2, <1>3, <1>4, LaidFacts
<1>6. Dist(p, Q[n + 2]) = Dist(p, q) + size + 3
  <2>1. Dist(p, q) \in Nat /\ AddIndex(p, Dist(p, q)) = q
    BY <1>5, DistIs
  <2>2. size + 3 \in Nat /\ Dist(p, q) + (size + 3) <= MaxSize
        /\ Dist(p, q) + (size + 3) \in 0..(MaxSize - 1)
    BY <1>0, <1>1, <1>3, <1>4, <2>1
  <2>3. AddIndex(AddIndex(p, Dist(p, q)), size + 3) = AddIndex(p, Dist(p, q) + (size + 3))
    <3>1. PICK a : a = Dist(p, q)
      OBVIOUS
    <3>2. PICK c : c = size + 3
      OBVIOUS
    <3>3. a \in Nat /\ c \in Nat /\ a + c <= MaxSize
      BY <2>1, <2>2, <3>1, <3>2
    <3>4. AddIndex(AddIndex(p, a), c) = AddIndex(p, a + c)
      BY <1>5, <3>3, AddTwice
    <3> QED
      BY <3>1, <3>2, <3>4
  <2>4. \A a \in 0..(MaxSize - 1) : Dist(p, AddIndex(p, a)) = a
    BY <1>5, RingFacts
  <2>5. Dist(p, AddIndex(q, size + 3)) = Dist(p, q) + (size + 3)
    BY <2>1, <2>2, <2>3, <2>4
  <2> QED
    BY <1>0, <1>1, <1>4, <2>1, <2>5
<1>7. ASSUME NEW i \in (b + 1)..(n + 1)
      PROVE  /\ F[NextIndex(Q[i])] \in Nat \ {0}
             /\ Dist(p, Q[i + 1]) = Dist(p, Q[i]) + RecordSize(F, Q[i])
  <2>1. CASE i = n + 1
    <3>1. RecordSize(F, Q[i]) = size + 3 /\ F[NextIndex(Q[i])] = size
      BY <1>0, <1>4, <1>5, <2>1 DEF RecordSize, HeaderSize
    <3>2. Dist(p, q) \in Nat
      BY <1>5, DistIs
    <3>3. i + 1 = n + 2 /\ Q[i] = q
      BY <1>1, <1>5, <2>1
    <3>4. Dist(p, q) + (size + 3) = Dist(p, q) + size + 3
      BY <1>1, <3>2
    <3> QED
      BY <1>0, <1>6, <3>1, <3>3, <3>4
  <2>2. CASE i # n + 1
    <3>1. i \in (b + 1)..n /\ i \in 1..(n + 1) /\ i + 1 \in 1..(n + 1)
      BY <1>1, <2>2
    <3>2. Q[i] = P[i] /\ Q[i + 1] = P[i + 1] /\ F[NextIndex(P[i])] = E[NextIndex(P[i])]
      BY <1>0, <3>1
    <3>3. /\ E[NextIndex(P[i])] \in Nat \ {0}
          /\ Dist(p, P[i + 1]) = Dist(p, P[i]) + RecordSize(E, P[i])
      BY <1>3, <3>1 DEF Laid
    <3> QED
      BY <3>2, <3>3 DEF RecordSize
  <2> QED
    BY <2>1, <2>2
<1>8. n + 1 \in Nat /\ b \in 0..(n + 1)
  BY <1>1
<1>9. Laid(F, Q, b, n + 1)
  BY <1>0, <1>1, <1>5, <1>7, <1>8 DEF Laid
<1> QED
  BY <1>3, <1>4, <1>5, <1>6, <1>9

-----------------------------------------------------------------------------
(* What the invariant says of the variables.                               *)
LEMMA Names ==
  ASSUME Types, NEW n, n = Len(log), NEW P, P = Positions
  PROVE  /\ n \in Nat /\ DOMAIN log = 1..n /\ DOMAIN at = 1..n
         /\ P \in [1..(n + 1) -> Index]
         /\ \A i \in 1..(n + 1) : Before(i) = P[i]
         /\ \A i \in 1..n : P[i] = Back(at[i]) /\ at[i] \in Index
         /\ P[n + 1] = Back(first) /\ NextIndex(P[n + 1]) = first
<1>1. n \in Nat /\ DOMAIN log = 1..n /\ DOMAIN at = 1..n /\ \A i \in 1..n : at[i] \in Index
  BY LenProperties, ElementOfSeq DEF Types
<1>2. first \in Index
  BY DEF Types
<1>3. \A i \in 1..(n + 1) : P[i] = Before(i)
  BY DEF Positions
<1>4. \A i \in 1..n : Before(i) = Back(at[i])
  BY <1>1 DEF Before, Back
<1>5. Before(n + 1) = Back(first)
  BY <1>1 DEF Before, Back
<1>6. \A i \in 1..(n + 1) : P[i] \in Index
  <2> SUFFICES ASSUME NEW i \in 1..(n + 1) PROVE P[i] \in Index
    OBVIOUS
  <2>1. CASE i = n + 1
    BY <1>2, <1>3, <1>5, <2>1, BackFacts
  <2>2. CASE i # n + 1
    <3>1. i \in 1..n
      BY <1>1, <2>2
    <3> QED
      BY <1>1, <1>3, <1>4, <3>1, BackFacts
  <2> QED
    BY <2>1, <2>2
<1>7. P \in [1..(n + 1) -> Index]
  BY <1>6 DEF Positions
<1>8. n + 1 \in 1..(n + 1) /\ \A i \in 1..n : i \in 1..(n + 1)
  BY <1>1
<1>9. NextIndex(P[n + 1]) = first
  BY <1>2, <1>3, <1>5, <1>8, BackFacts
<1> QED
  BY <1>1, <1>3, <1>4, <1>5, <1>7, <1>8, <1>9

LEMMA InitInv == Init => IInv
<1> SUFFICES ASSUME Init PROVE IInv
  OBVIOUS
<1> USE DEF Init
<1>1. MaxSize \in Nat \ {0} /\ MaxSize - 1 \in Index /\ 0 \in Index
  BY SizeAssumption DEF Index
<1>2. Types
  BY <1>1 DEF Types
<1>3. Len(log) = 0
  OBVIOUS
<1>4. PICK P : P = Positions
  OBVIOUS
<1>5. P \in [1..(0 + 1) -> Index] /\ P[0 + 1] = MaxSize - 1
  BY <1>2, <1>3, <1>4, Names DEF Back
<1>6. Laid(elems, P, base, 0)
  BY <1>5 DEF Laid
<1>7. Stored
  BY <1>3 DEF Stored, Live
<1>8. PICK C : C = [t \in Threads |-> 0]
  OBVIOUS
<1>9. C \in [Threads -> base..0]
  BY <1>8
<1>10. Dist(MaxSize - 1, MaxSize - 1) = 0
  BY <1>1, RingFacts
<1>11. [t \in Threads |-> P[C[t] + 1]] = lastOfThread
  BY <1>5, <1>8
<1>12. Queue = View(P, 0, base, C)
  BY <1>5, <1>10, <1>11 DEF Queue, View
<1> QED
  BY <1>2, <1>3, <1>4, <1>6, <1>7, <1>9, <1>12 DEF IInv

(* The invariant says all that readers of the ring need.                   *)
LEMMA RingFromInv == IInv => RingIsSound
<1> SUFFICES ASSUME IInv PROVE RingIsSound
  OBVIOUS
<1>1. PICK n : n = Len(log)
  OBVIOUS
<1>2. PICK P : P = Positions
  OBVIOUS
<1>3. Types /\ Laid(elems, P, base, n)
  BY <1>1, <1>2 DEF IInv
<1>4. PICK C \in [Threads -> base..n] : Queue = View(P, n, base, C)
  BY <1>1, <1>2 DEF IInv
<1>5. /\ last = P[base + 1] /\ queuesize = Dist(P[base + 1], P[n + 1])
      /\ lastOfThread = [t \in Threads |-> P[C[t] + 1]]
  BY <1>4 DEF Queue, View
<1>6. /\ n \in Nat /\ base \in 0..n /\ base \in Nat /\ MaxSize \in Nat
      /\ base + 1 \in (base + 1)..(n + 1) /\ n + 1 \in (base + 1)..(n + 1)
  BY <1>3, SizeAssumption DEF Laid
<1>7. \A i \in (base + 1)..(n + 1) : P[i] \in Index
  BY <1>3, LaidFacts
<1>8. \A i \in 1..(n + 1) : Before(i) = P[i]
  BY <1>1, <1>2, <1>3, Names
<1>9. \A t \in Threads : C[t] \in base..n /\ C[t] + 1 \in (base + 1)..(n + 1)
  BY <1>6
<1>10. first \in Index /\ NextIndex(P[n + 1]) = first
  BY <1>1, <1>2, <1>3, Names DEF Types
<1>11. TypeOK
  <2>1. queuesize \in 0..(MaxSize - 1)
    BY <1>5, <1>6, <1>7, DistIs
  <2>2. lastOfThread \in [Threads -> Index]
    BY <1>5, <1>7, <1>9
  <2> QED
    BY <1>3, <1>5, <1>6, <1>7, <1>10, <2>1, <2>2 DEF TypeOK, Types
<1>12. RecordsTileTheRing
  <2>1. last = Before(base + 1)
    <3>1. base + 1 \in 1..(n + 1)
      BY <1>6
    <3> QED
      BY <1>5, <1>8, <3>1
  <2>2. ASSUME NEW i \in Live PROVE EndAfter(Before(i)) = Before(i + 1)
    <3>1. i \in (base + 1)..n /\ i \in 1..(n + 1) /\ i + 1 \in 1..(n + 1)
      BY <1>1, <1>6 DEF Live
    <3>2. AddIndex(P[i], RecordSize(elems, P[i])) = P[i + 1]
      BY <1>3, <3>1, EndFacts
    <3> QED
      BY <1>8, <3>1, <3>2 DEF EndAfter, SizeAfter, RecordSize
  <2>3. queuesize = (first + MaxSize - NextIndex(last)) % MaxSize
    <3>1. PICK l : l = NextIndex(last)
      OBVIOUS
    <3>2. l \in Index /\ Dist(l, first) = Dist(last, P[n + 1])
      BY <1>5, <1>6, <1>7, <1>10, <3>1, NextFacts
    <3>3. (first + MaxSize - l) % MaxSize = Dist(l, first)
      BY <1>10, <3>2, Modulo
    <3> QED
      BY <1>5, <3>1, <3>2, <3>3
  <2> QED
    BY <2>1, <2>2, <2>3 DEF RecordsTileTheRing
<1>13. CursorsAreValid
  <2> SUFFICES ASSUME NEW t \in Threads
               PROVE  /\ \E i \in base..Len(log) : lastOfThread[t] = Before(i + 1)
                      /\ ~Behind(lastOfThread[t])
    BY DEF CursorsAreValid
  <2>1. lastOfThread[t] = P[C[t] + 1] /\ C[t] + 1 \in 1..(n + 1)
    BY <1>5, <1>6, <1>9
  <2>2. \E i \in base..Len(log) : lastOfThread[t] = Before(i + 1)
    BY <1>1, <1>8, <1>9, <2>1
  <2>3. Dist(last, P[C[t] + 1]) <= Dist(last, P[n + 1])
    <3>1. CASE C[t] + 1 = n + 1
      <4>1. Dist(last, P[n + 1]) \in Nat
        BY <1>5, <1>6, <1>7, DistIs
      <4> QED
        BY <3>1, <4>1
    <3>2. CASE C[t] + 1 < n + 1
      <4>1. Dist(last, P[C[t] + 1]) < Dist(last, P[n + 1])
        BY <1>3, <1>5, <1>6, <1>9, <3>2, LaidFacts
      <4>2. Dist(last, P[C[t] + 1]) \in Nat /\ Dist(last, P[n + 1]) \in Nat
        BY <1>5, <1>6, <1>7, <1>9, DistIs
      <4> QED
        BY <4>1, <4>2
    <3> QED
      BY <1>6, <1>9, <3>1, <3>2
  <2>4. P[C[t] + 1] \in Index /\ P[n + 1] \in Index /\ last \in Index
    BY <1>5, <1>6, <1>7, <1>9
  <2>5. PICK p : p = P[C[t] + 1]
    OBVIOUS
  <2>6. ~(\/ p < last /\ last < first
          \/ first < p /\ p < last
          \/ last < first /\ first < p)
    BY <1>10, <2>3, <2>4, <2>5, InOrder
  <2>7. ~Behind(p)
    BY <2>6 DEF Behind
  <2> QED
    BY <2>1, <2>2, <2>5, <2>7
<1> QED
  BY <1>11, <1>12, <1>13 DEF RingIsSound

-----------------------------------------------------------------------------
(* What a push writes.                                                     *)
LEMMA SameLength ==
  ASSUME NEW m \in Nat, NEW n \in Nat, 1..m = 1..n
  PROVE  m = n
<1>1. ~(m < n)
  <2> SUFFICES ASSUME m < n PROVE FALSE
    OBVIOUS
  <2>1. n \in 1..n
    OBVIOUS
  <2> QED
    BY <2>1
<1>2. ~(n < m)
  <2> SUFFICES ASSUME n < m PROVE FALSE
    OBVIOUS
  <2>1. m \in 1..m
    OBVIOUS
  <2> QED
    BY <2>1
<1> QED
  BY <1>1, <1>2

Word(size, origin, i, k) ==
  IF k = 1 THEN size ELSE IF k = 2 THEN NbThreads - 1 ELSE IF k = 3 THEN origin ELSE i

LEMMA RecordFacts ==
  ASSUME NEW size \in Nat, NEW origin \in Int, Len(log) \in Nat
  PROVE  /\ Len(Record(size, origin)) = size + 3
         /\ \A k \in 1..(size + 3) :
              Record(size, origin)[k] = Word(size, origin, Len(log) + 1, k)
         /\ \A k \in 1..(size + 3) : Record(size, origin)[k] \in Int
<1>1. PICK h : h = <<size, NbThreads - 1, origin>>
  OBVIOUS
<1>2. PICK l : l = [i \in 1..size |-> Len(log) + 1]
  OBVIOUS
<1>3. h \in Seq(Int) /\ Len(h) = 3 /\ h[1] = size /\ h[2] = NbThreads - 1 /\ h[3] = origin
  BY <1>1, CountAssumption
<1>4. l \in Seq(Int) /\ Len(l) = size
  <2>1. l \in [1..size -> Int]
    BY <1>2
  <2>2. l \in Seq(Int)
    BY <2>1, SeqDef
  <2>3. Len(l) \in Nat /\ DOMAIN l = 1..Len(l) /\ DOMAIN l = 1..size
    BY <2>1, <2>2, LenProperties
  <2>4. 1..Len(l) = 1..size
    BY <2>3
  <2>5. Len(l) = size
    BY <2>3, <2>4, SameLength
  <2> QED
    BY <2>2, <2>5
<1>5. /\ h \o l \in Seq(Int) /\ Len(h \o l) = Len(h) + Len(l)
      /\ \A k \in 1..(Len(h) + Len(l)) :
           (h \o l)[k] = IF k <= Len(h) THEN h[k] ELSE l[k - Len(h)]
  BY <1>3, <1>4, ConcatProperties
<1>6. PICK rec : rec = Record(size, origin)
  OBVIOUS
<1>7. rec = h \o l
  BY <1>1, <1>2, <1>6 DEF Record
<1>8. Len(rec) = size + 3
  BY <1>3, <1>4, <1>5, <1>7
<1>9. ASSUME NEW k \in 1..(size + 3)
      PROVE  rec[k] = Word(size, origin, Len(log) + 1, k) /\ rec[k] \in Int
  <2>1. rec[k] = IF k <= 3 THEN h[k] ELSE l[k - 3]
    BY <1>3, <1>4, <1>5, <1>7
  <2>2. CASE k <= 3
    BY <1>3, <2>1, <2>2, CountAssumption DEF Word
  <2>3. CASE k > 3
    <3>1. k - 3 \in 1..size
      BY <2>3
    <3> QED
      BY <1>2, <2>1, <2>3, <3>1 DEF Word
  <2> QED
    BY <2>2, <2>3
<1> QED
  BY <1>6, <1>8, <1>9

(* The ring after a push, of which E were the words before.                *)
Writes(E, F, rec, size, q) ==
  /\ E \in [Index -> Int] /\ q \in Index
  /\ size \in Nat /\ Len(rec) = size + 3 /\ \A k \in 1..(size + 3) : rec[k] \in Int
  /\ F = [i \in Index |->
            LET k == 1 + ((i + MaxSize - NextIndex(q)) % MaxSize)
            IN IF k <= Len(rec) THEN rec[k] ELSE E[i]]

LEMMA WordsPushed ==
  ASSUME NEW E, NEW F, NEW rec, NEW size, NEW q, Writes(E, F, rec, size, q),
         NEW l \in Index, Dist(l, q) + size + 3 < MaxSize
  PROVE  /\ F \in [Index -> Int]
         /\ \A k \in 1..(size + 3) : F[AddIndex(q, k)] = rec[k]
         /\ \A w \in Index : 1 <= Dist(l, w) /\ Dist(l, w) <= Dist(l, q) => F[w] = E[w]
<1> DEFINE f == NextIndex(q)
<1>1. /\ MaxSize \in Nat /\ Dist(l, q) \in Nat /\ size \in Nat /\ f \in Index
      /\ E \in [Index -> Int] /\ q \in Index
      /\ \A k \in 1..(size + 3) : rec[k] \in Int
  BY SizeAssumption, DistIs, NextFacts DEF Writes
<1>2. \A i \in Index : F[i] = IF 1 + Dist(f, i) <= size + 3 THEN rec[1 + Dist(f, i)] ELSE E[i]
  <2> SUFFICES ASSUME NEW i \in Index
               PROVE  F[i] = IF 1 + Dist(f, i) <= size + 3 THEN rec[1 + Dist(f, i)] ELSE E[i]
    OBVIOUS
  <2>1. (i + MaxSize - f) % MaxSize = Dist(f, i)
    BY <1>1, Modulo
  <2>2. F[i] = LET k == 1 + ((i + MaxSize - f) % MaxSize)
               IN IF k <= Len(rec) THEN rec[k] ELSE E[i]
    BY Zenon DEF Writes
  <2>3. Len(rec) = size + 3
    BY DEF Writes
  <2> QED
    BY <2>1, <2>2, <2>3
<1>3. \A i \in Index : Dist(f, i) \in Nat
  BY <1>1, DistIs
<1>4. F \in [Index -> Int]
  <2>1. ASSUME NEW i \in Index PROVE F[i] \in Int
    <3>1. CASE 1 + Dist(f, i) <= size + 3
      <4>1. 1 + Dist(f, i) \in 1..(size + 3)
        BY <1>1, <1>3, <3>1
      <4> QED
        BY <1>1, <1>2, <3>1, <4>1
    <3>2. CASE ~(1 + Dist(f, i) <= size + 3)
      BY <1>1, <1>2, <3>2
    <3> QED
      BY <3>1, <3>2
  <2>2. F = [i \in Index |-> F[i]]
    BY DEF Writes
  <2> QED
    BY <2>1, <2>2
<1>5. ASSUME NEW k \in 1..(size + 3) PROVE F[AddIndex(q, k)] = rec[k]
  <2>1. k \in 1..(MaxSize - 1) /\ k \in 0..MaxSize
    BY <1>1
  <2>2. AddIndex(q, k) \in Index
    BY <1>1, <2>1, RingFacts
  <2>3. 1 + Dist(f, AddIndex(q, k)) = k
    BY <1>1, <2>1, Written
  <2> QED
    BY <1>2, <2>2, <2>3
<1>6. ASSUME NEW w \in Index, 1 <= Dist(l, w), Dist(l, w) <= Dist(l, q) PROVE F[w] = E[w]
  <2>1. PICK s : s = size + 3
    OBVIOUS
  <2>2. s \in Nat /\ Dist(l, q) + s < MaxSize
    BY <1>1, <2>1
  <2>3. ~(1 + Dist(NextIndex(q), w) <= s)
    BY <1>1, <1>6, <2>2, Untouched
  <2> QED
    BY <1>2, <2>1, <2>3
<1> QED
  BY <1>4, <1>5, <1>6

(* The step of a push, by record.                                          *)
LEMMA PushStep ==
  ASSUME Types, NEW n, n = Len(log), NEW P, P = Positions, Laid(elems, P, base, n),
         NEW C \in [Threads -> base..n], Queue = View(P, n, base, C),
         NEW size \in Sizes, NEW origin \in Int, PushClause(origin, size)
  PROVE  \E b \in base..n :
           /\ b # base => WhenFullRemoveOlder
           /\ b # base /\ b < n => elems[AddIndex(P[b + 1], 2)] # 0
           /\ Types' /\ Len(log') = n + 1 /\ base' = b
           /\ log' = Append(log, origin)
           /\ \A i \in 1..n : log'[i] = log[i]
           /\ \A i \in 1..(n + 1) : Positions'[i] = P[i]
           /\ Laid(elems', Positions', b, n + 1)
           /\ Queue' = View(Positions', n + 1, b, Moved(C, b))
           /\ \A i \in (b + 1)..n : \A k \in 1..RecordSize(elems, P[i]) :
                elems'[AddIndex(P[i], k)] = elems[AddIndex(P[i], k)]
           /\ \A k \in 1..(size + 3) :
                elems'[AddIndex(P[n + 1], k)] = Word(size, origin, n + 1, k)
<1>1. /\ n \in Nat /\ base \in 0..n /\ base \in Nat /\ MaxSize \in Nat
      /\ size \in Nat \ {0} /\ size + 3 < MaxSize
  BY SizeAssumption DEF Laid
<1>2. PICK b \in base..n, r \in 0..MaxSize :
        /\ r = CHOOSE i \in 0..MaxSize :
                 ~Full(Drop[i], size) /\ \A j \in 0..(i - 1) : Full(Drop[j], size)
        /\ Drop[r] = View(P, n, b, Moved(C, b)) /\ ~Full(Drop[r], size)
        /\ b # base => Full(Queue, size)
        /\ b # base /\ b < n => elems[AddIndex(P[b + 1], 2)] # 0
  BY DropFacts
<1>3. PICK rec : rec = Record(size, origin)
  OBVIOUS
<1>4. PICK room : room = Drop[r]
  OBVIOUS
<1>5. /\ Full(Queue, size) => WhenFullRemoveOlder
      /\ Commit([room EXCEPT !.queuesize = @ + Len(rec)])
      /\ elems' = [i \in Index |->
                     LET k == 1 + ((i + MaxSize - first) % MaxSize)
                     IN IF k <= Len(rec) THEN rec[k] ELSE elems[i]]
      /\ first' = AddIndex(first, Len(rec))
      /\ log' = Append(log, origin) /\ at' = Append(at, first)
      /\ assertOk' = (assertOk /\ \A k \in 1..r : Drop[k].queuesize > 0)
  <2>1. PICK d : d = Drop
    OBVIOUS
  <2>2. r = CHOOSE i \in 0..MaxSize :
              ~Full(d[i], size) /\ \A j \in 0..(i - 1) : Full(d[j], size)
    BY <1>2, <2>1
  <2> QED
    BY <1>3, <1>4, <2>1, <2>2, Zenon DEF PushClause
<1>6. /\ Len(rec) = size + 3
      /\ \A k \in 1..(size + 3) : rec[k] = Word(size, origin, n + 1, k)
      /\ \A k \in 1..(size + 3) : rec[k] \in Int
  <2>1. size \in Nat /\ Len(log) \in Nat
    BY <1>1
  <2>2. Len(rec) = size + 3
    BY <1>3, <2>1, RecordFacts
  <2>3. \A k \in 1..(size + 3) : rec[k] = Word(size, origin, Len(log) + 1, k)
    BY <1>3, <2>1, RecordFacts
  <2>4. \A k \in 1..(size + 3) : rec[k] \in Int
    BY <1>3, <2>1, RecordFacts
  <2> QED
    BY <2>2, <2>3, <2>4
<1>7. /\ P \in [1..(n + 1) -> Index] /\ P[n + 1] = Back(first) /\ NextIndex(P[n + 1]) = first
      /\ first \in Index /\ elems \in [Index -> Int] /\ at \in Seq(Index) /\ log \in Seq(Int)
      /\ Len(at) = n
      /\ \A i \in 1..n : P[i] = Back(at[i])
  BY Names DEF Types
<1>8. PICK l : l = P[b + 1]
  OBVIOUS
<1>9. PICK q : q = P[n + 1]
  OBVIOUS
<1>10. l \in Index /\ q \in Index
  <2>1. b + 1 \in 1..(n + 1) /\ n + 1 \in 1..(n + 1)
    BY <1>1
  <2> QED
    BY <1>7, <1>8, <1>9, <2>1
<1>11. Dist(l, q) \in Nat /\ Dist(l, q) + size + 3 < MaxSize
  <2>1. room.queuesize = Dist(l, q)
    BY <1>2, <1>4, <1>8, <1>9 DEF View
  <2>2. Dist(l, q) \in Nat
    BY <1>10, DistIs
  <2> QED
    BY <1>1, <1>2, <1>4, <2>1, <2>2 DEF Full, HeaderSize
<1>12. /\ elems' \in [Index -> Int]
       /\ \A k \in 1..(size + 3) : elems'[AddIndex(q, k)] = rec[k]
       /\ \A w \in Index : 1 <= Dist(l, w) /\ Dist(l, w) <= Dist(l, q) => elems'[w] = elems[w]
  <2>1. PICK F : F = elems'
    OBVIOUS
  <2>2. PICK E : E = elems
    OBVIOUS
  <2>3. Writes(E, F, rec, size, q)
    <3>1. F = [i \in Index |->
                 LET k == 1 + ((i + MaxSize - NextIndex(q)) % MaxSize)
                 IN IF k <= Len(rec) THEN rec[k] ELSE E[i]]
      BY <1>5, <1>7, <1>9, <2>1, <2>2, Zenon
    <3> QED
      BY <1>1, <1>6, <1>7, <1>10, <2>2, <3>1, Zenon DEF Writes
  <2>6. /\ F \in [Index -> Int]
        /\ \A k \in 1..(size + 3) : F[AddIndex(q, k)] = rec[k]
        /\ \A w \in Index : 1 <= Dist(l, w) /\ Dist(l, w) <= Dist(l, q) => F[w] = E[w]
    BY <1>10, <1>11, <2>3, WordsPushed
  <2> QED
    BY <2>1, <2>2, <2>6
<1>13. Laid(elems, P, b, n)
  BY <1>1, LaidFacts
<1>14. ASSUME NEW i \in (b + 1)..n, NEW k \in 1..RecordSize(elems, P[i])
       PROVE  elems'[AddIndex(P[i], k)] = elems[AddIndex(P[i], k)]
  <2>1. PICK w : w = AddIndex(P[i], k)
    OBVIOUS
  <2>2. w \in Index
    BY <1>13, <2>1, WordFacts
  <2>3. Dist(l, w) = Dist(l, P[i]) + k
    BY <1>8, <1>13, <2>1, WordFacts
  <2>4. Dist(l, P[i]) + k <= Dist(l, P[i + 1])
    BY <1>8, <1>13, WordFacts
  <2>5. Dist(l, P[i + 1]) <= Dist(l, q)
    BY <1>8, <1>9, <1>13, WordFacts
  <2>6. Dist(l, P[i]) \in Nat /\ Dist(l, P[i + 1]) \in Nat
    <3>1. i \in 1..(n + 1) /\ i + 1 \in 1..(n + 1)
      BY <1>1
    <3> QED
      BY <1>7, <1>10, <3>1, DistIs
  <2> QED
    BY <1>11, <1>12, <2>1, <2>2, <2>3, <2>4, <2>5, <2>6
<1>15. first' = AddIndex(first, size + 3) /\ first' \in Index
       /\ Back(first') = AddIndex(q, size + 3)
  <2>1. size + 3 \in 0..MaxSize
    BY <1>1
  <2>2. first' = AddIndex(first, size + 3)
    BY <1>5, <1>6
  <2>3. first' \in Index
    BY <1>7, <2>1, <2>2, RingFacts
  <2>4. Back(AddIndex(first, size + 3)) = AddIndex(Back(first), size + 3)
    BY <1>7, <2>1, BackFacts
  <2> QED
    BY <1>7, <1>9, <2>2, <2>3, <2>4
<1>16. /\ log' \in Seq(Int) /\ Len(log') = n + 1 /\ \A i \in 1..n : log'[i] = log[i]
       /\ at' \in Seq(Index) /\ Len(at') = n + 1 /\ \A i \in 1..n : at'[i] = at[i]
       /\ at'[n + 1] = first
  <2>1. /\ Append(log, origin) \in Seq(Int) /\ Len(Append(log, origin)) = n + 1
        /\ \A i \in 1..n : Append(log, origin)[i] = log[i]
    BY <1>7, AppendProperties
  <2>2. /\ Append(at, first) \in Seq(Index) /\ Len(Append(at, first)) = n + 1
        /\ \A i \in 1..n : Append(at, first)[i] = at[i]
        /\ Append(at, first)[n + 1] = first
    BY <1>7, AppendProperties
  <2> QED
    BY <1>5, <2>1, <2>2
<1>17. Types'
  <2>1. assertOk' \in BOOLEAN
    BY <1>5
  <2> QED
    BY <1>12, <1>15, <1>16, <2>1 DEF Types
<1>18. PICK Q : Q = Positions'
  OBVIOUS
<1>19. /\ Q \in [1..(n + 2) -> Index] /\ \A i \in 1..(n + 1) : Q[i] = P[i]
       /\ Q[n + 2] = AddIndex(q, size + 3)
  <2>1. (n + 1) + 1 = n + 2
    BY <1>1
  <2>2. Q = [i \in 1..(n + 2) |-> Before(i)']
    BY <1>16, <1>18, <2>1 DEF Positions
  <2>3. ASSUME NEW i \in 1..(n + 1) PROVE Before(i)' = P[i]
    <3>1. Before(i)' = Back(at'[i])
      BY <1>1, <1>16 DEF Before, Back
    <3>2. CASE i = n + 1
      BY <1>7, <1>16, <3>1, <3>2
    <3>3. CASE i # n + 1
      <4>1. i \in 1..n
        BY <1>1, <3>3
      <4> QED
        BY <1>7, <1>16, <3>1, <4>1
    <3> QED
      BY <3>2, <3>3
  <2>4. Before(n + 2)' = Back(first')
    BY <1>1, <1>16 DEF Before, Back
  <2>5. \A i \in 1..(n + 2) : i \in 1..(n + 1) \/ i = n + 2
    BY <1>1
  <2>6. n + 2 \in 1..(n + 2) /\ \A i \in 1..(n + 1) : i \in 1..(n + 2)
    BY <1>1
  <2>7. Q[n + 2] = AddIndex(q, size + 3) /\ \A i \in 1..(n + 1) : Q[i] = P[i]
    BY <1>15, <2>2, <2>3, <2>4, <2>6
  <2>8. AddIndex(q, size + 3) \in Index
    BY <1>15, BackFacts
  <2>9. \A i \in 1..(n + 2) : Q[i] \in Index
    BY <1>7, <2>5, <2>7, <2>8
  <2> QED
    BY <2>2, <2>7, <2>9
<1>20. Laid(elems', Q, b, n + 1) /\ Dist(Q[b + 1], Q[n + 2]) = Dist(l, q) + size + 3
  <2>1. ASSUME NEW i \in (b + 1)..n PROVE elems'[NextIndex(P[i])] = elems[NextIndex(P[i])]
    <3>1. P[i] \in Index
      <4>1. i \in 1..(n + 1)
        BY <1>1
      <4> QED
        BY <1>7, <4>1
    <3>2. 1 \in 1..RecordSize(elems, P[i])
      <4>1. elems[NextIndex(P[i])] \in Nat
        BY <1>13 DEF Laid
      <4> QED
        BY <4>1 DEF RecordSize, HeaderSize
    <3>3. NextIndex(P[i]) = AddIndex(P[i], 1)
      BY <3>1, RingFacts
    <3> QED
      BY <1>14, <3>2, <3>3
  <2>2. elems'[NextIndex(q)] = size
    <3>1. 1 \in 1..(size + 3)
      BY <1>1
    <3>2. NextIndex(q) = AddIndex(q, 1)
      BY <1>10, RingFacts
    <3> QED
      BY <1>6, <1>12, <3>1, <3>2 DEF Word
  <2>3. PICK F : F = elems'
    OBVIOUS
  <2>4. \A i \in (b + 1)..n : F[NextIndex(P[i])] = elems[NextIndex(P[i])]
    BY <2>1, <2>3
  <2>5. /\ F[NextIndex(P[n + 1])] = size /\ Q[n + 2] = AddIndex(P[n + 1], size + 3)
        /\ Dist(P[b + 1], P[n + 1]) + size + 3 < MaxSize
    BY <1>8, <1>9, <1>11, <1>19, <2>2, <2>3
  <2>6. Grows(elems, F, P, Q, b, n, size)
    BY <1>1, <1>19, <2>4, <2>5, Zenon DEF Grows
  <2>7. Laid(F, Q, b, n + 1) /\ Dist(Q[b + 1], Q[n + 2]) = Dist(P[b + 1], P[n + 1]) + size + 3
    BY <1>13, <2>6, LaidPush
  <2> QED
    BY <1>8, <1>9, <2>3, <2>7
<1>21. Queue' = View(Q, n + 1, b, Moved(C, b))
  <2>1. /\ last' = l /\ queuesize' = Dist(l, q) + Len(rec) /\ base' = b
        /\ lastOfThread' = [t \in Threads |-> P[Moved(C, b)[t] + 1]]
    <3>1. room = [last |-> l, queuesize |-> Dist(l, q),
                  cursor |-> [t \in Threads |-> P[Moved(C, b)[t] + 1]], removed |-> b]
      BY <1>2, <1>4, <1>8, <1>9 DEF View
    <3> QED
      BY <1>5, <3>1 DEF Commit
  <2>2. \A t \in Threads : Moved(C, b)[t] + 1 \in 1..(n + 1)
    <3>1. Moved(C, b) \in [Threads -> b..n]
      BY <1>1, MovedFacts
    <3> QED
      BY <1>1, <3>1
  <2>3. [t \in Threads |-> P[Moved(C, b)[t] + 1]] = [t \in Threads |-> Q[Moved(C, b)[t] + 1]]
    BY <1>19, <2>2
  <2>4. Q[b + 1] = l /\ (n + 1) + 1 = n + 2 /\ queuesize' = Dist(Q[b + 1], Q[n + 2])
    <3>1. b + 1 \in 1..(n + 1)
      BY <1>1
    <3>2. Dist(l, q) + (size + 3) = Dist(l, q) + size + 3
      BY <1>1, <1>11
    <3>3. Q[b + 1] = l
      BY <1>8, <1>19, <3>1
    <3>4. queuesize' = Dist(l, q) + size + 3
      BY <1>6, <2>1, <3>2
    <3>5. queuesize' = Dist(Q[b + 1], Q[n + 2])
      BY <1>20, <3>4
    <3>6. (n + 1) + 1 = n + 2
      BY <1>1
    <3> QED
      BY <3>3, <3>5, <3>6
  <2> QED
    BY <2>1, <2>3, <2>4 DEF Queue, View
<1>22. base' = b
  BY <1>21 DEF Queue, View
<1>23. \A k \in 1..(size + 3) :
         elems'[AddIndex(P[n + 1], k)] = Word(size, origin, n + 1, k)
  BY <1>6, <1>9, <1>12
<1> QED
  BY <1>2, <1>5, <1>14, <1>16, <1>17, <1>18, <1>19, <1>20, <1>21, <1>22, <1>23

-----------------------------------------------------------------------------
(* A record keeps what it holds when no word but its counter changes.      *)
LEMMA HoldsStill ==
  ASSUME NEW E, NEW F, NEW P, NEW b, NEW n, Laid(E, P, b, n), NEW i \in (b + 1)..n,
         \A k \in 1..RecordSize(E, P[i]) :
           k # 2 => F[AddIndex(P[i], k)] = E[AddIndex(P[i], k)],
         NEW o, Holds(E, P[i], i, o)
  PROVE  /\ Holds(F, P[i], i, o) /\ RecordSize(F, P[i]) = RecordSize(E, P[i])
         /\ F[NextIndex(P[i])] = E[NextIndex(P[i])]
<1>1. PICK p : p = P[i]
  OBVIOUS
<1>2. PICK s : s = RecordSize(E, p)
  OBVIOUS
<1>3. p \in Index
  <2>1. n \in Nat /\ b \in Nat /\ i \in (b + 1)..(n + 1)
    BY DEF Laid
  <2> QED
    BY <1>1, <2>1, LaidFacts
<1>4. s \in Nat /\ s >= 4
  <2>1. E[NextIndex(p)] \in Nat \ {0}
    BY <1>1 DEF Laid
  <2> QED
    BY <1>2, <2>1 DEF RecordSize, HeaderSize
<1>5. NextIndex(p) = AddIndex(p, 1)
  BY <1>3, RingFacts
<1>6. F[NextIndex(p)] = E[NextIndex(p)]
  <2>1. 1 \in 1..s
    BY <1>4
  <2> QED
    BY <1>1, <1>2, <1>5, <2>1
<1>7. RecordSize(F, p) = s
  BY <1>2, <1>6 DEF RecordSize
<1>8. F[AddIndex(p, 3)] = o
  <2>1. 3 \in 1..s
    BY <1>4
  <2> QED
    BY <1>1, <1>2, <2>1 DEF Holds
<1>9. \A k \in 4..s : F[AddIndex(p, k)] = i
  <2>1. \A k \in 4..s : k \in 1..s /\ k # 2
    BY <1>4
  <2> QED
    BY <1>1, <1>2, <2>1 DEF Holds
<1> QED
  BY <1>1, <1>2, <1>6, <1>7, <1>8, <1>9 DEF Holds

LEMMA PushInv ==
  ASSUME IInv, NEW size \in Sizes, NEW origin \in Int, PushClause(origin, size)
  PROVE  IInv'
<1>1. PICK n : n = Len(log)
  OBVIOUS
<1>2. PICK P : P = Positions
  OBVIOUS
<1>3. Types /\ Laid(elems, P, base, n) /\ Stored
  BY <1>1, <1>2 DEF IInv
<1>4. PICK C \in [Threads -> base..n] : Queue = View(P, n, base, C)
  BY <1>1, <1>2 DEF IInv
<1>5. PICK b \in base..n :
        /\ Types' /\ Len(log') = n + 1 /\ base' = b
        /\ log' = Append(log, origin)
        /\ \A i \in 1..n : log'[i] = log[i]
        /\ \A i \in 1..(n + 1) : Positions'[i] = P[i]
        /\ Laid(elems', Positions', b, n + 1)
        /\ Queue' = View(Positions', n + 1, b, Moved(C, b))
        /\ \A i \in (b + 1)..n : \A k \in 1..RecordSize(elems, P[i]) :
             elems'[AddIndex(P[i], k)] = elems[AddIndex(P[i], k)]
        /\ \A k \in 1..(size + 3) :
             elems'[AddIndex(P[n + 1], k)] = Word(size, origin, n + 1, k)
  BY <1>1, <1>2, <1>3, <1>4, PushStep
<1>6. /\ n \in Nat /\ base \in Nat /\ base <= n /\ b \in Nat /\ size \in Nat \ {0}
      /\ n + 1 \in 1..(n + 1)
  BY <1>3, SizeAssumption DEF Laid
<1>7. Stored'
  <2> SUFFICES ASSUME NEW i \in Live'
               PROVE  Holds(elems', Before(i)', i, log'[i])
    BY DEF Stored
  <2>1. i \in (b + 1)..(n + 1) /\ i \in 1..(n + 1)
    BY <1>5, <1>6 DEF Live
  <2>2. Before(i)' = P[i]
    <3>1. i \in 1..(Len(log') + 1)
      BY <1>5, <1>6, <2>1
    <3>2. Positions'[i] = Before(i)'
      BY <3>1 DEF Positions
    <3> QED
      BY <1>5, <2>1, <3>2
  <2>3. CASE i = n + 1
    <3>1. PICK p : p = P[i]
      OBVIOUS
    <3>2. p \in Index
      BY <1>1, <1>2, <1>3, <1>6, <2>3, <3>1, Names
    <3>3. NextIndex(p) = AddIndex(p, 1)
      BY <3>2, RingFacts
    <3>4. RecordSize(elems', p) = size + 3
      <4>1. 1 \in 1..(size + 3)
        BY <1>6
      <4>2. elems'[NextIndex(p)] = size
        BY <1>5, <2>3, <3>1, <3>3, <4>1 DEF Word
      <4> QED
        BY <4>2 DEF RecordSize, HeaderSize
    <3>5. elems'[AddIndex(p, 3)] = log'[i]
      <4>1. 3 \in 1..(size + 3)
        BY <1>6
      <4>2. log'[n + 1] = origin
        BY <1>1, <1>3, <1>5, AppendProperties DEF Types
      <4> QED
        BY <1>5, <2>3, <3>1, <4>1, <4>2 DEF Word
    <3>6. \A k \in 4..(size + 3) : elems'[AddIndex(p, k)] = i
      <4>1. \A k \in 4..(size + 3) : k \in 1..(size + 3) /\ k # 1 /\ k # 2 /\ k # 3
        BY <1>6
      <4> QED
        BY <1>5, <2>3, <3>1, <4>1 DEF Word
    <3> QED
      BY <2>2, <3>1, <3>4, <3>5, <3>6 DEF Holds
  <2>4. CASE i # n + 1
    <3>1. i \in (b + 1)..n /\ i \in (base + 1)..n /\ i \in 1..n /\ i \in Live
      BY <1>1, <1>6, <2>1, <2>4 DEF Live
    <3>2. Holds(elems, P[i], i, log'[i])
      <4>1. Before(i) = P[i]
        BY <1>1, <1>2, <1>3, <2>1, Names
      <4> QED
        BY <1>3, <1>5, <3>1, <4>1 DEF Stored
    <3>3. \A k \in 1..RecordSize(elems, P[i]) :
            k # 2 => elems'[AddIndex(P[i], k)] = elems[AddIndex(P[i], k)]
      BY <1>5, <3>1
    <3>4. PICK F : F = elems'
      OBVIOUS
    <3>5. PICK o : o = log'[i]
      OBVIOUS
    <3>6. Holds(F, P[i], i, o)
      BY <1>3, <3>1, <3>2, <3>3, <3>4, <3>5, HoldsStill
    <3> QED
      BY <2>2, <3>4, <3>5, <3>6
  <2> QED
    BY <2>3, <2>4
<1>8. Moved(C, b) \in [Threads -> base'..Len(log')]
  <2>1. Moved(C, b) \in [Threads -> b..n]
    BY <1>6, MovedFacts
  <2>2. \A c \in b..n : c \in b..(n + 1)
    BY <1>6
  <2> QED
    BY <1>5, <2>1, <2>2
<1> QED
  BY <1>5, <1>7, <1>8 DEF IInv

-----------------------------------------------------------------------------
(* Where a thread stops to read.                                           *)
LEMMA EndIsLast ==
  ASSUME Types, NEW n, n = Len(log), NEW P, P = Positions, Laid(elems, P, base, n),
         NEW i \in (base + 1)..(n + 1)
  PROVE  AtEnd(P[i]) <=> i = n + 1
<1>1. n \in Nat /\ base \in Nat /\ base <= n /\ n + 1 \in (base + 1)..(n + 1)
  BY DEF Laid
<1>2. P[i] \in Index /\ P[n + 1] \in Index
  BY <1>1, LaidFacts
<1>3. NextIndex(P[n + 1]) = first
  BY Names
<1>4. NextIndex(P[i]) = first => P[i] = P[n + 1]
  BY <1>2, <1>3, NextFacts
<1>5. P[i] = P[n + 1] => i = n + 1
  BY <1>1, LaidFacts
<1> QED
  BY <1>3, <1>4, <1>5 DEF AtEnd

LEMMA SkipFacts ==
  ASSUME IInv, NEW n, n = Len(log), NEW P, P = Positions,
         NEW C \in [Threads -> base..n], Queue = View(P, n, base, C),
         NEW t \in Threads, C[t] < n
  PROVE  \E i \in (C[t] + 1)..(n + 1) :
           /\ SkipOwn(t) = P[i]
           /\ \A j \in (C[t] + 1)..(i - 1) : log[j] = t
           /\ i <= n => log[i] # t
<1>1. Types /\ Laid(elems, P, base, n) /\ Stored
  BY DEF IInv
<1>2. PICK c : c = C[t]
  OBVIOUS
<1>3. /\ n \in Nat /\ base \in Nat /\ c \in base..n /\ c \in Nat /\ c < n /\ MaxSize \in Nat
      /\ c + 1 \in (base + 1)..(n + 1) /\ c + 1 # n + 1
  BY <1>1, <1>2, SizeAssumption DEF Laid
<1>4. Laid(elems, P, c, n)
  BY <1>1, <1>3, LaidFacts
<1>5. n - c \in 0..(MaxSize - 1)
  BY <1>4, LaidFacts
<1>6. StartOf(t) = P[c + 1]
  <2>1. lastOfThread[t] = P[c + 1]
    BY <1>2 DEF Queue, View
  <2>2. ~AtEnd(P[c + 1])
    BY <1>1, <1>3, EndIsLast
  <2>3. ~Behind(lastOfThread[t])
    BY <2>1, <2>2, RingFromInv DEF RingIsSound, CursorsAreValid
  <2> QED
    BY <2>1, <2>3 DEF StartOf
<1>7. PICK walk : walk = Trail(elems, P[c + 1])
  OBVIOUS
<1>8. \A k \in 0..(n - c) : walk[k] = P[c + k + 1]
  BY <1>4, <1>7, TrailFacts
<1> DEFINE Halts(k) == NextIndex(walk[k]) = first \/ OriginAfter(walk[k]) # t
<1>9. ASSUME NEW k \in 0..(n - c)
      PROVE  Halts(k) <=> (k = n - c \/ log[c + k + 1] # t)
  <2>1. PICK i : i = c + k + 1
    OBVIOUS
  <2>2. i \in (base + 1)..(n + 1) /\ walk[k] = P[i]
    BY <1>3, <1>8, <2>1
  <2>3. NextIndex(P[i]) = first <=> i = n + 1
    BY <1>1, <2>2, EndIsLast DEF AtEnd
  <2>4. i = n + 1 <=> k = n - c
    BY <1>3, <2>1
  <2>5. ASSUME i # n + 1 PROVE OriginAfter(P[i]) = log[i]
    <3>1. i \in Live /\ i \in 1..(n + 1)
      BY <1>3, <2>2, <2>5 DEF Live
    <3>2. Before(i) = P[i]
      BY <1>1, <3>1, Names
    <3> QED
      BY <1>1, <3>1, <3>2 DEF Stored, Holds, OriginAfter
  <2> QED
    BY <2>1, <2>2, <2>3, <2>4, <2>5
<1>10. PICK k : k = CHOOSE l \in 0..MaxSize : Halts(l) /\ \A j \in 0..(l - 1) : ~Halts(j)
  OBVIOUS
<1>11. SkipOwn(t) = walk[k]
  BY <1>6, <1>7, <1>10 DEF SkipOwn
<1>12. Halts(n - c) /\ n - c \in 0..(n - c)
  BY <1>3, <1>9
<1> HIDE DEF Halts
<1>13. \E l \in 0..MaxSize : Halts(l) /\ \A j \in 0..(l - 1) : ~Halts(j)
  <2> DEFINE T == {l \in 0..(n - c) : Halts(l)}
  <2>1. n - c \in T /\ T \in SUBSET Nat
    BY <1>12
  <2> HIDE DEF T
  <2>2. PICK l \in T : \A j \in T : l <= j
    BY <2>1, LeastNatural
  <2>3. l \in 0..(n - c) /\ Halts(l)
    BY <2>2 DEF T
  <2>4. ASSUME NEW j \in 0..(l - 1) PROVE ~Halts(j)
    <3>1. j \in 0..(n - c) /\ ~(l <= j)
      BY <1>3, <2>3
    <3> QED
      BY <2>2, <3>1 DEF T
  <2>5. l \in 0..MaxSize
    BY <1>3, <1>5, <2>3
  <2> QED
    BY <2>3, <2>4, <2>5
<1>14. k \in 0..MaxSize /\ Halts(k) /\ \A j \in 0..(k - 1) : ~Halts(j)
  BY <1>10, <1>13
<1>15. k \in 0..(n - c)
  <2>1. ~(n - c < k)
    <3> SUFFICES ASSUME n - c < k PROVE FALSE
      OBVIOUS
    <3>1. n - c \in 0..(k - 1)
      BY <1>3, <1>14
    <3> QED
      BY <1>12, <1>14, <3>1
  <2> QED
    BY <1>3, <1>14, <2>1
<1>16. PICK i : i = c + k + 1
  OBVIOUS
<1>17. i \in (c + 1)..(n + 1) /\ SkipOwn(t) = P[i]
  BY <1>3, <1>8, <1>11, <1>15, <1>16
<1>18. ASSUME NEW j \in (c + 1)..(i - 1) PROVE log[j] = t
  <2>1. PICK h : h = j - c - 1
    OBVIOUS
  <2>2. h \in 0..(k - 1) /\ h \in 0..(n - c) /\ c + h + 1 = j
    BY <1>3, <1>15, <1>16, <2>1
  <2> QED
    BY <1>9, <1>14, <2>2
<1>19. i <= n => log[i] # t
  <2>1. i <= n => k # n - c
    BY <1>3, <1>15, <1>16
  <2> QED
    BY <1>9, <1>14, <1>15, <1>16, <2>1
<1> QED
  BY <1>2, <1>17, <1>18, <1>19

(* The steps of a read, by record.                                         *)
LEMMA GetNothingStep ==
  ASSUME IInv, NEW n, n = Len(log), NEW P, P = Positions,
         NEW C \in [Threads -> base..n], Queue = View(P, n, base, C),
         NEW t \in Threads, GetNothing(t)
  PROVE  /\ Queue' = View(P, n, base, [C EXCEPT ![t] = n])
         /\ \A j \in (C[t] + 1)..n : log[j] = t
<1>1. Types /\ Laid(elems, P, base, n)
  BY DEF IInv
<1>2. PICK c : c = C[t]
  OBVIOUS
<1>3. /\ n \in Nat /\ base \in Nat /\ c \in base..n /\ c \in Nat
      /\ c + 1 \in (base + 1)..(n + 1)
  BY <1>1, <1>2 DEF Laid
<1>4. /\ last = P[base + 1] /\ queuesize = Dist(P[base + 1], P[n + 1])
      /\ lastOfThread = [u \in Threads |-> P[C[u] + 1]] /\ lastOfThread[t] = P[c + 1]
  BY <1>2 DEF Queue, View
<1>5. AtEnd(lastOfThread[t]) <=> c = n
  <2>1. AtEnd(P[c + 1]) <=> c + 1 = n + 1
    BY <1>1, <1>3, EndIsLast
  <2> QED
    BY <1>3, <1>4, <2>1
<1>6. /\ last' = last /\ queuesize' = queuesize /\ base' = base
      /\ AtEnd(lastOfThread[t]) \/ AtEnd(SkipOwn(t))
      /\ lastOfThread' = [lastOfThread EXCEPT ![t] =
                            IF AtEnd(@) THEN @ ELSE SkipOwn(t)]
  BY DEF GetNothing, history
<1>7. (\A j \in (c + 1)..n : log[j] = t)
      /\ (IF AtEnd(lastOfThread[t]) THEN lastOfThread[t] ELSE SkipOwn(t)) = P[n + 1]
  <2>1. CASE c = n
    <3>1. \A j \in (c + 1)..n : FALSE
      BY <1>3, <2>1
    <3> QED
      BY <1>4, <1>5, <2>1, <3>1
  <2>2. CASE c # n
    <3>1. c < n
      BY <1>3, <2>2
    <3>2. PICK i \in (c + 1)..(n + 1) : /\ SkipOwn(t) = P[i]
                                        /\ \A j \in (c + 1)..(i - 1) : log[j] = t
      BY <1>2, <3>1, SkipFacts
    <3>3. AtEnd(P[i])
      BY <1>5, <1>6, <2>2, <3>2
    <3>4. i \in (base + 1)..(n + 1)
      BY <1>3, <3>1
    <3>5. i = n + 1
      BY <1>1, <3>3, <3>4, EndIsLast
    <3>6. i - 1 = n
      BY <1>3, <3>5
    <3> QED
      BY <1>5, <2>2, <3>2, <3>5, <3>6
  <2> QED
    BY <2>1, <2>2
<1>8. lastOfThread' = [u \in Threads |-> P[[C EXCEPT ![t] = n][u] + 1]]
  <2>1. lastOfThread' = [lastOfThread EXCEPT ![t] = P[n + 1]]
    BY <1>6, <1>7
  <2> QED
    BY <1>4, <2>1
<1> QED
  BY <1>2, <1>4, <1>6, <1>7, <1>8 DEF Queue, View

(* Thread t, whose cursor stands on C[t], reads record i.                  *)
Reads(P, n, C, t, i) ==
  /\ \A j \in (C[t] + 1)..(i - 1) : log[j] = t
  /\ log[i] # t
  /\ elems' = [elems EXCEPT ![AddIndex(P[i], 2)] = @ - 1]
  /\ elems' \in [Index -> Int] /\ Laid(elems', P, base, n)
  /\ \A j \in (base + 1)..n : \A k \in 1..RecordSize(elems, P[j]) :
       j # i \/ k # 2 => elems'[AddIndex(P[j], k)] = elems[AddIndex(P[j], k)]
  /\ got' = [got EXCEPT ![t] = @ \cup {i}]
  /\ IF base = i - 1 /\ elems'[AddIndex(P[i], 2)] = 0
     THEN \E m \in i..n :
            /\ Queue' = View(P, n, m, Moved([C EXCEPT ![t] = i], m))
            /\ \A j \in (i + 1)..m : elems'[AddIndex(P[j], 2)] = 0
            /\ m < n => elems'[AddIndex(P[m + 1], 2)] # 0
     ELSE Queue' = View(P, n, base, [C EXCEPT ![t] = i])

LEMMA GetClauseStep ==
  ASSUME IInv, NEW n, n = Len(log), NEW P, P = Positions,
         NEW C \in [Threads -> base..n], Queue = View(P, n, base, C),
         NEW t \in Threads, GetClause(t)
  PROVE  \E i \in (C[t] + 1)..n : Reads(P, n, C, t, i)
<1>1. Types /\ Laid(elems, P, base, n) /\ Stored
  BY DEF IInv
<1>2. PICK c : c = C[t]
  OBVIOUS
<1>3. /\ n \in Nat /\ base \in Nat /\ base <= n /\ c \in base..n /\ c \in Nat
      /\ c + 1 \in (base + 1)..(n + 1) /\ elems \in [Index -> Int]
  BY <1>1, <1>2 DEF Laid, Types
<1>4. /\ last = P[base + 1] /\ queuesize = Dist(P[base + 1], P[n + 1])
      /\ lastOfThread = [u \in Threads |-> P[C[u] + 1]] /\ lastOfThread[t] = P[c + 1]
  BY <1>2 DEF Queue, View
<1>5. c < n
  <2>1. AtEnd(P[c + 1]) <=> c + 1 = n + 1
    BY <1>1, <1>3, EndIsLast
  <2>2. ~AtEnd(P[c + 1])
    BY <1>4 DEF GetClause
  <2> QED
    BY <1>3, <2>1, <2>2
<1>6. PICK i \in (c + 1)..(n + 1) :
        /\ SkipOwn(t) = P[i]
        /\ \A j \in (c + 1)..(i - 1) : log[j] = t
        /\ i <= n => log[i] # t
  BY <1>2, <1>5, SkipFacts
<1>7. i \in (c + 1)..n /\ i \in (base + 1)..n /\ i \in 1..n
  <2>1. i \in (base + 1)..(n + 1)
    BY <1>3
  <2>2. ~AtEnd(P[i])
    BY <1>6 DEF GetClause
  <2>3. i # n + 1
    BY <1>1, <2>1, <2>2, EndIsLast
  <2> QED
    BY <1>3, <2>1, <2>3
<1>8. PICK p : p = P[i]
  OBVIOUS
<1>9. PICK w : w = AddIndex(p, 2)
  OBVIOUS
<1>10. PICK due : due = elems[w] - 1
  OBVIOUS
<1>11. PICK words : words = [elems EXCEPT ![w] = due]
  OBVIOUS
<1>12. PICK lits : lits = {elems[AddIndex(p, k)] : k \in 4..RecordSize(elems, p)}
  OBVIOUS
<1>13. PICK rest : rest = RemoveLastClause(words, Queue)
  OBVIOUS
<1>14. /\ elems' = words /\ got' = [got EXCEPT ![t] = @ \cup lits]
       /\ Commit(IF last = p /\ due = 0
                 THEN [rest EXCEPT !.cursor[t] = rest.last]
                 ELSE [Queue EXCEPT !.cursor[t] = AddIndex(p, RecordSize(elems, p))])
  BY <1>6, <1>8, <1>9, <1>10, <1>11, <1>12, <1>13, Zenon
     DEF GetClause, NbSeenAfter, SizeAfter, EndAfter, RecordSize
<1>15. RecordSize(elems, p) \in Nat /\ RecordSize(elems, p) >= 4
  <2>1. elems[NextIndex(p)] \in Nat \ {0}
    BY <1>1, <1>7, <1>8 DEF Laid
  <2> QED
    BY <2>1 DEF RecordSize, HeaderSize
<1>16. w \in Index /\ 2 \in 1..RecordSize(elems, p)
  <2>1. 2 \in 1..RecordSize(elems, p)
    BY <1>15
  <2> QED
    BY <1>1, <1>7, <1>8, <1>9, <2>1, WordFacts
<1>17. words \in [Index -> Int] /\ words[w] = due
  BY <1>3, <1>10, <1>11, <1>16
<1>18. ASSUME NEW j \in (base + 1)..n, NEW k \in 1..RecordSize(elems, P[j]), j # i \/ k # 2
       PROVE  words[AddIndex(P[j], k)] = elems[AddIndex(P[j], k)]
  <2>1. AddIndex(P[j], k) \in Index
    BY <1>1, WordFacts
  <2>2. AddIndex(P[j], k) # AddIndex(P[i], 2)
    BY <1>1, <1>7, <1>8, <1>16, <1>18, Apart
  <2> QED
    BY <1>3, <1>8, <1>9, <1>11, <2>1, <2>2
<1>19. Laid(words, P, base, n)
  <2>1. ASSUME NEW j \in (base + 1)..n
        PROVE  words[NextIndex(P[j])] = elems[NextIndex(P[j])]
    <3>1. P[j] \in Index
      <4>1. j \in (base + 1)..(n + 1)
        BY <1>3
      <4> QED
        BY <1>1, <4>1, LaidFacts
    <3>2. 1 \in 1..RecordSize(elems, P[j])
      <4>1. elems[NextIndex(P[j])] \in Nat
        BY <1>1 DEF Laid
      <4> QED
        BY <4>1 DEF RecordSize, HeaderSize
    <3>3. NextIndex(P[j]) = AddIndex(P[j], 1)
      BY <3>1, RingFacts
    <3>4. words[AddIndex(P[j], 1)] = elems[AddIndex(P[j], 1)]
      <4>1. 1 # 2
        OBVIOUS
      <4> QED
        BY <1>18, <3>2, <4>1, Zenon
    <3> QED
      BY <3>3, <3>4
  <2>2. \A j \in (base + 1)..n : RecordSize(words, P[j]) = RecordSize(elems, P[j])
    BY <2>1 DEF RecordSize
  <2> QED
    BY <1>1, <2>1, <2>2 DEF Laid
<1>20. lits = {i}
  <2>1. \A k \in 4..RecordSize(elems, p) : elems[AddIndex(p, k)] = i
    <3>1. i \in Live /\ i \in 1..(n + 1)
      BY <1>3, <1>7 DEF Live
    <3>2. Before(i) = p
      BY <1>1, <1>8, <3>1, Names
    <3> QED
      BY <1>1, <3>1, <3>2 DEF Stored, Holds
  <2>2. 4 \in 4..RecordSize(elems, p)
    BY <1>15
  <2> QED
    BY <1>12, <2>1, <2>2
<1>21. last = p <=> base = i - 1
  <2>1. base + 1 \in (base + 1)..(n + 1) /\ i \in (base + 1)..(n + 1)
    BY <1>3, <1>7
  <2>2. P[base + 1] = P[i] => base + 1 = i
    BY <1>1, <2>1, LaidFacts
  <2> QED
    BY <1>3, <1>4, <1>7, <1>8, <2>2
<1>22. PICK D : D = [C EXCEPT ![t] = i]
  OBVIOUS
<1>23. ASSUME base = i - 1, due = 0
       PROVE  \E m \in i..n :
                /\ Queue' = View(P, n, m, Moved(D, m))
                /\ \A j \in (i + 1)..m : words[AddIndex(P[j], 2)] = 0
                /\ m < n => words[AddIndex(P[m + 1], 2)] # 0
  <2>1. base < n /\ base + 1 = i /\ base + 2 = i + 1 /\ c = base
    BY <1>3, <1>7, <1>23
  <2>2. PICK m \in (base + 1)..n :
          /\ RemoveLastClause(words, View(P, n, base, C)) = View(P, n, m, Moved(C, m))
          /\ m < n => words[AddIndex(P[m + 1], 2)] # 0
          /\ \A j \in (base + 2)..m : words[AddIndex(P[j], 2)] = 0
    BY <1>19, <2>1, RemoveFacts
  <2>3. rest = View(P, n, m, Moved(C, m))
    BY <1>13, <2>2
  <2>4. Moved(C, m) = Moved(D, m)
    <3>5. C[t] = base /\ base < m /\ D[t] = i /\ i <= m /\ ~(m < i) /\ (i < m \/ i = m)
      BY <1>2, <1>3, <1>22, <2>1
    <3>1. ASSUME NEW u \in Threads
          PROVE  (IF C[u] < m THEN m ELSE C[u]) = IF D[u] < m THEN m ELSE D[u]
      <4>1. CASE u = t
        BY <3>5, <4>1
      <4>2. CASE u # t
        BY <1>22, <4>2
      <4> QED
        BY <4>1, <4>2
    <3> QED
      BY <3>1 DEF Moved
  <2>5. [rest EXCEPT !.cursor[t] = rest.last] = rest
    <3>1. Moved(C, m)[t] = m
      <4>1. C[t] = base /\ base < m
        BY <1>2, <1>3, <2>1
      <4> QED
        BY <4>1 DEF Moved
    <3>2. rest.cursor = [u \in Threads |-> P[Moved(C, m)[u] + 1]] /\ rest.last = P[m + 1]
      BY <2>3 DEF View
    <3>3. [rest.cursor EXCEPT ![t] = rest.last] = rest.cursor
      BY <3>1, <3>2
    <3>4. PICK cursors : cursors = [u \in Threads |-> P[Moved(C, m)[u] + 1]]
      OBVIOUS
    <3>5. [cursors EXCEPT ![t] = P[m + 1]] = cursors
      BY <3>2, <3>3, <3>4
    <3>6. rest = [last |-> P[m + 1], queuesize |-> Dist(P[m + 1], P[n + 1]),
                  cursor |-> cursors, removed |-> m]
      BY <2>3, <3>4 DEF View
    <3> QED
      BY <3>5, <3>6
  <2>6. Commit(rest)
    BY <1>14, <1>21, <1>23, <2>5
  <2>7. Queue' = View(P, n, m, Moved(D, m))
    BY <2>3, <2>4, <2>6 DEF Commit, Queue, View
  <2> QED
    BY <2>1, <2>2, <2>7
<1>24. ASSUME ~(base = i - 1 /\ due = 0)
       PROVE  Queue' = View(P, n, base, D)
  <2>1. Commit([Queue EXCEPT !.cursor[t] = P[i + 1]])
    <3>1. AddIndex(p, RecordSize(elems, p)) = P[i + 1]
      BY <1>1, <1>7, <1>8, EndFacts
    <3> QED
      BY <1>14, <1>21, <1>24, <3>1
  <2>2. /\ last' = last /\ queuesize' = queuesize /\ base' = base
        /\ lastOfThread' = [lastOfThread EXCEPT ![t] = P[i + 1]]
    BY <2>1 DEF Commit, Queue
  <2>3. lastOfThread' = [u \in Threads |-> P[D[u] + 1]]
    BY <1>4, <1>22, <2>2
  <2> QED
    BY <1>4, <2>2, <2>3 DEF Queue, View
<1>25. elems' = [elems EXCEPT ![AddIndex(P[i], 2)] = @ - 1]
  BY <1>3, <1>8, <1>9, <1>10, <1>11, <1>14, <1>16
<1>26. elems'[AddIndex(P[i], 2)] = due
  BY <1>8, <1>9, <1>14, <1>17
<1>27. IF base = i - 1 /\ elems'[AddIndex(P[i], 2)] = 0
       THEN \E m \in i..n :
              /\ Queue' = View(P, n, m, Moved([C EXCEPT ![t] = i], m))
              /\ \A j \in (i + 1)..m : elems'[AddIndex(P[j], 2)] = 0
              /\ m < n => elems'[AddIndex(P[m + 1], 2)] # 0
       ELSE Queue' = View(P, n, base, [C EXCEPT ![t] = i])
  BY <1>14, <1>22, <1>23, <1>24, <1>26, Zenon
<1>28. /\ elems' \in [Index -> Int] /\ Laid(elems', P, base, n)
       /\ got' = [got EXCEPT ![t] = @ \cup {i}]
  BY <1>14, <1>17, <1>19, <1>20
<1>29. \A j \in (base + 1)..n : \A k \in 1..RecordSize(elems, P[j]) :
         j # i \/ k # 2 => elems'[AddIndex(P[j], k)] = elems[AddIndex(P[j], k)]
  BY <1>14, <1>18, Zenon
<1>30. log[i] # t
  BY <1>3, <1>6, <1>7
<1> QED
  BY <1>2, <1>6, <1>7, <1>25, <1>27, <1>28, <1>29, <1>30, Zenon DEF Reads

LEMMA GetNothingInv ==
  ASSUME IInv, NEW t \in Threads, GetNothing(t)
  PROVE  IInv'
<1>1. PICK n : n = Len(log)
  OBVIOUS
<1>2. PICK P : P = Positions
  OBVIOUS
<1>3. Types /\ Laid(elems, P, base, n) /\ Stored
  BY <1>1, <1>2 DEF IInv
<1>4. PICK C \in [Threads -> base..n] : Queue = View(P, n, base, C)
  BY <1>1, <1>2 DEF IInv
<1>5. PICK D : D = [C EXCEPT ![t] = n]
  OBVIOUS
<1>6. Queue' = View(P, n, base, D)
  <2>1. Queue' = View(P, n, base, [C EXCEPT ![t] = n])
    BY <1>1, <1>2, <1>4, GetNothingStep, Zenon
  <2> QED
    BY <1>5, <2>1
<1>7. /\ elems' = elems /\ first' = first /\ assertOk' = assertOk
      /\ log' = log /\ at' = at /\ base' = base
  BY DEF GetNothing, history
<1>8. Positions' = P
  BY <1>2, <1>7 DEF Positions, Before
<1>9. Types'
  BY <1>3, <1>7 DEF Types
<1>10. Stored'
  BY <1>3, <1>7 DEF Stored, Live, Before
<1>11. D \in [Threads -> base..n]
  <2>1. n \in base..n
    BY <1>3 DEF Laid
  <2> QED
    BY <1>4, <1>5, <2>1
<1>12. Laid(elems', Positions', base', Len(log'))
  BY <1>1, <1>3, <1>7, <1>8
<1> QED
  BY <1>1, <1>6, <1>7, <1>8, <1>9, <1>10, <1>11, <1>12 DEF IInv

LEMMA GetClauseInv ==
  ASSUME IInv, NEW t \in Threads, GetClause(t)
  PROVE  IInv'
<1>1. PICK n : n = Len(log)
  OBVIOUS
<1>2. PICK P : P = Positions
  OBVIOUS
<1>3. Types /\ Laid(elems, P, base, n) /\ Stored
  BY <1>1, <1>2 DEF IInv
<1>4. PICK C \in [Threads -> base..n] : Queue = View(P, n, base, C)
  BY <1>1, <1>2 DEF IInv
<1>5. PICK i \in (C[t] + 1)..n :
        /\ elems' \in [Index -> Int] /\ Laid(elems', P, base, n)
        /\ \A j \in (base + 1)..n : \A k \in 1..RecordSize(elems, P[j]) :
             j # i \/ k # 2 => elems'[AddIndex(P[j], k)] = elems[AddIndex(P[j], k)]
        /\ IF base = i - 1 /\ elems'[AddIndex(P[i], 2)] = 0
           THEN \E m \in i..n : Queue' = View(P, n, m, Moved([C EXCEPT ![t] = i], m))
           ELSE Queue' = View(P, n, base, [C EXCEPT ![t] = i])
  <2>1. PICK i \in (C[t] + 1)..n : Reads(P, n, C, t, i)
    BY <1>1, <1>2, <1>4, GetClauseStep
  <2> QED
    BY <2>1, Zenon DEF Reads
<1>6. /\ n \in Nat /\ base \in Nat /\ base <= n /\ i \in base..n /\ C[t] \in base..n
      /\ base + 1 <= i
  BY <1>3 DEF Laid
<1>7. PICK D : D = [C EXCEPT ![t] = i]
  OBVIOUS
<1>8. D \in [Threads -> base..n]
  BY <1>6, <1>7
<1>9. \E b \in base..n : \E G \in [Threads -> b..n] : Queue' = View(P, n, b, G)
  <2>1. CASE base = i - 1 /\ elems'[AddIndex(P[i], 2)] = 0
    <3>1. PICK m \in i..n : Queue' = View(P, n, m, Moved(D, m))
      BY <1>5, <1>7, <2>1
    <3>2. m \in base..n
      BY <1>6
    <3>3. Moved(D, m) \in [Threads -> m..n]
      BY <1>6, <1>8, <3>2, MovedFacts
    <3> QED
      BY <3>1, <3>2, <3>3
  <2>2. CASE ~(base = i - 1 /\ elems'[AddIndex(P[i], 2)] = 0)
    <3>1. Queue' = View(P, n, base, D)
      BY <1>5, <1>7, <2>2
    <3>2. base \in base..n
      BY <1>6
    <3> QED
      BY <1>8, <3>1, <3>2
  <2> QED
    BY <2>1, <2>2
<1>10. PICK b \in base..n : \E G \in [Threads -> b..n] : Queue' = View(P, n, b, G)
  BY <1>9
<1>11. /\ first' = first /\ assertOk' = assertOk /\ log' = log /\ at' = at
       /\ base' = b
  BY <1>10 DEF GetClause, Queue, View
<1>12. Positions' = P
  BY <1>2, <1>11 DEF Positions, Before
<1>13. Types'
  BY <1>3, <1>5, <1>11 DEF Types
<1>14. Laid(elems', P, b, n)
  <2>1. PICK F : F = elems'
    OBVIOUS
  <2>2. Laid(F, P, base, n)
    BY <1>5, <2>1
  <2>3. Laid(F, P, b, n)
    BY <2>2, LaidFacts
  <2> QED
    BY <2>1, <2>3
<1>15. Stored'
  <2> SUFFICES ASSUME NEW j \in Live'
               PROVE  Holds(elems', Before(j)', j, log'[j])
    BY DEF Stored
  <2>1. j \in (base + 1)..n /\ j \in Live /\ j \in 1..(n + 1)
    BY <1>1, <1>6, <1>11 DEF Live
  <2>2. Before(j) = P[j] /\ Before(j)' = P[j]
    <3>1. Before(j) = P[j]
      BY <1>1, <1>2, <1>3, <2>1, Names
    <3> QED
      BY <1>11, <3>1 DEF Before
  <2>3. Holds(elems, P[j], j, log[j])
    BY <1>3, <2>1, <2>2 DEF Stored
  <2>4. PICK F : F = elems'
    OBVIOUS
  <2>5. \A k \in 1..RecordSize(elems, P[j]) :
          k # 2 => F[AddIndex(P[j], k)] = elems[AddIndex(P[j], k)]
    BY <1>5, <2>1, <2>4
  <2>6. Holds(F, P[j], j, log[j])
    BY <1>3, <2>1, <2>3, <2>5, HoldsStill
  <2> QED
    BY <1>11, <2>2, <2>4, <2>6
<1> QED
  BY <1>1, <1>10, <1>11, <1>12, <1>13, <1>14, <1>15 DEF IInv

LEMMA OriginsAreNumbers ==
  /\ \A t \in Threads : t \in Int
  /\ \A w \in 0..(NbWorkers - 1) : -(w + 1) \in Int
BY CountAssumption DEF Threads

LEMMA StepInv == IInv /\ [Next]_vars => IInv'
<1> SUFFICES ASSUME IInv, [Next]_vars PROVE IInv'
  OBVIOUS
<1>1. ASSUME NEW t \in Threads, NEW size \in Sizes, PushLocal(t, size) PROVE IInv'
  BY <1>1, OriginsAreNumbers, PushInv DEF PushLocal
<1>2. ASSUME NEW w \in 0..(NbWorkers - 1), NEW size \in Sizes, PushRemote(w, size)
      PROVE  IInv'
  BY <1>2, OriginsAreNumbers, PushInv DEF PushRemote
<1>3. ASSUME NEW t \in Threads, Get(t) PROVE IInv'
  BY <1>3, GetNothingInv, GetClauseInv DEF Get
<1>4. CASE UNCHANGED vars
  <2>1. /\ elems' = elems /\ first' = first /\ assertOk' = assertOk /\ log' = log
        /\ at' = at /\ base' = base /\ last' = last /\ queuesize' = queuesize
        /\ lastOfThread' = lastOfThread
    BY <1>4 DEF vars, ring, history
  <2>2. Queue' = Queue /\ Positions' = Positions
    BY <2>1 DEF Queue, Positions, Before
  <2>3. Types' /\ Stored'
    BY <2>1 DEF IInv, Types, Stored, Live, Before
  <2> QED
    BY <2>1, <2>2, <2>3 DEF IInv
<1> QED
  BY <1>1, <1>2, <1>3, <1>4 DEF Next

LEMMA Invariance == Spec => []IInv
<1> QED
  BY InitInv, StepInv, PTL DEF Spec

(* The live records tile the ring, the count of words agrees with them,    *)
(* and every cursor stands between two of them: removeLastClause and       *)
(* getClause always read the words of a record where they expect them, and *)
(* a push never overwrites a record somebody will read.                    *)
THEOREM RingIsSoundHolds == Spec => []RingIsSound
<1> QED
  BY Invariance, RingFromInv, PTL

-----------------------------------------------------------------------------
(* The refinement mapping.                                                 *)
CurMapped ==
  \A C \in [Threads -> base..Len(log)] :
    Queue = View(Positions, Len(log), base, C) => Cur = C
UnseenMapped ==
  Unseen = [i \in 1..Len(log) |->
              IF i <= base THEN 0 ELSE elems[AddIndex(Positions[i], 2)]]

LEMMA CurIs == IInv => CurMapped
<1> SUFFICES ASSUME IInv, NEW C \in [Threads -> base..Len(log)],
                    Queue = View(Positions, Len(log), base, C)
             PROVE  Cur = C
  BY DEF CurMapped
<1>1. PICK n : n = Len(log)
  OBVIOUS
<1>2. PICK P : P = Positions
  OBVIOUS
<1>3. Types /\ Laid(elems, P, base, n)
  BY <1>1, <1>2 DEF IInv
<1>4. n \in Nat /\ base \in Nat /\ C \in [Threads -> base..n]
  BY <1>1, <1>3 DEF Laid
<1>5. lastOfThread = [t \in Threads |-> P[C[t] + 1]]
  BY <1>2 DEF Queue, View
<1>6. ASSUME NEW t \in Threads
      PROVE  C[t] = CHOOSE i \in base..n : lastOfThread[t] = Before(i + 1)
  <2>1. PICK x : x = CHOOSE i \in base..n : lastOfThread[t] = Before(i + 1)
    OBVIOUS
  <2>2. \A i \in base..n : Before(i + 1) = P[i + 1] /\ i + 1 \in (base + 1)..(n + 1)
    <3>1. \A i \in base..n : i + 1 \in 1..(n + 1) /\ i + 1 \in (base + 1)..(n + 1)
      BY <1>4
    <3> QED
      BY <1>1, <1>2, <1>3, <3>1, Names
  <2>3. C[t] \in base..n /\ lastOfThread[t] = Before(C[t] + 1)
    BY <1>4, <1>5, <2>2
  <2>4. x \in base..n /\ lastOfThread[t] = Before(x + 1)
    BY <2>1, <2>3
  <2>5. P[x + 1] = P[C[t] + 1]
    BY <2>2, <2>3, <2>4
  <2>6. x + 1 = C[t] + 1
    BY <1>3, <2>2, <2>3, <2>4, <2>5, LaidFacts
  <2> QED
    BY <1>4, <2>1, <2>3, <2>4, <2>6
<1> QED
  BY <1>1, <1>4, <1>6 DEF Cur

LEMMA UnseenIs == IInv => UnseenMapped
<1> SUFFICES ASSUME IInv PROVE UnseenMapped
  OBVIOUS
<1>1. Len(log) \in Nat
  BY Names DEF IInv
<1>2. \A i \in 1..Len(log) : Positions[i] = Before(i)
  BY <1>1 DEF Positions
<1> QED
  BY <1>2 DEF UnseenMapped, Unseen, NbSeenAfter

(* The same of the next state.                                             *)
LEMMA CurNext ==
  ASSUME IInv', NEW n, n = Len(log'), NEW b, b = base', NEW C \in [Threads -> b..n],
         Queue' = View(Positions', n, b, C)
  PROVE  Cur' = C
<1>1. (IInv => CurMapped)'
  BY CurIs, PTL
<1> QED
  BY <1>1 DEF CurMapped

LEMMA UnseenNext ==
  ASSUME IInv'
  PROVE  Unseen' = [i \in 1..Len(log') |->
                      IF i <= base' THEN 0 ELSE elems'[AddIndex(Positions'[i], 2)]]
<1>1. (IInv => UnseenMapped)'
  BY UnseenIs, PTL
<1> QED
  BY <1>1 DEF UnseenMapped

LEMMA InitMaps == Init => Exchange!Init
<1> SUFFICES ASSUME Init PROVE Exchange!Init
  OBVIOUS
<1>1. IInv /\ Len(log) = 0 /\ base = 0
  BY InitInv DEF Init
<1>2. Unseen = <<>>
  <2>1. PICK u : u = Unseen
    OBVIOUS
  <2>2. u = [i \in 1..0 |-> u[i]]
    BY <1>1, <2>1 DEF Unseen
  <2>3. u \in Seq(Int) /\ Len(u) = 0
    <3>1. u \in [1..0 -> Int]
      BY <2>2
    <3>2. u \in Seq(Int)
      BY <3>1, SeqDef
    <3>3. Len(u) \in Nat /\ 1..Len(u) = 1..0
      BY <2>2, <3>2, LenProperties
    <3> QED
      BY <3>2, <3>3, SameLength
  <2> QED
    BY <2>1, <2>3, EmptySeq
<1>3. Cur = [t \in Threads |-> 0]
  <2>1. PICK C \in [Threads -> base..Len(log)] : Queue = View(Positions, Len(log), base, C)
    BY <1>1 DEF IInv
  <2>2. Cur = C
    BY <1>1, <2>1, CurIs DEF CurMapped
  <2>3. \A t \in Threads : C[t] = 0
    BY <1>1, <2>1
  <2> QED
    BY <2>1, <2>2, <2>3
<1> QED
  BY <1>1, <1>2, <1>3 DEF Init, Exchange!Init

(* A push is one of the exchange.                                          *)
LEMMA UnseenFacts ==
  ASSUME IInv, NEW n, n = Len(log), NEW P, P = Positions
  PROVE  /\ Unseen \in Seq(Int) /\ Len(Unseen) = n /\ DOMAIN Unseen = 1..n
         /\ \A i \in 1..n : Unseen[i] = IF i <= base THEN 0 ELSE elems[AddIndex(P[i], 2)]
<1>1. Types /\ Laid(elems, P, base, n) /\ elems \in [Index -> Int]
  BY DEF IInv, Types
<1>2. n \in Nat /\ base \in Nat
  BY <1>1 DEF Laid
<1>3. PICK u : u = Unseen
  OBVIOUS
<1>4. u = [i \in 1..n |-> IF i <= base THEN 0 ELSE elems[AddIndex(P[i], 2)]]
  BY <1>3, UnseenIs DEF UnseenMapped
<1>5. \A i \in 1..n : u[i] \in Int
  <2> SUFFICES ASSUME NEW i \in 1..n PROVE u[i] \in Int
    OBVIOUS
  <2>1. CASE i <= base
    BY <1>4, <2>1
  <2>2. CASE ~(i <= base)
    <3>1. i \in (base + 1)..n
      BY <1>2, <2>2
    <3>2. 2 \in 1..RecordSize(elems, P[i])
      <4>1. elems[NextIndex(P[i])] \in Nat
        BY <1>1, <3>1 DEF Laid
      <4> QED
        BY <4>1 DEF RecordSize, HeaderSize
    <3>3. AddIndex(P[i], 2) \in Index
      BY <1>1, <3>1, <3>2, WordFacts
    <3> QED
      BY <1>1, <1>4, <2>2, <3>3
  <2> QED
    BY <2>1, <2>2
<1>6. u \in [1..n -> Int]
  BY <1>4, <1>5
<1>7. u \in Seq(Int)
  BY <1>2, <1>6, SeqDef
<1>8. Len(u) = n
  <2>1. Len(u) \in Nat /\ 1..Len(u) = 1..n
    BY <1>6, <1>7, LenProperties
  <2> QED
    BY <1>2, <2>1, SameLength
<1> QED
  BY <1>3, <1>4, <1>6, <1>7, <1>8

LEMMA PushMaps ==
  ASSUME IInv, IInv', NEW size \in Sizes, NEW origin \in Int, PushClause(origin, size)
  PROVE  Exchange!Push(origin)
<1>1. PICK n : n = Len(log)
  OBVIOUS
<1>2. PICK P : P = Positions
  OBVIOUS
<1>3. Types /\ Laid(elems, P, base, n) /\ Stored
  BY <1>1, <1>2 DEF IInv
<1>4. PICK C \in [Threads -> base..n] : Queue = View(P, n, base, C)
  BY <1>1, <1>2 DEF IInv
<1>5. PICK b \in base..n :
        /\ b # base => WhenFullRemoveOlder
        /\ b # base /\ b < n => elems[AddIndex(P[b + 1], 2)] # 0
        /\ Len(log') = n + 1 /\ base' = b
        /\ log' = Append(log, origin)
        /\ \A i \in 1..(n + 1) : Positions'[i] = P[i]
        /\ Queue' = View(Positions', n + 1, b, Moved(C, b))
        /\ \A i \in (b + 1)..n : \A k \in 1..RecordSize(elems, P[i]) :
             elems'[AddIndex(P[i], k)] = elems[AddIndex(P[i], k)]
        /\ \A k \in 1..(size + 3) :
             elems'[AddIndex(P[n + 1], k)] = Word(size, origin, n + 1, k)
  BY <1>1, <1>2, <1>3, <1>4, PushStep
<1>6. /\ n \in Nat /\ base \in Nat /\ base <= n /\ b \in Nat /\ size \in Nat \ {0}
      /\ n + 1 \in 1..(n + 1)
  BY <1>3, SizeAssumption DEF Laid
<1>7. /\ Unseen \in Seq(Int) /\ Len(Unseen) = n
      /\ \A i \in 1..n : Unseen[i] = IF i <= base THEN 0 ELSE elems[AddIndex(P[i], 2)]
  BY <1>1, <1>2, UnseenFacts
<1>8. Exchange!DueImports = NbThreads - 1 /\ NbThreads - 1 \in Int
  <2>1. NbThreads - 1 \in Int /\ 0 \in Int /\ NbThreads \in Nat \ {0, 1}
    BY CountAssumption
  <2>2. Cardinality(0..(NbThreads - 1)) = NbThreads
    BY <2>1, FS_Interval
  <2>3. Cardinality(Threads) = NbThreads
    BY <2>2 DEF Threads
  <2>4. Exchange!DueImports = Cardinality(Threads) - 1
    BY DEF Exchange!DueImports, Exchange!Cardinality, Cardinality
  <2> QED
    BY <2>1, <2>3, <2>4
<1>9. PICK counts : counts = Append(Unseen, Exchange!DueImports)
  OBVIOUS
<1>10. /\ Len(counts) = n + 1 /\ counts[n + 1] = NbThreads - 1
       /\ \A i \in 1..n : counts[i] = Unseen[i]
  BY <1>7, <1>8, <1>9, AppendProperties
<1>11. Unseen' = [i \in 1..Len(counts) |-> IF i <= b THEN 0 ELSE counts[i]]
  <2>1. Unseen' = [i \in 1..(n + 1) |->
                     IF i <= b THEN 0 ELSE elems'[AddIndex(Positions'[i], 2)]]
    BY <1>5, UnseenNext
  <2>2. ASSUME NEW i \in 1..(n + 1), ~(i <= b)
        PROVE  elems'[AddIndex(Positions'[i], 2)] = counts[i]
    <3>1. Positions'[i] = P[i]
      BY <1>5
    <3>2. CASE i = n + 1
      <4>1. 2 \in 1..(size + 3)
        BY <1>6
      <4>2. elems'[AddIndex(P[i], 2)] = NbThreads - 1
        BY <1>5, <3>2, <4>1 DEF Word
      <4> QED
        BY <1>10, <3>1, <3>2, <4>2
    <3>3. CASE i # n + 1
      <4>1. i \in (b + 1)..n /\ i \in 1..n /\ ~(i <= base) /\ i \in (base + 1)..n
        BY <1>6, <2>2, <3>3
      <4>2. 2 \in 1..RecordSize(elems, P[i])
        <5>1. elems[NextIndex(P[i])] \in Nat
          BY <1>3, <4>1 DEF Laid
        <5> QED
          BY <5>1 DEF RecordSize, HeaderSize
      <4>3. elems'[AddIndex(P[i], 2)] = elems[AddIndex(P[i], 2)]
        BY <1>5, <4>1, <4>2
      <4> QED
        BY <1>7, <1>10, <3>1, <4>1, <4>3
    <3> QED
      BY <3>2, <3>3
  <2> QED
    BY <1>10, <2>1, <2>2
<1>12. Cur = C
  BY <1>1, <1>2, <1>4, CurIs DEF CurMapped
<1>13. Cur' = [t \in Threads |-> IF Cur[t] < b THEN b ELSE Cur[t]]
  <2>1. Moved(C, b) \in [Threads -> b..(n + 1)]
    <3>1. Moved(C, b) \in [Threads -> b..n]
      BY <1>6, MovedFacts
    <3>2. \A c \in b..n : c \in b..(n + 1)
      BY <1>6
    <3> QED
      BY <3>1, <3>2
  <2>2. PICK D : D = Moved(C, b)
    OBVIOUS
  <2>3. PICK l : l = n + 1
    OBVIOUS
  <2>4. l = Len(log') /\ b = base' /\ D \in [Threads -> b..l] /\ Queue' = View(Positions', l, b, D)
    BY <1>5, <2>1, <2>2, <2>3
  <2>5. Cur' = D
    BY <2>4, CurNext
  <2> QED
    BY <1>12, <2>2, <2>5 DEF Moved
<1>14. Exchange!RemoveUpTo(counts, Cur, b)
  BY <1>5, <1>11, <1>13 DEF Exchange!RemoveUpTo
<1>15. b # base => WhenFullRemoveOlder /\ Exchange!Stop(Unseen, b)
  <2> SUFFICES ASSUME b # base, b < n PROVE Unseen[b + 1] # 0
    BY <1>5, <1>7 DEF Exchange!Stop
  <2>1. b + 1 \in 1..n /\ ~(b + 1 <= base)
    BY <1>6
  <2> QED
    BY <1>5, <1>7, <2>1
<1>16. Len(log) < MaxPush /\ got' = got
  BY DEF PushClause
<1>17. b \in base..Len(log)
  BY <1>1
<1> QED
  BY <1>5, <1>9, <1>14, <1>15, <1>16, <1>17 DEF Exchange!Push

(* Passing over one's own records imports nothing.                         *)
LEMMA GetNothingMaps ==
  ASSUME IInv, IInv', NEW t \in Threads, GetNothing(t)
  PROVE  Exchange!ImportNone(t)
<1>1. PICK n : n = Len(log)
  OBVIOUS
<1>2. PICK P : P = Positions
  OBVIOUS
<1>3. Types /\ Laid(elems, P, base, n)
  BY <1>1, <1>2 DEF IInv
<1>4. PICK C \in [Threads -> base..n] : Queue = View(P, n, base, C)
  BY <1>1, <1>2 DEF IInv
<1>5. PICK D : D = [C EXCEPT ![t] = n]
  OBVIOUS
<1>6. Queue' = View(P, n, base, D) /\ \A j \in (C[t] + 1)..n : log[j] = t
  <2>1. Queue' = View(P, n, base, [C EXCEPT ![t] = n])
    BY <1>1, <1>2, <1>4, GetNothingStep, Zenon
  <2>2. \A j \in (C[t] + 1)..n : log[j] = t
    BY <1>1, <1>2, <1>4, GetNothingStep, Zenon
  <2> QED
    BY <1>5, <2>1, <2>2
<1>7. /\ elems' = elems /\ first' = first /\ log' = log /\ at' = at /\ base' = base
      /\ got' = got
  BY DEF GetNothing, history
<1>8. Positions' = P
  BY <1>2, <1>7 DEF Positions, Before
<1>9. Unseen' = Unseen
  BY <1>7 DEF Unseen, NbSeenAfter, Before
<1>10. Cur = C
  BY <1>1, <1>2, <1>4, CurIs DEF CurMapped
<1>11. Cur' = D
  <2>1. D \in [Threads -> base..n]
    <3>1. n \in base..n
      BY <1>3 DEF Laid
    <3> QED
      BY <1>4, <1>5, <3>1
  <2>2. PICK b : b = base
    OBVIOUS
  <2>3. n = Len(log') /\ b = base' /\ D \in [Threads -> b..n] /\ Queue' = View(Positions', n, b, D)
    BY <1>1, <1>6, <1>7, <1>8, <2>1, <2>2
  <2> QED
    BY <2>3, CurNext
<1>12. Exchange!Foreign(t) = {}
  BY <1>1, <1>6, <1>10 DEF Exchange!Foreign
<1>13. Cur' = [Cur EXCEPT ![t] = Len(log)]
  BY <1>1, <1>5, <1>10, <1>11
<1> QED
  BY <1>7, <1>9, <1>12, <1>13 DEF Exchange!ImportNone

(* Reading a record imports the oldest clause of another.                  *)
LEMMA GetClauseMaps ==
  ASSUME IInv, IInv', NEW t \in Threads, GetClause(t)
  PROVE  Exchange!ImportNext(t)
<1>1. PICK n : n = Len(log)
  OBVIOUS
<1>2. PICK P : P = Positions
  OBVIOUS
<1>3. Types /\ Laid(elems, P, base, n) /\ elems \in [Index -> Int]
  BY <1>1, <1>2 DEF IInv, Types
<1>4. PICK C \in [Threads -> base..n] : Queue = View(P, n, base, C)
  BY <1>1, <1>2 DEF IInv
<1>5. PICK i \in (C[t] + 1)..n : Reads(P, n, C, t, i)
  BY <1>1, <1>2, <1>4, GetClauseStep
<1>6. /\ n \in Nat /\ base \in Nat /\ base <= n /\ C[t] \in base..n
      /\ i \in (base + 1)..n /\ i \in 1..n /\ i \in base..n
  <2>1. n \in Nat /\ base \in Nat /\ base <= n
    BY <1>3 DEF Laid
  <2>2. C[t] \in base..n
    BY <1>4
  <2> QED
    BY <2>1, <2>2
<1>7. PICK D : D = [C EXCEPT ![t] = i]
  OBVIOUS
<1>8. D \in [Threads -> base..n]
  BY <1>6, <1>7
<1>9. Cur = C
  BY <1>1, <1>2, <1>4, CurIs DEF CurMapped
<1>10. /\ Unseen \in Seq(Int) /\ Len(Unseen) = n /\ DOMAIN Unseen = 1..n
       /\ \A j \in 1..n : Unseen[j] = IF j <= base THEN 0 ELSE elems[AddIndex(P[j], 2)]
  BY <1>1, <1>2, UnseenFacts
<1>11. PICK counts : counts = [Unseen EXCEPT ![i] = @ - 1]
  OBVIOUS
<1>12. \A j \in (base + 1)..n : AddIndex(P[j], 2) \in Index /\ 2 \in 1..RecordSize(elems, P[j])
  <2> SUFFICES ASSUME NEW j \in (base + 1)..n
               PROVE  AddIndex(P[j], 2) \in Index /\ 2 \in 1..RecordSize(elems, P[j])
    OBVIOUS
  <2>1. 2 \in 1..RecordSize(elems, P[j])
    <3>1. elems[NextIndex(P[j])] \in Nat
      BY <1>3 DEF Laid
    <3> QED
      BY <3>1 DEF RecordSize, HeaderSize
  <2>2. AddIndex(P[j], 2) \in Index
    BY <1>3, <2>1, WordFacts
  <2> QED
    BY <2>1, <2>2
<1>13. \A j \in 1..n : counts[j] = IF j <= base THEN 0 ELSE elems'[AddIndex(P[j], 2)]
  <2> SUFFICES ASSUME NEW j \in 1..n
               PROVE  counts[j] = IF j <= base THEN 0 ELSE elems'[AddIndex(P[j], 2)]
    OBVIOUS
  <2>1. CASE j = i
    <3>1. elems' = [elems EXCEPT ![AddIndex(P[i], 2)] = @ - 1]
      BY <1>5 DEF Reads
    <3>2. AddIndex(P[i], 2) \in Index
      BY <1>6, <1>12
    <3>3. elems'[AddIndex(P[i], 2)] = elems[AddIndex(P[i], 2)] - 1
      BY <1>3, <3>1, <3>2
    <3>4. ~(i <= base)
      BY <1>6
    <3>5. counts[i] = Unseen[i] - 1
      BY <1>6, <1>10, <1>11
    <3> QED
      BY <1>6, <1>10, <2>1, <3>3, <3>4, <3>5
  <2>2. CASE j # i
    <3>1. counts[j] = Unseen[j]
      BY <1>10, <1>11, <2>2
    <3>2. CASE j <= base
      BY <1>10, <3>1, <3>2
    <3>3. CASE ~(j <= base)
      <4>1. j \in (base + 1)..n
        BY <1>6, <3>3
      <4>2. elems'[AddIndex(P[j], 2)] = elems[AddIndex(P[j], 2)]
        BY <1>5, <1>12, <2>2, <4>1, Zenon DEF Reads
      <4> QED
        BY <1>10, <3>1, <3>3, <4>2
    <3> QED
      BY <3>2, <3>3
  <2> QED
    BY <2>1, <2>2
<1>14. Len(counts) = n /\ counts = [j \in 1..n |-> counts[j]]
  <2>1. Unseen[i] - 1 \in Int
    <3>1. Unseen[i] \in Int
      BY <1>6, <1>10, ElementOfSeq
    <3> QED
      BY <3>1
  <2>2. Len([Unseen EXCEPT ![i] = Unseen[i] - 1]) = Len(Unseen)
    BY <1>6, <1>10, <2>1, ExceptSeq
  <2>3. counts = [Unseen EXCEPT ![i] = Unseen[i] - 1]
    BY <1>11
  <2>4. counts = [j \in 1..n |-> counts[j]]
    BY <1>10, <1>11
  <2> QED
    BY <1>10, <2>2, <2>3, <2>4
<1>15. i \in Exchange!Foreign(t) /\ \A j \in Exchange!Foreign(t) : i <= j
  <2>1. /\ \A j \in (C[t] + 1)..(i - 1) : log[j] = t
        /\ log[i] # t
    BY <1>5 DEF Reads
  <2>2. Exchange!Foreign(t) = {j \in (C[t] + 1)..n : log[j] # t}
    BY <1>1, <1>9 DEF Exchange!Foreign
  <2>3. ASSUME NEW j \in (C[t] + 1)..n, log[j] # t PROVE i <= j
    <3>1. ~(j \in (C[t] + 1)..(i - 1))
      BY <2>1, <2>3
    <3> QED
      BY <1>6, <3>1
  <2> QED
    BY <2>1, <2>2, <2>3
<1>16. got' = [got EXCEPT ![t] = @ \cup {i}] /\ log' = log
  BY <1>5 DEF Reads, GetClause
<1>17. Positions' = P
  <2>1. log' = log /\ at' = at /\ first' = first
    BY DEF GetClause
  <2> QED
    BY <1>2, <2>1 DEF Positions, Before
<1>18. ASSUME NEW b \in base..n, NEW G \in [Threads -> b..n], Queue' = View(P, n, b, G)
       PROVE  /\ base' = b /\ Cur' = G
              /\ Unseen' = [j \in 1..n |-> IF j <= b THEN 0 ELSE elems'[AddIndex(P[j], 2)]]
  <2>1. base' = b
    BY <1>18 DEF Queue, View
  <2>2. n = Len(log') /\ b = base' /\ Queue' = View(Positions', n, b, G)
    BY <1>1, <1>16, <1>17, <1>18, <2>1
  <2>3. Cur' = G
    BY <2>2, CurNext
  <2>4. Unseen' = [j \in 1..n |-> IF j <= b THEN 0 ELSE elems'[AddIndex(P[j], 2)]]
    BY <1>17, <2>2, UnseenNext
  <2> QED
    BY <2>1, <2>3, <2>4
<1>19. counts[i] = elems'[AddIndex(P[i], 2)]
  <2>1. ~(i <= base)
    BY <1>6
  <2> QED
    BY <1>6, <1>13, <2>1
<1>20. CASE base = i - 1 /\ counts[i] = 0
  <2>1. PICK m \in i..n :
          /\ Queue' = View(P, n, m, Moved(D, m))
          /\ \A j \in (i + 1)..m : elems'[AddIndex(P[j], 2)] = 0
          /\ m < n => elems'[AddIndex(P[m + 1], 2)] # 0
    BY <1>5, <1>7, <1>19, <1>20, Zenon DEF Reads
  <2>2. m \in base..n /\ m \in i..n /\ m \in Nat
    BY <1>6
  <2>3. Moved(D, m) \in [Threads -> m..n]
    BY <1>6, <1>8, <2>2, MovedFacts
  <2>4. /\ base' = m /\ Cur' = Moved(D, m)
        /\ Unseen' = [j \in 1..n |-> IF j <= m THEN 0 ELSE elems'[AddIndex(P[j], 2)]]
    BY <1>18, <2>1, <2>2, <2>3
  <2>5. Unseen' = [j \in 1..Len(counts) |-> IF j <= m THEN 0 ELSE counts[j]]
    <3>1. ASSUME NEW j \in 1..n
          PROVE  (IF j <= m THEN 0 ELSE elems'[AddIndex(P[j], 2)])
                   = (IF j <= m THEN 0 ELSE counts[j])
      <4>1. CASE j <= m
        BY <4>1
      <4>2. CASE ~(j <= m)
        <5>1. ~(j <= base)
          BY <1>6, <2>2, <4>2
        <5> QED
          BY <1>13, <4>2, <5>1
      <4> QED
        BY <4>1, <4>2
    <3> QED
      BY <1>14, <2>4, <3>1
  <2>6. Exchange!RemoveUpTo(counts, [Cur EXCEPT ![t] = i], m)
    <3>1. Cur' = [u \in Threads |-> IF D[u] < m THEN m ELSE D[u]]
      BY <2>4 DEF Moved
    <3> QED
      BY <1>7, <1>9, <2>4, <2>5, <3>1 DEF Exchange!RemoveUpTo
  <2>7. \A k \in (i + 1)..m : counts[k] = 0
    <3> SUFFICES ASSUME NEW k \in (i + 1)..m PROVE counts[k] = 0
      OBVIOUS
    <3>1. k \in 1..n /\ ~(k <= base)
      BY <1>6, <2>2
    <3> QED
      BY <1>13, <2>1, <3>1
  <2>8. Exchange!Stop(counts, m)
    <3> SUFFICES ASSUME m < n PROVE counts[m + 1] # 0
      BY <1>14 DEF Exchange!Stop
    <3>1. m + 1 \in 1..n /\ ~(m + 1 <= base)
      BY <1>6, <2>2
    <3> QED
      BY <1>13, <2>1, <3>1
  <2> QED
    BY <1>1, <1>11, <1>15, <1>16, <1>20, <2>2, <2>6, <2>7, <2>8, Zenon DEF Exchange!ImportNext
<1>21. CASE ~(base = i - 1 /\ counts[i] = 0)
  <2>1. Queue' = View(P, n, base, D)
    BY <1>5, <1>7, <1>19, <1>21, Zenon DEF Reads
  <2>2. base \in base..n
    BY <1>6
  <2>3. /\ base' = base /\ Cur' = D
        /\ Unseen' = [j \in 1..n |-> IF j <= base THEN 0 ELSE elems'[AddIndex(P[j], 2)]]
    BY <1>8, <1>18, <2>1, <2>2
  <2>4. Unseen' = counts
    BY <1>13, <1>14, <2>3
  <2>5. Cur' = [Cur EXCEPT ![t] = i]
    BY <1>7, <1>9, <2>3
  <2> QED
    BY <1>11, <1>15, <1>16, <1>21, <2>3, <2>4, <2>5, Zenon DEF Exchange!ImportNext
<1> QED
  BY <1>20, <1>21

LEMMA StepMaps == IInv /\ IInv' /\ [Next]_vars => [Exchange!Next]_Exchange!vars
<1> SUFFICES ASSUME IInv, IInv', [Next]_vars PROVE [Exchange!Next]_Exchange!vars
  OBVIOUS
<1>1. ASSUME NEW t \in Threads, NEW size \in Sizes, PushLocal(t, size)
      PROVE  Exchange!Next
  <2>1. Exchange!Push(t)
    BY <1>1, OriginsAreNumbers, PushMaps DEF PushLocal
  <2>2. t \in Exchange!Origins
    BY DEF Exchange!Origins
  <2> QED
    BY <2>1, <2>2 DEF Exchange!Next
<1>2. ASSUME NEW w \in 0..(NbWorkers - 1), NEW size \in Sizes, PushRemote(w, size)
      PROVE  Exchange!Next
  <2>1. Exchange!Push(-(w + 1))
    BY <1>2, OriginsAreNumbers, PushMaps DEF PushRemote
  <2>2. -(w + 1) \in Exchange!Origins
    BY DEF Exchange!Origins
  <2> QED
    BY <2>1, <2>2 DEF Exchange!Next
<1>3. ASSUME NEW t \in Threads, Get(t) PROVE Exchange!Next
  <2>1. Exchange!Import(t)
    BY <1>3, GetNothingMaps, GetClauseMaps DEF Get, Exchange!Import
  <2> QED
    BY <2>1 DEF Exchange!Next
<1>4. CASE UNCHANGED vars
  BY <1>4 DEF vars, ring, history, Exchange!vars, Unseen, Cur, NbSeenAfter, Before
<1> QED
  BY <1>1, <1>2, <1>3, <1>4 DEF Next

(* The ring of words is the FIFO of records of ClauseExchange: what is     *)
(* proved of the records, counters and cursors there holds of the words    *)
(* here.                                                                   *)
THEOREM ImplementsExchangeHolds == Spec => ImplementsExchange
<1> QED
  BY InitMaps, StepMaps, Invariance, PTL DEF Spec, ImplementsExchange, Exchange!Spec
================================================================================
