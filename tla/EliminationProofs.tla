--------------------------- MODULE EliminationProofs ---------------------------
(***************************************************************************)
(* That the preprocessing keeps the models of any file, that the model a   *)
(* worker prints falsifies no clause of the file, and that the indexes are *)
(* exact, for any options of the elimination; for the models, without      *)
(* -rcheck.                                                                *)
(*                                                                         *)
(* The invariant has two halves.  Types is about the database and its      *)
(* indexes, and what a procedure under way may rely on; it implies         *)
(* IndexesExact and is inductive alone.  Meaning is about models.  A model *)
(* of the file is one of the clauses left (Implied); a model of the        *)
(* clauses left, over the variables left, becomes one of the file when the *)
(* stored clauses are applied to it, the last one first (Chain).  The      *)
(* search may leave variables without a value: Chain speaks of all sets of *)
(* literals with one literal at least for each variable (Loose), where     *)
(* such a variable has both.  While a variable is eliminated, its          *)
(* resolvents are still to come (Resolving).                               *)
(***************************************************************************)
EXTENDS Elimination, FiniteSetTheorems, SequenceTheorems, TLAPS

Databases ==
  [nvars : 0..MaxVar, lits : Seq(SUBSET Lits), live : SUBSET Nat,
   occurs : [Vars -> SUBSET Nat], dirty : SUBSET Vars, nocc : [Lits -> Int],
   touched : SUBSET Vars, queue : Seq(Nat), heap : SUBSET Vars,
   eliminated : SUBSET Vars]

(* The live clauses of d that have a variable or a literal.                *)
WithVar(d, v) == {cr \in d.live : v \in VarsOf(d.lits[cr])}
WithLit(d, l) == {cr \in d.live : l \in d.lits[cr]}

(* The clauses: two literals or more, no tautologies.                      *)
ClausesOK(d) ==
  /\ d \in Databases
  /\ d.live \subseteq 1..Len(d.lits)
  /\ \A v \in Vars : d.occurs[v] \subseteq 1..Len(d.lits)
  /\ ToSet(d.queue) \subseteq 0..Len(d.lits)
  /\ \A cr \in d.live : /\ VarsOf(d.lits[cr]) \subseteq 1..d.nvars
                        /\ ~Tautology(d.lits[cr])
                        /\ Cardinality(d.lits[cr]) > 1
IndexOK(d) ==
  /\ \A v \in Vars : d.occurs[v] \cap d.live = WithVar(d, v)
  /\ \A v \in Vars : v \notin d.dirty => d.occurs[v] \subseteq d.live
  /\ \A l \in Lits : d.nocc[l] = Cardinality(WithLit(d, l))

-----------------------------------------------------------------------------
(* A set of naturals that is not empty has a least element.  Of the        *)
(* intervals that start at 0 and end in it, one contains no other.         *)
LEMMA LeastNatural ==
  ASSUME NEW T \in SUBSET Nat, T # {}
  PROVE  \E x \in T : \A y \in T : x <= y
<1> DEFINE Starts == {0..m : m \in T}
<1>1. ASSUME NEW m \in T PROVE 0..m \in FiniteSubsetsOf(Nat)
  <2>1. IsFiniteSet(0..m) /\ 0..m \in SUBSET Nat
    BY FS_Interval
  <2> QED
    BY <2>1 DEF FiniteSubsetsOf
<1>2. Starts \subseteq FiniteSubsetsOf(Nat) /\ Starts # {}
  BY <1>1
<1> HIDE DEF Starts
<1>3. PICK A \in Starts : \A B \in Starts : <<B, A>> \notin StrictSubsetOrdering(Nat)
  BY <1>2, FS_StrictSubsetOrderingWellFounded, WFMin, Zenon
<1>4. PICK m \in T : A = 0..m
  BY <1>3 DEF Starts
<1>5. ASSUME NEW y \in T, y < m PROVE FALSE
  <2>1. 0..y \in Starts
    BY DEF Starts
  <2>2. m \in 0..m /\ m \notin 0..y
    BY <1>5
  <2>3. 0..y \subseteq 0..m /\ 0..y \in SUBSET Nat /\ 0..m \in SUBSET Nat
    BY <1>5
  <2> QED
    BY <1>3, <1>4, <2>1, <2>2, <2>3 DEF StrictSubsetOrdering
<1> QED
  BY <1>4, <1>5

(* Induction over the natural numbers.                                     *)
LEMMA SetInduction ==
  ASSUME NEW S, 0 \in S, \A n \in Nat : n \in S => n + 1 \in S
  PROVE  Nat \subseteq S
<1> SUFFICES ASSUME Nat \ S # {} PROVE FALSE
  OBVIOUS
<1>1. PICK m \in Nat \ S : \A y \in Nat \ S : m <= y
  BY LeastNatural, Zenon
<1>2. m # 0 /\ m - 1 \in Nat
  BY <1>1
<1>3. m - 1 \in S
  BY <1>1, <1>2
<1> QED
  BY <1>1, <1>2, <1>3

(* Literals and variables.                                                 *)
LEMMA LitFacts ==
  ASSUME NEW l \in Lits
  PROVE  /\ l \in Int /\ l # 0 /\ -l \in Lits /\ -(-l) = l /\ -l # l
         /\ Var(l) \in Vars /\ Var(-l) = Var(l) /\ (l = Var(l) \/ l = -Var(l))
BY VarsAssumption DEF Lits, Vars, Var

LEMMA SameVar ==
  ASSUME NEW l \in Lits, NEW k \in Lits, Var(l) = Var(k)
  PROVE  l = k \/ l = -k
BY VarsAssumption DEF Lits, Vars, Var

LEMMA VarFacts ==
  ASSUME NEW v \in Vars
  PROVE  /\ v \in Nat /\ v > 0 /\ v \in Lits /\ -v \in Lits /\ v # -v
         /\ Var(v) = v /\ Var(-v) = v
BY VarsAssumption DEF Lits, Vars, Var

LEMMA FiniteVars == IsFiniteSet(Vars) /\ IsFiniteSet(Lits) /\ MaxVar \in Nat
<1>1. IsFiniteSet(1..MaxVar) /\ MaxVar \in Nat
  BY VarsAssumption, FS_Interval
<1>2. IsFiniteSet(0..(2 * MaxVar)) /\ IsFiniteSet((-MaxVar)..MaxVar)
  BY <1>1, FS_Interval
<1>3. Lits \subseteq (-MaxVar)..MaxVar
  BY <1>1 DEF Lits, Vars
<1> QED
  BY <1>1, <1>2, <1>3, FS_Subset DEF Vars

LEMMA ClauseIsFinite ==
  ASSUME NEW c \in SUBSET Lits
  PROVE  IsFiniteSet(c) /\ Cardinality(c) \in Nat
BY FiniteVars, FS_Subset, FS_CardinalityType

(* A variable is one of a clause if one of its literals is.                *)
LEMMA VarsOfIs ==
  ASSUME NEW c \in SUBSET Lits
  PROVE  /\ VarsOf(c) \subseteq Vars
         /\ \A v \in Vars : v \in VarsOf(c) <=> v \in c \/ -v \in c
         /\ \A l \in c : Var(l) \in VarsOf(c)
<1>1. VarsOf(c) \subseteq Vars /\ \A l \in c : Var(l) \in VarsOf(c)
  BY LitFacts DEF VarsOf
<1>2. ASSUME NEW v \in Vars PROVE v \in VarsOf(c) <=> v \in c \/ -v \in c
  <2>1. ASSUME v \in VarsOf(c) PROVE v \in c \/ -v \in c
    <3>1. PICK l \in c : v = Var(l)
      BY <2>1 DEF VarsOf
    <3> QED
      BY <3>1, LitFacts
  <2>2. ASSUME v \in c \/ -v \in c PROVE v \in VarsOf(c)
    BY <1>1, <2>2, VarFacts
  <2> QED
    BY <2>1, <2>2
<1> QED
  BY <1>1, <1>2

(* An assignment of vs has one literal of each variable.                   *)
LEMMA AssignmentIs ==
  ASSUME NEW vs \in SUBSET Vars, NEW a
  PROVE  a \in SetsOfLits(vs) <=>
           /\ a \subseteq Lits
           /\ \A l \in a : Var(l) \in vs /\ -l \notin a
           /\ \A v \in vs : v \in a \/ -v \in a
<1>1. ASSUME a \in SetsOfLits(vs)
      PROVE  /\ a \subseteq Lits
             /\ \A l \in a : Var(l) \in vs /\ -l \notin a
             /\ \A v \in vs : v \in a \/ -v \in a
  <2>1. PICK pos \in SUBSET vs : a = {IF v \in pos THEN v ELSE -v : v \in vs}
    BY <1>1 DEF SetsOfLits
  <2>2. ASSUME NEW l \in a
        PROVE  l \in Lits /\ Var(l) \in vs /\ (Var(l) \in pos <=> l = Var(l))
    <3>1. PICK v \in vs : l = IF v \in pos THEN v ELSE -v
      BY <2>1
    <3> QED
      BY <3>1, VarFacts
  <2>3. ASSUME NEW l \in a, -l \in a PROVE FALSE
    BY <2>2, <2>3, LitFacts
  <2>4. ASSUME NEW v \in vs PROVE v \in a \/ -v \in a
    BY <2>1
  <2> QED
    BY <2>2, <2>3, <2>4
<1>2. ASSUME a \subseteq Lits,
             \A l \in a : Var(l) \in vs /\ -l \notin a,
             \A v \in vs : v \in a \/ -v \in a
      PROVE  a \in SetsOfLits(vs)
  <2> DEFINE pos == a \cap vs
             b == {IF v \in pos THEN v ELSE -v : v \in vs}
  <2>1. ASSUME NEW l \in a PROVE l \in b
    <3>1. Var(l) \in vs /\ (l = Var(l) \/ l = -Var(l)) /\ -l \notin a
          /\ Var(l) \in Int /\ -(-Var(l)) = Var(l)
      BY <1>2, LitFacts, VarFacts
    <3>2. l = IF Var(l) \in pos THEN Var(l) ELSE -Var(l)
      BY <3>1
    <3> QED
      BY <3>1, <3>2
  <2>2. ASSUME NEW l \in b PROVE l \in a
    BY <1>2, <2>2
  <2>3. a = b
    BY <2>1, <2>2
  <2>4. pos \in SUBSET vs
    OBVIOUS
  <2> HIDE DEF pos
  <2> QED
    BY <2>3, <2>4 DEF SetsOfLits
<1> QED
  BY <1>1, <1>2

(* A variable without a value is given both of its literals: a clause that *)
(* has it is not falsified.  The sets with a literal of each variable of   *)
(* vs, and those with no more than one.                                    *)
Loose(vs) ==
  {b \in SUBSET Lits : /\ \A l \in b : Var(l) \in vs
                       /\ \A v \in vs : v \in b \/ -v \in b}
Sharp(b) == \A l \in b : -l \notin b

LEMMA SharpIs ==
  ASSUME NEW vs \in SUBSET Vars, NEW b
  PROVE  b \in SetsOfLits(vs) <=> b \in Loose(vs) /\ Sharp(b)
BY AssignmentIs DEF Loose, Sharp

(* Part of an assignment.                                                  *)
LEMMA OverIs ==
  ASSUME NEW vs \in SUBSET Vars, NEW ws \in SUBSET vs, NEW a \in Loose(vs)
  PROVE  /\ Over(a, ws) \in Loose(ws) /\ Over(a, ws) \subseteq a
         /\ Sharp(a) => Sharp(Over(a, ws))
         /\ \A c \in SUBSET Lits : VarsOf(c) \subseteq ws => Over(a, ws) \cap c = a \cap c
<1>1. Over(a, ws) \subseteq a /\ ws \subseteq Vars /\ a \subseteq Lits
  BY DEF Over, Loose
<1>2. Over(a, ws) \in Loose(ws)
  <2>1. ASSUME NEW v \in ws PROVE v \in Over(a, ws) \/ -v \in Over(a, ws)
    BY VarFacts DEF Over, Loose
  <2>2. \A l \in Over(a, ws) : Var(l) \in ws
    BY DEF Over
  <2> QED
    BY <1>1, <2>1, <2>2 DEF Loose
<1>4. Sharp(a) => Sharp(Over(a, ws))
  BY <1>1 DEF Sharp
<1>3. ASSUME NEW c \in SUBSET Lits, VarsOf(c) \subseteq ws
      PROVE  Over(a, ws) \cap c = a \cap c
  BY <1>3, VarsOfIs DEF Over
<1> QED
  BY <1>1, <1>2, <1>3, <1>4

(* Ascending lists a set of numbers.                                       *)
LEMMA AscendingFacts ==
  ASSUME NEW S \in SUBSET Nat, IsFiniteSet(S)
  PROVE  /\ Ascending(S) \in Seq(S) /\ Len(Ascending(S)) = Cardinality(S)
         /\ \A x \in S : \E i \in 1..Cardinality(S) : Ascending(S)[i] = x
<1> DEFINE n == Cardinality(S)
           Upto(x) == {y \in S : y <= x}
           rank == [x \in S |-> Cardinality(Upto(x))]
<1>1. n \in Nat /\ IsFiniteSet(1..n) /\ Cardinality(1..n) = n
  BY FS_CardinalityType, FS_Interval
<1>2. ASSUME NEW x \in S
      PROVE  IsFiniteSet(Upto(x)) /\ Cardinality(Upto(x)) \in 1..n
  <2>1. IsFiniteSet(Upto(x)) /\ Cardinality(Upto(x)) <= n
    BY FS_Subset
  <2>2. Cardinality(Upto(x)) \in Nat /\ x \in Upto(x)
    BY <2>1, FS_CardinalityType
  <2>3. Cardinality(Upto(x)) # 0
    BY <2>1, <2>2, FS_EmptySet
  <2> QED
    BY <1>1, <2>1, <2>2, <2>3
<1>3. ASSUME NEW x \in S, NEW y \in S, x < y
      PROVE  Cardinality(Upto(x)) < Cardinality(Upto(y))
  <2>1. Upto(x) \in SUBSET Upto(y) /\ y \in Upto(y) /\ y \notin Upto(x)
    <3>1. x \in Nat /\ y \in Nat /\ \A z \in S : z \in Nat
      OBVIOUS
    <3>2. \A z \in S : z <= x => z <= y
      BY <1>3, <3>1
    <3>3. ~(y <= x) /\ y <= y
      BY <1>3, <3>1
    <3> QED
      BY <3>2, <3>3
  <2>2. Cardinality(Upto(x)) <= Cardinality(Upto(y))
        /\ (Cardinality(Upto(y)) = Cardinality(Upto(x)) => Upto(y) = Upto(x))
    BY <1>2, <2>1, FS_Subset
  <2> HIDE DEF Upto
  <2> QED
    BY <1>2, <2>1, <2>2
<1>4. rank \in Injection(S, 1..n)
  <2>1. rank \in [S -> 1..n]
    BY <1>2
  <2>2. ASSUME NEW x \in S, NEW y \in S, rank[x] = rank[y] PROVE x = y
    <3>1. ~(x < y) /\ ~(y < x)
      BY <1>2, <1>3, <2>2
    <3> QED
      BY <3>1
  <2> HIDE DEF rank
  <2> QED
    BY <2>1, <2>2 DEF Injection, IsInjective
<1>5. rank \in Surjection(S, 1..n)
  BY <1>1, <1>4, FS_Injection
<1>6. \A i \in 1..n : \E x \in S : Cardinality(Upto(x)) = i
  <2>1. \A i \in 1..n : \E x \in S : rank[x] = i
    BY <1>5 DEF Surjection
  <2> QED
    BY <2>1
<1>7. ASSUME NEW i \in 1..n
      PROVE  Ascending(S)[i] \in S /\ Cardinality(Upto(Ascending(S)[i])) = i
  <2>1. Ascending(S)[i] = CHOOSE x \in S : Cardinality(Upto(x)) = i
    BY DEF Ascending
  <2> HIDE DEF Upto
  <2> QED
    BY <1>6, <2>1
<1>8. Ascending(S) \in Seq(S) /\ Len(Ascending(S)) = n
  <2>1. Ascending(S) = [i \in 1..n |-> Ascending(S)[i]]
    BY DEF Ascending
  <2>2. Ascending(S) \in [1..n -> S]
    BY <1>7, <2>1
  <2> QED
    BY <1>1, <2>2
<1>9. ASSUME NEW x \in S PROVE \E i \in 1..n : Ascending(S)[i] = x
  <2>1. PICK i \in 1..n : i = Cardinality(Upto(x))
    BY <1>2
  <2>2. PICK y \in S : y = Ascending(S)[i] /\ Cardinality(Upto(y)) = i
    BY <1>7
  <2>3. ~(x < y) /\ ~(y < x)
    <3> HIDE DEF Upto
    <3> QED
      BY <1>1, <1>3, <2>1, <2>2
  <2> QED
    BY <2>2, <2>3
<1> QED
  BY <1>8, <1>9

(* The least and the greatest of a set of numbers.                         *)
LEMMA MinIs ==
  ASSUME NEW S \in SUBSET Nat, S # {}
  PROVE  Min(S) \in S /\ \A x \in S : Min(S) <= x
<1>1. \E x \in S : \A y \in S : x <= y
  BY LeastNatural
<1> QED
  BY <1>1 DEF Min

LEMMA MaxIs ==
  ASSUME NEW n \in Nat, NEW S \in SUBSET (0..n), S # {}
  PROVE  Max(S) \in S /\ \A x \in S : x <= Max(S)
<1> DEFINE T == {n - x : x \in S}
<1>1. T \in SUBSET Nat /\ T # {}
  <2>1. \A x \in S : n - x \in Nat
    OBVIOUS
  <2>2. \E x \in S : n - x \in T
    BY Zenon
  <2> QED
    BY <2>1, <2>2, Zenon
<1>2. PICK t \in T : \A y \in T : t <= y
  BY <1>1, LeastNatural
<1>3. PICK m \in S : t = n - m
  BY <1>2
<1>4. ASSUME NEW x \in S PROVE m >= x
  <2>1. n - x \in T
    OBVIOUS
  <2>2. n - m <= n - x
    <3> HIDE DEF T
    <3> QED
      BY <1>2, <1>3, <2>1
  <2>3. m \in Int /\ x \in Int
    OBVIOUS
  <2> QED
    BY <2>2, <2>3
<1>5. \E x \in S : \A y \in S : x >= y
  BY <1>4
<1>6. Max(S) \in S /\ \A y \in S : Max(S) >= y
  BY <1>5 DEF Max
<1> QED
  BY <1>6

(* How many are left.                                                      *)
LEMMA WithoutSome ==
  ASSUME NEW S, IsFiniteSet(S), NEW T \in SUBSET S
  PROVE  Cardinality(S \ T) = Cardinality(S) - Cardinality(T)
<1>1. S \cap T = T
  OBVIOUS
<1> QED
  BY <1>1, FS_Difference

(* A clause of more than one literal keeps one if it loses one.            *)
LEMMA WithoutOne ==
  ASSUME NEW c \in SUBSET Lits, Cardinality(c) > 1, NEW l \in c
  PROVE  /\ c \ {l} # {} /\ Cardinality(c \ {l}) = Cardinality(c) - 1
         /\ Cardinality(c \ {l}) = 1 => \E p : c \ {l} = {p}
<1>1. IsFiniteSet(c) /\ Cardinality(c) \in Nat /\ IsFiniteSet(c \ {l})
      /\ Cardinality(c \ {l}) = Cardinality(c) - 1
  BY ClauseIsFinite, FS_RemoveElement
<1>2. c \ {l} # {}
  BY <1>1, FS_EmptySet
<1>3. Cardinality(c \ {l}) = 1 => \E p : c \ {l} = {p}
  BY <1>1, FS_Singleton
<1> QED
  BY <1>1, <1>2, <1>3

-----------------------------------------------------------------------------
(* What each operation on the indexes does to them.                        *)
LEMMA LiveFacts ==
  ASSUME NEW d, ClausesOK(d), NEW cr \in d.live
  PROVE  /\ cr \in Nat /\ cr > 0 /\ cr <= Len(d.lits) /\ d.lits[cr] \in SUBSET Lits
         /\ VarsOf(d.lits[cr]) \subseteq Vars
         /\ VarsOf(d.lits[cr]) \subseteq 1..d.nvars /\ 1..d.nvars \subseteq Vars
         /\ ~Tautology(d.lits[cr]) /\ Cardinality(d.lits[cr]) > 1
<1>1. d.lits \in Seq(SUBSET Lits) /\ d.nvars \in 0..MaxVar /\ cr \in 1..Len(d.lits)
  BY DEF ClausesOK, Databases
<1>2. 1..d.nvars \subseteq Vars
  BY <1>1, VarsAssumption DEF Vars
<1>3. d.lits[cr] \in SUBSET Lits /\ cr \in Nat /\ cr > 0 /\ cr <= Len(d.lits)
  BY <1>1
<1> QED
  BY <1>2, <1>3, VarsOfIs DEF ClausesOK

LEMMA LiveIsFinite ==
  ASSUME NEW d, ClausesOK(d)
  PROVE  /\ IsFiniteSet(d.live) /\ d.live \subseteq Nat
         /\ \A l : IsFiniteSet(WithLit(d, l)) /\ Cardinality(WithLit(d, l)) \in Nat
         /\ \A v : IsFiniteSet(WithVar(d, v))
<1>1. Len(d.lits) \in Nat /\ d.live \subseteq 1..Len(d.lits)
  BY DEF ClausesOK, Databases
<1>2. IsFiniteSet(1..Len(d.lits))
  <2>1. PICK n \in Nat : n = Len(d.lits)
    BY <1>1
  <2> QED
    BY <2>1, FS_Interval
<1>3. IsFiniteSet(d.live) /\ d.live \subseteq Nat
  BY <1>1, <1>2, FS_Subset
<1>4. \A l : WithLit(d, l) \in SUBSET d.live
  BY DEF WithLit
<1>5. \A v : WithVar(d, v) \in SUBSET d.live
  BY DEF WithVar
<1> QED
  BY <1>3, <1>4, <1>5, FS_Subset, FS_CardinalityType

(* The heap and the marks play no part.                                    *)
Alike(d, e) ==
  /\ e.nvars = d.nvars /\ e.lits = d.lits /\ e.live = d.live
  /\ e.eliminated = d.eliminated
SameIndexes(d, e) ==
  Alike(d, e) /\ e.occurs = d.occurs /\ e.dirty = d.dirty /\ e.nocc = d.nocc

LEMMA SameIndexesFacts ==
  ASSUME NEW d, NEW e \in Databases, SameIndexes(d, e), ClausesOK(d),
         ToSet(e.queue) \subseteq 0..Len(d.lits)
  PROVE  ClausesOK(e) /\ (IndexOK(d) => IndexOK(e))
<1>1. ClausesOK(e)
  BY DEF SameIndexes, Alike, ClausesOK
<1>2. IndexOK(d) => IndexOK(e)
  BY DEF SameIndexes, Alike, IndexOK, WithVar, WithLit
<1> QED
  BY <1>1, <1>2

LEMMA UpdateHeapFacts ==
  ASSUME NEW d \in Databases, NEW vs \in SUBSET Vars, NEW e, e = UpdateHeap(d, vs)
  PROVE  e \in Databases /\ SameIndexes(d, e) /\ e.queue = d.queue /\ e.touched = d.touched
<1>1. d.heap \cup ((vs \cap Unassigned) \ (d.eliminated \cup {cross.v})) \in SUBSET Vars
  BY DEF Databases
<1>2. PICK h \in SUBSET Vars :
        h = d.heap \cup ((vs \cap Unassigned) \ (d.eliminated \cup {cross.v}))
  BY <1>1
<1>3. e = [d EXCEPT !.heap = h]
  BY <1>2 DEF UpdateHeap
<1> QED
  BY <1>3 DEF Databases, SameIndexes, Alike

LEMMA LookupFacts ==
  ASSUME NEW d, ClausesOK(d), IndexOK(d), NEW v \in Vars, NEW e, e = Lookup(d, v)
  PROVE  /\ ClausesOK(e) /\ IndexOK(e) /\ Alike(d, e) /\ e.queue = d.queue
         /\ e.touched = d.touched /\ e.heap = d.heap
         /\ v \notin e.dirty /\ e.occurs[v] = WithVar(d, v)
         /\ e.dirty \subseteq d.dirty
<1>1. CASE v \notin d.dirty
  BY <1>1 DEF Lookup, IndexOK, Alike
<1>2. CASE v \in d.dirty
  <2>1. d \in Databases
    BY DEF ClausesOK
  <2>2. PICK o \in [Vars -> SUBSET Nat] :
          /\ o[v] = d.occurs[v] \cap d.live
          /\ \A w \in Vars : w # v => o[w] = d.occurs[w]
          /\ e = [d EXCEPT !.occurs = o, !.dirty = @ \ {v}]
    <3> DEFINE o == [d.occurs EXCEPT ![v] = @ \cap d.live]
    <3>1. o \in [Vars -> SUBSET Nat] /\ o[v] = d.occurs[v] \cap d.live
          /\ \A w \in Vars : w # v => o[w] = d.occurs[w]
      BY <2>1 DEF Databases
    <3>2. e = [d EXCEPT !.occurs = o, !.dirty = @ \ {v}]
      BY <1>2, <2>1 DEF Lookup, Databases
    <3> QED
      BY <3>1, <3>2
  <2>3. /\ e \in Databases /\ Alike(d, e) /\ e.queue = d.queue /\ e.nocc = d.nocc
        /\ e.touched = d.touched /\ e.heap = d.heap /\ e.occurs = o
        /\ e.dirty = d.dirty \ {v}
    BY <2>1, <2>2 DEF Databases, Alike
  <2>4. ClausesOK(e)
    BY <2>2, <2>3 DEF ClausesOK, Alike
  <2>5. IndexOK(e) /\ e.occurs[v] = WithVar(d, v)
    <3>1. \A w \in Vars : WithVar(e, w) = WithVar(d, w)
      BY <2>3 DEF WithVar, Alike
    <3>2. \A l \in Lits : WithLit(e, l) = WithLit(d, l)
      BY <2>3 DEF WithLit, Alike
    <3>3. \A w \in Vars : e.occurs[w] \cap e.live = WithVar(d, w)
      BY <2>2, <2>3 DEF IndexOK, Alike
    <3>4. \A w \in Vars : w \notin e.dirty => e.occurs[w] \subseteq e.live
      BY <2>2, <2>3 DEF IndexOK, Alike
    <3>5. e.occurs[v] = WithVar(d, v)
      BY <2>2, <2>3 DEF IndexOK
    <3>6. \A l \in Lits : e.nocc[l] = Cardinality(WithLit(e, l))
      BY <2>3, <3>2 DEF IndexOK
    <3> QED
      BY <3>1, <3>3, <3>4, <3>5, <3>6 DEF IndexOK
  <2> QED
    BY <2>3, <2>4, <2>5
<1> QED
  BY <1>1, <1>2

LEMMA AllRemovedFacts ==
  ASSUME NEW d, ClausesOK(d), IndexOK(d), NEW crs \in SUBSET d.live,
         NEW e, e = AllRemoved(d, crs)
  PROVE  /\ ClausesOK(e) /\ IndexOK(e)
         /\ e.live = d.live \ crs /\ e.lits = d.lits /\ e.nvars = d.nvars
         /\ e.eliminated = d.eliminated /\ e.queue = d.queue /\ e.touched = d.touched
         /\ e.occurs = d.occurs /\ d.dirty \subseteq e.dirty
         /\ \A v \in Vars, cr \in crs : v \in VarsOf(d.lits[cr]) => v \in e.dirty
<1>1. d \in Databases
  BY DEF ClausesOK
<1>2. PICK vs \in SUBSET Vars : vs = UNION {VarsOf(d.lits[cr]) : cr \in crs}
  <2>1. UNION {VarsOf(d.lits[cr]) : cr \in crs} \subseteq Vars
    <3>1. \A cr \in crs : VarsOf(d.lits[cr]) \subseteq Vars
      BY LiveFacts
    <3> QED
      BY <3>1
  <2> QED
    BY <2>1
<1>3. PICK n \in [Lits -> Int] :
        \A l \in Lits : n[l] = Cardinality(WithLit(d, l) \ crs)
                        /\ n[l] = d.nocc[l] - Cardinality({cr \in crs : l \in d.lits[cr]})
  <2>1. ASSUME NEW l \in Lits
        PROVE  /\ Cardinality(WithLit(d, l) \ crs)
                    = d.nocc[l] - Cardinality({cr \in crs : l \in d.lits[cr]})
               /\ Cardinality(WithLit(d, l) \ crs) \in Int
    <3>1. PICK T : T = {cr \in crs : l \in d.lits[cr]}
      OBVIOUS
    <3>2. T \in SUBSET WithLit(d, l) /\ WithLit(d, l) \ crs = WithLit(d, l) \ T
      BY <3>1 DEF WithLit
    <3>3. Cardinality(WithLit(d, l) \ T) = Cardinality(WithLit(d, l)) - Cardinality(T)
      BY <3>2, LiveIsFinite, WithoutSome
    <3>4. Cardinality(WithLit(d, l)) \in Nat /\ Cardinality(T) \in Nat
      BY <3>2, LiveIsFinite, FS_Subset, FS_CardinalityType
    <3>5. d.nocc[l] = Cardinality(WithLit(d, l))
      BY DEF IndexOK
    <3>6. Cardinality(WithLit(d, l) \ crs) = d.nocc[l] - Cardinality(T)
      BY <3>2, <3>3, <3>5, Zenon
    <3>7. Cardinality(WithLit(d, l) \ crs) \in Int
      BY <3>4, <3>5, <3>6
    <3> QED
      BY <3>1, <3>6, <3>7, Zenon
  <2> DEFINE n == [l \in Lits |-> Cardinality(WithLit(d, l) \ crs)]
  <2>2. n \in [Lits -> Int]
    BY <2>1
  <2> QED
    BY <2>1, <2>2
<1>4. PICK f : f = [d EXCEPT !.live = @ \ crs, !.nocc = n, !.dirty = @ \cup vs]
  OBVIOUS
<1>5. e = UpdateHeap(f, vs)
  <2>1. n = [l \in Lits |-> d.nocc[l] - Cardinality({cr \in crs : l \in d.lits[cr]})]
    BY <1>3
  <2>2. f = [d EXCEPT !.live = @ \ crs,
                !.nocc = [l \in Lits |->
                            @[l] - Cardinality({cr \in crs : l \in d.lits[cr]})],
                !.dirty = @ \cup vs]
    BY <1>1, <1>4, <2>1 DEF Databases
  <2> QED
    BY <1>2, <2>2 DEF AllRemoved
<1>6. /\ f \in Databases /\ f.live = d.live \ crs /\ f.nocc = n /\ f.dirty = d.dirty \cup vs
      /\ f.lits = d.lits /\ f.nvars = d.nvars /\ f.eliminated = d.eliminated
      /\ f.queue = d.queue /\ f.touched = d.touched /\ f.occurs = d.occurs
  BY <1>1, <1>4 DEF Databases
<1>7. ClausesOK(f)
  BY <1>6 DEF ClausesOK
<1>8. IndexOK(f)
  <2>1. \A v \in Vars : WithVar(f, v) = WithVar(d, v) \ crs
    BY <1>6 DEF WithVar
  <2>2. \A l \in Lits : WithLit(f, l) = WithLit(d, l) \ crs
    BY <1>6 DEF WithLit
  <2>3. \A v \in Vars : f.occurs[v] \cap f.live = WithVar(f, v)
    BY <1>6, <2>1 DEF IndexOK
  <2>4. ASSUME NEW v \in Vars, v \notin f.dirty PROVE f.occurs[v] \subseteq f.live
    <3>1. v \notin d.dirty /\ v \notin vs
      BY <1>6, <2>4
    <3>2. f.occurs[v] \subseteq d.live /\ f.occurs[v] = WithVar(d, v)
      BY <1>6, <3>1 DEF IndexOK
    <3>3. \A cr \in f.occurs[v] : cr \notin crs
      BY <1>2, <3>1, <3>2 DEF WithVar
    <3> QED
      BY <1>6, <3>2, <3>3
  <2>5. \A l \in Lits : f.nocc[l] = Cardinality(WithLit(f, l))
    BY <1>3, <1>6, <2>2
  <2> QED
    BY <2>3, <2>4, <2>5 DEF IndexOK
<1>9. e \in Databases /\ SameIndexes(f, e) /\ e.queue = f.queue /\ e.touched = f.touched
  BY <1>5, <1>6, UpdateHeapFacts
<1>10. ClausesOK(e) /\ IndexOK(e)
  <2>1. ToSet(e.queue) \subseteq 0..Len(f.lits)
    BY <1>7, <1>9 DEF ClausesOK
  <2> QED
    BY <1>7, <1>8, <1>9, <2>1, SameIndexesFacts
<1> QED
  BY <1>2, <1>6, <1>9, <1>10 DEF SameIndexes, Alike

(* The elements of sequences.                                              *)
LEMMA ToSetFacts ==
  ASSUME NEW X, NEW s \in Seq(X)
  PROVE  /\ ToSet(s) = {s[i] : i \in 1..Len(s)} /\ ToSet(s) \subseteq X
         /\ \A x \in X : Append(s, x) \in Seq(X) /\ ToSet(Append(s, x)) = ToSet(s) \cup {x}
         /\ s # <<>> => /\ Head(s) \in ToSet(s) /\ Tail(s) \in Seq(X)
                        /\ ToSet(Tail(s)) \subseteq ToSet(s)
                        /\ ToSet(s) = {Head(s)} \cup ToSet(Tail(s))
         /\ \A t \in Seq(X) : s \o t \in Seq(X) /\ ToSet(s \o t) = ToSet(s) \cup ToSet(t)
<1>1. \A t \in Seq(X) : ToSet(t) = {t[i] : i \in 1..Len(t)}
  BY DEF ToSet
<1>2. ToSet(s) \subseteq X
  BY <1>1
<1>3. ASSUME NEW x \in X
      PROVE  Append(s, x) \in Seq(X) /\ ToSet(Append(s, x)) = ToSet(s) \cup {x}
  <2> DEFINE t == Append(s, x)
  <2>1. /\ t \in Seq(X) /\ Len(t) = Len(s) + 1
        /\ t[Len(s) + 1] = x /\ \A i \in 1..Len(s) : t[i] = s[i]
    OBVIOUS
  <2> HIDE DEF t
  <2>2. ASSUME NEW y \in ToSet(t) PROVE y \in ToSet(s) \cup {x}
    <3>1. PICK i \in 1..Len(t) : y = t[i]
      BY <1>1, <2>1
    <3>2. CASE i = Len(s) + 1
      BY <2>1, <3>1, <3>2
    <3>3. CASE i \in 1..Len(s)
      BY <1>1, <2>1, <3>1, <3>3
    <3> QED
      BY <2>1, <3>2, <3>3
  <2>3. ASSUME NEW y \in ToSet(s) PROVE y \in ToSet(t)
    <3>1. PICK i \in 1..Len(s) : y = s[i]
      BY <1>1
    <3>2. i \in 1..Len(t) /\ t[i] = y
      BY <2>1, <3>1
    <3> QED
      BY <1>1, <2>1, <3>2
  <2>4. x \in ToSet(t)
    <3>1. Len(s) + 1 \in 1..Len(t)
      BY <2>1
    <3> QED
      BY <1>1, <2>1, <3>1
  <2> QED
    BY <2>1, <2>2, <2>3, <2>4 DEF t
<1>4. ASSUME s # <<>>
      PROVE  /\ Head(s) \in ToSet(s) /\ Tail(s) \in Seq(X)
             /\ ToSet(s) = {Head(s)} \cup ToSet(Tail(s))
  <2> DEFINE t == Tail(s)
  <2>1. /\ t \in Seq(X) /\ Len(t) = Len(s) - 1
        /\ \A i \in 1..Len(t) : t[i] = s[i + 1]
    BY <1>4
  <2> HIDE DEF t
  <2>2. Head(s) = s[1] /\ 1 \in 1..Len(s)
    BY <1>4
  <2>3. ASSUME NEW y \in ToSet(s) PROVE y \in {Head(s)} \cup ToSet(t)
    <3>1. PICK i \in 1..Len(s) : y = s[i]
      BY <1>1
    <3>2. CASE i # 1
      <4>1. i - 1 \in 1..Len(t) /\ t[i - 1] = s[i]
        BY <2>1, <3>2
      <4> QED
        BY <1>1, <2>1, <3>1, <4>1
    <3> QED
      BY <2>2, <3>1, <3>2
  <2>4. ASSUME NEW y \in ToSet(t) PROVE y \in ToSet(s)
    <3>1. PICK i \in 1..Len(t) : y = t[i]
      BY <1>1, <2>1
    <3>2. i + 1 \in 1..Len(s) /\ y = s[i + 1]
      BY <2>1, <3>1
    <3> QED
      BY <1>1, <2>1, <3>2
  <2>5. Head(s) \in ToSet(s)
    BY <1>1, <2>2
  <2> QED
    BY <2>1, <2>3, <2>4, <2>5 DEF t
<1>5. ASSUME NEW t \in Seq(X)
      PROVE  s \o t \in Seq(X) /\ ToSet(s \o t) = ToSet(s) \cup ToSet(t)
  <2> DEFINE u == s \o t
  <2>1. /\ u \in Seq(X) /\ Len(u) = Len(s) + Len(t)
        /\ \A i \in 1..Len(s) : u[i] = s[i]
        /\ \A i \in 1..Len(t) : u[Len(s) + i] = t[i]
    OBVIOUS
  <2> HIDE DEF u
  <2>2. ASSUME NEW y \in ToSet(u) PROVE y \in ToSet(s) \cup ToSet(t)
    <3>1. PICK i \in 1..Len(u) : y = u[i]
      BY <1>1, <2>1
    <3>2. CASE i <= Len(s)
      <4>1. i \in 1..Len(s)
        BY <3>2
      <4> QED
        BY <1>1, <2>1, <3>1, <4>1
    <3>3. CASE i > Len(s)
      <4>1. i - Len(s) \in 1..Len(t) /\ Len(s) + (i - Len(s)) = i
        BY <2>1, <3>3
      <4>2. u[i] = t[i - Len(s)]
        BY <2>1, <4>1
      <4> QED
        BY <1>1, <3>1, <4>1, <4>2
    <3> QED
      BY <3>2, <3>3
  <2>3. ASSUME NEW y \in ToSet(s) PROVE y \in ToSet(u)
    <3>1. PICK i \in 1..Len(s) : y = s[i]
      BY <1>1
    <3>2. i \in 1..Len(u) /\ u[i] = y
      BY <2>1, <3>1
    <3> QED
      BY <1>1, <2>1, <3>2
  <2>4. ASSUME NEW y \in ToSet(t) PROVE y \in ToSet(u)
    <3>1. PICK i \in 1..Len(t) : y = t[i]
      BY <1>1, <2>1
    <3>2. Len(s) + i \in 1..Len(u) /\ u[Len(s) + i] = y
      BY <2>1, <3>1
    <3> QED
      BY <1>1, <2>1, <3>2
  <2> QED
    BY <2>1, <2>2, <2>3, <2>4 DEF u
<1> QED
  BY <1>1, <1>2, <1>3, <1>4, <1>5

WithClause(d, c, e) ==
  /\ ClausesOK(e) /\ IndexOK(e)
  /\ e.nvars = d.nvars /\ e.eliminated = d.eliminated /\ e.dirty = d.dirty
  /\ Len(d.lits) + 1 \notin d.live
  /\ e.live = d.live \cup {Len(d.lits) + 1}
  /\ e.lits[Len(d.lits) + 1] = c /\ Len(e.lits) = Len(d.lits) + 1
  /\ \A cr \in d.live : e.lits[cr] = d.lits[cr]
  /\ ToSet(e.queue) = ToSet(d.queue) \cup {Len(d.lits) + 1}

LEMMA AddedFacts ==
  ASSUME NEW d, ClausesOK(d), IndexOK(d), NEW c \in SUBSET Lits,
         VarsOf(c) \subseteq 1..d.nvars, ~Tautology(c), Cardinality(c) > 1
  PROVE  WithClause(d, c, Added(d, c))
<1> DEFINE e == Added(d, c)
<1> HIDE DEF e
<1>1. d \in Databases /\ VarsOf(c) \subseteq Vars
  BY VarsOfIs DEF ClausesOK
<1>2. PICK cr \in Nat : cr = Len(d.lits) + 1 /\ cr > 0
  BY <1>1 DEF Databases
<1>3. PICK o \in [Vars -> SUBSET Nat] :
        \A v \in Vars : o[v] = IF v \in VarsOf(c) THEN d.occurs[v] \cup {cr}
                                                  ELSE d.occurs[v]
  <2> DEFINE o == [v \in Vars |-> IF v \in VarsOf(c) THEN d.occurs[v] \cup {cr}
                                                     ELSE d.occurs[v]]
  <2>1. o \in [Vars -> SUBSET Nat]
    BY <1>1 DEF Databases
  <2> QED
    BY <2>1
<1>4. PICK n \in [Lits -> Int] :
        \A l \in Lits : n[l] = IF l \in c THEN d.nocc[l] + 1 ELSE d.nocc[l]
  <2> DEFINE n == [l \in Lits |-> IF l \in c THEN d.nocc[l] + 1 ELSE d.nocc[l]]
  <2>1. n \in [Lits -> Int]
    BY <1>1 DEF Databases
  <2> QED
    BY <2>1
<1>5. PICK q \in Seq(Nat) : q = Append(d.queue, cr) /\ ToSet(q) = ToSet(d.queue) \cup {cr}
  <2>1. d.queue \in Seq(Nat)
    BY <1>1 DEF Databases
  <2>2. Append(d.queue, cr) \in Seq(Nat)
        /\ ToSet(Append(d.queue, cr)) = ToSet(d.queue) \cup {cr}
    BY <2>1, ToSetFacts
  <2> QED
    BY <2>2
<1>6. PICK ls \in Seq(SUBSET Lits) :
        /\ ls = Append(d.lits, c) /\ Len(ls) = cr /\ ls[cr] = c
        /\ \A i \in 1..Len(d.lits) : ls[i] = d.lits[i]
  <2>1. d.lits \in Seq(SUBSET Lits)
    BY <1>1 DEF Databases
  <2> DEFINE ls == Append(d.lits, c)
  <2>2. ls \in Seq(SUBSET Lits) /\ Len(ls) = cr /\ ls[cr] = c
        /\ \A i \in 1..Len(d.lits) : ls[i] = d.lits[i]
    BY <1>2, <2>1
  <2> QED
    BY <2>2
<1>7. e = [d EXCEPT !.lits = ls, !.live = @ \cup {cr}, !.queue = q, !.occurs = o,
                    !.nocc = n, !.touched = @ \cup VarsOf(c)]
  <2>1. o = [v \in Vars |-> IF v \in VarsOf(c) THEN d.occurs[v] \cup {cr}
                                               ELSE d.occurs[v]]
    BY <1>3
  <2>2. n = [l \in Lits |-> IF l \in c THEN d.nocc[l] + 1 ELSE d.nocc[l]]
    BY <1>4
  <2> QED
    BY <1>1, <1>2, <1>5, <1>6, <2>1, <2>2 DEF e, Added, Databases
<1>8. /\ e \in Databases /\ e.lits = ls /\ e.live = d.live \cup {cr} /\ e.queue = q
      /\ e.occurs = o /\ e.nocc = n /\ e.nvars = d.nvars
      /\ e.eliminated = d.eliminated /\ e.dirty = d.dirty
  <2>1. d.live \cup {cr} \in SUBSET Nat /\ d.touched \cup VarsOf(c) \in SUBSET Vars
    BY <1>1 DEF Databases
  <2>2. PICK w \in SUBSET Nat, u \in SUBSET Vars :
          w = d.live \cup {cr} /\ u = d.touched \cup VarsOf(c)
    BY <2>1
  <2>3. e = [d EXCEPT !.lits = ls, !.live = w, !.queue = q, !.occurs = o, !.nocc = n,
                      !.touched = u]
    BY <1>7, <2>2
  <2>4. e \in Databases
    BY <1>1, <2>3 DEF Databases
  <2>5. /\ e.lits = ls /\ e.live = w /\ e.queue = q
        /\ e.occurs = o /\ e.nocc = n /\ e.nvars = d.nvars
        /\ e.eliminated = d.eliminated /\ e.dirty = d.dirty
    BY <1>1, <2>3 DEF Databases
  <2> QED
    BY <2>2, <2>4, <2>5
<1>9. cr \notin d.live /\ \A i \in d.live : i \in 1..Len(d.lits) /\ ls[i] = d.lits[i]
  BY <1>2, <1>6 DEF ClausesOK
<1>10. ClausesOK(e)
  <2>1. e.live \subseteq 1..Len(e.lits)
    BY <1>2, <1>6, <1>8, <1>9
  <2>2. \A v \in Vars : e.occurs[v] \subseteq 1..Len(e.lits)
    <3>1. \A v \in Vars : d.occurs[v] \subseteq 1..Len(d.lits)
      BY DEF ClausesOK
    <3>2. Len(e.lits) = Len(d.lits) + 1 /\ Len(d.lits) \in Nat
      BY <1>1, <1>2, <1>6, <1>8 DEF Databases
    <3>3. 1..Len(d.lits) \subseteq 1..Len(e.lits) /\ cr \in 1..Len(e.lits)
      BY <1>2, <3>2
    <3> QED
      BY <1>3, <1>8, <3>1, <3>3
  <2>3. ToSet(e.queue) \subseteq 0..Len(e.lits)
    <3>1. ToSet(d.queue) \subseteq 0..Len(d.lits)
      BY DEF ClausesOK
    <3> QED
      BY <1>2, <1>5, <1>6, <1>8, <3>1
  <2>4. ASSUME NEW i \in e.live
        PROVE  /\ VarsOf(e.lits[i]) \subseteq 1..e.nvars
               /\ ~Tautology(e.lits[i]) /\ Cardinality(e.lits[i]) > 1
    <3>1. CASE i = cr
      BY <1>6, <1>8, <3>1
    <3>2. CASE i \in d.live
      BY <1>8, <1>9, <3>2, LiveFacts
    <3> QED
      BY <1>8, <3>1, <3>2
  <2> QED
    BY <1>8, <2>1, <2>2, <2>3, <2>4 DEF ClausesOK
<1>11. IndexOK(e)
  <2>1. \A v \in Vars : WithVar(e, v) = IF v \in VarsOf(c) THEN WithVar(d, v) \cup {cr}
                                                           ELSE WithVar(d, v)
    BY <1>6, <1>8, <1>9 DEF WithVar
  <2>2. \A l \in Lits : WithLit(e, l) = IF l \in c THEN WithLit(d, l) \cup {cr}
                                                   ELSE WithLit(d, l)
    BY <1>6, <1>8, <1>9 DEF WithLit
  <2>3. ASSUME NEW v \in Vars
        PROVE  /\ e.occurs[v] \cap e.live = WithVar(e, v)
               /\ v \notin e.dirty => e.occurs[v] \subseteq e.live
    <3>1. d.occurs[v] \cap d.live = WithVar(d, v)
          /\ (v \notin d.dirty => d.occurs[v] \subseteq d.live)
          /\ cr \notin d.occurs[v]
      BY <1>2 DEF IndexOK, ClausesOK
    <3> QED
      BY <1>3, <1>8, <2>1, <3>1
  <2>4. ASSUME NEW l \in Lits PROVE e.nocc[l] = Cardinality(WithLit(e, l))
    <3>1. cr \notin WithLit(d, l) /\ IsFiniteSet(WithLit(d, l))
          /\ d.nocc[l] = Cardinality(WithLit(d, l))
      BY <1>9, LiveIsFinite DEF WithLit, IndexOK
    <3>2. CASE l \in c
      <4>1. WithLit(e, l) = WithLit(d, l) \cup {cr} /\ e.nocc[l] = d.nocc[l] + 1
        BY <1>4, <1>8, <2>2, <3>2
      <4>2. Cardinality(WithLit(d, l) \cup {cr}) = Cardinality(WithLit(d, l)) + 1
        BY <3>1, FS_AddElement
      <4> QED
        BY <3>1, <4>1, <4>2
    <3>3. CASE l \notin c
      <4>1. WithLit(e, l) = WithLit(d, l) /\ e.nocc[l] = d.nocc[l]
        BY <1>4, <1>8, <2>2, <3>3
      <4> QED
        BY <3>1, <4>1
    <3> QED
      BY <3>2, <3>3
  <2> QED
    BY <2>3, <2>4 DEF IndexOK
<1> QED
  BY <1>2, <1>5, <1>6, <1>8, <1>9, <1>10, <1>11 DEF WithClause, e

(* A clause that loses a literal: two things may happen to it, to the      *)
(* others nothing.                                                         *)
LEMMA WithoutLit ==
  ASSUME NEW c \in SUBSET Lits, NEW l \in c, ~Tautology(c)
  PROVE  /\ c \ {l} \in SUBSET Lits /\ ~Tautology(c \ {l})
         /\ VarsOf(c \ {l}) = VarsOf(c) \ {Var(l)}
<1>1. l \in Lits /\ -l \notin c
  BY DEF Tautology
<1>2. ASSUME NEW k \in c, k # l PROVE Var(k) # Var(l)
  BY <1>1, <1>2, SameVar
<1>3. VarsOf(c \ {l}) = VarsOf(c) \ {Var(l)}
  BY <1>2 DEF VarsOf
<1> QED
  BY <1>3 DEF Tautology

WithoutLiteral(d, cr, l, e) ==
  /\ ClausesOK(e) /\ IndexOK(e)
  /\ e.nvars = d.nvars /\ e.eliminated = d.eliminated
  /\ e.live = IF Cardinality(d.lits[cr]) = 2 THEN d.live \ {cr} ELSE d.live
  /\ e.lits[cr] = d.lits[cr] \ {l} /\ Len(e.lits) = Len(d.lits)
  /\ \A i \in d.live : i # cr => e.lits[i] = d.lits[i]
  /\ ToSet(e.queue) = ToSet(d.queue) \cup {cr}

LEMMA StrengthenedFacts ==
  ASSUME NEW d, ClausesOK(d), IndexOK(d), NEW cr \in d.live, NEW l \in d.lits[cr]
  PROVE  WithoutLiteral(d, cr, l, Strengthened(d, cr, l))
<1> DEFINE e == Strengthened(d, cr, l)
<1> HIDE DEF e
<1>1. d \in Databases /\ cr \in Nat /\ cr \in 1..Len(d.lits)
  BY LiveFacts DEF ClausesOK
<1>2. PICK c \in SUBSET Lits : c = d.lits[cr] /\ ~Tautology(c) /\ Cardinality(c) > 1
  BY LiveFacts
<1>3. PICK c1 \in SUBSET Lits :
        /\ c1 = c \ {l} /\ ~Tautology(c1) /\ VarsOf(c1) = VarsOf(c) \ {Var(l)}
        /\ Cardinality(c1) = Cardinality(c) - 1
  BY <1>2, WithoutLit, WithoutOne
<1>4. l \in Lits /\ Var(l) \in Vars /\ Var(l) \in VarsOf(c)
  BY <1>2, LitFacts, VarsOfIs
<1>5. PICK q \in Databases :
        /\ q = [d EXCEPT !.queue = Append(@, cr)] /\ SameIndexes(d, q)
        /\ ToSet(q.queue) = ToSet(d.queue) \cup {cr}
  <2>1. d.queue \in Seq(Nat)
    BY <1>1 DEF Databases
  <2>2. Append(d.queue, cr) \in Seq(Nat)
        /\ ToSet(Append(d.queue, cr)) = ToSet(d.queue) \cup {cr}
    BY <1>1, <2>1, ToSetFacts
  <2>3. PICK s \in Seq(Nat) : s = Append(d.queue, cr)
    BY <2>2
  <2> DEFINE q == [d EXCEPT !.queue = s]
  <2>4. q \in Databases /\ q.queue = s /\ SameIndexes(d, q)
    BY <1>1, <2>3 DEF Databases, SameIndexes, Alike
  <2>5. q = [d EXCEPT !.queue = Append(@, cr)]
    BY <1>1, <2>3 DEF Databases
  <2> HIDE DEF q
  <2> QED
    BY <2>2, <2>3, <2>4, <2>5
<1>6. ClausesOK(q) /\ IndexOK(q)
  <2>1. ToSet(q.queue) \subseteq 0..Len(d.lits)
    BY <1>1, <1>5 DEF ClausesOK
  <2> QED
    BY <1>5, <2>1, SameIndexesFacts
<1>7. \A L : L = [d.lits EXCEPT ![cr] = c1] =>
        /\ L \in Seq(SUBSET Lits) /\ Len(L) = Len(d.lits) /\ L[cr] = c1
        /\ \A i \in 1..Len(d.lits) : i # cr => L[i] = d.lits[i]
  BY <1>1 DEF Databases
<1>8. PICK ls \in Seq(SUBSET Lits) :
        /\ ls = [d.lits EXCEPT ![cr] = c1] /\ Len(ls) = Len(d.lits) /\ ls[cr] = c1
        /\ \A i \in 1..Len(d.lits) : i # cr => ls[i] = d.lits[i]
  BY <1>7
<1>9. \A i \in d.live : i \in 1..Len(d.lits) /\ (i # cr => ls[i] = d.lits[i])
  BY <1>8 DEF ClausesOK
<1>10. ASSUME Cardinality(c) = 2 PROVE WithoutLiteral(d, cr, l, e)
  <2>1. PICK f : f = Removed(q, cr)
    OBVIOUS
  <2>2. f = AllRemoved(q, {cr}) /\ {cr} \in SUBSET q.live
    BY <1>5, <2>1 DEF Removed, SameIndexes, Alike
  <2>3. /\ ClausesOK(f) /\ IndexOK(f) /\ f.live = d.live \ {cr} /\ f.lits = d.lits
        /\ f.nvars = d.nvars /\ f.eliminated = d.eliminated /\ f.queue = q.queue
    <3>1. /\ ClausesOK(f) /\ IndexOK(f) /\ f.live = q.live \ {cr} /\ f.lits = q.lits
          /\ f.nvars = q.nvars /\ f.eliminated = q.eliminated /\ f.queue = q.queue
      BY <1>6, <2>2, AllRemovedFacts
    <3>2. /\ q.live = d.live /\ q.lits = d.lits /\ q.nvars = d.nvars
          /\ q.eliminated = d.eliminated
      BY <1>5 DEF SameIndexes, Alike
    <3> QED
      BY <3>1, <3>2
  <2>4. e = [f EXCEPT !.lits = ls]
    <3>1. e = [f EXCEPT !.lits[cr] = @ \ {l}]
      BY <1>2, <1>5, <1>10, <2>1 DEF e, Strengthened
    <3>2. f \in Databases
      BY <2>3 DEF ClausesOK
    <3> QED
      BY <1>2, <1>3, <1>8, <2>3, <3>1, <3>2 DEF Databases
  <2>5. /\ e \in Databases /\ e.lits = ls /\ e.live = f.live /\ e.nvars = f.nvars
        /\ e.eliminated = f.eliminated /\ e.queue = f.queue /\ e.occurs = f.occurs
        /\ e.dirty = f.dirty /\ e.nocc = f.nocc
    BY <2>3, <2>4 DEF ClausesOK, Databases
  <2>6. \A i \in e.live : e.lits[i] = f.lits[i]
    BY <1>9, <2>3, <2>5
  <2>7. ClausesOK(e)
    BY <1>8, <2>3, <2>5, <2>6 DEF ClausesOK
  <2>8. IndexOK(e)
    <3>1. \A v \in Vars : WithVar(e, v) = WithVar(f, v)
      BY <2>5, <2>6 DEF WithVar
    <3>2. \A k \in Lits : WithLit(e, k) = WithLit(f, k)
      BY <2>5, <2>6 DEF WithLit
    <3> QED
      BY <2>3, <2>5, <3>1, <3>2 DEF IndexOK
  <2> QED
    BY <1>2, <1>3, <1>5, <1>8, <1>9, <1>10, <2>3, <2>5, <2>7, <2>8 DEF WithoutLiteral
<1>11. ASSUME Cardinality(c) # 2 PROVE WithoutLiteral(d, cr, l, e)
  <2>1. PICK o \in [Vars -> SUBSET Nat] :
          /\ o = [d.occurs EXCEPT ![Var(l)] = @ \ {cr}]
          /\ o[Var(l)] = d.occurs[Var(l)] \ {cr}
          /\ \A v \in Vars : v # Var(l) => o[v] = d.occurs[v]
    <3> DEFINE o == [d.occurs EXCEPT ![Var(l)] = @ \ {cr}]
    <3>1. /\ o \in [Vars -> SUBSET Nat] /\ o[Var(l)] = d.occurs[Var(l)] \ {cr}
          /\ \A v \in Vars : v # Var(l) => o[v] = d.occurs[v]
      BY <1>1, <1>4 DEF Databases
    <3> QED
      BY <3>1
  <2>2. PICK n \in [Lits -> Int] :
          /\ n = [d.nocc EXCEPT ![l] = @ - 1] /\ n[l] = d.nocc[l] - 1
          /\ \A k \in Lits : k # l => n[k] = d.nocc[k]
    <3> DEFINE n == [d.nocc EXCEPT ![l] = @ - 1]
    <3>1. /\ n \in [Lits -> Int] /\ n[l] = d.nocc[l] - 1
          /\ \A k \in Lits : k # l => n[k] = d.nocc[k]
      BY <1>1, <1>4 DEF Databases
    <3> QED
      BY <3>1
  <2>3. PICK f : f = [q EXCEPT !.lits = ls, !.occurs = o, !.nocc = n]
    OBVIOUS
  <2>4. e = UpdateHeap(f, {Var(l)})
    <3>1. f = [q EXCEPT !.lits[cr] = @ \ {l}, !.occurs[Var(l)] = @ \ {cr},
                        !.nocc[l] = @ - 1]
      <4>1. q.lits = d.lits /\ q.occurs = d.occurs /\ q.nocc = d.nocc
        BY <1>5 DEF SameIndexes, Alike
      <4> QED
        BY <1>2, <1>3, <1>5, <1>8, <2>1, <2>2, <2>3, <4>1 DEF Databases
    <3> QED
      BY <1>2, <1>5, <1>11, <3>1 DEF e, Strengthened
  <2>5. /\ f \in Databases /\ f.lits = ls /\ f.occurs = o /\ f.nocc = n
        /\ f.live = d.live /\ f.nvars = d.nvars /\ f.eliminated = d.eliminated
        /\ f.queue = q.queue /\ f.dirty = d.dirty
    BY <1>5, <2>3 DEF Databases, SameIndexes, Alike
  <2>6. Cardinality(c1) > 1 /\ Cardinality(c) \in Nat
    BY <1>2, <1>3, <1>11, ClauseIsFinite
  <2>7. ClausesOK(f)
    <3>1. ASSUME NEW i \in f.live
          PROVE  /\ VarsOf(f.lits[i]) \subseteq 1..f.nvars
                 /\ ~Tautology(f.lits[i]) /\ Cardinality(f.lits[i]) > 1
      <4>1. CASE i = cr
        <5>1. f.lits[i] = c1 /\ VarsOf(c) \subseteq 1..d.nvars
          BY <1>2, <1>8, <2>5, <4>1, LiveFacts
        <5> QED
          BY <1>3, <2>5, <2>6, <5>1
      <4>2. CASE i # cr
        BY <1>9, <2>5, <4>2, LiveFacts
      <4> QED
        BY <4>1, <4>2
    <3>2. \A v \in Vars : f.occurs[v] \subseteq 1..Len(f.lits)
      BY <1>8, <2>1, <2>5 DEF ClausesOK
    <3>3. f.live \subseteq 1..Len(f.lits) /\ ToSet(f.queue) \subseteq 0..Len(f.lits)
      BY <1>6, <1>8, <1>5, <2>5 DEF ClausesOK, SameIndexes, Alike
    <3> QED
      BY <2>5, <3>1, <3>2, <3>3 DEF ClausesOK
  <2>8. IndexOK(f)
    <3>1. ASSUME NEW v \in Vars
          PROVE  WithVar(f, v) = IF v = Var(l) THEN WithVar(d, v) \ {cr}
                                               ELSE WithVar(d, v)
      BY <1>2, <1>3, <1>8, <1>9, <2>5 DEF WithVar
    <3>2. ASSUME NEW k \in Lits
          PROVE  WithLit(f, k) = IF k = l THEN WithLit(d, k) \ {cr} ELSE WithLit(d, k)
      BY <1>2, <1>3, <1>8, <1>9, <2>5 DEF WithLit
    <3>3. ASSUME NEW v \in Vars
          PROVE  /\ f.occurs[v] \cap f.live = WithVar(f, v)
                 /\ v \notin f.dirty => f.occurs[v] \subseteq f.live
      <4>1. d.occurs[v] \cap d.live = WithVar(d, v)
            /\ (v \notin d.dirty => d.occurs[v] \subseteq d.live)
        BY DEF IndexOK
      <4> QED
        BY <2>1, <2>5, <3>1, <4>1
    <3>4. ASSUME NEW k \in Lits PROVE f.nocc[k] = Cardinality(WithLit(f, k))
      <4>1. IsFiniteSet(WithLit(d, k)) /\ d.nocc[k] = Cardinality(WithLit(d, k))
            /\ Cardinality(WithLit(d, k)) \in Nat
        BY LiveIsFinite DEF IndexOK
      <4>2. CASE k = l
        <5>1. cr \in WithLit(d, k) /\ WithLit(f, k) = WithLit(d, k) \ {cr}
              /\ f.nocc[k] = d.nocc[k] - 1
          BY <1>2, <2>2, <2>5, <3>2, <4>2 DEF WithLit
        <5>2. Cardinality(WithLit(d, k) \ {cr}) = Cardinality(WithLit(d, k)) - 1
          BY <4>1, <5>1, FS_RemoveElement
        <5> QED
          BY <4>1, <5>1, <5>2
      <4>3. CASE k # l
        <5>1. WithLit(f, k) = WithLit(d, k) /\ f.nocc[k] = d.nocc[k]
          BY <2>2, <2>5, <3>2, <4>3
        <5> QED
          BY <4>1, <5>1
      <4> QED
        BY <4>2, <4>3
    <3> QED
      BY <3>3, <3>4 DEF IndexOK
  <2>9. e \in Databases /\ SameIndexes(f, e) /\ e.queue = f.queue
    BY <1>4, <2>4, <2>5, UpdateHeapFacts
  <2>10. ClausesOK(e) /\ IndexOK(e)
    <3>1. ToSet(e.queue) \subseteq 0..Len(f.lits)
      BY <2>7, <2>9 DEF ClausesOK
    <3> QED
      BY <2>7, <2>8, <2>9, <3>1, SameIndexesFacts
  <2> QED
    BY <1>2, <1>3, <1>5, <1>8, <1>9, <1>11, <2>5, <2>9, <2>10
    DEF SameIndexes, Alike, WithoutLiteral
<1>12. WithoutLiteral(d, cr, l, e)
  BY <1>10, <1>11
<1> QED
  BY <1>12 DEF e

-----------------------------------------------------------------------------
(* A function defined by recursion on an interval exists, and its values   *)
(* have a property each of them has when the one before has it.            *)
Follows(f, n, x0, step) ==
  f[0] = x0 /\ \A i \in 1..n : f[i] = step[<<i, f[i - 1]>>]

LEMMA Recursion ==
  ASSUME NEW n \in Nat, NEW X, NEW x0 \in X, NEW step \in [(1..n) \X X -> X]
  PROVE  \E f \in [0..n -> X] : Follows(f, n, x0, step)
<1> DEFINE S == {m \in Nat : m <= n => \E f \in [0..m -> X] :
                   f = [i \in 0..m |-> IF i = 0 THEN x0 ELSE step[<<i, f[i - 1]>>]]}
<1>1. 0 \in S
  <2> DEFINE g == [i \in 0..0 |-> x0]
  <2>1. /\ g \in [0..0 -> X]
        /\ g = [i \in 0..0 |-> IF i = 0 THEN x0 ELSE step[<<i, g[i - 1]>>]]
    OBVIOUS
  <2> QED
    BY <2>1
<1>2. ASSUME NEW m \in Nat, m \in S PROVE m + 1 \in S
  <2> SUFFICES ASSUME m + 1 <= n
               PROVE  \E f \in [0..(m + 1) -> X] :
                        f = [i \in 0..(m + 1) |->
                               IF i = 0 THEN x0 ELSE step[<<i, f[i - 1]>>]]
    OBVIOUS
  <2>1. PICK f \in [0..m -> X] :
          f = [i \in 0..m |-> IF i = 0 THEN x0 ELSE step[<<i, f[i - 1]>>]]
    BY <1>2
  <2>2. PICK x \in X : x = step[<<m + 1, f[m]>>]
    <3>1. m + 1 \in 1..n /\ m \in 0..m
      OBVIOUS
    <3>2. <<m + 1, f[m]>> \in (1..n) \X X
      BY <2>1, <3>1
    <3> QED
      BY <3>2
  <2>3. PICK g : g = [i \in 0..(m + 1) |-> IF i = m + 1 THEN x ELSE f[i]]
    OBVIOUS
  <2>4. g \in [0..(m + 1) -> X]
    <3>1. \A i \in 0..(m + 1) : i = m + 1 \/ i \in 0..m
      OBVIOUS
    <3> QED
      BY <2>1, <2>2, <2>3, <3>1
  <2>5. ASSUME NEW i \in 0..(m + 1)
        PROVE  g[i] = IF i = 0 THEN x0 ELSE step[<<i, g[i - 1]>>]
    <3>1. CASE i = 0
      <4>1. g[0] = f[0] /\ f[0] = x0
        BY <2>1, <2>3
      <4> QED
        BY <3>1, <4>1
    <3>2. CASE i # 0 /\ i # m + 1
      <4>1. i \in 0..m /\ i - 1 \in 0..m
        BY <3>2
      <4>2. g[i] = f[i] /\ g[i - 1] = f[i - 1]
        BY <2>3, <3>2, <4>1
      <4>3. f[i] = step[<<i, f[i - 1]>>]
        BY <2>1, <3>2, <4>1
      <4> QED
        BY <3>2, <4>2, <4>3
    <3>3. CASE i = m + 1
      <4>1. g[i] = x /\ g[i - 1] = f[m] /\ i # 0
        BY <2>3, <3>3
      <4> QED
        BY <2>2, <3>3, <4>1
    <3> QED
      BY <3>1, <3>2, <3>3
  <2>6. g = [i \in 0..(m + 1) |-> IF i = 0 THEN x0 ELSE step[<<i, g[i - 1]>>]]
    <3>1. g = [i \in 0..(m + 1) |-> g[i]]
      BY <2>3
    <3> QED
      BY <2>5, <3>1
  <2> QED
    BY <2>4, <2>6
<1> HIDE DEF S
<1>3. n \in S
  BY <1>1, <1>2, SetInduction
<1>4. PICK f \in [0..n -> X] :
        f = [i \in 0..n |-> IF i = 0 THEN x0 ELSE step[<<i, f[i - 1]>>]]
  BY <1>3 DEF S
<1>5. f[0] = x0
  BY <1>4
<1>6. ASSUME NEW i \in 1..n PROVE f[i] = step[<<i, f[i - 1]>>]
  <2>1. i \in 0..n /\ i # 0
    OBVIOUS
  <2> QED
    BY <1>4, <2>1
<1> QED
  BY <1>5, <1>6 DEF Follows

LEMMA ValuesOfRecursion ==
  ASSUME NEW n \in Nat, NEW X, NEW F, F[0] \in X,
         \A i \in 1..n : F[i - 1] \in X => F[i] \in X
  PROVE  F[n] \in X
<1> DEFINE S == {m \in Nat : m <= n => F[m] \in X}
<1>1. 0 \in S
  OBVIOUS
<1>2. ASSUME NEW m \in Nat, m \in S PROVE m + 1 \in S
  <2>1. m + 1 <= n => m + 1 \in 1..n /\ (m + 1) - 1 = m
    OBVIOUS
  <2> QED
    BY <1>2, <2>1
<1> HIDE DEF S
<1>3. n \in S
  BY <1>1, <1>2, SetInduction
<1> QED
  BY <1>3 DEF S

(* Literals found by propagation from some that are true are true in every *)
(* model where these are, and there is no conflict.                        *)
LEMMA WithUnitsFacts ==
  ASSUME ClausesOK(db), NEW b, \A l \in b : -l \notin b, Models(b, LiveClauses),
         NEW c \in SUBSET b
  PROVE  /\ WithUnits(c) \subseteq b
         /\ \A d \in LiveClauses : OpenUnder(c, d) # {}
<1>1. ASSUME NEW d \in LiveClauses
      PROVE  \E p \in b : p \in OpenUnder(c, d)
  <2>1. PICK p : p \in b /\ p \in d
    BY DEF Models
  <2> QED
    BY <2>1 DEF OpenUnder
<1>2. ASSUME NEW d \in LiveClauses, Cardinality(OpenUnder(c, d)) = 1
      PROVE  OpenUnder(c, d) \subseteq b
  <2>1. PICK cr \in db.live : d = db.lits[cr]
    BY DEF LiveClauses
  <2>2. d \in SUBSET Lits
    BY <2>1, LiveFacts
  <2>3. OpenUnder(c, d) \in SUBSET Lits
    BY <2>2 DEF OpenUnder
  <2>4. \E q : OpenUnder(c, d) = {q}
    BY <1>2, <2>3, ClauseIsFinite, FS_Singleton
  <2> QED
    BY <1>1, <2>4
<1> QED
  BY <1>1, <1>2 DEF WithUnits

LEMMA RefutedFacts ==
  ASSUME ClausesOK(db), NEW b, \A l \in b : -l \notin b, Models(b, LiveClauses),
         Assigned \subseteq b, NEW a \in SUBSET b
  PROVE  ~Refuted(a)
<1> DEFINE n == MaxVar
           x0 == Assigned \cup a
           X == SUBSET b
           step == [p \in (1..n) \X X |-> WithUnits(p[2])]
<1>1. n \in Nat /\ x0 \in X
  BY VarsAssumption
<1>2. step \in [(1..n) \X X -> X]
  <2>1. \A p \in (1..n) \X X : p[2] \in X
    OBVIOUS
  <2>2. \A x \in X : WithUnits(x) \in X
    BY WithUnitsFacts
  <2> QED
    BY <2>1, <2>2
<1>3. PICK f \in [0..n -> X] :
        f[0] = x0 /\ \A i \in 1..n : f[i] = step[<<i, f[i - 1]>>]
  <2> HIDE DEF x0, step, X, n
  <2>1. \E f \in [0..n -> X] : Follows(f, n, x0, step)
    BY <1>1, <1>2, Recursion
  <2> QED
    BY <2>1 DEF Follows
<1>4. f = [i \in 0..n |-> IF i = 0 THEN x0 ELSE WithUnits(f[i - 1])]
  <2>1. ASSUME NEW i \in 0..n
        PROVE  f[i] = IF i = 0 THEN x0 ELSE WithUnits(f[i - 1])
    <3>1. CASE i = 0
      BY <1>3, <3>1
    <3>2. CASE i # 0
      <4>1. i \in 1..n /\ i - 1 \in 0..n
        BY <1>1, <3>2
      <4>2. <<i, f[i - 1]>> \in (1..n) \X X
        BY <1>3, <4>1
      <4>3. step[<<i, f[i - 1]>>] = WithUnits(f[i - 1])
        BY <4>2
      <4>4. f[i] = step[<<i, f[i - 1]>>]
        <5> HIDE DEF step, x0, X
        <5> QED
          BY <1>3, <4>1
      <4> QED
        BY <3>2, <4>3, <4>4
    <3> QED
      BY <3>1, <3>2
  <2>2. f = [i \in 0..n |-> f[i]]
    BY <1>3
  <2> QED
    BY <2>1, <2>2
<1>5. PICK F : F = CHOOSE g : g = [i \in 0..n |-> IF i = 0 THEN x0 ELSE WithUnits(g[i - 1])]
  OBVIOUS
<1>6. F = [i \in 0..n |-> IF i = 0 THEN x0 ELSE WithUnits(F[i - 1])]
  BY <1>4, <1>5
<1>7. F[n] \in X
  <2>1. F[0] = x0
    BY <1>1, <1>6
  <2>3. ASSUME NEW i \in 1..n PROVE F[i] = WithUnits(F[i - 1])
    <3>1. i \in 0..n /\ i # 0
      OBVIOUS
    <3> HIDE DEF x0
    <3> QED
      BY <1>6, <3>1
  <2>2. \A i \in 1..n : F[i - 1] \in X => F[i] \in X
    BY <2>3, WithUnitsFacts
  <2> HIDE DEF x0, X, n
  <2> QED
    BY <1>1, <2>1, <2>2, ValuesOfRecursion
<1>8. Refuted(a) = \E c \in LiveClauses : OpenUnder(F[n], c) = {}
  BY <1>5 DEF Refuted
<1> QED
  BY <1>7, <1>8, WithUnitsFacts

(* The queue after gatherTouchedClauses: nothing but clauses is added.     *)
LEMMA GatheredFacts ==
  ASSUME NEW d, ClausesOK(d), IndexOK(d), NEW e, e = Gathered(d)
  PROVE  /\ ClausesOK(e) /\ IndexOK(e) /\ Alike(d, e)
         /\ TmpUnit \in ToSet(e.queue) => TmpUnit \in ToSet(d.queue)
<1>1. d \in Databases /\ MaxVar \in Nat
  BY VarsAssumption DEF ClausesOK
<1> DEFINE occ == [v \in Vars |-> IF v \in d.touched \cap d.dirty
                                  THEN d.occurs[v] \cap d.live ELSE d.occurs[v]]
<1>2. /\ occ \in [Vars -> SUBSET Nat]
      /\ \A v \in Vars : occ[v] = IF v \in d.touched \cap d.dirty
                                  THEN d.occurs[v] \cap d.live ELSE d.occurs[v]
  BY <1>1 DEF Databases
<1> HIDE DEF occ
<1>3. ASSUME NEW v \in Vars
      PROVE  /\ occ[v] \subseteq 1..Len(d.lits)
             /\ occ[v] \in SUBSET Nat /\ IsFiniteSet(occ[v])
  <2>1. occ[v] \subseteq 1..Len(d.lits)
    BY <1>2 DEF ClausesOK
  <2>2. PICK k \in Nat : k = Len(d.lits)
    BY <1>1 DEF Databases
  <2>3. IsFiniteSet(1..k)
    BY FS_Interval
  <2>4. IsFiniteSet(occ[v])
    BY <2>1, <2>2, <2>3, FS_Subset
  <2> QED
    BY <2>1, <2>4
<1> DEFINE n == MaxVar
           Q == {q \in Seq(Nat) : /\ ToSet(q) \subseteq 0..Len(d.lits)
                                  /\ TmpUnit \in ToSet(q) => TmpUnit \in ToSet(d.queue)}
           More(v, q) == IF v \notin d.touched THEN q
                         ELSE q \o Ascending(occ[v] \ ToSet(q))
           step == [p \in (1..n) \X Q |-> More(p[1], p[2])]
<1>4. d.queue \in Q
  BY <1>1 DEF ClausesOK, Databases
<1>5. ASSUME NEW v \in 1..n, NEW q \in Q PROVE More(v, q) \in Q
  <2>1. PICK S : S = occ[v] \ ToSet(q)
    OBVIOUS
  <2>2. S \in SUBSET Nat /\ S \subseteq 1..Len(d.lits) /\ IsFiniteSet(S)
    BY <1>3, <2>1, FS_Subset DEF Vars
  <2>3. PICK s : s = Ascending(S)
    OBVIOUS
  <2>4. s \in Seq(S)
    BY <2>2, <2>3, AscendingFacts
  <2>10. s \in Seq(Nat)
    <3>1. \A x \in S : x \in Nat
      BY <2>2
    <3> QED
      BY <2>4, <3>1
  <2>5. ToSet(s) \subseteq S
    BY <2>4, ToSetFacts
  <2>6. q \o s \in Seq(Nat) /\ ToSet(q \o s) = ToSet(q) \cup ToSet(s)
    BY <2>10, ToSetFacts
  <2>7. TmpUnit \notin S
    BY <2>2 DEF TmpUnit
  <2>8. S \subseteq 0..Len(d.lits)
    BY <2>2
  <2>9. q \o s \in Q
    BY <2>5, <2>6, <2>7, <2>8
  <2> QED
    BY <2>1, <2>3, <2>9
<1>6. step \in [(1..n) \X Q -> Q]
  <2>1. \A p \in (1..n) \X Q : p[1] \in 1..n /\ p[2] \in Q
    OBVIOUS
  <2> HIDE DEF More, Q
  <2> QED
    BY <1>5, <2>1
<1>7. PICK f \in [0..n -> Q] :
        f[0] = d.queue /\ \A i \in 1..n : f[i] = step[<<i, f[i - 1]>>]
  <2>1. n \in Nat
    BY <1>1
  <2> HIDE DEF step, Q, n
  <2>2. \E f \in [0..n -> Q] : Follows(f, n, d.queue, step)
    BY <1>4, <1>6, <2>1, Recursion
  <2> QED
    BY <2>2 DEF Follows
<1>8. f = [i \in 0..n |-> IF i = 0 THEN d.queue ELSE More(i, f[i - 1])]
  <2>1. ASSUME NEW i \in 0..n
        PROVE  f[i] = IF i = 0 THEN d.queue ELSE More(i, f[i - 1])
    <3> HIDE DEF More, Q
    <3>1. CASE i = 0
      BY <1>7, <3>1
    <3>2. CASE i # 0
      <4>1. i \in 1..n /\ i - 1 \in 0..n
        BY <1>1, <3>2
      <4>2. <<i, f[i - 1]>> \in (1..n) \X Q
        BY <1>7, <4>1
      <4>3. step[<<i, f[i - 1]>>] = More(i, f[i - 1])
        BY <4>2
      <4>4. f[i] = step[<<i, f[i - 1]>>]
        <5> HIDE DEF step
        <5> QED
          BY <1>7, <4>1
      <4> QED
        BY <3>2, <4>3, <4>4
    <3> QED
      BY <3>1, <3>2
  <2>2. f = [i \in 0..n |-> f[i]]
    BY <1>7
  <2> HIDE DEF More
  <2> QED
    BY <2>1, <2>2
<1>9. PICK F : F = CHOOSE g : g = [i \in 0..n |-> IF i = 0 THEN d.queue ELSE More(i, g[i - 1])]
  OBVIOUS
<1>10. F = [i \in 0..n |-> IF i = 0 THEN d.queue ELSE More(i, F[i - 1])]
  BY <1>8, <1>9
<1>11. F[n] \in Q
  <2> HIDE DEF More, Q
  <2>1. F[0] = d.queue /\ \A i \in 1..n : F[i] = More(i, F[i - 1])
    BY <1>1, <1>10
  <2>2. \A i \in 1..n : F[i - 1] \in Q => F[i] \in Q
    BY <1>5, <2>1
  <2> HIDE DEF n
  <2> QED
    BY <1>1, <1>4, <2>1, <2>2, ValuesOfRecursion DEF n
<1>12. PICK q \in Q : q = F[n]
  BY <1>11
<1>13. e = [d EXCEPT !.occurs = occ, !.dirty = @ \ d.touched, !.touched = {}, !.queue = q]
  <2>1. e = [d EXCEPT !.occurs = occ, !.dirty = @ \ d.touched, !.touched = {},
                      !.queue = F[MaxVar]]
    BY <1>9 DEF Gathered, occ
  <2> HIDE DEF Q
  <2> QED
    BY <1>12, <2>1
<1>14. /\ e \in Databases /\ Alike(d, e) /\ e.queue = q /\ e.occurs = occ
       /\ e.dirty = d.dirty \ d.touched /\ e.nocc = d.nocc
  <2>1. q \in Seq(Nat)
    OBVIOUS
  <2> HIDE DEF Q
  <2>2. PICK y \in SUBSET Vars : y = d.dirty \ d.touched
    BY <1>1 DEF Databases
  <2>3. e = [d EXCEPT !.occurs = occ, !.dirty = y, !.touched = {}, !.queue = q]
    BY <1>13, <2>2
  <2> QED
    BY <1>1, <1>2, <2>1, <2>2, <2>3 DEF Databases, Alike
<1>15. ClausesOK(e)
  BY <1>3, <1>14 DEF ClausesOK, Alike
<1>16. IndexOK(e)
  <2>1. \A v \in Vars : WithVar(e, v) = WithVar(d, v)
    BY <1>14 DEF WithVar, Alike
  <2>2. \A l \in Lits : WithLit(e, l) = WithLit(d, l)
    BY <1>14 DEF WithLit, Alike
  <2>3. \A v \in Vars : e.occurs[v] \cap e.live = WithVar(e, v)
    BY <1>2, <1>14, <2>1 DEF IndexOK, Alike
  <2>4. \A v \in Vars : v \notin e.dirty => e.occurs[v] \subseteq e.live
    BY <1>2, <1>14 DEF IndexOK, Alike
  <2>5. \A l \in Lits : e.nocc[l] = Cardinality(WithLit(e, l))
    BY <1>14, <2>2 DEF IndexOK
  <2> QED
    BY <2>3, <2>4, <2>5 DEF IndexOK
<1> QED
  BY <1>14, <1>15, <1>16

(* The variables of a clause that is read are known afterwards.            *)
LEMMA NewVarsFacts ==
  ASSUME NEW d, ClausesOK(d), IndexOK(d), NEW c \in SUBSET Lits, NEW e, e = NewVars(d, c)
  PROVE  /\ ClausesOK(e) /\ IndexOK(e)
         /\ e.lits = d.lits /\ e.live = d.live /\ e.eliminated = d.eliminated
         /\ e.queue = d.queue /\ e.nvars \in Nat
         /\ d.nvars <= e.nvars /\ VarsOf(c) \subseteq 1..e.nvars
<1>1. d \in Databases /\ d.nvars \in 0..MaxVar /\ MaxVar \in Nat
  BY VarsAssumption DEF ClausesOK, Databases
<1>2. PICK S \in SUBSET (0..MaxVar) : S = VarsOf(c) \cup {d.nvars} /\ S # {}
  <2>1. VarsOf(c) \subseteq 1..MaxVar
    BY VarsOfIs DEF Vars
  <2>2. VarsOf(c) \cup {d.nvars} \subseteq 0..MaxVar
    BY <1>1, <2>1
  <2> QED
    BY <2>2
<1>3. PICK n \in 0..MaxVar : n = Max(S) /\ \A x \in S : x <= n
  BY <1>1, <1>2, MaxIs
<1>4. d.nvars <= n /\ VarsOf(c) \subseteq 1..n
  <2>1. VarsOf(c) \subseteq 1..MaxVar
    BY VarsOfIs DEF Vars
  <2> QED
    BY <1>2, <1>3, <2>1
<1>5. PICK h \in SUBSET Vars : h = d.heap \cup (d.nvars + 1)..n
  <2>1. (d.nvars + 1)..n \subseteq Vars
    BY <1>1 DEF Vars
  <2> QED
    BY <1>1, <2>1 DEF Databases
<1>6. e = [d EXCEPT !.nvars = n, !.heap = h]
  BY <1>2, <1>3, <1>5 DEF NewVars
<1>7. /\ e \in Databases /\ e.nvars = n /\ e.lits = d.lits /\ e.live = d.live
      /\ e.eliminated = d.eliminated /\ e.queue = d.queue /\ e.occurs = d.occurs
      /\ e.dirty = d.dirty /\ e.nocc = d.nocc
  BY <1>1, <1>6 DEF Databases
<1>8. ClausesOK(e)
  <2>1. 1..d.nvars \subseteq 1..e.nvars
    BY <1>1, <1>4, <1>7
  <2> QED
    BY <1>7, <2>1 DEF ClausesOK
<1>9. IndexOK(e)
  BY <1>7 DEF IndexOK, WithVar, WithLit
<1> QED
  BY <1>4, <1>7, <1>8, <1>9

-----------------------------------------------------------------------------
(* The types of the state, with what the steps need of them.               *)
Procedures == {"load", "loop", "subsume", "eliminate", "asymm", "variable",
               "resolve", "solve", "extend"}
Freed == pc \in {"solve", "extend"}

FormulaOK ==
  /\ formula \in Seq(SUBSET Lits) /\ options \in Options
  /\ loaded \in 0..Len(formula)
DatabaseOK ==
  /\ ClausesOK(db) /\ \A l \in Lits : db.nocc[l] \in Nat
  /\ ~Freed => IndexOK(db)
TrailOK ==
  /\ trail \in Seq(Lits) /\ ok \in BOOLEAN
  /\ \A l \in Assigned : Var(l) \in Known /\ -l \notin Assigned
(* The clause bwdsub_tmpunit is used when an assignment was taken.         *)
ScanOK ==
  /\ bwdsub \in 0..Len(trail)
  /\ scan \in [cr : Nat \cup {-1}, todo : SUBSET Nat]
  /\ scan.cr <= Len(db.lits) /\ scan.todo \subseteq 1..Len(db.lits)
  /\ (TmpUnit \in ToSet(db.queue) \/ scan.cr = TmpUnit) => bwdsub > 0
CrossOK ==
  /\ cross \in [v : 0..MaxVar, todo : Seq(Nat) \cup Seq(Nat \X Nat)]
  /\ cross = NoCross \/ cross.v \in Vars
  /\ pc \in {"asymm", "variable", "resolve"} => cross.v \in Vars
  /\ pc = "asymm" => cross.todo \in Seq(Nat)
  /\ pc = "resolve" => /\ cross.todo \in Seq(Nat \X Nat) /\ cross.v \notin db.dirty
                       /\ ToSet(cross.todo) \subseteq db.live \X db.live
RestOK ==
  /\ elimclauses \in Seq(Lits \X SUBSET Lits)
  /\ pc \in Procedures /\ model \subseteq Lits
Types == FormulaOK /\ DatabaseOK /\ TrailOK /\ ScanOK /\ CrossOK /\ RestOK

LEMMA DatabaseIs ==
  ASSUME NEW d, ClausesOK(d)
  PROVE  /\ d \in Databases /\ d.lits \in Seq(SUBSET Lits)
         /\ DOMAIN d.lits = 1..Len(d.lits) /\ Len(d.lits) \in Nat
         /\ d.nvars \in 0..MaxVar /\ d.queue \in Seq(Nat)
BY DEF ClausesOK, Databases

LEMMA TypesExact == Types => IndexesExact
<1> SUFFICES ASSUME Types PROVE IndexesExact
  OBVIOUS
<1>1. /\ ClausesOK(db) /\ db \in Databases /\ db.lits \in Seq(SUBSET Lits)
      /\ DOMAIN db.lits = 1..Len(db.lits) /\ Len(db.lits) \in Nat
  BY DatabaseIs DEF Types, DatabaseOK
<1>2. TypeOK
  <2>1. \A cr \in DOMAIN db.lits : db.lits[cr] \subseteq Lits
    BY <1>1
  <2>2. db.live \subseteq DOMAIN db.lits /\ \A v \in Vars : db.occurs[v] \subseteq DOMAIN db.lits
    BY <1>1 DEF ClausesOK
  <2>3. ToSet(db.queue) \subseteq DOMAIN db.lits \cup {TmpUnit}
    <3>1. 0..Len(db.lits) = (1..Len(db.lits)) \cup {0}
      BY <1>1
    <3> QED
      BY <1>1, <3>1 DEF ClausesOK, TmpUnit
  <2>4. db.dirty \cup db.touched \cup db.heap \cup db.eliminated \subseteq Vars
    BY <1>1 DEF Databases
  <2>5. Assigned \subseteq Lits
    BY ToSetFacts DEF Types, TrailOK, Assigned
  <2>6. scan.cr \in -1..Len(db.lits) /\ scan.todo \subseteq DOMAIN db.lits
    BY <1>1 DEF Types, ScanOK
  <2> QED
    BY <2>1, <2>2, <2>3, <2>4, <2>5, <2>6
    DEF Types, FormulaOK, DatabaseOK, TrailOK, ScanOK, RestOK, Procedures, TypeOK
<1>3. ASSUME pc \notin {"solve", "extend"}, NEW v \in Vars
      PROVE  LET with == {cr \in db.live : v \in VarsOf(db.lits[cr])} IN
             /\ db.occurs[v] \cap db.live = with
             /\ v \notin db.dirty => db.occurs[v] = with
  <2>1. IndexOK(db)
    BY <1>3 DEF Types, DatabaseOK, Freed
  <2> QED
    BY <2>1 DEF IndexOK, WithVar
<1>4. ASSUME pc \notin {"solve", "extend"}, NEW l \in Lits
      PROVE  db.nocc[l] = Cardinality({cr \in db.live : l \in db.lits[cr]})
  <2>1. IndexOK(db)
    BY <1>4 DEF Types, DatabaseOK, Freed
  <2> QED
    BY <2>1 DEF IndexOK, WithLit
<1> QED
  BY <1>2, <1>3, <1>4 DEF IndexesExact

LEMMA InitTypes == Init => Types
<1> SUFFICES ASSUME Init PROVE Types
  OBVIOUS
<1>1. FormulaOK
  BY FormulasAssumption DEF Init, FormulaOK
<1>2. DatabaseOK
  <2>1. EmptyDatabase \in Databases
    BY VarsAssumption DEF EmptyDatabase, Databases
  <2>2. ClausesOK(EmptyDatabase)
    BY <2>1, VarsAssumption DEF ClausesOK, EmptyDatabase, ToSet
  <2>3. IndexOK(EmptyDatabase)
    <3>1. \A v : WithVar(EmptyDatabase, v) = {}
      BY DEF WithVar, EmptyDatabase
    <3>2. \A l : WithLit(EmptyDatabase, l) = {}
      BY DEF WithLit, EmptyDatabase
    <3>3. \A v \in Vars : EmptyDatabase.occurs[v] = {}
      BY DEF EmptyDatabase
    <3>4. \A l \in Lits : EmptyDatabase.nocc[l] = 0
      BY DEF EmptyDatabase
    <3> QED
      BY <3>1, <3>2, <3>3, <3>4, FS_EmptySet DEF IndexOK
  <2>4. \A l \in Lits : EmptyDatabase.nocc[l] \in Nat
    BY DEF EmptyDatabase
  <2> QED
    BY <2>2, <2>3, <2>4 DEF Init, DatabaseOK
<1>3. TrailOK
  BY DEF Init, TrailOK, Assigned, ToSet
<1>4. ScanOK
  BY VarsAssumption DEF Init, ScanOK, NoScan, EmptyDatabase, TmpUnit, ToSet
<1>5. CrossOK
  BY VarsAssumption DEF Init, CrossOK, NoCross
<1>6. RestOK
  BY DEF Init, RestOK, Procedures
<1> QED
  BY <1>1, <1>2, <1>3, <1>4, <1>5, <1>6 DEF Types

(* An assignment is added to the trail.                                    *)
LEMMA EnqueueFacts ==
  ASSUME trail \in Seq(Lits), NEW l \in Lits, trail' = Append(trail, l)
  PROVE  /\ trail' \in Seq(Lits) /\ Len(trail') = Len(trail) + 1
         /\ Assigned' = Assigned \cup {l}
         /\ \A i \in 1..Len(trail) : trail'[i] = trail[i]
BY ToSetFacts DEF Assigned

(* What the steps that do not touch them leave right.                      *)
LEMMA TrailKept ==
  ASSUME TrailOK, UNCHANGED <<trail, ok>>, Known \subseteq Known'
  PROVE  TrailOK' /\ Len(trail) \in Nat /\ Len(trail') = Len(trail)
BY DEF TrailOK, Assigned

LEMMA TrailGrows ==
  ASSUME TrailOK, UNCHANGED ok, Known \subseteq Known',
         NEW l \in Lits, l \notin Assigned, -l \notin Assigned, Var(l) \in Known',
         trail' = Append(trail, l)
  PROVE  TrailOK' /\ Len(trail) \in Nat /\ Len(trail) <= Len(trail')
<1>1. /\ trail' \in Seq(Lits) /\ Len(trail') = Len(trail) + 1 /\ Len(trail) \in Nat
      /\ Assigned' = Assigned \cup {l}
  BY EnqueueFacts DEF TrailOK
<1>2. ASSUME NEW k \in Assigned' PROVE Var(k) \in Known' /\ -k \notin Assigned'
  <2>1. CASE k = l
    BY <1>1, <2>1, LitFacts
  <2>2. CASE k \in Assigned
    <3>1. Var(k) \in Known' /\ -k \notin Assigned
      BY <2>2 DEF TrailOK
    <3>2. k \in Lits
      BY <2>2, ToSetFacts DEF TrailOK, Assigned
    <3>3. -k # l
      BY <2>2, <3>2, LitFacts
    <3> QED
      BY <1>1, <3>1, <3>3
  <2> QED
    BY <1>1, <2>1, <2>2
<1> QED
  BY <1>1, <1>2 DEF TrailOK

LEMMA ScanKept ==
  ASSUME ScanOK, UNCHANGED bwdsub, Len(trail) \in Nat, Len(trail') \in Nat,
         Len(trail) <= Len(trail'), Len(db.lits) \in Nat, Len(db.lits') \in Nat,
         Len(db.lits) <= Len(db.lits'),
         scan' \in [cr : Nat \cup {-1}, todo : SUBSET Nat],
         scan'.cr = scan.cr \/ scan'.cr = -1, scan'.todo \subseteq scan.todo,
         TmpUnit \in ToSet(db.queue)' => TmpUnit \in ToSet(db.queue) \/ bwdsub > 0
  PROVE  ScanOK'
<1>1. scan'.cr <= Len(db.lits')
  BY DEF ScanOK
<1>2. scan'.todo \subseteq 1..Len(db.lits')
  BY DEF ScanOK
<1>3. bwdsub' \in 0..Len(trail')
  BY DEF ScanOK
<1> QED
  BY <1>1, <1>2, <1>3 DEF ScanOK, TmpUnit

(* What becomes of a clause that is added.                                 *)
Dropped(d, c) ==
  /\ \/ Satisfied(c) \/ Tautology(c)
     \/ "rcheck" \in options /\ Refutes(Open(c))
  /\ db' = d /\ UNCHANGED <<trail, ok>>
Contradicts(d, c) ==
  /\ Open(c) = {} /\ ok' = FALSE
  /\ db' = d /\ UNCHANGED trail
Enqueued(d, c, l) ==
  /\ Open(c) = {l} /\ trail' = Append(trail, l)
  /\ ~Satisfied(c)
  /\ db' = d /\ UNCHANGED ok
Kept(d, c) ==
  /\ db' = Added(d, Open(c)) /\ UNCHANGED <<trail, ok>>
  /\ ~Tautology(c) /\ Cardinality(Open(c)) > 1

LEMMA AddClauseCases ==
  ASSUME NEW d, NEW c \in SUBSET Lits, AddClause(d, c)
  PROVE  Dropped(d, c) \/ Contradicts(d, c) \/ (\E l \in c : Enqueued(d, c, l)) \/ Kept(d, c)
<1>1. CASE Satisfied(c) \/ Tautology(c)
  BY <1>1 DEF AddClause, Dropped
<1>2. CASE ~(Satisfied(c) \/ Tautology(c)) /\ Open(c) = {}
  BY <1>2 DEF AddClause, Contradicts
<1>3. CASE ~(Satisfied(c) \/ Tautology(c)) /\ Open(c) # {}
  <2>1. Open(c) \in SUBSET Lits /\ Open(c) \subseteq c
    BY DEF Open
  <2>2. IsFiniteSet(Open(c)) /\ Cardinality(Open(c)) \in Nat /\ Cardinality(Open(c)) # 0
    BY <1>3, <2>1, ClauseIsFinite, FS_EmptySet
  <2>3. CASE Cardinality(Open(c)) = 1
    <3>1. PICK l : Open(c) = {l}
      BY <2>2, <2>3, FS_Singleton
    <3>2. db' = d /\ UNCHANGED ok /\ \E k \in Open(c) : trail' = Append(trail, k)
      BY <1>3, <2>3 DEF AddClause
    <3>3. l \in c /\ trail' = Append(trail, l)
      BY <2>1, <3>1, <3>2
    <3> QED
      BY <1>3, <3>1, <3>2, <3>3 DEF Enqueued
  <2>4. CASE Cardinality(Open(c)) # 1
    <3>1. Cardinality(Open(c)) > 1
      BY <2>2, <2>4
    <3>2. /\ db' = IF "rcheck" \in options /\ Refutes(Open(c)) THEN d ELSE Added(d, Open(c))
          /\ UNCHANGED <<trail, ok>>
      BY <1>3, <2>4 DEF AddClause
    <3> QED
      BY <1>3, <3>1, <3>2 DEF Dropped, Kept
  <2> QED
    BY <2>3, <2>4
<1> QED
  BY <1>1, <1>2, <1>3

LEMMA AddClauseTypes ==
  ASSUME TrailOK, NEW d, ClausesOK(d), IndexOK(d), NEW c \in SUBSET Lits,
         VarsOf(c) \subseteq 1..d.nvars, Known \subseteq 1..d.nvars, AddClause(d, c)
  PROVE  /\ ClausesOK(db') /\ IndexOK(db') /\ db'.nvars = d.nvars
         /\ db'.eliminated = d.eliminated /\ Len(d.lits) <= Len(db'.lits)
         /\ TmpUnit \in ToSet(db'.queue) => TmpUnit \in ToSet(d.queue)
         /\ \A cr \in d.live : cr \in db'.live /\ db'.lits[cr] = d.lits[cr]
         /\ db'.dirty = d.dirty
         /\ TrailOK' /\ Len(trail) \in Nat /\ Len(trail') \in Nat
         /\ Len(trail) <= Len(trail')
<1>1. Len(d.lits) \in Nat /\ Len(trail) \in Nat
  BY DatabaseIs DEF TrailOK
<1>2. CASE db' = d
  <2>1. /\ ClausesOK(db') /\ IndexOK(db') /\ db'.nvars = d.nvars
        /\ db'.eliminated = d.eliminated /\ Len(d.lits) <= Len(db'.lits)
        /\ TmpUnit \in ToSet(db'.queue) => TmpUnit \in ToSet(d.queue)
        /\ \A cr \in d.live : cr \in db'.live /\ db'.lits[cr] = d.lits[cr]
        /\ db'.dirty = d.dirty
    BY <1>1, <1>2
  <2>2. Known \subseteq Known' /\ Known' = 1..d.nvars
    BY <1>2 DEF Known
  <2>3. CASE Dropped(d, c)
    BY <1>1, <2>1, <2>2, <2>3, TrailKept DEF Dropped
  <2>4. CASE Contradicts(d, c)
    <3>1. TrailOK'
      BY <2>2, <2>4 DEF Contradicts, TrailOK, Assigned
    <3> QED
      BY <1>1, <2>1, <2>4, <3>1 DEF Contradicts
  <2>5. ASSUME NEW l \in c, Enqueued(d, c, l)
        PROVE  TrailOK' /\ Len(trail) <= Len(trail') /\ Len(trail') \in Nat
    <3>1. l \in Lits /\ l \in Open(c) /\ -l \notin Assigned /\ l \notin Assigned
      BY <2>5 DEF Enqueued, Open, IsFalse, IsTrue, Satisfied
    <3>2. Var(l) \in Known'
      BY <2>2, VarsOfIs
    <3>3. trail' = Append(trail, l) /\ UNCHANGED ok
      BY <2>5 DEF Enqueued
    <3>4. TrailOK' /\ Len(trail) <= Len(trail')
      BY <2>2, <3>1, <3>2, <3>3, TrailGrows
    <3> QED
      BY <3>4 DEF TrailOK
  <2>6. CASE Kept(d, c)
    BY <1>1, <2>1, <2>2, <2>6, TrailKept DEF Kept
  <2> QED
    BY <1>1, <2>1, <2>3, <2>4, <2>5, <2>6, AddClauseCases
<1>3. CASE Kept(d, c)
  <2>1. Open(c) \in SUBSET Lits /\ VarsOf(Open(c)) \subseteq VarsOf(c)
        /\ ~Tautology(Open(c)) /\ Cardinality(Open(c)) > 1
    BY <1>3 DEF Kept, Open, VarsOf, Tautology
  <2>2. /\ ClausesOK(db') /\ IndexOK(db') /\ db'.nvars = d.nvars
        /\ db'.eliminated = d.eliminated /\ db'.dirty = d.dirty
        /\ db'.live = d.live \cup {Len(d.lits) + 1} /\ Len(db'.lits) = Len(d.lits) + 1
        /\ \A cr \in d.live : db'.lits[cr] = d.lits[cr]
        /\ ToSet(db'.queue) = ToSet(d.queue) \cup {Len(d.lits) + 1}
    <3>1. db' = Added(d, Open(c)) /\ VarsOf(Open(c)) \subseteq 1..d.nvars
      BY <1>3, <2>1 DEF Kept
    <3>2. WithClause(d, Open(c), db')
      BY <2>1, <3>1, AddedFacts
    <3> QED
      BY <3>2 DEF WithClause
  <2>3. Known \subseteq Known'
    BY <2>2 DEF Known
  <2>4. TrailOK' /\ Len(trail') = Len(trail)
    BY <1>3, <2>3, TrailKept DEF Kept
  <2>5. TmpUnit \in ToSet(db'.queue) => TmpUnit \in ToSet(d.queue)
    BY <1>1, <2>2 DEF TmpUnit
  <2> QED
    BY <1>1, <2>2, <2>4, <2>5
<1> QED
  BY <1>2, <1>3, AddClauseCases DEF Dropped, Contradicts, Enqueued


(* strengthenClause: what is left is kept, or is a literal to assign.      *)
StaysLong(cr) ==
  Cardinality(db.lits[cr]) > 2 /\ UNCHANGED <<trail, ok>>
LeftTrue(cr, l, p) ==
  db.lits[cr] \ {l} = {p} /\ p \in Assigned /\ UNCHANGED <<trail, ok>>
LeftFalse(cr, l, p) ==
  db.lits[cr] \ {l} = {p} /\ -p \in Assigned /\ ok' = FALSE /\ UNCHANGED trail
LeftOpen(cr, l, p) ==
  /\ db.lits[cr] \ {l} = {p} /\ p \notin Assigned /\ -p \notin Assigned
  /\ trail' = Append(trail, p) /\ UNCHANGED ok

LEMMA StrengthenCases ==
  ASSUME ClausesOK(db), NEW cr \in db.live, NEW l \in db.lits[cr], StrengthenClause(cr, l)
  PROVE  /\ db' = Strengthened(db, cr, l)
         /\ \/ StaysLong(cr)
            \/ /\ Cardinality(db.lits[cr]) = 2
               /\ \E p \in db.lits[cr] :
                    LeftTrue(cr, l, p) \/ LeftFalse(cr, l, p) \/ LeftOpen(cr, l, p)
<1>1. PICK c \in SUBSET Lits : c = db.lits[cr] /\ Cardinality(c) > 1
  BY LiveFacts
<1>2. PICK left \in SUBSET Lits : left = c \ {l}
  OBVIOUS
<1>3. left # {} /\ Cardinality(left) = Cardinality(c) - 1 /\ Cardinality(c) \in Nat
      /\ (Cardinality(left) = 1 => \E p : left = {p})
  <2>1. Cardinality(c) \in Nat
    BY ClauseIsFinite
  <2>2. l \in c
    BY <1>1
  <2>3. /\ c \ {l} # {} /\ Cardinality(c \ {l}) = Cardinality(c) - 1
        /\ Cardinality(c \ {l}) = 1 => \E p : c \ {l} = {p}
    BY <1>1, <2>2, WithoutOne
  <2> QED
    BY <1>2, <2>1, <2>3, Zenon
<1>4. /\ db' = Strengthened(db, cr, l)
      /\ IF Cardinality(left) > 1 \/ Satisfied(left)
         THEN UNCHANGED <<trail, ok>>
         ELSE IF Open(left) = {}
         THEN ok' = FALSE /\ UNCHANGED trail
         ELSE /\ \E p \in left : trail' = Append(trail, p)
              /\ UNCHANGED ok
  BY <1>1, <1>2 DEF StrengthenClause
<1>5. CASE Cardinality(c) > 2
  <2>1. Cardinality(left) > 1
    BY <1>3, <1>5
  <2> QED
    BY <1>1, <1>4, <1>5, <2>1 DEF StaysLong
<1>6. CASE Cardinality(c) = 2
  <2>1. Cardinality(left) = 1
    BY <1>3, <1>6
  <2>2. PICK p \in c : left = {p}
    BY <1>2, <1>3, <2>1
  <2>3. CASE p \in Assigned
    <3>1. Satisfied(left)
      BY <2>2, <2>3 DEF Satisfied, IsTrue
    <3> QED
      BY <1>1, <1>2, <1>4, <1>6, <2>2, <2>3, <3>1 DEF LeftTrue
  <2>4. CASE p \notin Assigned
    <3>1. ~Satisfied(left) /\ ~(Cardinality(left) > 1)
      BY <2>1, <2>2, <2>4 DEF Satisfied, IsTrue
    <3>2. CASE -p \in Assigned
      <4>1. Open(left) = {}
        BY <2>2, <3>2 DEF Open, IsFalse
      <4> QED
        BY <1>1, <1>2, <1>4, <1>6, <2>2, <3>1, <3>2, <4>1 DEF LeftFalse
    <3>3. CASE -p \notin Assigned
      <4>1. Open(left) # {}
        BY <2>2, <3>3 DEF Open, IsFalse
      <4> QED
        BY <1>1, <1>2, <1>4, <1>6, <2>2, <2>4, <3>1, <3>3, <4>1 DEF LeftOpen
    <3> QED
      BY <3>2, <3>3
  <2> QED
    BY <2>3, <2>4
<1> QED
  BY <1>1, <1>3, <1>4, <1>5, <1>6

LEMMA StrengthenTypes ==
  ASSUME TrailOK, ClausesOK(db), IndexOK(db), NEW cr \in db.live, NEW l \in db.lits[cr],
         cr \in Nat \ {0}, StrengthenClause(cr, l)
  PROVE  /\ ClausesOK(db') /\ IndexOK(db') /\ db'.nvars = db.nvars
         /\ db'.eliminated = db.eliminated /\ Len(db'.lits) = Len(db.lits)
         /\ TmpUnit \in ToSet(db'.queue) => TmpUnit \in ToSet(db.queue)
         /\ TrailOK' /\ Len(trail) \in Nat /\ Len(trail') \in Nat
         /\ Len(trail) <= Len(trail')
<1>1. WithoutLiteral(db, cr, l, db')
  BY StrengthenCases, StrengthenedFacts
<1>2. /\ ClausesOK(db') /\ IndexOK(db') /\ db'.nvars = db.nvars
      /\ db'.eliminated = db.eliminated /\ Len(db'.lits) = Len(db.lits)
      /\ ToSet(db'.queue) = ToSet(db.queue) \cup {cr}
  BY <1>1 DEF WithoutLiteral
<1>3. Known' = Known /\ Len(trail) \in Nat
  BY <1>1, <1>2 DEF Known, TrailOK
<1>4. TrailOK' /\ Len(trail) <= Len(trail')
  <2>1. CASE UNCHANGED <<trail, ok>>
    BY <1>3, <2>1, TrailKept
  <2>2. CASE ok' = FALSE /\ UNCHANGED trail
    <3>1. Assigned' = Assigned /\ Len(trail) <= Len(trail')
      BY <1>3, <2>2 DEF Assigned
    <3> QED
      BY <1>3, <2>2, <3>1 DEF TrailOK
  <2>3. ASSUME NEW p \in db.lits[cr], LeftOpen(cr, l, p)
        PROVE  TrailOK' /\ Len(trail) <= Len(trail')
    <3>1. p \in Lits /\ Var(p) \in Known'
      BY <1>3, LiveFacts, VarsOfIs DEF Known
    <3>2. p \notin Assigned /\ -p \notin Assigned /\ trail' = Append(trail, p) /\ UNCHANGED ok
      BY <2>3 DEF LeftOpen
    <3>3. Known \subseteq Known'
      BY <1>3
    <3> QED
      BY <3>1, <3>2, <3>3, TrailGrows
  <2> QED
    BY <2>1, <2>2, <2>3, StrengthenCases DEF StaysLong, LeftTrue, LeftFalse
<1> QED
  BY <1>1, <1>2, <1>3, <1>4 DEF TmpUnit, TrailOK

(* The parts of the invariant, when a step leaves their variables alone.   *)
LEMMA FormulaKept == FormulaOK /\ UNCHANGED <<input, loaded>> => FormulaOK'
BY DEF FormulaOK, input

LEMMA DatabaseKept ==
  DatabaseOK /\ UNCHANGED db /\ (Freed' <=> Freed) => DatabaseOK' /\ Known' = Known
BY DEF DatabaseOK, Known

LEMMA DatabaseGiven == ClausesOK(db') /\ IndexOK(db') => DatabaseOK'
<1> SUFFICES ASSUME ClausesOK(db'), IndexOK(db') PROVE DatabaseOK'
  OBVIOUS
<1>1. \A l \in Lits : db'.nocc[l] \in Nat
  BY LiveIsFinite DEF IndexOK
<1> QED
  BY <1>1 DEF DatabaseOK

LEMMA CrossKept ==
  ASSUME CrossOK, UNCHANGED cross,
         pc' = pc \/ pc' \notin {"asymm", "variable", "resolve"},
         pc' = "resolve" => db.live \subseteq db'.live /\ db'.dirty = db.dirty
  PROVE  CrossOK'
BY DEF CrossOK

LEMMA RestKept ==
  RestOK /\ UNCHANGED <<elimclauses, model>> /\ pc' \in Procedures => RestOK'
BY DEF RestOK

LEMMA IndexOf ==
  ASSUME Types, ~Freed
  PROVE  ClausesOK(db) /\ IndexOK(db) /\ Len(db.lits) \in Nat
BY DatabaseIs DEF Types, DatabaseOK

LEMMA PropagateTypes == Types /\ Propagate => Types'
<1> SUFFICES ASSUME Types, Propagate PROVE Types'
  OBVIOUS
<1>1. FormulaOK' /\ DatabaseOK' /\ Known' = Known /\ CrossOK' /\ RestOK'
  BY FormulaKept, DatabaseKept, CrossKept, RestKept
  DEF Types, Propagate, RestOK, Freed
<1>2. Len(db.lits) \in Nat /\ db' = db
  BY DatabaseIs DEF Types, DatabaseOK, Propagate
<1>3. TrailOK' /\ Len(trail) \in Nat /\ Len(trail') \in Nat /\ Len(trail) <= Len(trail')
  <2>1. PICK cr \in Pending :
          \/ ok' = FALSE /\ UNCHANGED trail
          \/ \E l \in Open(db.lits[cr]) : trail' = Append(trail, l) /\ UNCHANGED ok
    BY DEF Propagate
  <2>2. Len(trail) \in Nat
    BY DEF Types, TrailOK
  <2>3. CASE ok' = FALSE /\ UNCHANGED trail
    <3>1. Assigned' = Assigned /\ Len(trail) <= Len(trail')
      BY <2>2, <2>3 DEF Assigned
    <3> QED
      BY <1>1, <2>2, <2>3, <3>1 DEF Types, TrailOK
  <2>4. ASSUME NEW l \in Open(db.lits[cr]), trail' = Append(trail, l), UNCHANGED ok
        PROVE  TrailOK' /\ Len(trail') \in Nat /\ Len(trail) <= Len(trail')
    <3>1. cr \in db.live /\ ~Satisfied(db.lits[cr])
      BY DEF Pending
    <3>2. l \in db.lits[cr] /\ -l \notin Assigned /\ l \notin Assigned
      BY <3>1 DEF Open, IsFalse, Satisfied, IsTrue
    <3>3. l \in Lits /\ Var(l) \in Known
      BY <3>1, <3>2, LiveFacts, VarsOfIs DEF Known, Types, DatabaseOK
    <3>4. TrailOK' /\ Len(trail) <= Len(trail')
      BY <1>1, <2>4, <3>2, <3>3, TrailGrows DEF Types
    <3> QED
      BY <3>4 DEF TrailOK
  <2> QED
    BY <2>1, <2>2, <2>3, <2>4
<1>4. ScanOK'
  BY <1>2, <1>3, ScanKept DEF Types, Propagate, ScanOK
<1> QED
  BY <1>1, <1>3, <1>4 DEF Types

LEMMA LoadTypes == Types /\ Load => Types'
<1> SUFFICES ASSUME Types, Load PROVE Types'
  OBVIOUS
<1>1. ClausesOK(db) /\ IndexOK(db) /\ Len(db.lits) \in Nat
  BY IndexOf DEF Load, Freed
<1>2. PICK c \in SUBSET Lits : c = formula[loaded + 1]
  BY DEF Types, FormulaOK, Load
<1>3. PICK d : d = NewVars(db, c)
  OBVIOUS
<1>4. /\ ClausesOK(d) /\ IndexOK(d) /\ d.lits = db.lits /\ d.live = db.live
      /\ d.queue = db.queue /\ d.nvars \in Nat /\ VarsOf(c) \subseteq 1..d.nvars
      /\ db.nvars <= d.nvars
  BY <1>1, <1>3, NewVarsFacts
<1>5. AddClause(d, c)
  BY <1>2, <1>3 DEF Load
<1>6. Known \subseteq 1..d.nvars
  BY <1>1, <1>4, DatabaseIs DEF Known
<1>7. /\ ClausesOK(db') /\ IndexOK(db') /\ Len(d.lits) <= Len(db'.lits)
      /\ TmpUnit \in ToSet(db'.queue) => TmpUnit \in ToSet(d.queue)
      /\ TrailOK' /\ Len(trail) \in Nat /\ Len(trail') \in Nat /\ Len(trail) <= Len(trail')
  BY <1>4, <1>5, <1>6, AddClauseTypes DEF Types
<1>8. Len(db'.lits) \in Nat
  BY <1>7, DatabaseIs
<1>9. FormulaOK'
  BY DEF Types, FormulaOK, Load, input
<1>10. ScanOK'
  BY <1>1, <1>4, <1>7, <1>8, ScanKept DEF Types, Load, ScanOK
<1>11. CrossOK' /\ RestOK'
  BY CrossKept, RestKept DEF Types, Load, RestOK
<1> QED
  BY <1>7, <1>9, <1>10, <1>11, DatabaseGiven DEF Types

(* Steps that only change the procedure, or the scan.                      *)
Passes ==
  /\ UNCHANGED <<input, loaded, db, trail, ok, elimclauses, bwdsub, cross, model>>
  /\ pc \in {"subsume", "eliminate", "asymm"}
  /\ scan' = scan \/ scan' = NoScan
  /\ \/ pc' \in {"loop", "subsume", "eliminate"}
     \/ pc' = "variable" /\ cross # NoCross

LEMMA PassesTypes == Types /\ Passes => Types'
<1> SUFFICES ASSUME Types, Passes PROVE Types'
  OBVIOUS
<1>1. FormulaOK' /\ DatabaseOK' /\ Known' = Known /\ RestOK'
  BY FormulaKept, DatabaseKept, RestKept DEF Types, Passes, Freed, Procedures
<1>2. TrailOK' /\ Len(trail) \in Nat /\ Len(trail') = Len(trail)
  BY <1>1, TrailKept DEF Types, Passes
<1>3. ScanOK'
  <2>1. Len(db.lits) \in Nat
    BY DatabaseIs DEF Types, DatabaseOK
  <2> QED
    BY <1>2, <2>1 DEF Types, ScanOK, NoScan, TmpUnit, Passes
<1>4. CrossOK'
  BY DEF Types, CrossOK, Passes
<1> QED
  BY <1>1, <1>2, <1>3, <1>4 DEF Types

LEMMA PassingTypes ==
  Types /\ (ScanDone \/ SubsumeDone \/ AsymmDone \/ HeapEmpty) => Types'
<1> SUFFICES ASSUME Types, ScanDone \/ SubsumeDone \/ AsymmDone \/ HeapEmpty PROVE Types'
  OBVIOUS
<1>1. Passes
  <2>1. CASE ScanDone
    BY <2>1 DEF ScanDone, Passes
  <2>2. CASE SubsumeDone
    BY <2>2 DEF SubsumeDone, Passes
  <2>3. CASE AsymmDone
    BY <2>3 DEF AsymmDone, Passes
  <2>4. CASE HeapEmpty
    BY <2>4 DEF HeapEmpty, Passes
  <2> QED
    BY <2>1, <2>2, <2>3, <2>4
<1> QED
  BY <1>1, PassesTypes

(* Steps that change the database alone, and the scan.                     *)
LEMMA DatabaseStep ==
  ASSUME Types, ClausesOK(db'), IndexOK(db'), Known \subseteq Known',
         UNCHANGED <<input, loaded, trail, ok>>
  PROVE  /\ FormulaOK' /\ DatabaseOK' /\ TrailOK'
         /\ Len(trail) \in Nat /\ Len(trail') = Len(trail)
         /\ Len(db.lits) \in Nat /\ Len(db'.lits) \in Nat
<1>1. Len(db.lits) \in Nat /\ Len(db'.lits) \in Nat
  BY DatabaseIs DEF Types, DatabaseOK
<1> QED
  BY <1>1, FormulaKept, DatabaseGiven, TrailKept DEF Types

LEMMA GatherTypes == Types /\ Gather => Types'
<1> SUFFICES ASSUME Types, Gather PROVE Types'
  OBVIOUS
<1>1. ClausesOK(db) /\ IndexOK(db)
  BY IndexOf DEF Gather, Freed
<1>2. /\ ClausesOK(db') /\ IndexOK(db') /\ Alike(db, db')
      /\ TmpUnit \in ToSet(db'.queue) => TmpUnit \in ToSet(db.queue)
  BY <1>1, GatheredFacts DEF Gather
<1>3. Known' = Known
  BY <1>2 DEF Known, Alike
<1>4. /\ FormulaOK' /\ DatabaseOK' /\ TrailOK'
      /\ Len(trail) \in Nat /\ Len(trail') = Len(trail)
      /\ Len(db.lits) \in Nat /\ Len(db'.lits) \in Nat
  BY <1>2, <1>3, DatabaseStep DEF Gather
<1>5. Len(db'.lits) = Len(db.lits)
  BY <1>2 DEF Alike
<1>6. ScanOK'
  BY <1>2, <1>4, <1>5, ScanKept DEF Types, Gather, ScanOK
<1>7. CrossOK' /\ RestOK'
  BY CrossKept, RestKept DEF Types, Gather, Procedures
<1> QED
  BY <1>4, <1>6, <1>7 DEF Types

-----------------------------------------------------------------------------
(* The clauses of a variable, and their pairs.                             *)
LEMMA QuotientFacts ==
  ASSUME NEW a \in Nat, NEW n \in Nat \ {0}, NEW b \in 0..(n - 1)
  PROVE  (a * n + b) \div n = a /\ (a * n + b) % n = b
<1> DEFINE x == a * n + b
           q == x \div n
           r == x % n
<1>1. x \in Nat
  OBVIOUS
<1>2. q \in Int /\ r \in 0..(n - 1) /\ x = n * q + r
  <2> HIDE DEF x
  <2> QED
    BY <1>1
<1>3. n * q = a * n + b - r /\ n * q - n * a = b - r
  BY <1>2
<1>4. q = a
  <2>1. CASE q >= a + 1
    <3>1. n * q >= n * (a + 1)
      <4> HIDE DEF q
      <4> QED
        BY <1>2, <2>1
    <3>2. n * (a + 1) = n * a + n
      OBVIOUS
    <3> HIDE DEF q, r
    <3> QED
      BY <1>2, <1>3, <3>1, <3>2
  <2>2. CASE q <= a - 1
    <3>1. n * q <= n * (a - 1)
      <4> HIDE DEF q
      <4> QED
        BY <1>2, <2>2
    <3>2. n * (a - 1) = n * a - n
      OBVIOUS
    <3> HIDE DEF q, r
    <3> QED
      BY <1>2, <1>3, <3>1, <3>2
  <2> HIDE DEF q
  <2> QED
    BY <1>2, <2>1, <2>2
<1>5. r = b
  <2> HIDE DEF q, r
  <2> QED
    BY <1>2, <1>3, <1>4
<1> QED
  BY <1>4, <1>5

LEMMA IndexFacts ==
  ASSUME NEW m \in Nat, NEW n \in Nat, NEW i \in 1..(m * n)
  PROVE  1 + ((i - 1) \div n) \in 1..m /\ 1 + ((i - 1) % n) \in 1..n
<1>1. n # 0
  <2>1. CASE n = 0
    BY <2>1
  <2> QED
    BY <2>1
<1> DEFINE x == i - 1
           q == x \div n
           r == x % n
<1>2. x \in Nat /\ x < m * n
  OBVIOUS
<1>3. q \in Int /\ r \in 0..(n - 1) /\ x = n * q + r
  <2> HIDE DEF x
  <2> QED
    BY <1>1, <1>2
<1>4. q >= 0
  <2>1. CASE q <= -1
    <3>1. n * q <= n * (-1)
      <4> HIDE DEF q
      <4> QED
        BY <1>1, <1>3, <2>1
    <3> HIDE DEF q, r, x
    <3> QED
      BY <1>2, <1>3, <3>1
  <2> HIDE DEF q
  <2> QED
    BY <1>3, <2>1
<1>5. q < m
  <2>1. CASE q >= m
    <3>1. n * q >= n * m
      <4> HIDE DEF q
      <4> QED
        BY <1>3, <2>1
    <3>2. n * m = m * n
      OBVIOUS
    <3> HIDE DEF q, r, x
    <3> QED
      BY <1>2, <1>3, <3>1, <3>2
  <2> HIDE DEF q
  <2> QED
    BY <1>3, <2>1
<1>6. 1 + q \in 1..m /\ 1 + r \in 1..n
  <2> HIDE DEF q, r
  <2> QED
    BY <1>3, <1>4, <1>5
<1> QED
  BY <1>6

LEMMA SidesFacts ==
  ASSUME ClausesOK(db), IndexOK(db), NEW v \in Vars
  PROVE  /\ PosOf(v) \in Seq(WithLit(db, v)) /\ ToSet(PosOf(v)) = WithLit(db, v)
         /\ NegOf(v) \in Seq(WithLit(db, -v)) /\ ToSet(NegOf(v)) = WithLit(db, -v)
<1>1. ASSUME NEW cr \in db.live
      PROVE  /\ cr \in db.occurs[v] <=> v \in db.lits[cr] \/ -v \in db.lits[cr]
             /\ ~(v \in db.lits[cr] /\ -v \in db.lits[cr])
  <2>1. db.lits[cr] \in SUBSET Lits /\ ~Tautology(db.lits[cr])
    BY LiveFacts
  <2>2. v \in VarsOf(db.lits[cr]) <=> v \in db.lits[cr] \/ -v \in db.lits[cr]
    BY <2>1, VarsOfIs
  <2>3. cr \in db.occurs[v] <=> v \in VarsOf(db.lits[cr])
    BY DEF IndexOK, WithVar
  <2> QED
    BY <2>1, <2>2, <2>3 DEF Tautology
<1>2. {cr \in db.occurs[v] \cap db.live : v \in db.lits[cr]} = WithLit(db, v)
  BY <1>1 DEF WithLit
<1>3. {cr \in db.occurs[v] \cap db.live : v \notin db.lits[cr]} = WithLit(db, -v)
  BY <1>1 DEF WithLit
<1>4. ASSUME NEW S \in SUBSET Nat, IsFiniteSet(S)
      PROVE  Ascending(S) \in Seq(S) /\ ToSet(Ascending(S)) = S
  <2>1. PICK s : s = Ascending(S)
    OBVIOUS
  <2>2. s \in Seq(S) /\ Len(s) = Cardinality(S) /\ \A x \in S : \E i \in 1..Len(s) : s[i] = x
    BY <1>4, <2>1, AscendingFacts
  <2>3. ToSet(s) = {s[i] : i \in 1..Len(s)} /\ ToSet(s) \subseteq S
    BY <2>2, ToSetFacts
  <2>4. \A x \in S : x \in ToSet(s)
    BY <2>2, <2>3
  <2> QED
    BY <2>1, <2>2, <2>3, <2>4, Zenon
<1>5. /\ WithLit(db, v) \in SUBSET Nat /\ IsFiniteSet(WithLit(db, v))
      /\ WithLit(db, -v) \in SUBSET Nat /\ IsFiniteSet(WithLit(db, -v))
  BY LiveIsFinite DEF WithLit
<1> QED
  BY <1>2, <1>3, <1>4, <1>5 DEF PosOf, NegOf

LEMMA PairsFacts ==
  ASSUME ClausesOK(db), IndexOK(db), NEW v \in Vars
  PROVE  /\ Pairs(v) \in Seq(Nat \X Nat)
         /\ ToSet(Pairs(v)) = WithLit(db, v) \X WithLit(db, -v)
<1> DEFINE A == WithLit(db, v)
           B == WithLit(db, -v)
<1>1. A \subseteq Nat /\ B \subseteq Nat
  BY LiveIsFinite DEF WithLit
<1> HIDE DEF A, B
<1>2. PICK p \in Seq(A), n \in Seq(B) :
        p = PosOf(v) /\ n = NegOf(v) /\ ToSet(p) = A /\ ToSet(n) = B
  BY SidesFacts DEF A, B
<1>3. PICK lp \in Nat, ln \in Nat : lp = Len(p) /\ ln = Len(n)
  OBVIOUS
<1>4. PICK s : s = [i \in 1..(lp * ln) |->
                     <<p[1 + ((i - 1) \div ln)], n[1 + ((i - 1) % ln)]>>]
  OBVIOUS
<1>5. s = Pairs(v)
  BY <1>2, <1>3, <1>4 DEF Pairs
<1>6. ASSUME NEW i \in 1..(lp * ln)
      PROVE  s[i] \in A \X B /\ s[i] \in Nat \X Nat
  <2>1. PICK x \in 1..lp, y \in 1..ln :
          x = 1 + ((i - 1) \div ln) /\ y = 1 + ((i - 1) % ln)
    BY IndexFacts
  <2>2. s[i] = <<p[x], n[y]>>
    BY <1>4, <2>1
  <2>3. p[x] \in A /\ n[y] \in B
    BY <1>2, <1>3
  <2>4. PICK g \in A, h \in B : g = p[x] /\ h = n[y]
    BY <2>3
  <2>5. s[i] = <<g, h>> /\ g \in Nat /\ h \in Nat
    BY <1>1, <2>2, <2>4
  <2> QED
    BY <2>5
<1>7. PICK k \in Nat : k = lp * ln
  OBVIOUS
<1>8. s \in Seq(Nat \X Nat) /\ Len(s) = k
  <2>1. s \in [1..k -> Nat \X Nat]
    BY <1>4, <1>6, <1>7
  <2> QED
    BY <2>1
<1>9. ToSet(s) = {s[i] : i \in 1..k}
  BY <1>7, <1>8, ToSetFacts
<1>10. ASSUME NEW a \in A, NEW b \in B PROVE <<a, b>> \in ToSet(s)
  <2>1. PICK x \in 1..lp : p[x] = a
    BY <1>2, <1>3 DEF ToSet
  <2>2. PICK y \in 1..ln : n[y] = b
    BY <1>2, <1>3 DEF ToSet
  <2>3. PICK x1 \in Nat, y1 \in Nat : x = x1 + 1 /\ y = y1 + 1
    <3>1. x - 1 \in Nat /\ y - 1 \in Nat /\ x = (x - 1) + 1 /\ y = (y - 1) + 1
      OBVIOUS
    <3> QED
      BY <3>1
  <2>4. y1 \in 0..(ln - 1) /\ ln \in Nat \ {0} /\ x1 + 1 <= lp
    BY <2>3
  <2>5. (x1 * ln + y1) \div ln = x1 /\ (x1 * ln + y1) % ln = y1
    BY <2>4, QuotientFacts
  <2>6. PICK z \in Nat : z = x1 * ln + y1
    OBVIOUS
  <2>7. z + 1 \in 1..(lp * ln)
    <3>1. (x1 + 1) * ln <= lp * ln
      BY <2>4
    <3>2. (x1 + 1) * ln = x1 * ln + ln
      OBVIOUS
    <3> QED
      BY <1>7, <2>4, <2>6, <3>1, <3>2
  <2>8. s[z + 1] = <<p[x], n[y]>>
    <3>1. s[z + 1] = <<p[1 + (z \div ln)], n[1 + (z % ln)]>>
      <4>1. (z + 1) - 1 = z
        OBVIOUS
      <4> QED
        BY <1>4, <2>7, <4>1
    <3>2. 1 + (z \div ln) = x /\ 1 + (z % ln) = y
      BY <2>3, <2>5, <2>6
    <3> QED
      BY <3>1, <3>2
  <2> QED
    BY <1>7, <1>9, <2>1, <2>2, <2>7, <2>8
<1>11. ToSet(s) \subseteq A \X B
  BY <1>6, <1>7, <1>9
<1>12. ToSet(s) = A \X B
  BY <1>10, <1>11
<1> QED
  BY <1>5, <1>8, <1>12 DEF A, B

-----------------------------------------------------------------------------
(* backwardSubsumptionCheck: the clause that is checked, and the one that  *)
(* it subsumes or strengthens.                                             *)
LEMMA SubsumesFacts ==
  ASSUME NEW c \in SUBSET Lits, NEW other \in SUBSET Lits
  PROVE  /\ 0 \in Subsumes(c, other) => c \subseteq other
         /\ \A l \in Subsumes(c, other) \ {0} :
              l \in c /\ -l \in other /\ c \ {l} \subseteq other
<1>1. PICK flipped : flipped = {l \in c : -l \in other /\ l \notin other}
  OBVIOUS
<1>2. Subsumes(c, other) =
        IF c \subseteq other THEN {0}
        ELSE IF Cardinality(flipped) = 1 /\ c \ flipped \subseteq other
             THEN flipped ELSE {}
  BY <1>1 DEF Subsumes
<1>3. 0 \notin flipped
  BY <1>1, LitFacts
<1>4. ASSUME NEW l \in Subsumes(c, other) \ {0}
      PROVE  l \in c /\ -l \in other /\ c \ {l} \subseteq other
  <2>1. l \in flipped /\ Cardinality(flipped) = 1 /\ c \ flipped \subseteq other
    BY <1>2, <1>3
  <2>2. flipped \in SUBSET Lits
    BY <1>1
  <2>3. \E k : flipped = {k}
    BY <2>1, <2>2, ClauseIsFinite, FS_Singleton
  <2>4. flipped = {l}
    BY <2>1, <2>3
  <2> QED
    BY <1>1, <2>1, <2>4
<1>5. 0 \in Subsumes(c, other) => c \subseteq other
  BY <1>2, <1>3
<1> QED
  BY <1>4, <1>5

LEMMA LitsOfFacts ==
  ASSUME Types, NEW cr, (cr = TmpUnit /\ bwdsub > 0) \/ cr \in db.live
  PROVE  /\ LitsOf(cr) \in SUBSET Lits
         /\ cr = TmpUnit => LitsOf(cr) \subseteq Assigned
         /\ cr # TmpUnit => LitsOf(cr) = db.lits[cr]
<1>1. CASE cr = TmpUnit
  <2>1. trail \in Seq(Lits) /\ cr \notin db.live
    BY <1>1, LiveFacts DEF Types, TrailOK, DatabaseOK, TmpUnit
  <2>2. bwdsub \in 1..Len(trail)
    BY <1>1, <2>1 DEF Types, ScanOK
  <2>3. trail[bwdsub] \in Lits /\ trail[bwdsub] \in Assigned
    BY <2>1, <2>2, ToSetFacts DEF Assigned
  <2> QED
    BY <1>1, <2>3 DEF LitsOf
<1>2. CASE cr # TmpUnit
  BY <1>2, LiveFacts DEF LitsOf, Types, DatabaseOK
<1> QED
  BY <1>1, <1>2

LEMMA HitsFacts ==
  ASSUME Types, Hits # {}
  PROVE  /\ Min(Hits) \in db.live /\ Min(Hits) # scan.cr /\ Min(Hits) \in Nat \ {0}
         /\ (scan.cr = TmpUnit /\ bwdsub > 0) \/ scan.cr \in db.live
         /\ db.lits[Min(Hits)] \in SUBSET Lits
<1>1. /\ scan.cr = TmpUnit \/ scan.cr \in db.live
      /\ Hits \subseteq (scan.todo \ {scan.cr}) \cap db.live
  BY DEF Hits
<1>2. scan.todo \subseteq Nat /\ (scan.cr = TmpUnit => bwdsub > 0)
  BY DEF Types, ScanOK
<1>3. Hits \in SUBSET Nat
  BY <1>1, <1>2
<1>4. Min(Hits) \in Hits
  BY <1>3, MinIs
<1>5. Min(Hits) \in db.live /\ Min(Hits) # scan.cr
  BY <1>1, <1>4
<1>6. Min(Hits) \in Nat \ {0} /\ db.lits[Min(Hits)] \in SUBSET Lits
  BY <1>5, LiveFacts DEF Types, DatabaseOK
<1> QED
  BY <1>1, <1>2, <1>5, <1>6

LEMMA TakeAssignmentTypes == Types /\ TakeAssignment => Types'
<1> SUFFICES ASSUME Types, TakeAssignment PROVE Types'
  OBVIOUS
<1>1. ClausesOK(db) /\ IndexOK(db) /\ db \in Databases
  BY IndexOf, DatabaseIs DEF TakeAssignment, Freed
<1>2. PICK q \in Seq(Nat) : q = <<TmpUnit>>
  <2>1. \A x \in Nat : <<x>> \in Seq(Nat)
    OBVIOUS
  <2>2. TmpUnit \in Nat
    BY DEF TmpUnit
  <2> QED
    BY <2>1, <2>2
<1>3. db' = [db EXCEPT !.queue = q]
  BY <1>2 DEF TakeAssignment
<1>4. db' \in Databases /\ db'.queue = q /\ SameIndexes(db, db')
  BY <1>1, <1>3 DEF Databases, SameIndexes, Alike
<1>5. ToSet(db'.queue) \subseteq 0..Len(db.lits)
  <2>1. ToSet(q) \subseteq {0}
    BY <1>2 DEF ToSet, TmpUnit
  <2> QED
    BY <1>1, <1>4, <2>1, DatabaseIs
<1>6. ClausesOK(db') /\ IndexOK(db')
  BY <1>1, <1>4, <1>5, SameIndexesFacts
<1>7. Known' = Known /\ db'.lits = db.lits /\ db'.live = db.live
  BY <1>4 DEF SameIndexes, Alike, Known
<1>8. FormulaOK' /\ DatabaseOK' /\ TrailOK' /\ Len(trail) \in Nat
  BY <1>6, <1>7, DatabaseStep DEF TakeAssignment
<1>9. ScanOK'
  BY <1>7, <1>8 DEF Types, ScanOK, TakeAssignment
<1>10. CrossOK' /\ RestOK'
  BY <1>7, CrossKept, RestKept DEF Types, TakeAssignment, RestOK
<1> QED
  BY <1>8, <1>9, <1>10 DEF Types

LEMMA TakeClauseTypes == Types /\ TakeClause => Types'
<1> SUFFICES ASSUME Types, TakeClause PROVE Types'
  OBVIOUS
<1>1. ClausesOK(db) /\ IndexOK(db) /\ db \in Databases /\ db.queue \in Seq(Nat)
      /\ ToSet(db.queue) \subseteq 0..Len(db.lits) /\ Len(db.lits) \in Nat
  BY IndexOf, DatabaseIs DEF TakeClause, Freed, ClausesOK
<1>2. PICK cr \in Nat : cr = Head(db.queue) /\ cr \in ToSet(db.queue)
  BY <1>1, ToSetFacts DEF TakeClause
<1>3. PICK q \in Seq(Nat) : q = Tail(db.queue) /\ ToSet(q) \subseteq ToSet(db.queue)
  BY <1>1, ToSetFacts DEF TakeClause
<1>4. PICK rest : rest = [db EXCEPT !.queue = q]
  OBVIOUS
<1>5. rest \in Databases /\ rest.queue = q /\ SameIndexes(db, rest)
  BY <1>1, <1>4 DEF Databases, SameIndexes, Alike
<1>6. ClausesOK(rest) /\ IndexOK(rest)
  BY <1>1, <1>3, <1>5, SameIndexesFacts
<1>7. \/ db' = rest /\ UNCHANGED scan
      \/ /\ cr = TmpUnit \/ cr \in db.live
         /\ \E best \in VarsOf(LitsOf(cr)) :
              /\ db' = Lookup(rest, best)
              /\ scan' = [cr |-> cr, todo |-> db'.occurs[best]]
  BY <1>2, <1>3, <1>4 DEF TakeClause
<1>8. /\ ClausesOK(db') /\ IndexOK(db') /\ Alike(db, db')
      /\ ToSet(db'.queue) \subseteq ToSet(db.queue)
      /\ \/ UNCHANGED scan
         \/ \E best \in Vars : scan' = [cr |-> cr, todo |-> db'.occurs[best]]
  <2>1. CASE db' = rest /\ UNCHANGED scan
    BY <1>3, <1>5, <1>6, <2>1 DEF SameIndexes
  <2>2. ASSUME cr = TmpUnit \/ cr \in db.live, NEW best \in VarsOf(LitsOf(cr)),
               db' = Lookup(rest, best), scan' = [cr |-> cr, todo |-> db'.occurs[best]]
        PROVE  /\ ClausesOK(db') /\ IndexOK(db') /\ Alike(db, db') /\ best \in Vars
               /\ ToSet(db'.queue) \subseteq ToSet(db.queue)
    <3>1. cr = TmpUnit => bwdsub > 0
      BY <1>2 DEF Types, ScanOK
    <3>2. LitsOf(cr) \in SUBSET Lits
      BY <2>2, <3>1, LitsOfFacts
    <3>3. best \in Vars
      BY <3>2, VarsOfIs
    <3>4. /\ ClausesOK(db') /\ IndexOK(db') /\ Alike(rest, db') /\ db'.queue = rest.queue
      BY <1>6, <2>2, <3>3, LookupFacts
    <3> QED
      BY <1>3, <1>5, <3>3, <3>4 DEF Alike, SameIndexes
  <2> QED
    BY <1>7, <2>1, <2>2
<1>9. Known' = Known /\ db'.lits = db.lits /\ db'.live = db.live
  BY <1>8 DEF Alike, Known
<1>10. FormulaOK' /\ DatabaseOK' /\ TrailOK' /\ Len(trail) \in Nat /\ Len(trail') = Len(trail)
  BY <1>8, <1>9, DatabaseStep DEF TakeClause
<1>11. ScanOK'
  <2>1. TmpUnit \in ToSet(db'.queue) => bwdsub > 0
    BY <1>8 DEF Types, ScanOK
  <2>2. CASE UNCHANGED scan
    BY <1>9, <1>10, <2>1, <2>2 DEF Types, ScanOK, TakeClause
  <2>3. ASSUME NEW best \in Vars, scan' = [cr |-> cr, todo |-> db'.occurs[best]]
        PROVE  ScanOK'
    <3>1. db'.occurs[best] \subseteq 1..Len(db'.lits)
      BY <1>8 DEF ClausesOK
    <3>2. PICK s \in SUBSET Nat : s = db'.occurs[best]
      BY <3>1
    <3>3. scan' \in [cr : Nat \cup {-1}, todo : SUBSET Nat] /\ scan'.cr = cr /\ scan'.todo = s
      BY <2>3, <3>2
    <3>4. cr <= Len(db.lits) /\ (cr = TmpUnit => bwdsub > 0)
      BY <1>1, <1>2 DEF Types, ScanOK
    <3> QED
      BY <1>9, <1>10, <2>1, <3>1, <3>2, <3>3, <3>4 DEF Types, ScanOK, TakeClause
  <2> QED
    BY <1>8, <2>2, <2>3
<1>12. CrossOK' /\ RestOK'
  BY <1>9, CrossKept, RestKept DEF Types, TakeClause, RestOK
<1> QED
  BY <1>10, <1>11, <1>12 DEF Types

LEMMA SubsumeTypes == Types /\ (Subsume \/ Strengthen) => Types'
<1> SUFFICES ASSUME Types, Subsume \/ Strengthen PROVE Types'
  OBVIOUS
<1>1. ClausesOK(db) /\ IndexOK(db) /\ Len(db.lits) \in Nat
  BY IndexOf DEF Subsume, Strengthen, Freed
<1>2. PICK cs \in db.live :
        cs = Min(Hits) /\ cs \in Nat \ {0} /\ db.lits[cs] \in SUBSET Lits
  BY HitsFacts DEF Subsume, Strengthen
<1>3. LitsOf(scan.cr) \in SUBSET Lits
  BY HitsFacts, LitsOfFacts DEF Subsume, Strengthen
<1>4. scan' = [scan EXCEPT !.todo = {x \in @ : x > cs}]
  BY <1>2 DEF Subsume, Strengthen
<1>5. /\ scan' \in [cr : Nat \cup {-1}, todo : SUBSET Nat]
      /\ scan'.cr = scan.cr /\ scan'.todo \subseteq scan.todo
  <2>1. PICK y \in SUBSET Nat : y = {x \in scan.todo : x > cs}
    BY DEF Types, ScanOK
  <2>2. scan' = [scan EXCEPT !.todo = y]
    BY <1>4, <2>1
  <2> QED
    BY <2>1, <2>2 DEF Types, ScanOK
<1>6. /\ ClausesOK(db') /\ IndexOK(db') /\ db'.nvars = db.nvars
      /\ db'.eliminated = db.eliminated /\ Len(db'.lits) = Len(db.lits)
      /\ TmpUnit \in ToSet(db'.queue) => TmpUnit \in ToSet(db.queue)
      /\ TrailOK' /\ Len(trail) \in Nat /\ Len(trail') \in Nat
      /\ Len(trail) <= Len(trail')
  <2>1. CASE Subsume
    <3>1. db' = AllRemoved(db, {cs}) /\ UNCHANGED <<trail, ok>> /\ {cs} \in SUBSET db.live
      BY <1>2, <2>1 DEF Subsume, Removed
    <3>2. /\ ClausesOK(db') /\ IndexOK(db') /\ db'.lits = db.lits
          /\ db'.nvars = db.nvars /\ db'.eliminated = db.eliminated /\ db'.queue = db.queue
      BY <1>1, <3>1, AllRemovedFacts
    <3>3. TrailOK' /\ Len(trail) \in Nat /\ Len(trail') = Len(trail)
      BY <3>1, <3>2, TrailKept DEF Types, Known
    <3> QED
      BY <1>1, <3>2, <3>3
  <2>2. CASE Strengthen
    <3>1. PICK l \in Subsumes(LitsOf(scan.cr), db.lits[cs]) \ {0} : StrengthenClause(cs, -l)
      BY <1>2, <2>2 DEF Strengthen
    <3>2. -l \in db.lits[cs]
      BY <1>2, <1>3, SubsumesFacts
    <3> QED
      BY <1>1, <1>2, <3>1, <3>2, StrengthenTypes DEF Types
  <2> QED
    BY <2>1, <2>2
<1>7. FormulaOK' /\ DatabaseOK'
  BY <1>6, FormulaKept, DatabaseGiven DEF Types, Subsume, Strengthen
<1>8. ScanOK'
  <2>1. bwdsub' = bwdsub /\ Len(db'.lits) \in Nat /\ Len(db.lits) <= Len(db'.lits)
    BY <1>1, <1>6 DEF Subsume, Strengthen
  <2> QED
    BY <1>1, <1>5, <1>6, <2>1, ScanKept DEF Types
<1>9. CrossOK' /\ RestOK'
  <2>1. UNCHANGED <<cross, elimclauses, model, pc>> /\ pc = "subsume" /\ pc' \in Procedures
    BY DEF Subsume, Strengthen, Procedures
  <2> QED
    BY <2>1, CrossKept, RestKept DEF Types
<1> QED
  BY <1>6, <1>7, <1>8, <1>9 DEF Types

-----------------------------------------------------------------------------
(* The variables: eliminateVar on an index like db.                        *)
LikeDb(d) == ClausesOK(d) /\ IndexOK(d) /\ Alike(db, d) /\ d.queue = db.queue

Eliminates(d, v, e) ==
  /\ v \in Unassigned
  /\ e = Lookup(d, v)
  /\ db' = [e EXCEPT !.eliminated = @ \cup {v}]
  /\ elimclauses' = elimclauses \o StoredFor(v)
  /\ cross' = [v |-> v, todo |-> Pairs(v)]
  /\ pc' = "resolve"
Renounces(d, v) ==
  /\ db' = Lookup(d, v) \/ db' = d
  /\ cross' = NoCross /\ pc' = "eliminate" /\ UNCHANGED elimclauses

LEMMA EliminateVarCases ==
  ASSUME NEW d, NEW v, EliminateVar(d, v)
  PROVE  Eliminates(d, v, Lookup(d, v)) \/ Renounces(d, v)
BY DEF EliminateVar, Eliminates, Renounces

LEMMA LikeDbFacts ==
  ASSUME NEW d, LikeDb(d), NEW v \in Vars
  PROVE  LikeDb(Lookup(d, v))
<1>1. PICK e : e = Lookup(d, v)
  OBVIOUS
<1>2. ClausesOK(e) /\ IndexOK(e) /\ Alike(d, e) /\ e.queue = d.queue
  BY <1>1, LookupFacts DEF LikeDb
<1> QED
  BY <1>1, <1>2 DEF LikeDb, Alike

(* What is stored are pairs of a literal and a clause.                     *)
LEMMA StoredTypes ==
  ASSUME ClausesOK(db), IndexOK(db), NEW v \in Vars
  PROVE  StoredFor(v) \in Seq(Lits \X SUBSET Lits)
<1>1. ASSUME NEW l \in Lits, NEW s \in Seq(WithLit(db, l))
      PROVE  Stored(v, l, s) \in Seq(Lits \X SUBSET Lits)
  <2>1. ASSUME NEW i \in 1..Len(s) PROVE <<l, db.lits[s[i]] \ {l}>> \in Lits \X SUBSET Lits
    <3>1. s[i] \in db.live
      BY DEF WithLit
    <3>2. db.lits[s[i]] \ {l} \in SUBSET Lits
      BY <3>1, LiveFacts
    <3> QED
      BY <3>2
  <2>2. PICK k \in Nat : k = Len(s) /\ DOMAIN s = 1..k
    OBVIOUS
  <2>3. PICK t : t = [i \in 1..k |-> <<l, db.lits[s[i]] \ {l}>>]
    OBVIOUS
  <2>4. t \in [1..k -> Lits \X SUBSET Lits]
    BY <2>1, <2>2, <2>3
  <2>5. t \in Seq(Lits \X SUBSET Lits)
    BY <2>4
  <2> QED
    BY <2>2, <2>3, <2>5 DEF Stored
<1>2. v \in Lits /\ -v \in Lits
  BY VarFacts
<1>3. ASSUME NEW s \in Seq(Lits \X SUBSET Lits), NEW l \in Lits
      PROVE  Append(s, <<l, {}>>) \in Seq(Lits \X SUBSET Lits)
  <2>1. PICK x \in Lits \X SUBSET Lits : x = <<l, {}>>
    OBVIOUS
  <2> QED
    BY <2>1
<1>4. /\ Stored(v, -v, NegOf(v)) \in Seq(Lits \X SUBSET Lits)
      /\ Stored(v, v, PosOf(v)) \in Seq(Lits \X SUBSET Lits)
  BY <1>1, <1>2, SidesFacts
<1> QED
  BY <1>2, <1>3, <1>4 DEF StoredFor

LEMMA EliminateVarTypes ==
  ASSUME Types, NEW d, LikeDb(d), NEW v \in Vars, EliminateVar(d, v), ~Freed,
         UNCHANGED <<input, loaded, trail, ok, bwdsub, scan, model>>
  PROVE  Types'
<1>1. ClausesOK(db) /\ IndexOK(db) /\ Len(db.lits) \in Nat
  BY IndexOf
<1>2. PICK e : e = Lookup(d, v) /\ LikeDb(e) /\ v \notin e.dirty
  BY LikeDbFacts, LookupFacts DEF LikeDb
<1>3. e \in Databases /\ ClausesOK(e) /\ IndexOK(e)
  BY <1>2, DatabaseIs DEF LikeDb
<1>4. CASE Eliminates(d, v, e)
  <2>1. PICK w \in SUBSET Vars : w = e.eliminated \cup {v}
    BY <1>3 DEF Databases
  <2>2. db' = [e EXCEPT !.eliminated = w]
    BY <1>4, <2>1 DEF Eliminates
  <2>3. /\ db' \in Databases /\ db'.lits = e.lits /\ db'.live = e.live /\ db'.nvars = e.nvars
        /\ db'.queue = e.queue /\ db'.occurs = e.occurs /\ db'.dirty = e.dirty
        /\ db'.nocc = e.nocc
    BY <1>3, <2>2 DEF Databases
  <2>4. ClausesOK(db') /\ IndexOK(db')
    BY <1>3, <2>3 DEF ClausesOK, IndexOK, WithVar, WithLit
  <2>5. Known' = Known /\ db'.lits = db.lits /\ db'.live = db.live /\ db'.queue = db.queue
    BY <1>2, <2>3 DEF LikeDb, Alike, Known
  <2>6. FormulaOK' /\ DatabaseOK' /\ TrailOK' /\ Len(trail) \in Nat /\ Len(trail') = Len(trail)
    BY <2>4, <2>5, DatabaseStep
  <2>7. ScanOK'
    BY <2>5, <2>6 DEF Types, ScanOK
  <2>8. CrossOK'
    <3>1. PICK s \in Seq(Nat \X Nat) :
            s = Pairs(v) /\ ToSet(s) = WithLit(db, v) \X WithLit(db, -v)
      BY <1>1, PairsFacts
    <3>2. cross' = [v |-> v, todo |-> s] /\ pc' = "resolve"
      BY <1>4, <3>1 DEF Eliminates
    <3>3. ToSet(s) \subseteq db'.live \X db'.live
      BY <2>5, <3>1 DEF WithLit
    <3>4. v \in 0..MaxVar
      BY VarsAssumption DEF Vars
    <3> QED
      BY <1>2, <2>3, <3>2, <3>3, <3>4 DEF CrossOK
  <2>9. RestOK'
    <3>1. PICK s \in Seq(Lits \X SUBSET Lits) : s = StoredFor(v)
      BY <1>1, StoredTypes
    <3>2. elimclauses' = elimclauses \o s /\ pc' = "resolve"
      BY <1>4, <3>1 DEF Eliminates
    <3> QED
      BY <3>2 DEF Types, RestOK, Procedures
  <2> QED
    BY <2>6, <2>7, <2>8, <2>9 DEF Types
<1>5. CASE Renounces(d, v)
  <2>1. LikeDb(db')
    BY <1>2, <1>5 DEF Renounces
  <2>2. /\ ClausesOK(db') /\ IndexOK(db') /\ Known' = Known
        /\ db'.lits = db.lits /\ db'.live = db.live /\ db'.queue = db.queue
    BY <2>1 DEF LikeDb, Alike, Known
  <2>3. FormulaOK' /\ DatabaseOK' /\ TrailOK' /\ Len(trail) \in Nat /\ Len(trail') = Len(trail)
    BY <2>2, DatabaseStep
  <2>4. ScanOK'
    BY <2>2, <2>3 DEF Types, ScanOK
  <2>5. CrossOK' /\ RestOK'
    BY <1>5, VarsAssumption DEF Types, Renounces, CrossOK, NoCross, RestOK, Procedures
  <2> QED
    BY <2>3, <2>4, <2>5 DEF Types
<1> QED
  BY <1>2, <1>4, <1>5, EliminateVarCases

LEMMA EliminateTypes == Types /\ Eliminate => Types'
<1> SUFFICES ASSUME Types, Eliminate PROVE Types'
  OBVIOUS
<1>1. LikeDb(db) /\ ~Freed
  BY IndexOf DEF LikeDb, Alike, Eliminate, Freed
<1>2. cross.v \in Vars
  BY DEF Types, CrossOK, Eliminate
<1> QED
  BY <1>1, <1>2, EliminateVarTypes DEF Eliminate

(* The variable leaves the heap.                                           *)
LEMMA OutOfHeap ==
  ASSUME ClausesOK(db), IndexOK(db), NEW v
  PROVE  LikeDb([db EXCEPT !.heap = @ \ {v}])
<1>5. db \in Databases
  BY DatabaseIs
<1>1. PICK h \in SUBSET Vars : h = db.heap \ {v}
  BY <1>5 DEF Databases
<1>2. PICK d : d = [db EXCEPT !.heap = h]
  OBVIOUS
<1>3. d \in Databases /\ SameIndexes(db, d) /\ d.queue = db.queue
  BY <1>2, <1>5 DEF Databases, SameIndexes, Alike
<1>4. ClausesOK(d) /\ IndexOK(d)
  BY <1>3, SameIndexesFacts DEF ClausesOK
<1> QED
  BY <1>1, <1>2, <1>3, <1>4 DEF LikeDb, SameIndexes

PassesOver(d) == db' = d /\ UNCHANGED <<elimclauses, cross, pc>>
VisitsClauses(d, v) ==
  /\ db' = Lookup(d, v)
  /\ cross' = [v |-> v, todo |-> Ascending(db'.occurs[v])]
  /\ pc' = "asymm" /\ UNCHANGED elimclauses

LEMMA TakeVarCases ==
  ASSUME ClausesOK(db), IndexOK(db), TakeVar
  PROVE  \E v \in Vars : \E d :
           /\ LikeDb(d) /\ db.eliminated = d.eliminated
           /\ \/ PassesOver(d)
              \/ /\ v \in Unassigned \ db.eliminated
                 /\ VisitsClauses(d, v) \/ EliminateVar(d, v)
<1>1. PICK v \in db.heap :
        LET d == [db EXCEPT !.heap = @ \ {v}] IN
          IF v \in db.eliminated \/ v \notin Unassigned
          THEN db' = d /\ UNCHANGED <<elimclauses, cross, pc>>
          ELSE IF "asymm" \in options
          THEN /\ db' = Lookup(d, v)
               /\ cross' = [v |-> v, todo |-> Ascending(db'.occurs[v])]
               /\ pc' = "asymm"
               /\ UNCHANGED elimclauses
          ELSE EliminateVar(d, v)
  BY DEF TakeVar
<1>2. PICK d : d = [db EXCEPT !.heap = @ \ {v}] /\ LikeDb(d)
  BY OutOfHeap
<1>3. \/ PassesOver(d)
      \/ v \in Unassigned \ db.eliminated /\ (VisitsClauses(d, v) \/ EliminateVar(d, v))
  BY <1>1, <1>2 DEF PassesOver, VisitsClauses
<1>4. v \in Vars
  <2>1. db \in Databases
    BY DatabaseIs
  <2> QED
    BY <2>1 DEF Databases
<1>5. db.eliminated = d.eliminated
  BY <1>2 DEF LikeDb, Alike
<1> QED
  BY <1>2, <1>3, <1>4, <1>5

LEMMA TakeVarTypes == Types /\ TakeVar => Types'
<1> SUFFICES ASSUME Types, TakeVar PROVE Types'
  OBVIOUS
<1>1. /\ ClausesOK(db) /\ IndexOK(db) /\ ~Freed /\ pc = "eliminate"
      /\ UNCHANGED <<input, loaded, trail, ok, bwdsub, scan, model>>
  BY IndexOf DEF TakeVar, Freed
<1>2. PICK v, d :
        /\ v \in Vars
        /\ LikeDb(d)
        /\ PassesOver(d) \/ VisitsClauses(d, v) \/ EliminateVar(d, v)
  BY <1>1, TakeVarCases
<1>3. CASE EliminateVar(d, v)
  BY <1>1, <1>2, <1>3, EliminateVarTypes
<1>4. CASE PassesOver(d) \/ VisitsClauses(d, v)
  <2>1. LikeDb(db')
    BY <1>2, <1>4, LikeDbFacts DEF PassesOver, VisitsClauses
  <2>2. /\ ClausesOK(db') /\ IndexOK(db') /\ Known' = Known
        /\ db'.lits = db.lits /\ db'.live = db.live /\ db'.queue = db.queue
    BY <2>1 DEF LikeDb, Alike, Known
  <2>3. FormulaOK' /\ DatabaseOK' /\ TrailOK' /\ Len(trail) \in Nat /\ Len(trail') = Len(trail)
    BY <1>1, <2>2, DatabaseStep
  <2>4. ScanOK'
    BY <1>1, <2>2, <2>3 DEF Types, ScanOK
  <2>5. CrossOK' /\ RestOK'
    <3>1. CASE PassesOver(d)
      BY <1>1, <2>2, <3>1, CrossKept, RestKept DEF Types, PassesOver, RestOK
    <3>2. CASE VisitsClauses(d, v)
      <4>1. db'.occurs[v] \in SUBSET Nat /\ IsFiniteSet(db'.occurs[v])
        <5>1. db'.occurs[v] \subseteq 1..Len(db'.lits)
          BY <1>2, <2>2 DEF ClausesOK
        <5>2. PICK n \in Nat : n = Len(db'.lits)
          BY <2>2, DatabaseIs
        <5>3. IsFiniteSet(1..n)
          BY FS_Interval
        <5> QED
          BY <5>1, <5>2, <5>3, FS_Subset
      <4>2. PICK s : s = Ascending(db'.occurs[v])
        OBVIOUS
      <4>3. s \in Seq(db'.occurs[v])
        BY <4>1, <4>2, AscendingFacts
      <4>4. s \in Seq(Nat)
        BY <4>1, <4>3
      <4>5. cross' = [v |-> v, todo |-> s] /\ pc' = "asymm" /\ UNCHANGED elimclauses
        BY <3>2, <4>2 DEF VisitsClauses
      <4> QED
        BY <1>1, <1>2, <4>4, <4>5, VarsAssumption
        DEF Types, CrossOK, RestOK, Procedures, Vars
    <3> QED
      BY <1>4, <3>1, <3>2
  <2> QED
    BY <2>3, <2>4, <2>5 DEF Types
<1> QED
  BY <1>2, <1>3, <1>4

LEMMA AsymmTypes == Types /\ Asymm => Types'
<1> SUFFICES ASSUME Types, Asymm PROVE Types'
  OBVIOUS
<1>1. ClausesOK(db) /\ IndexOK(db) /\ Len(db.lits) \in Nat /\ ~Freed
  BY IndexOf DEF Asymm, Freed
<1>2. PICK cr \in Nat, rest \in Seq(Nat) : cr = Head(cross.todo) /\ rest = Tail(cross.todo)
  <2>1. cross.todo \in Seq(Nat) /\ cross.todo # <<>>
    BY DEF Types, CrossOK, Asymm
  <2>2. \A s \in Seq(Nat) : s # <<>> => Head(s) \in Nat /\ Tail(s) \in Seq(Nat)
    OBVIOUS
  <2>3. Head(cross.todo) \in Nat /\ Tail(cross.todo) \in Seq(Nat)
    BY <2>1, <2>2
  <2> QED
    BY <2>3
<1>3. \/ UNCHANGED <<db, trail, ok>>
      \/ cr \in db.live /\ \E l \in db.lits[cr] : StrengthenClause(cr, l)
  BY <1>2 DEF Asymm
<1>4. /\ ClausesOK(db') /\ IndexOK(db') /\ db'.nvars = db.nvars
      /\ Len(db'.lits) = Len(db.lits)
      /\ TmpUnit \in ToSet(db'.queue) => TmpUnit \in ToSet(db.queue)
      /\ TrailOK' /\ Len(trail) \in Nat /\ Len(trail') \in Nat
      /\ Len(trail) <= Len(trail')
  <2>1. CASE UNCHANGED <<db, trail, ok>>
    BY <1>1, <2>1, TrailKept DEF Types, Known
  <2>2. ASSUME cr \in db.live, NEW l \in db.lits[cr], StrengthenClause(cr, l)
        PROVE  /\ ClausesOK(db') /\ IndexOK(db') /\ db'.nvars = db.nvars
               /\ Len(db'.lits) = Len(db.lits)
               /\ TmpUnit \in ToSet(db'.queue) => TmpUnit \in ToSet(db.queue)
               /\ TrailOK' /\ Len(trail) \in Nat /\ Len(trail') \in Nat
               /\ Len(trail) <= Len(trail')
    <3>1. cr \in Nat \ {0}
      BY <1>1, <2>2, LiveFacts
    <3> QED
      BY <1>1, <2>2, <3>1, StrengthenTypes DEF Types
  <2> QED
    BY <1>3, <2>1, <2>2
<1>5. FormulaOK' /\ DatabaseOK' /\ RestOK'
  BY <1>4, FormulaKept, DatabaseGiven, RestKept DEF Types, Asymm, Procedures
<1>6. ScanOK'
  <2>1. UNCHANGED <<bwdsub, scan>>
    BY DEF Asymm
  <2> QED
    BY <1>1, <1>4, <2>1, ScanKept DEF Types, ScanOK
<1>7. CrossOK'
  <2>1. PICK s \in Seq(Nat) : cross' = [cross EXCEPT !.todo = s]
    <3>1. \A s \in Seq(Nat) : s # <<>> => Tail(s) \in Seq(Nat)
      OBVIOUS
    <3>2. \/ cross' = [cross EXCEPT !.todo = rest]
          \/ /\ rest # <<>>
             /\ cross' = [cross EXCEPT !.todo = Tail(rest)]
      BY <1>2 DEF Asymm
    <3> QED
      BY <3>1, <3>2
  <2>2. pc' = "asymm" /\ cross.v \in Vars
    BY DEF Types, CrossOK, Asymm
  <2> QED
    BY <2>1, <2>2 DEF Types, CrossOK
<1> QED
  BY <1>4, <1>5, <1>6, <1>7 DEF Types

(* The resolvent of a pair of clauses of the variable.                     *)
LEMMA ResolventFacts ==
  ASSUME ClausesOK(db), NEW p \in db.live, NEW n \in db.live, NEW v
  PROVE  /\ Resolvent(db.lits[p], db.lits[n], v) \in SUBSET Lits
         /\ VarsOf(Resolvent(db.lits[p], db.lits[n], v)) \subseteq 1..db.nvars
<1>1. /\ db.lits[p] \in SUBSET Lits /\ VarsOf(db.lits[p]) \subseteq 1..db.nvars
      /\ db.lits[n] \in SUBSET Lits /\ VarsOf(db.lits[n]) \subseteq 1..db.nvars
  BY LiveFacts
<1> QED
  BY <1>1 DEF Resolvent, VarsOf

LEMMA ResolveHead ==
  ASSUME Types, Resolve
  PROVE  \E p \in db.live, n \in db.live, rest \in Seq(Nat \X Nat) :
           /\ cross.todo # <<>> /\ <<p, n>> = Head(cross.todo) /\ rest = Tail(cross.todo)
           /\ <<p, n>> \in ToSet(cross.todo)
           /\ ToSet(cross.todo) = {<<p, n>>} \cup ToSet(rest)
           /\ cross' = [cross EXCEPT !.todo = rest]
           /\ AddClause(db, Resolvent(db.lits[p], db.lits[n], cross.v))
<1>1. PICK s \in Seq(Nat \X Nat) : s = cross.todo /\ s # <<>>
  BY DEF Types, CrossOK, Resolve
<1>2. /\ Head(s) \in ToSet(s) /\ Tail(s) \in Seq(Nat \X Nat)
      /\ ToSet(s) = {Head(s)} \cup ToSet(Tail(s))
  BY <1>1, ToSetFacts
<1>3. ToSet(s) \subseteq db.live \X db.live
  BY <1>1 DEF Types, CrossOK, Resolve
<1>4. PICK p \in db.live, n \in db.live : <<p, n>> = Head(s)
  BY <1>2, <1>3
<1>5. AddClause(db, Resolvent(db.lits[p], db.lits[n], cross.v))
  <2>1. PICK q : q = Head(s)
    OBVIOUS
  <2>2. AddClause(db, Resolvent(db.lits[q[1]], db.lits[q[2]], cross.v))
    BY <1>1, <2>1 DEF Resolve
  <2>3. q[1] = p /\ q[2] = n
    BY <1>4, <2>1
  <2> QED
    BY <2>2, <2>3
<1>6. cross' = [cross EXCEPT !.todo = Tail(s)]
  BY <1>1 DEF Resolve
<1> QED
  BY <1>1, <1>2, <1>4, <1>5, <1>6

LEMMA ResolveTypes == Types /\ Resolve => Types'
<1> SUFFICES ASSUME Types, Resolve PROVE Types'
  OBVIOUS
<1>1. ClausesOK(db) /\ IndexOK(db) /\ Len(db.lits) \in Nat
  BY IndexOf DEF Resolve, Freed
<1>2. PICK p \in db.live, n \in db.live, rest \in Seq(Nat \X Nat) :
        /\ ToSet(cross.todo) = {<<p, n>>} \cup ToSet(rest)
        /\ cross' = [cross EXCEPT !.todo = rest]
        /\ AddClause(db, Resolvent(db.lits[p], db.lits[n], cross.v))
  BY ResolveHead
<1>3. /\ ClausesOK(db') /\ IndexOK(db') /\ Len(db.lits) <= Len(db'.lits)
      /\ TmpUnit \in ToSet(db'.queue) => TmpUnit \in ToSet(db.queue)
      /\ db.live \subseteq db'.live /\ db'.dirty = db.dirty
      /\ TrailOK' /\ Len(trail) \in Nat /\ Len(trail') \in Nat /\ Len(trail) <= Len(trail')
  BY <1>1, <1>2, ResolventFacts, AddClauseTypes DEF Types, Known
<1>4. FormulaOK' /\ DatabaseOK' /\ RestOK'
  BY <1>3, FormulaKept, DatabaseGiven, RestKept DEF Types, Resolve, Procedures
<1>5. ScanOK'
  <2>1. UNCHANGED <<bwdsub, scan>> /\ Len(db'.lits) \in Nat
    BY <1>3, DatabaseIs DEF Resolve
  <2> QED
    BY <1>1, <1>3, <2>1, ScanKept DEF Types, ScanOK
<1>6. CrossOK'
  <2>1. pc' = "resolve" /\ pc = "resolve" /\ cross.v \in Vars
    BY DEF Types, CrossOK, Resolve
  <2>2. cross'.todo = rest /\ cross'.v = cross.v /\ cross.v \notin db'.dirty
        /\ cross' \in [v : 0..MaxVar, todo : Seq(Nat) \cup Seq(Nat \X Nat)]
    BY <1>2, <1>3, <2>1 DEF Types, CrossOK
  <2>3. ToSet(rest) \subseteq db'.live \X db'.live
    <3>1. ToSet(cross.todo) \subseteq db.live \X db.live
      BY <2>1 DEF Types, CrossOK
    <3> QED
      BY <1>2, <1>3, <3>1
  <2> QED
    BY <2>1, <2>2, <2>3 DEF CrossOK
<1> QED
  BY <1>3, <1>4, <1>5, <1>6 DEF Types

(* The clauses of the variable are removed, and it has no list any more.   *)
WithoutVar(v, e) ==
  /\ ClausesOK(e) /\ IndexOK(e)
  /\ e.live = {cr \in db.live : v \notin VarsOf(db.lits[cr])}
  /\ e.lits = db.lits /\ e.nvars = db.nvars /\ e.eliminated = db.eliminated
  /\ e.queue = db.queue

LEMMA DropVarFacts ==
  ASSUME ClausesOK(db), IndexOK(db), cross.v \in Vars, cross.v \notin db.dirty, DropVar
  PROVE  WithoutVar(cross.v, db')
<1>1. PICK v \in Vars : v = cross.v
  OBVIOUS
<1>2. PICK crs \in SUBSET db.live : crs = db.occurs[v] /\ crs = WithVar(db, v)
  BY <1>1 DEF IndexOK
<1>3. PICK f : f = AllRemoved(db, crs)
  OBVIOUS
<1>4. /\ ClausesOK(f) /\ IndexOK(f)
      /\ f.live = db.live \ crs /\ f.lits = db.lits /\ f.nvars = db.nvars
      /\ f.eliminated = db.eliminated /\ f.queue = db.queue
  BY <1>3, AllRemovedFacts
<1>5. f \in Databases
  BY <1>4, DatabaseIs
<1>6. PICK o \in [Vars -> SUBSET Nat] :
        /\ o = [f.occurs EXCEPT ![v] = {}] /\ o[v] = {}
        /\ \A w \in Vars : w # v => o[w] = f.occurs[w]
  <2> DEFINE o == [f.occurs EXCEPT ![v] = {}]
  <2>1. /\ o \in [Vars -> SUBSET Nat] /\ o[v] = {}
        /\ \A w \in Vars : w # v => o[w] = f.occurs[w]
    BY <1>5 DEF Databases
  <2> QED
    BY <2>1
<1>7. db' = [f EXCEPT !.occurs = o]
  <2>1. db' = [f EXCEPT !.occurs[v] = {}]
    BY <1>1, <1>2, <1>3 DEF DropVar
  <2> QED
    BY <1>5, <1>6, <2>1 DEF Databases
<1>8. /\ db' \in Databases /\ db'.occurs = o /\ db'.live = f.live /\ db'.lits = f.lits
      /\ db'.nvars = f.nvars /\ db'.eliminated = f.eliminated /\ db'.queue = f.queue
      /\ db'.dirty = f.dirty /\ db'.nocc = f.nocc
  BY <1>5, <1>7 DEF Databases
<1>9. ClausesOK(db')
  BY <1>4, <1>6, <1>8 DEF ClausesOK
<1>10. IndexOK(db')
  <2>1. \A w \in Vars : WithVar(db', w) = WithVar(f, w)
    BY <1>8 DEF WithVar
  <2>2. \A l \in Lits : WithLit(db', l) = WithLit(f, l)
    BY <1>8 DEF WithLit
  <2>3. WithVar(f, v) = {}
    BY <1>2, <1>4 DEF WithVar
  <2>4. ASSUME NEW w \in Vars
        PROVE  /\ db'.occurs[w] \cap db'.live = WithVar(db', w)
               /\ w \notin db'.dirty => db'.occurs[w] \subseteq db'.live
    <3>1. CASE w = v
      BY <1>6, <1>8, <2>1, <2>3, <3>1
    <3>2. CASE w # v
      BY <1>4, <1>6, <1>8, <2>1, <3>2 DEF IndexOK
    <3> QED
      BY <3>1, <3>2
  <2>5. \A l \in Lits : db'.nocc[l] = Cardinality(WithLit(db', l))
    BY <1>4, <1>8, <2>2 DEF IndexOK
  <2> QED
    BY <2>4, <2>5 DEF IndexOK
<1>11. db'.live = {cr \in db.live : v \notin VarsOf(db.lits[cr])}
  BY <1>2, <1>4, <1>8 DEF WithVar
<1> QED
  BY <1>1, <1>4, <1>8, <1>9, <1>10, <1>11 DEF WithoutVar

LEMMA DropVarTypes == Types /\ DropVar => Types'
<1> SUFFICES ASSUME Types, DropVar PROVE Types'
  OBVIOUS
<1>1. ClausesOK(db) /\ IndexOK(db) /\ Len(db.lits) \in Nat
  BY IndexOf DEF DropVar, Freed
<1>2. cross.v \in Vars /\ cross.v \notin db.dirty
  BY DEF Types, CrossOK, DropVar
<1>3. /\ ClausesOK(db') /\ IndexOK(db')
      /\ db'.lits = db.lits /\ db'.nvars = db.nvars /\ db'.queue = db.queue
  BY <1>1, <1>2, DropVarFacts DEF WithoutVar
<1>4. FormulaOK' /\ DatabaseOK' /\ TrailOK' /\ Len(trail) \in Nat /\ Len(trail') = Len(trail)
  BY <1>3, DatabaseStep DEF DropVar, Known
<1>5. ScanOK'
  BY <1>3, <1>4 DEF Types, ScanOK, DropVar
<1>6. CrossOK' /\ RestOK'
  BY VarsAssumption DEF Types, DropVar, CrossOK, NoCross, RestOK, Procedures
<1> QED
  BY <1>4, <1>5, <1>6 DEF Types

(* The indexes are freed, the clauses stay.                                *)
Frees(e) ==
  /\ ClausesOK(e) /\ \A l \in Lits : e.nocc[l] \in Nat
  /\ Alike(db, e) /\ e.queue = <<>>

LEMMA CleanupFacts ==
  ASSUME ClausesOK(db), Cleanup
  PROVE  Frees(db')
<1>1. db \in Databases /\ EmptyDatabase \in Databases
  BY DatabaseIs, VarsAssumption DEF EmptyDatabase, Databases
<1>2. PICK ls \in Seq(SUBSET Lits), live \in SUBSET Nat, n \in 0..MaxVar, el \in SUBSET Vars :
        ls = db.lits /\ live = db.live /\ n = db.nvars /\ el = db.eliminated
  BY <1>1 DEF Databases
<1>3. db' = [EmptyDatabase EXCEPT !.lits = ls, !.live = live, !.nvars = n,
                                  !.eliminated = el]
  BY <1>2 DEF Cleanup
<1>4. /\ db' \in Databases /\ db'.lits = ls /\ db'.live = live /\ db'.nvars = n
      /\ db'.eliminated = el /\ db'.queue = <<>>
      /\ db'.occurs = [v \in Vars |-> {}] /\ db'.nocc = [l \in Lits |-> 0]
  BY <1>1, <1>3 DEF Databases, EmptyDatabase
<1>5. ToSet(db'.queue) \subseteq 0..Len(db'.lits)
  BY <1>4 DEF ToSet
<1>6. ClausesOK(db')
  BY <1>2, <1>4, <1>5 DEF ClausesOK
<1>7. \A l \in Lits : db'.nocc[l] \in Nat
  BY <1>4
<1> QED
  BY <1>2, <1>4, <1>6, <1>7 DEF Frees, Alike

LEMMA CleanupTypes == Types /\ Cleanup => Types'
<1> SUFFICES ASSUME Types, Cleanup PROVE Types'
  OBVIOUS
<1>1. Frees(db')
  BY CleanupFacts DEF Types, DatabaseOK
<1>2. Known' = Known /\ db'.lits = db.lits /\ pc' = "solve"
  BY <1>1 DEF Frees, Alike, Known, Cleanup
<1>3. FormulaOK' /\ DatabaseOK' /\ RestOK'
  BY <1>1, <1>2, FormulaKept, RestKept DEF Types, Cleanup, DatabaseOK, Freed, Frees, Procedures
<1>4. TrailOK' /\ Len(trail) \in Nat /\ Len(trail') = Len(trail)
  BY <1>2, TrailKept DEF Types, Cleanup
<1>5. ScanOK'
  <2>1. ToSet(db'.queue) = {}
    BY <1>1 DEF Frees, ToSet
  <2> QED
    BY <1>2, <1>4, <2>1 DEF Types, ScanOK, Cleanup
<1>6. CrossOK'
  BY <1>2, CrossKept DEF Types, Cleanup
<1> QED
  BY <1>3, <1>4, <1>5, <1>6 DEF Types

LEMMA SolveTypes == Types /\ Solve => Types'
<1> SUFFICES ASSUME Types, Solve PROVE Types'
  OBVIOUS
<1>1. /\ UNCHANGED <<input, loaded, db, trail, elimclauses, bwdsub, scan, cross>>
      /\ pc = "solve" /\ pc' \in {"solve", "extend"} /\ ok' \in BOOLEAN
      /\ model' \subseteq Lits
  <2>1. ASSUME NEW b \in Solutions PROVE b \subseteq Lits
    <3>1. Known \subseteq Vars
      BY DatabaseIs, VarsAssumption DEF Types, DatabaseOK, Known, Vars
    <3> QED
      BY <3>1, AssignmentIs DEF Solutions
  <2> QED
    BY <2>1 DEF Solve, Types, RestOK, TrailOK
<1>2. FormulaOK' /\ DatabaseOK' /\ Known' = Known
  BY <1>1, FormulaKept, DatabaseKept DEF Types, Freed
<1>3. TrailOK' /\ ScanOK' /\ CrossOK' /\ RestOK'
  BY <1>1, <1>2 DEF Types, TrailOK, Assigned, ScanOK, CrossOK, RestOK, Procedures
<1> QED
  BY <1>2, <1>3 DEF Types

LEMMA ExtendTypes == Types /\ Extend => Types'
<1> SUFFICES ASSUME Types, Extend PROVE Types'
  OBVIOUS
<1>1. PICK s \in Seq(Lits \X SUBSET Lits) : s = elimclauses /\ s # <<>>
  BY DEF Types, RestOK, Extend
<1>2. Front(s) \in Seq(Lits \X SUBSET Lits) /\ Last(s) \in Lits \X SUBSET Lits
  <2>1. Len(s) \in Nat /\ Len(s) # 0
    BY <1>1
  <2>2. Last(s) = s[Len(s)] /\ Front(s) = SubSeq(s, 1, Len(s) - 1)
    BY DEF Last, Front
  <2> QED
    BY <2>1, <2>2
<1>3. PICK e \in Lits \X SUBSET Lits : e = Last(elimclauses)
  BY <1>1, <1>2
<1>4. model' \subseteq Lits
  <2>1. model' = model \/ model' = (model \ {-e[1]}) \cup {e[1]}
    BY <1>3 DEF Extend
  <2> QED
    BY <2>1 DEF Types, RestOK
<1>5. elimclauses' \in Seq(Lits \X SUBSET Lits)
  BY <1>1, <1>2 DEF Extend
<1>6. FormulaOK' /\ DatabaseOK' /\ Known' = Known
  BY FormulaKept, DatabaseKept DEF Types, Freed, Extend
<1>7. TrailOK' /\ ScanOK' /\ CrossOK' /\ RestOK'
  BY <1>4, <1>5, <1>6
  DEF Types, TrailOK, Assigned, ScanOK, CrossOK, RestOK, Procedures, Extend
<1> QED
  BY <1>6, <1>7 DEF Types

LEMMA FinishedTypes == Types /\ UNCHANGED vars => Types'
BY DEF Types, vars, input, FormulaOK, DatabaseOK, Freed, TrailOK, Assigned, Known, ScanOK,
       CrossOK, RestOK

LEMMA NextTypes == Types /\ [Next]_vars => Types'
<1> SUFFICES ASSUME Types, [Next]_vars PROVE Types'
  OBVIOUS
<1>1. CASE Next
  BY <1>1, PropagateTypes, LoadTypes, GatherTypes, TakeAssignmentTypes, TakeClauseTypes,
     SubsumeTypes, PassingTypes, TakeVarTypes, AsymmTypes, EliminateTypes, ResolveTypes,
     DropVarTypes, CleanupTypes, SolveTypes, ExtendTypes, FinishedTypes, Zenon
  DEF Next, Finished
<1> QED
  BY <1>1, FinishedTypes

(* For every formula and every choice of the options: the occurrence lists *)
(* (once cleaned) and the counters of the literals are those of the        *)
(* clauses, through lazy removals and strengthenings, and lists and queue  *)
(* refer to clauses there are.                                             *)
THEOREM IndexesStayExact == Spec => []IndexesExact
BY InitTypes, NextTypes, TypesExact, PTL DEF Spec

-----------------------------------------------------------------------------
(* What is stored for the variables eliminated: from each set of S the     *)
(* clauses of E, the last one first, lead to a set of O.                   *)
Applied(e, m) ==
  IF \A l \in e[2] : -l \in m /\ l \notin m THEN (m \ {-e[1]}) \cup {e[1]} ELSE m
Leads(E, M) == \A k \in 1..Len(E) : \A m \in M[k] : Applied(E[k], m) \in M[k - 1]
Stages(E) == [0..Len(E) -> SUBSET SUBSET Lits]
Extends(E, S, O) ==
  \E M \in Stages(E) : M[0] \subseteq O /\ S \subseteq M[Len(E)] /\ Leads(E, M)
Entries == Lits \X SUBSET Lits

LEMMA ExtendsNothing ==
  ASSUME NEW O \in SUBSET SUBSET Lits, NEW S \in SUBSET O
  PROVE  Extends(<<>>, S, O)
<1> DEFINE M == [k \in 0..Len(<<>>) |-> O]
<1>1. Len(<<>>) = 0
  OBVIOUS
<1>2. M \in Stages(<<>>) /\ M[0] = O
  BY <1>1 DEF Stages
<1>3. Leads(<<>>, M)
  BY <1>1 DEF Leads
<1> HIDE DEF M
<1> QED
  BY <1>1, <1>2, <1>3 DEF Extends

LEMMA ExtendsFewer ==
  ASSUME NEW E, NEW S, NEW O, Extends(E, S, O), NEW T \in SUBSET S
  PROVE  Extends(E, T, O)
BY DEF Extends

(* What is stored, followed by more.                                       *)
LeadsFrom(B, G) == \A k \in 1..Len(B) : \A m \in G[k] : Applied(B[k], m) \in G[k - 1]
LEMMA ExtendsJoin ==
  ASSUME NEW E \in Seq(Entries), NEW B \in Seq(Entries), NEW S, NEW O, Extends(E, S, O),
         NEW G \in [0..Len(B) -> SUBSET SUBSET Lits], G[0] \subseteq S, LeadsFrom(B, G)
  PROVE  Extends(E \o B, G[Len(B)], O)
<1>1. PICK M \in Stages(E) : M[0] \subseteq O /\ S \subseteq M[Len(E)] /\ Leads(E, M)
  BY DEF Extends
<1>2. PICK n \in Nat : n = Len(E)
  OBVIOUS
<1>3. PICK j \in Nat : j = Len(B)
  OBVIOUS
<1>4. PICK F : F = E \o B
  OBVIOUS
<1>5. /\ F \in Seq(Entries) /\ Len(F) = n + j
      /\ \A k \in 1..n : F[k] = E[k]
      /\ \A k \in 1..j : F[n + k] = B[k]
  BY <1>2, <1>3, <1>4
<1>6. PICK N : N = [k \in 0..(n + j) |-> IF k < n THEN M[k] ELSE G[k - n]]
  OBVIOUS
<1>7. /\ \A k \in 0..(n + j) : k < n => k \in 0..n /\ N[k] = M[k]
      /\ \A k \in 0..(n + j) : k >= n => k - n \in 0..j /\ N[k] = G[k - n]
      /\ DOMAIN N = 0..(n + j)
  BY <1>6
<1>8. ASSUME NEW k \in 0..(n + j) PROVE N[k] \in SUBSET SUBSET Lits
  <2>1. CASE k < n
    BY <1>1, <1>2, <1>7, <2>1 DEF Stages
  <2>2. CASE k >= n
    BY <1>3, <1>7, <2>2
  <2> QED
    BY <2>1, <2>2
<1>9. N \in Stages(F)
  <2>1. N = [k \in 0..(n + j) |-> N[k]]
    BY <1>6
  <2>2. N \in [0..(n + j) -> SUBSET SUBSET Lits]
    BY <1>8, <2>1, Zenon
  <2> QED
    BY <1>5, <2>2 DEF Stages
<1>10. N[0] \subseteq O
  <2>1. CASE n = 0
    <3>1. N[0] = G[0]
      BY <1>7, <2>1
    <3> QED
      BY <1>1, <1>2, <2>1, <3>1
  <2>2. CASE n # 0
    <3>1. N[0] = M[0]
      BY <1>7, <2>2
    <3> QED
      BY <1>1, <3>1
  <2> QED
    BY <2>1, <2>2
<1>11. N[n + j] = G[j]
  <2>1. n + j \in 0..(n + j) /\ n + j >= n /\ (n + j) - n = j
    OBVIOUS
  <2> QED
    BY <1>7, <2>1
<1>12. ASSUME NEW k \in 1..(n + j), NEW m \in N[k]
       PROVE  Applied(F[k], m) \in N[k - 1]
  <2>1. CASE k <= n
    <3>1. k \in 1..n /\ k - 1 \in 0..(n + j) /\ k - 1 < n /\ k \in 0..(n + j)
      BY <2>1
    <3>2. m \in M[k]
      <4>1. CASE k < n
        BY <1>7, <1>12, <3>1, <4>1
      <4>2. CASE k = n
        <5>1. N[k] = G[0]
          <6>1. k - n = 0 /\ k >= n
            BY <4>2
          <6> QED
            BY <1>7, <3>1, <6>1
        <5> QED
          BY <1>1, <1>2, <1>12, <4>2, <5>1
      <4> QED
        BY <2>1, <4>1, <4>2
    <3>3. Applied(E[k], m) \in M[k - 1]
      BY <1>1, <1>2, <3>1, <3>2 DEF Leads
    <3> QED
      BY <1>5, <1>7, <3>1, <3>3
  <2>2. CASE k > n
    <3>1. PICK i \in 1..j : k = n + i
      <4>1. k - n \in 1..j /\ k = n + (k - n)
        BY <2>2
      <4> QED
        BY <4>1
    <3>2. k \in 0..(n + j) /\ k - 1 \in 0..(n + j) /\ k >= n /\ k - 1 >= n
      BY <2>2
    <3>3. N[k] = G[k - n] /\ N[k - 1] = G[(k - 1) - n] /\ F[k] = B[i]
      BY <1>5, <1>7, <3>1, <3>2
    <3>4. k - n = i /\ (k - 1) - n = i - 1
      BY <3>1
    <3>5. Applied(B[i], m) \in G[i - 1]
      BY <1>3, <1>12, <3>1, <3>3, <3>4 DEF LeadsFrom
    <3> QED
      BY <3>3, <3>4, <3>5
  <2> QED
    BY <2>1, <2>2
<1>13. Leads(F, N)
  BY <1>5, <1>12 DEF Leads
<1> QED
  BY <1>3, <1>4, <1>5, <1>9, <1>10, <1>11, <1>13 DEF Extends

LEMMA ExtendsByLast ==
  ASSUME NEW E \in Seq(Entries), E # <<>>, NEW m, NEW O, Extends(E, {m}, O)
  PROVE  Extends(Front(E), {Applied(Last(E), m)}, O)
<1>1. PICK M \in Stages(E) : M[0] \subseteq O /\ m \in M[Len(E)] /\ Leads(E, M)
  BY DEF Extends
<1>2. PICK n \in Nat : Len(E) = n + 1
  <2>1. Len(E) - 1 \in Nat /\ Len(E) = (Len(E) - 1) + 1
    OBVIOUS
  <2> QED
    BY <2>1
<1>3. PICK F : F = Front(E)
  OBVIOUS
<1>4. Len(F) = n /\ \A k \in 1..n : F[k] = E[k]
  <2>1. F = SubSeq(E, 1, n)
    BY <1>2, <1>3 DEF Front
  <2> QED
    BY <1>2, <2>1
<1>5. PICK N : N = [k \in 0..n |-> M[k]]
  OBVIOUS
<1>6. N \in Stages(F) /\ \A k \in 0..n : N[k] = M[k]
  BY <1>1, <1>2, <1>4, <1>5 DEF Stages
<1>7. Last(E) = E[n + 1]
  BY <1>2 DEF Last
<1>8. Applied(E[n + 1], m) \in M[n]
  <2>1. n + 1 \in 1..Len(E) /\ (n + 1) - 1 = n
    BY <1>2
  <2>2. Applied(E[n + 1], m) \in M[(n + 1) - 1]
    BY <1>1, <1>2, <2>1 DEF Leads
  <2> QED
    BY <2>1, <2>2
<1>9. Leads(F, N)
  <2>1. ASSUME NEW k \in 1..n, NEW x \in N[k] PROVE Applied(F[k], x) \in N[k - 1]
    <3>1. k \in 0..n /\ k - 1 \in 0..n /\ k \in 1..Len(E)
      BY <1>2
    <3>2. Applied(E[k], x) \in M[k - 1]
      BY <1>1, <1>6, <2>1, <3>1 DEF Leads
    <3> QED
      BY <1>4, <1>6, <3>1, <3>2
  <2> QED
    BY <1>4, <2>1 DEF Leads
<1>10. N[0] \subseteq O /\ {Applied(Last(E), m)} \subseteq N[Len(F)]
  BY <1>1, <1>4, <1>6, <1>7, <1>8
<1> QED
  BY <1>3, <1>6, <1>9, <1>10 DEF Extends

LEMMA ExtendsEnds ==
  ASSUME NEW m, NEW O, Extends(<<>>, {m}, O)
  PROVE  m \in O
BY DEF Extends

(* No variable changes but those of the clauses stored, and none gets two  *)
(* values.                                                                 *)
LEMMA AppliedKeepsValues ==
  ASSUME NEW e \in Entries, NEW vs, Var(e[1]) \notin vs, NEW a \in SUBSET Lits
  PROVE  /\ Over(Applied(e, a), vs) = Over(a, vs)
         /\ Sharp(a) => Sharp(Applied(e, a))
<1>1. PICK x : x = e[1]
  OBVIOUS
<1>2. x \in Lits /\ -x \in Lits /\ Var(x) \notin vs /\ Var(-x) \notin vs /\ -(-x) = x
      /\ -x # x
  BY <1>1, LitFacts DEF Entries
<1>3. PICK m : m = (a \ {-x}) \cup {x}
  OBVIOUS
<1>4. Over(m, vs) = Over(a, vs)
  BY <1>2, <1>3 DEF Over
<1>5. ASSUME Sharp(a), NEW l \in m PROVE -l \notin m
  <2>1. CASE l = x
    BY <1>2, <1>3, <2>1
  <2>2. CASE l # x
    <3>1. l \in a /\ l # -x /\ l \in Lits
      BY <1>3, <2>2
    <3>2. -l \notin a /\ -(-l) = l
      BY <1>5, <3>1, LitFacts DEF Sharp
    <3>3. -l # x
      BY <3>1, <3>2
    <3> QED
      BY <1>3, <3>2, <3>3
  <2> QED
    BY <2>1, <2>2
<1>6. Sharp(a) => Sharp(m)
  BY <1>5 DEF Sharp
<1>7. Applied(e, a) \in {m, a}
  BY <1>1, <1>3 DEF Applied
<1> QED
  BY <1>4, <1>6, <1>7

LEMMA ExtendsKeepsValues ==
  ASSUME NEW E \in Seq(Entries), NEW S, NEW O, Extends(E, S, O), NEW b \in S,
         NEW vs, \A k \in 1..Len(E) : Var(E[k][1]) \notin vs
  PROVE  \E a \in O : Over(a, vs) = Over(b, vs) /\ (Sharp(b) => Sharp(a))
<1>1. PICK M \in Stages(E) : M[0] \subseteq O /\ S \subseteq M[Len(E)] /\ Leads(E, M)
  BY DEF Extends
<1>2. PICK n \in Nat : n = Len(E)
  OBVIOUS
<1> DEFINE Same(a) == Over(a, vs) = Over(b, vs) /\ (Sharp(b) => Sharp(a))
           T == {j \in Nat : j <= n => \E a \in M[n - j] : Same(a)}
<1>3. 0 \in T
  BY <1>1, <1>2
<1>4. ASSUME NEW j \in Nat, j \in T PROVE j + 1 \in T
  <2> SUFFICES ASSUME j + 1 <= n
               PROVE  \E a \in M[n - (j + 1)] : Same(a)
    OBVIOUS
  <2>1. PICK a \in M[n - j] : Same(a)
    BY <1>4
  <2>2. PICK k \in 1..n : k = n - j
    OBVIOUS
  <2>3. PICK e \in Entries : e = E[k]
    BY <1>2
  <2>4. Applied(e, a) \in M[k - 1]
    BY <1>1, <1>2, <2>1, <2>2, <2>3 DEF Leads
  <2>5. a \in SUBSET Lits /\ Var(e[1]) \notin vs
    <3>1. k \in 0..Len(E) /\ a \in M[k]
      BY <1>2, <2>1, <2>2
    <3> QED
      BY <1>1, <1>2, <2>3, <3>1 DEF Stages
  <2>6. Same(Applied(e, a))
    BY <2>1, <2>5, AppliedKeepsValues
  <2>7. k - 1 = n - (j + 1)
    BY <2>2
  <2> QED
    BY <2>4, <2>6, <2>7
<1> HIDE DEF T
<1>5. n \in T
  BY <1>3, <1>4, SetInduction
<1>6. \E a \in M[n - n] : Same(a)
  BY <1>5 DEF T
<1>7. n - n = 0
  OBVIOUS
<1> QED
  BY <1>1, <1>6, <1>7

-----------------------------------------------------------------------------
(* What the state means: the models of the file, those of the clauses that *)
(* are left, and the variables that were eliminated and have no value.     *)
File == ToSet(SubSeq(formula, 1, loaded))
Origin == {a \in SetsOfLits(Known) : Models(a, File)}
Unfalsified == {a \in Loose(Known) : Models(a, File)}
Sat(b) == Models(b, LiveClauses) /\ Assigned \subseteq b
Sure(b) == \A l \in Assigned : -l \notin b
LiveVars == UNION {VarsOf(db.lits[cr]) : cr \in db.live}
Done == IF pc = "resolve" THEN db.eliminated \ {cross.v} ELSE db.eliminated
Gone == Done \cap Unassigned
Left == Known \ Gone
Remaining == {b \in Loose(Left) : Sat(b) /\ Sure(b)}

LEMMA FileIs ==
  ASSUME FormulaOK
  PROVE  File = {formula[i] : i \in 1..loaded} /\ File \subseteq SUBSET Lits
<1>1. PICK s : s = SubSeq(formula, 1, loaded)
  OBVIOUS
<1>2. loaded \in Nat /\ loaded <= Len(formula) /\ Len(formula) \in Nat
  BY DEF FormulaOK
<1>3. s \in Seq(SUBSET Lits) /\ Len(s) = loaded /\ \A i \in 1..loaded : s[i] = formula[i]
  BY <1>1, <1>2 DEF FormulaOK
<1>4. ToSet(s) = {s[i] : i \in 1..Len(s)} /\ ToSet(s) \subseteq SUBSET Lits
  BY <1>3, ToSetFacts
<1>5. {s[i] : i \in 1..loaded} = {formula[i] : i \in 1..loaded}
  BY <1>3
<1> QED
  BY <1>1, <1>3, <1>4, <1>5 DEF File

LEMMA SatIs ==
  ASSUME NEW b
  PROVE  Sat(b) <=> /\ \A cr \in db.live : b \cap db.lits[cr] # {}
                    /\ Assigned \subseteq b
BY DEF Sat, Models, LiveClauses

LEMMA SatNext ==
  ASSUME NEW b
  PROVE  Sat(b)' <=> /\ \A cr \in db'.live : b \cap db'.lits[cr] # {}
                     /\ Assigned' \subseteq b
BY DEF Sat, Models, LiveClauses

LEMMA LiveVarsFacts ==
  ASSUME Types
  PROVE  /\ LiveVars \subseteq Known /\ Known \subseteq Vars
         /\ \A cr \in db.live : VarsOf(db.lits[cr]) \subseteq LiveVars
         /\ \A cr \in db.live : \A l \in db.lits[cr] :
              l \in Lits /\ Var(l) \in LiveVars /\ -l \notin db.lits[cr]
         /\ Assigned \subseteq Lits
         /\ \A l \in Assigned : Var(l) \in Known \ Unassigned /\ -l \notin Assigned
<1>1. ClausesOK(db) /\ db.nvars \in 0..MaxVar
  BY DatabaseIs DEF Types, DatabaseOK
<1>2. Known \subseteq Vars
  BY <1>1, VarsAssumption DEF Known, Vars
<1>3. ASSUME NEW cr \in db.live
      PROVE  /\ VarsOf(db.lits[cr]) \subseteq Known
             /\ VarsOf(db.lits[cr]) \subseteq LiveVars
             /\ \A l \in db.lits[cr] :
                  l \in Lits /\ Var(l) \in LiveVars /\ -l \notin db.lits[cr]
  <2>1. /\ db.lits[cr] \in SUBSET Lits /\ VarsOf(db.lits[cr]) \subseteq 1..db.nvars
        /\ ~Tautology(db.lits[cr])
    BY <1>1, LiveFacts
  <2>2. VarsOf(db.lits[cr]) \subseteq LiveVars
    BY DEF LiveVars
  <2>3. \A l \in db.lits[cr] : Var(l) \in VarsOf(db.lits[cr])
    BY DEF VarsOf
  <2> QED
    BY <2>1, <2>2, <2>3 DEF Known, Tautology
<1>4. LiveVars \subseteq Known
  BY <1>3, Zenon DEF LiveVars
<1>5. Assigned \subseteq Lits
  BY ToSetFacts DEF Types, TrailOK, Assigned
<1>6. ASSUME NEW l \in Assigned PROVE Var(l) \in Known \ Unassigned /\ -l \notin Assigned
  <2>1. Var(l) \in Known /\ -l \notin Assigned
    BY DEF Types, TrailOK
  <2>2. l = Var(l) \/ l = -Var(l)
    BY <1>5, LitFacts
  <2>3. Var(l) \notin Unassigned
    BY <2>2 DEF Unassigned
  <2> QED
    BY <2>1, <2>3
<1> QED
  BY <1>2, <1>3, <1>4, <1>5, <1>6

(* A model of the clauses is one with any values of the other variables.   *)
LEMMA Restricted ==
  ASSUME Types, NEW vs \in SUBSET Vars, NEW ws \in SUBSET vs, LiveVars \subseteq ws,
         Known \ Unassigned \subseteq ws, NEW b \in Loose(vs), Sat(b)
  PROVE  /\ Over(b, ws) \in Loose(ws) /\ Sat(Over(b, ws))
         /\ Sure(b) => Sure(Over(b, ws))
         /\ Sharp(b) => Sharp(Over(b, ws))
<1>1. PICK a : a = Over(b, ws)
  OBVIOUS
<1>2. /\ a \in Loose(ws) /\ a \subseteq b /\ (Sharp(b) => Sharp(a))
      /\ \A c \in SUBSET Lits : VarsOf(c) \subseteq ws => a \cap c = b \cap c
  BY <1>1, OverIs
<1>3. ASSUME NEW cr \in db.live PROVE a \cap db.lits[cr] # {}
  <2>1. db.lits[cr] \in SUBSET Lits /\ VarsOf(db.lits[cr]) \subseteq ws
    BY LiveVarsFacts
  <2>2. b \cap db.lits[cr] # {}
    BY SatIs
  <2> QED
    BY <1>2, <2>1, <2>2
<1>4. Assigned \subseteq a
  <2>1. Assigned \subseteq b
    BY SatIs
  <2>2. \A l \in Assigned : Var(l) \in ws
    BY LiveVarsFacts
  <2> QED
    BY <1>1, <2>1, <2>2 DEF Over
<1>5. Sat(a)
  BY <1>3, <1>4, SatIs
<1>6. Sure(b) => Sure(a)
  BY <1>2 DEF Sure
<1> QED
  BY <1>1, <1>2, <1>5, <1>6

(* A set of literals with a value for each variable.                       *)
LEMMA LooseFacts ==
  ASSUME NEW vs \in SUBSET Vars, NEW b \in Loose(vs)
  PROVE  /\ b \subseteq Lits
         /\ \A c \in SUBSET Lits : VarsOf(c) \subseteq vs /\ b \cap c = {} =>
              \A l \in c : -l \in b
<1>1. /\ b \subseteq Lits
      /\ \A l \in b : Var(l) \in vs
      /\ \A v \in vs : v \in b \/ -v \in b
  BY DEF Loose
<1>2. ASSUME NEW c \in SUBSET Lits, VarsOf(c) \subseteq vs, b \cap c = {}, NEW l \in c
      PROVE  -l \in b
  <2>1. Var(l) \in vs /\ l \in Lits /\ l \notin b
    BY <1>2 DEF VarsOf
  <2>2. Var(l) \in b \/ -Var(l) \in b
    BY <1>1, <2>1
  <2>3. -(-l) = l /\ (l = Var(l) \/ l = -Var(l)) /\ Var(l) \in Vars
    BY <2>1, LitFacts
  <2>4. -(-Var(l)) = Var(l)
    BY <2>3, VarFacts, LitFacts
  <2> QED
    BY <2>1, <2>2, <2>3, <2>4
<1> QED
  BY <1>1, <1>2

LEMMA ValuesFacts ==
  ASSUME NEW vs \in SUBSET Vars, NEW b \in SetsOfLits(vs)
  PROVE  /\ b \subseteq Lits /\ \A l \in b : -l \notin b
         /\ \A c \in SUBSET Lits : VarsOf(c) \subseteq vs /\ b \cap c = {} =>
              \A l \in c : -l \in b
<1>1. b \in Loose(vs) /\ Sharp(b)
  BY SharpIs
<1> QED
  BY <1>1, LooseFacts DEF Sharp

(* A model with one value for each variable agrees with the assignments.   *)
LEMMA SharpIsSure ==
  ASSUME NEW b, Sharp(b), Sat(b)
  PROVE  Sure(b)
BY SatIs DEF Sharp, Sure

-----------------------------------------------------------------------------
(* The invariant on what the state means.                                  *)
FileOK ==
  /\ \A c \in File : VarsOf(c) \subseteq Known
  /\ db.eliminated \subseteq Known
  /\ pc # "load" => loaded = Len(formula)
  /\ pc = "load" => db.eliminated = {} /\ elimclauses = <<>> /\ cross = NoCross
Implied == \A a \in Origin : ok /\ Sat(a)
Apart ==
  /\ LiveVars \cap Done = {}
  /\ cross # NoCross /\ pc # "resolve" => cross.v \notin db.eliminated
  /\ pc = "resolve" => cross.v \in db.eliminated \cap Known
  /\ Freed => Settled
  /\ \A k \in 1..Len(elimclauses) : Var(elimclauses[k][1]) \in db.eliminated

(* While a variable is eliminated: a pair of its clauses is still to visit *)
(* or its resolvent is implied, and the variable was given a value only by *)
(* a clause whose other literals are false.                                *)
Covered(R) ==
  Tautology(R) \/ R \cap Assigned # {} \/ \E cr \in db.live : db.lits[cr] \subseteq R
Forced(l) ==
  \E cr \in WithLit(db, l) : \A k \in db.lits[cr] \ {l} : -k \in Assigned
Resolving ==
  /\ ToSet(cross.todo) \subseteq WithLit(db, cross.v) \X WithLit(db, -cross.v)
  /\ \A p \in WithLit(db, cross.v), n \in WithLit(db, -cross.v) :
       \/ <<p, n>> \in ToSet(cross.todo)
       \/ Covered(Resolvent(db.lits[p], db.lits[n], cross.v))
  /\ \A l \in Assigned : Var(l) = cross.v => Forced(l)

(* What is stored for a variable: the clauses with one of its literals,    *)
(* and the other as its default value.                                     *)
Block(B, l) ==
  /\ Len(B) > 0 /\ B[Len(B)] = <<-l, {}>>
  /\ \A i \in 1..(Len(B) - 1) :
       \E cr \in WithLit(db, l) : B[i] = <<l, db.lits[cr] \ {l}>>
  /\ \A cr \in WithLit(db, l) :
       \E i \in 1..(Len(B) - 1) : B[i] = <<l, db.lits[cr] \ {l}>>
InBlock ==
  \E E \in Seq(Entries), B \in Seq(Entries), l \in {cross.v, -cross.v} :
    elimclauses = E \o B /\ Extends(E, Remaining, Unfalsified) /\ Block(B, l)
Chain ==
  ok => /\ pc \notin {"resolve", "extend"} => Extends(elimclauses, Remaining, Unfalsified)
        /\ pc = "resolve" => Resolving /\ InBlock

(* The model extended so far: the variables that are left or were given a  *)
(* value, as a set that is loose on those the search left without one.     *)
Reached == Known \ ((db.eliminated \cap Unassigned) \ VarsOf(model))
Possible == {l \in Lits : Var(l) \in Reached /\ -l \notin model}
ModelOK ==
  /\ \A l \in model : Var(l) \in Known /\ -l \notin model
  /\ Known \ VarsOf(model) \subseteq Unassigned
  /\ Models(model, LiveClauses)
Extending ==
  pc = "extend" => ok /\ SameModels /\ ModelOK
                   /\ Extends(elimclauses, {Possible}, Unfalsified)
Meaning == FileOK /\ Implied /\ Apart /\ Chain /\ Extending

(* A step after which the clauses and assignments say the same.            *)
SameMeaning ==
  \A vs \in SUBSET Vars : \A b : LiveVars \subseteq vs /\ b \in Loose(vs) =>
    /\ ok' /\ Sat(b)' => Sat(b)
    /\ Sharp(b) /\ Sat(b) => ok' /\ Sat(b)'
Steady ==
  /\ UNCHANGED <<input, loaded, elimclauses>>
  /\ db'.nvars = db.nvars /\ db'.eliminated = db.eliminated /\ Done' = Done
  /\ Assigned \subseteq Assigned'
  /\ \A l \in Assigned' : l \in Assigned \/ Var(l) \in LiveVars
  /\ LiveVars' \subseteq LiveVars
  /\ SameMeaning

LEMMA SteadyUnassigned ==
  ASSUME Types, Types', Steady, NEW v \in Known, v \notin LiveVars
  PROVE  v \in Unassigned <=> v \in Unassigned'
<1>1. Known' = Known /\ v \in Vars
  BY LiveVarsFacts DEF Known, Steady
<1>2. Var(v) = v /\ Var(-v) = v
  BY <1>1, VarFacts
<1>3. v \in Assigned' <=> v \in Assigned
  BY <1>2 DEF Steady
<1>4. -v \in Assigned' <=> -v \in Assigned
  BY <1>2 DEF Steady
<1> QED
  BY <1>1, <1>3, <1>4 DEF Unassigned

LEMMA SteadyFacts ==
  ASSUME Types, Types', FileOK, Implied, Apart, Steady
  PROVE  /\ File' = File /\ Known' = Known /\ Origin' = Origin /\ Implied'
         /\ Unfalsified' = Unfalsified /\ Gone' = Gone /\ Left' = Left /\ LiveVars' \cap Done' = {}
         /\ ok' => Remaining' \subseteq Remaining
         /\ \A k \in 1..Len(elimclauses') : Var(elimclauses'[k][1]) \in db'.eliminated
<1>1. /\ File' = File /\ Known' = Known /\ Origin' = Origin
      /\ Unfalsified' = Unfalsified
  BY DEF Steady, File, Known, Origin, Unfalsified, input
<1>2. LiveVars' \cap Done' = {}
  BY DEF Steady, Apart
<1>3. Known \in SUBSET Vars /\ LiveVars \subseteq Known /\ Known \ Unassigned \subseteq Left
  BY LiveVarsFacts DEF Left, Gone
<1>4. Implied'
  <2> SUFFICES ASSUME NEW a \in Origin PROVE ok' /\ Sat(a)'
    BY <1>1 DEF Implied
  <2>1. a \in SetsOfLits(Known) /\ Sat(a)
    BY DEF Origin, Implied
  <2>2. a \in Loose(Known) /\ Sharp(a)
    BY <1>3, <2>1, SharpIs
  <2> QED
    BY <1>3, <2>1, <2>2 DEF Steady, SameMeaning
<1>5. Gone' = Gone
  <2>1. \A v \in Known : v \notin LiveVars => (v \in Unassigned <=> v \in Unassigned')
    BY SteadyUnassigned
  <2>2. Unassigned \subseteq Known /\ Unassigned' \subseteq Known
    BY <1>1 DEF Unassigned
  <2>3. Done' = Done /\ LiveVars \cap Done = {}
    BY DEF Steady, Apart
  <2> QED
    BY <2>1, <2>2, <2>3 DEF Gone
<1>6. Left' = Left
  BY <1>1, <1>5 DEF Left
<1>7. LiveVars \subseteq Left /\ Left \in SUBSET Vars
  BY <1>3 DEF Left, Gone, Apart
<1>8. ASSUME ok', NEW b \in Remaining' PROVE b \in Remaining
  <2>1. b \in Loose(Left) /\ Sat(b)' /\ Sure(b)'
    BY <1>6 DEF Remaining
  <2>2. Sat(b)
    BY <1>7, <1>8, <2>1 DEF Steady, SameMeaning
  <2>3. Sure(b)
    BY <2>1 DEF Steady, Sure
  <2> QED
    BY <2>1, <2>2, <2>3 DEF Remaining
<1>9. \A k \in 1..Len(elimclauses') : Var(elimclauses'[k][1]) \in db'.eliminated
  BY DEF Steady, Apart
<1> QED
  BY <1>1, <1>2, <1>4, <1>5, <1>6, <1>8, <1>9

(* A step of another procedure than the elimination of a variable.         *)
LEMMA SteadyMeaning ==
  ASSUME Types, Types', Meaning, Steady, ok,
         pc \notin {"resolve", "extend"}, pc' \notin {"resolve", "extend"},
         pc' # "load" => loaded = Len(formula),
         pc' = "load" => pc = "load" /\ cross' = NoCross,
         cross' # NoCross => cross'.v \notin db.eliminated,
         Freed' => Settled'
  PROVE  Meaning'
<1>1. FileOK /\ Implied /\ Apart /\ Extends(elimclauses, Remaining, Unfalsified)
  BY DEF Meaning, Chain
<1>2. /\ File' = File /\ Known' = Known /\ Unfalsified' = Unfalsified /\ Implied'
      /\ LiveVars' \cap Done' = {}
      /\ ok' => Remaining' \subseteq Remaining
      /\ \A k \in 1..Len(elimclauses') : Var(elimclauses'[k][1]) \in db'.eliminated
  BY <1>1, SteadyFacts
<1>3. /\ UNCHANGED <<formula, loaded, elimclauses>>
      /\ db'.nvars = db.nvars /\ db'.eliminated = db.eliminated
  BY DEF Steady, input
<1>4. FileOK'
  BY <1>1, <1>2, <1>3 DEF FileOK
<1>5. Apart'
  BY <1>2, <1>3 DEF Apart
<1>6. Chain'
  BY <1>1, <1>2, <1>3, ExtendsFewer DEF Chain
<1>7. Extending'
  BY DEF Extending
<1> QED
  BY <1>2, <1>4, <1>5, <1>6, <1>7 DEF Meaning

(* A step of the elimination of a variable, before its clauses leave.      *)
LEMMA ResolvingMeaning ==
  ASSUME Types, Types', Meaning, Steady, ok, pc = "resolve", pc' = "resolve",
         cross'.v = cross.v, ok' => Resolving',
         \A l \in {cross.v, -cross.v} : WithLit(db, l)' = WithLit(db, l),
         \A cr \in db.live : db'.lits[cr] = db.lits[cr]
  PROVE  Meaning'
<1>1. FileOK /\ Implied /\ Apart /\ Resolving /\ InBlock
  BY DEF Meaning, Chain
<1>2. /\ File' = File /\ Known' = Known /\ Unfalsified' = Unfalsified /\ Implied'
      /\ LiveVars' \cap Done' = {}
      /\ ok' => Remaining' \subseteq Remaining
      /\ \A k \in 1..Len(elimclauses') : Var(elimclauses'[k][1]) \in db'.eliminated
  BY <1>1, SteadyFacts
<1>3. /\ UNCHANGED <<formula, loaded, elimclauses>>
      /\ db'.nvars = db.nvars /\ db'.eliminated = db.eliminated
  BY DEF Steady, input
<1>4. FileOK'
  BY <1>1, <1>2, <1>3 DEF FileOK
<1>5. Apart'
  BY <1>1, <1>2, <1>3 DEF Apart, Freed
<1>6. ASSUME ok' PROVE InBlock'
  <2>1. PICK E \in Seq(Entries), B \in Seq(Entries), l \in {cross.v, -cross.v} :
          elimclauses = E \o B /\ Extends(E, Remaining, Unfalsified) /\ Block(B, l)
    BY <1>1 DEF InBlock
  <2>2. Extends(E, Remaining', Unfalsified')
    BY <1>2, <1>6, <2>1, ExtendsFewer
  <2>3. \A cr \in WithLit(db, l) : db'.lits[cr] = db.lits[cr]
    BY DEF WithLit
  <2>4. PICK W : W = WithLit(db, l) /\ W = WithLit(db, l)'
    OBVIOUS
  <2>5. Block(B, l)'
    BY <2>1, <2>3, <2>4 DEF Block
  <2> QED
    BY <1>3, <2>1, <2>2, <2>5 DEF InBlock
<1>7. Chain'
  BY <1>6 DEF Chain
<1>8. Extending'
  BY DEF Extending
<1> QED
  BY <1>2, <1>4, <1>5, <1>7, <1>8 DEF Meaning

-----------------------------------------------------------------------------
(* The steps that change clauses or assignments.                           *)

(* A clause every model of the live clauses satisfies.                     *)
Holds(c) ==
  \A vs \in SUBSET Vars : \A b :
    LiveVars \subseteq vs /\ b \in SetsOfLits(vs) /\ Sat(b) => b \cap c # {}

LEMMA HoldsSharp ==
  ASSUME NEW c, Holds(c), NEW vs \in SUBSET Vars, NEW b \in Loose(vs), LiveVars \subseteq vs,
         Sharp(b), Sat(b)
  PROVE  b \cap c # {}
BY SharpIs DEF Holds

LEMMA HoldsOpen ==
  ASSUME NEW c, Holds(c)
  PROVE  Holds(Open(c))
<1> SUFFICES ASSUME NEW vs \in SUBSET Vars, NEW b, LiveVars \subseteq vs,
                    b \in SetsOfLits(vs), Sat(b)
             PROVE  b \cap Open(c) # {}
  BY DEF Holds
<1>1. PICK l \in b : l \in c
  BY DEF Holds
<1>2. Assigned \subseteq b /\ -l \notin b
  BY SatIs, ValuesFacts
<1>3. l \in Open(c)
  BY <1>1, <1>2 DEF Open, IsFalse
<1> QED
  BY <1>3

(* What the steps of this section have in common.                          *)
Aside ==
  /\ UNCHANGED <<input, loaded, elimclauses>>
  /\ db'.nvars = db.nvars /\ db'.eliminated = db.eliminated /\ Done' = Done

LEMMA ConflictSteady ==
  ASSUME Aside, Holds({}), UNCHANGED trail, ~ok', LiveVars' \subseteq LiveVars
  PROVE  Steady
<1>1. SameMeaning
  BY SharpIs DEF SameMeaning, Holds
<1>2. Assigned' = Assigned
  BY DEF Assigned
<1> QED
  BY <1>1, <1>2 DEF Steady, Aside

LEMMA UnitSteady ==
  ASSUME Types, Aside, UNCHANGED db, ok', NEW l \in Lits, Holds({l}), Var(l) \in LiveVars,
         trail' = Append(trail, l)
  PROVE  Steady
<1>1. Assigned' = Assigned \cup {l}
  BY EnqueueFacts DEF Types, TrailOK
<1>2. LiveVars' = LiveVars
  BY DEF LiveVars
<1>3. SameMeaning
  <2> SUFFICES ASSUME NEW vs \in SUBSET Vars, NEW b, LiveVars \subseteq vs, b \in Loose(vs)
               PROVE  (Sat(b)' => Sat(b)) /\ (Sharp(b) /\ Sat(b) => Sat(b)')
    BY DEF SameMeaning
  <2>1. Sharp(b) /\ Sat(b) => l \in b
    BY HoldsSharp
  <2>2. Sat(b)' <=> /\ \A cr \in db.live : b \cap db.lits[cr] # {}
                    /\ Assigned \cup {l} \subseteq b
    BY <1>1, SatNext
  <2> QED
    BY <2>1, <2>2, SatIs
<1> QED
  BY <1>1, <1>2, <1>3 DEF Steady, Aside

LEMMA SameSteady ==
  ASSUME Aside, UNCHANGED trail, ok', db'.live = db.live, db'.lits = db.lits
  PROVE  Steady /\ (Settled => Settled')
<1>1. Assigned' = Assigned /\ LiveVars' = LiveVars
  BY DEF Assigned, LiveVars
<1>2. \A b : Sat(b) <=> Sat(b)'
  BY <1>1, SatIs, SatNext
<1>3. SameMeaning
  BY <1>2 DEF SameMeaning
<1>4. Steady
  BY <1>1, <1>3 DEF Steady, Aside
<1>5. Pending' = Pending
  BY <1>1 DEF Pending, Satisfied, IsTrue, Open, IsFalse
<1> QED
  BY <1>4, <1>5 DEF Settled

LEMMA PropagateSteady ==
  ASSUME Types, Propagate
  PROVE  /\ Steady /\ ok /\ pc' = pc /\ cross' = cross /\ db' = db
         /\ ok' => \E cr \in db.live : \E l \in db.lits[cr] :
              /\ \A k \in db.lits[cr] \ {l} : -k \in Assigned
              /\ trail' = Append(trail, l)
<1>1. PICK cr \in Pending :
        \/ Open(db.lits[cr]) = {} /\ ok' = FALSE /\ UNCHANGED trail
        \/ \E l \in Open(db.lits[cr]) : trail' = Append(trail, l) /\ UNCHANGED ok
  BY DEF Propagate
<1>2. PICK c : c = db.lits[cr]
  OBVIOUS
<1>3. cr \in db.live /\ c \in SUBSET Lits /\ Cardinality(Open(c)) <= 1
  BY <1>2, LiveFacts DEF Pending, Types, DatabaseOK
<1>4. Aside /\ ok /\ pc' = pc /\ cross' = cross /\ db' = db
  BY DEF Propagate, Aside, Done
<1>5. Holds(Open(c))
  <2>1. Holds(c)
    BY <1>2, <1>3, SatIs DEF Holds
  <2> QED
    BY <2>1, HoldsOpen
<1>6. CASE Open(c) = {} /\ ok' = FALSE /\ UNCHANGED trail
  <2>1. LiveVars' \subseteq LiveVars
    BY <1>4 DEF LiveVars
  <2>2. Holds({})
    BY <1>5, <1>6
  <2> QED
    BY <1>4, <1>6, <2>1, <2>2, ConflictSteady
<1>7. ASSUME NEW l \in Open(c), trail' = Append(trail, l), UNCHANGED ok
      PROVE  /\ Steady
             /\ l \in c /\ \A k \in c \ {l} : -k \in Assigned
  <2>1. Open(c) = {l}
    <3>1. IsFiniteSet(Open(c)) /\ Cardinality(Open(c)) \in Nat
      <4>1. Open(c) \in SUBSET Lits
        BY <1>3 DEF Open
      <4> QED
        BY <4>1, ClauseIsFinite
    <3>2. Cardinality(Open(c)) = 1
      <4>1. Cardinality(Open(c)) # 0
        BY <3>1, <1>7, FS_EmptySet
      <4> QED
        BY <1>3, <3>1, <4>1
    <3>3. \E x : Open(c) = {x}
      BY <3>1, <3>2, FS_Singleton
    <3> QED
      BY <1>7, <3>3
  <2>2. l \in c /\ l \in Lits /\ Holds({l}) /\ \A k \in c \ {l} : -k \in Assigned
    BY <1>3, <1>5, <2>1 DEF Open, IsFalse
  <2>3. Var(l) \in LiveVars
    BY <1>2, <1>3, <2>2, LiveVarsFacts
  <2>4. Steady
    BY <1>4, <1>7, <2>2, <2>3, UnitSteady
  <2> QED
    BY <2>2, <2>4
<1> QED
  BY <1>1, <1>2, <1>3, <1>4, <1>6, <1>7

(* addClause_, for a clause that is implied.                               *)
LEMMA AddClauseSteady ==
  ASSUME Types, IndexOK(db), NEW c \in SUBSET Lits, Holds(c), VarsOf(c) \subseteq LiveVars,
         AddClause(db, c), "rcheck" \notin options, Aside, ok
  PROVE  Steady /\ (ok' => Covered(c)')
<1>1. ClausesOK(db)
  BY DEF Types, DatabaseOK
<1>2. Holds(Open(c))
  BY HoldsOpen
<1>3. CASE Dropped(db, c)
  <2>1. db' = db /\ UNCHANGED <<trail, ok>> /\ (Satisfied(c) \/ Tautology(c))
    BY <1>3 DEF Dropped
  <2>2. Steady
    BY <1>3, SameSteady DEF Dropped
  <2>3. Assigned' = Assigned
    BY <1>3 DEF Dropped, Assigned
  <2>4. Satisfied(c) \/ Tautology(c)
    BY <1>3 DEF Dropped
  <2> QED
    BY <2>2, <2>3, <2>4 DEF Covered, Satisfied, IsTrue
<1>4. CASE Contradicts(db, c)
  <2>1. LiveVars' \subseteq LiveVars
    BY <1>4 DEF Contradicts, LiveVars
  <2>2. Open(c) = {} /\ ~ok' /\ UNCHANGED trail
    BY <1>4 DEF Contradicts
  <2>3. Holds({})
    BY <1>2, <2>2
  <2> QED
    BY <2>1, <2>2, <2>3, ConflictSteady
<1>5. ASSUME NEW l \in c, Enqueued(db, c, l) PROVE Steady /\ Covered(c)'
  <2>1. /\ Open(c) = {l} /\ trail' = Append(trail, l) /\ UNCHANGED <<db, ok>>
        /\ l \in Lits /\ Var(l) \in LiveVars
    BY <1>5, VarsOfIs DEF Enqueued
  <2>2. Holds({l})
    BY <1>2, <2>1
  <2>3. Steady
    BY <2>1, <2>2, UnitSteady
  <2>4. Assigned' = Assigned \cup {l}
    BY <2>1, EnqueueFacts DEF Types, TrailOK
  <2> QED
    BY <2>3, <2>4 DEF Covered
<1>6. CASE Kept(db, c)
  <2>1. Open(c) \in SUBSET Lits /\ VarsOf(Open(c)) \subseteq VarsOf(c)
        /\ ~Tautology(Open(c)) /\ Cardinality(Open(c)) > 1 /\ Open(c) \subseteq c
    BY <1>6 DEF Kept, Open, VarsOf, Tautology
  <2>2. WithClause(db, Open(c), db')
    <3>1. db' = Added(db, Open(c)) /\ VarsOf(Open(c)) \subseteq 1..db.nvars
      BY <1>6, <2>1, LiveVarsFacts DEF Kept, Known
    <3> QED
      BY <1>1, <2>1, <3>1, AddedFacts
  <2>3. PICK new : /\ new \notin db.live /\ db'.live = db.live \cup {new}
                   /\ db'.lits[new] = Open(c)
                   /\ \A cr \in db.live : db'.lits[cr] = db.lits[cr]
    BY <2>2 DEF WithClause
  <2>4. Assigned' = Assigned /\ ok'
    BY <1>6 DEF Kept, Assigned
  <2>5. LiveVars' \subseteq LiveVars
    <3> SUFFICES ASSUME NEW cr \in db'.live PROVE VarsOf(db'.lits[cr]) \subseteq LiveVars
      BY DEF LiveVars
    <3>1. CASE cr = new
      BY <2>1, <2>3, <3>1
    <3>2. CASE cr \in db.live
      BY <2>3, <3>2, LiveVarsFacts
    <3> QED
      BY <2>3, <3>1, <3>2
  <2>6. SameMeaning
    <3> SUFFICES ASSUME NEW vs \in SUBSET Vars, NEW b, LiveVars \subseteq vs, b \in Loose(vs)
                 PROVE  (Sat(b)' => Sat(b)) /\ (Sharp(b) /\ Sat(b) => Sat(b)')
      BY <2>4 DEF SameMeaning
    <3>1. Sharp(b) /\ Sat(b) => b \cap Open(c) # {}
      BY <1>2, HoldsSharp
    <3>2. Sat(b)' <=> /\ \A cr \in db.live : b \cap db.lits[cr] # {}
                      /\ b \cap Open(c) # {} /\ Assigned \subseteq b
      BY <2>3, <2>4, SatNext
    <3> QED
      BY <3>1, <3>2, SatIs
  <2>7. Covered(c)'
    BY <2>1, <2>3 DEF Covered
  <2> QED
    BY <2>4, <2>5, <2>6, <2>7 DEF Steady, Aside
<1> QED
  BY <1>3, <1>4, <1>5, <1>6, AddClauseCases

(* strengthenClause, when every model satisfies what is left.              *)
LEMMA StrengthenSteady ==
  ASSUME Types, IndexOK(db), NEW cr \in db.live, NEW l \in db.lits[cr],
         Holds(db.lits[cr] \ {l}), StrengthenClause(cr, l), Aside, ok
  PROVE  Steady
<1>1. ClausesOK(db)
  BY DEF Types, DatabaseOK
<1>2. PICK c \in SUBSET Lits : c = db.lits[cr] /\ l \in c
  BY <1>1, LiveFacts
<1>3. Holds(c \ {l})
  BY <1>2
<1>4. /\ db'.live = IF Cardinality(c) = 2 THEN db.live \ {cr} ELSE db.live
      /\ db'.lits[cr] = c \ {l}
      /\ \A i \in db.live : i # cr => db'.lits[i] = db.lits[i]
  <2>1. WithoutLiteral(db, cr, l, db')
    BY <1>1, StrengthenCases, StrengthenedFacts
  <2> QED
    BY <1>2, <2>1 DEF WithoutLiteral
<1>5. LiveVars' \subseteq LiveVars
  <2> SUFFICES ASSUME NEW i \in db'.live PROVE VarsOf(db'.lits[i]) \subseteq LiveVars
    BY DEF LiveVars
  <2>1. i \in db.live
    BY <1>4
  <2>2. VarsOf(db.lits[i]) \subseteq LiveVars
    BY <2>1, LiveVarsFacts
  <2>3. db'.lits[i] \subseteq db.lits[i]
    BY <1>2, <1>4, <2>1
  <2> QED
    BY <2>2, <2>3 DEF VarsOf
(* Without a change of the assignments: the clause loses the literal, or a *)
(* literal that is left is true.                                           *)
<1>6. ASSUME UNCHANGED <<trail, ok>>,
             NEW vs \in SUBSET Vars, NEW b, LiveVars \subseteq vs, b \in Loose(vs),
             cr \in db'.live \/ (Assigned \subseteq b => b \cap c # {})
      PROVE  (Sat(b)' => Sat(b)) /\ (Sharp(b) /\ Sat(b) => Sat(b)')
  <2>1. Assigned' = Assigned
    BY <1>6 DEF Assigned
  <2>2. Sharp(b) /\ Sat(b) => b \cap (c \ {l}) # {}
    BY <1>3, <1>6, HoldsSharp
  <2>3. ASSUME Sharp(b), Sat(b) PROVE Sat(b)'
    <3>1. ASSUME NEW i \in db'.live PROVE b \cap db'.lits[i] # {}
      <4>1. CASE i = cr
        BY <1>4, <2>2, <2>3, <4>1
      <4>2. CASE i # cr
        BY <1>4, <2>3, <4>2, SatIs
      <4> QED
        BY <4>1, <4>2
    <3> QED
      BY <2>1, <2>3, <3>1, SatIs, SatNext
  <2>4. ASSUME Sat(b)' PROVE Sat(b)
    <3>1. Assigned \subseteq b /\ \A i \in db'.live : b \cap db'.lits[i] # {}
      BY <2>1, <2>4, SatNext
    <3>2. ASSUME NEW i \in db.live PROVE b \cap db.lits[i] # {}
      <4>1. CASE i = cr
        <5>1. CASE cr \in db'.live
          BY <1>2, <1>4, <3>1, <4>1, <5>1
        <5>2. CASE Assigned \subseteq b => b \cap c # {}
          BY <1>2, <3>1, <4>1, <5>2
        <5> QED
          BY <1>6, <5>1, <5>2
      <4>2. CASE i # cr
        BY <1>4, <3>1, <4>2
      <4> QED
        BY <4>1, <4>2
    <3> QED
      BY <3>1, <3>2, SatIs
  <2> QED
    BY <2>3, <2>4
<1>7. CASE StaysLong(cr)
  <2>1. UNCHANGED <<trail, ok>> /\ cr \in db'.live
    <3>1. Cardinality(c) > 2 /\ Cardinality(c) \in Nat
      BY <1>2, <1>7, ClauseIsFinite DEF StaysLong
    <3>2. Cardinality(c) # 2
      BY <3>1
    <3> QED
      BY <1>4, <1>7, <3>2 DEF StaysLong
  <2>2. SameMeaning
    BY <1>6, <2>1 DEF SameMeaning
  <2> QED
    BY <1>5, <2>1, <2>2 DEF Steady, Aside, Assigned
<1>8. ASSUME NEW p \in db.lits[cr], LeftTrue(cr, l, p) PROVE Steady
  <2>1. UNCHANGED <<trail, ok>> /\ p \in c /\ p \in Assigned
    BY <1>2, <1>8 DEF LeftTrue
  <2>2. \A b : Assigned \subseteq b => b \cap c # {}
    BY <2>1
  <2>3. SameMeaning
    BY <1>6, <2>1, <2>2 DEF SameMeaning
  <2> QED
    BY <1>5, <2>1, <2>3 DEF Steady, Aside, Assigned
<1>9. ASSUME NEW p \in db.lits[cr], LeftFalse(cr, l, p) PROVE Steady
  <2>1. c \ {l} = {p} /\ -p \in Assigned /\ ~ok' /\ UNCHANGED trail
    BY <1>2, <1>9 DEF LeftFalse
  <2>2. Open({p}) = {} /\ Holds({p})
    BY <1>3, <2>1 DEF Open, IsFalse
  <2>3. Holds({})
    BY <2>2, HoldsOpen
  <2> QED
    BY <1>5, <2>1, <2>3, ConflictSteady
<1>10. ASSUME NEW p \in db.lits[cr], LeftOpen(cr, l, p) PROVE Steady
  <2>1. c \ {l} = {p} /\ trail' = Append(trail, p) /\ UNCHANGED ok /\ p \in Lits /\ p \in c
    BY <1>2, <1>10 DEF LeftOpen
  <2>2. Assigned' = Assigned \cup {p}
    BY <2>1, EnqueueFacts DEF Types, TrailOK
  <2>3. Var(p) \in LiveVars
    BY <1>2, <2>1, LiveVarsFacts
  <2>4. SameMeaning
    <3> SUFFICES ASSUME NEW vs \in SUBSET Vars, NEW b, LiveVars \subseteq vs, b \in Loose(vs)
                 PROVE  (Sat(b)' => Sat(b)) /\ (Sharp(b) /\ Sat(b) => Sat(b)')
      BY <2>1 DEF SameMeaning
    <3>1. ASSUME Sharp(b), Sat(b) PROVE Sat(b)'
      <4>0. b \cap (c \ {l}) # {}
        BY <1>3, <3>1, HoldsSharp
      <4>1. p \in b /\ Assigned \subseteq b /\ \A i \in db.live : b \cap db.lits[i] # {}
        BY <2>1, <3>1, <4>0, SatIs
      <4>2. \A i \in db'.live : b \cap db'.lits[i] # {}
        BY <1>4, <2>1, <4>1
      <4> QED
        BY <2>2, <4>1, <4>2, SatNext
    <3>2. ASSUME Sat(b)' PROVE Sat(b)
      <4>1. p \in b /\ Assigned \subseteq b /\ \A i \in db'.live : b \cap db'.lits[i] # {}
        BY <2>2, <3>2, SatNext
      <4>2. \A i \in db.live : b \cap db.lits[i] # {}
        BY <1>2, <1>4, <2>1, <4>1
      <4> QED
        BY <4>1, <4>2, SatIs
    <3> QED
      BY <3>1, <3>2
  <2> QED
    BY <1>5, <2>2, <2>3, <2>4 DEF Steady, Aside
<1> QED
  BY <1>1, <1>7, <1>8, <1>9, <1>10, StrengthenCases

(* A clause that another one or an assignment subsumes leaves.             *)
LEMMA RemoveSteady ==
  ASSUME Types, IndexOK(db), NEW cs \in db.live, db' = Removed(db, cs),
         UNCHANGED <<trail, ok>>, Aside, ok,
         NEW c \in SUBSET db.lits[cs],
         \A b : Assigned \subseteq b /\ (\A i \in db.live \ {cs} : b \cap db.lits[i] # {}) =>
           b \cap c # {}
  PROVE  Steady
<1>1. db'.live = db.live \ {cs} /\ db'.lits = db.lits
  <2>1. ClausesOK(db) /\ db' = AllRemoved(db, {cs}) /\ {cs} \in SUBSET db.live
    BY DEF Types, DatabaseOK, Removed
  <2> QED
    BY <2>1, AllRemovedFacts
<1>2. Assigned' = Assigned
  BY DEF Assigned
<1>3. LiveVars' \subseteq LiveVars
  BY <1>1 DEF LiveVars
<1>4. ASSUME NEW b PROVE Sat(b) <=> Sat(b)'
  <2>1. Sat(b)' <=> /\ \A i \in db.live \ {cs} : b \cap db.lits[i] # {}
                    /\ Assigned \subseteq b
    BY <1>1, <1>2, SatNext
  <2>2. Sat(b)' => b \cap db.lits[cs] # {}
    BY <2>1
  <2> QED
    BY <2>1, <2>2, SatIs
<1>5. SameMeaning
  BY <1>4 DEF SameMeaning
<1> QED
  BY <1>2, <1>3, <1>5 DEF Steady, Aside

-----------------------------------------------------------------------------
(* Each step keeps the meaning.                                            *)

LEMMA ResolvingKept ==
  ASSUME Resolving, cross.v \in Vars, Assigned \subseteq Lits, Assigned' \subseteq Lits,
         db.live \subseteq db'.live, \A cr \in db.live : db'.lits[cr] = db.lits[cr],
         \A l \in {cross.v, -cross.v} : WithLit(db, l)' = WithLit(db, l),
         cross'.v = cross.v, Assigned \subseteq Assigned',
         ToSet(cross'.todo) \subseteq ToSet(cross.todo),
         \A p \in db.live, n \in db.live : <<p, n>> \in ToSet(cross.todo) =>
           \/ <<p, n>> \in ToSet(cross'.todo)
           \/ Covered(Resolvent(db.lits[p], db.lits[n], cross.v))',
         \A l \in Assigned' : l \in Assigned \/ Var(l) # cross.v \/ Forced(l)'
  PROVE  Resolving'
<1>1. PICK v \in Vars : v = cross.v /\ v = cross'.v
  OBVIOUS
<1>2. WithLit(db, v)' = WithLit(db, v) /\ WithLit(db, -v)' = WithLit(db, -v)
  BY <1>1
<1>3. WithLit(db, v) \subseteq db.live /\ WithLit(db, -v) \subseteq db.live
  BY DEF WithLit
<1>4. ToSet(cross'.todo) \subseteq WithLit(db, v)' \X WithLit(db, -v)'
  BY <1>1, <1>2 DEF Resolving
<1>5. ASSUME NEW R, Covered(R) PROVE Covered(R)'
  BY <1>5 DEF Covered
<1>6. ASSUME NEW p \in WithLit(db, v), NEW n \in WithLit(db, -v)
      PROVE  \/ <<p, n>> \in ToSet(cross'.todo)
             \/ Covered(Resolvent(db.lits[p], db.lits[n], v))'
  <2>1. db'.lits[p] = db.lits[p] /\ db'.lits[n] = db.lits[n]
    BY <1>3
  <2>2. PICK R : R = Resolvent(db.lits[p], db.lits[n], v)
    OBVIOUS
  <2>3. R = Resolvent(db'.lits[p], db'.lits[n], v)
    BY <2>1, <2>2
  <2>4. <<p, n>> \in ToSet(cross.todo) \/ Covered(R)
    BY <1>1, <2>2 DEF Resolving
  <2>5. CASE <<p, n>> \in ToSet(cross.todo)
    BY <1>1, <1>3, <2>5
  <2>6. CASE Covered(R)
    <3>1. Covered(R)'
      BY <1>5, <2>6
    <3>2. R' = Resolvent(db.lits[p], db.lits[n], v)'
      BY <2>3
    <3> QED
      BY <3>1, <3>2
  <2> QED
    BY <2>4, <2>5, <2>6
<1>7. ASSUME NEW l \in Assigned', Var(l) = v PROVE Forced(l)'
  <2>1. CASE l \in Assigned
    <3>1. PICK cr \in WithLit(db, l) : \A k \in db.lits[cr] \ {l} : -k \in Assigned
      BY <1>1, <1>7, <2>1 DEF Resolving, Forced
    <3>2. l = v \/ l = -v
      BY <1>7, <2>1, LitFacts
    <3>3. WithLit(db, l)' = WithLit(db, l)
      BY <1>2, <3>2
    <3>4. cr \in db.live /\ db'.lits[cr] = db.lits[cr]
      BY <3>1 DEF WithLit
    <3>5. cr \in WithLit(db, l)' /\ \A k \in db'.lits[cr] \ {l} : -k \in Assigned'
      BY <3>1, <3>3, <3>4
    <3> QED
      BY <3>5 DEF Forced
  <2>2. CASE l \notin Assigned
    BY <1>1, <1>7, <2>2
  <2> QED
    BY <2>1, <2>2
<1> QED
  BY <1>1, <1>4, <1>6, <1>7 DEF Resolving

LEMMA PropagateMeaning == Types /\ Types' /\ Meaning /\ Propagate => Meaning'
<1> SUFFICES ASSUME Types, Types', Meaning, Propagate PROVE Meaning'
  OBVIOUS
<1>1. /\ Steady /\ ok /\ pc' = pc /\ cross' = cross /\ db' = db
      /\ ok' => \E cr \in db.live : \E l \in db.lits[cr] :
           /\ \A k \in db.lits[cr] \ {l} : -k \in Assigned
           /\ trail' = Append(trail, l)
  BY PropagateSteady
<1>2. FileOK /\ Apart /\ ~Settled
  BY DEF Meaning, Propagate, Settled
<1>3. ~Freed
  BY <1>2 DEF Apart
<1>4. CASE pc # "resolve"
  <2>1. pc \notin {"resolve", "extend"} /\ ~Freed'
    BY <1>1, <1>3, <1>4 DEF Freed
  <2>2. loaded' = loaded /\ formula' = formula
    BY DEF Propagate, input
  <2> QED
    BY <1>1, <1>2, <1>4, <2>1, <2>2, SteadyMeaning DEF FileOK, Apart
<1>5. CASE pc = "resolve"
  <2>1. Resolving /\ cross.v \in Vars
    BY <1>1, <1>5, LiveVarsFacts DEF Meaning, Chain, Apart
  <2>2. Assigned \subseteq Lits /\ Assigned' \subseteq Lits /\ Assigned \subseteq Assigned'
    BY <1>1, ToSetFacts DEF Types, TrailOK, Assigned, Steady
  <2>3. \A l : WithLit(db, l)' = WithLit(db, l)
    BY <1>1 DEF WithLit
  <2>4. ASSUME ok', NEW k \in Assigned', k \notin Assigned PROVE Forced(k)'
    <3>0. PICK cr \in db.live : \E l \in db.lits[cr] :
            /\ \A i \in db.lits[cr] \ {l} : -i \in Assigned
            /\ trail' = Append(trail, l)
      BY <1>1, <2>4
    <3>1. PICK l \in db.lits[cr] :
            /\ \A i \in db.lits[cr] \ {l} : -i \in Assigned
            /\ trail' = Append(trail, l)
      BY <3>0
    <3>2. l \in Lits
      BY <3>1, LiveVarsFacts
    <3>3. Assigned' = Assigned \cup {l}
      BY <3>1, <3>2, EnqueueFacts DEF Types, TrailOK
    <3>4. k = l /\ cr \in WithLit(db, k)
      BY <2>4, <3>3 DEF WithLit
    <3>5. cr \in WithLit(db, k)' /\ db'.lits[cr] = db.lits[cr]
      BY <1>1, <2>3, <3>4
    <3> QED
      BY <2>2, <3>1, <3>4, <3>5 DEF Forced
  <2>5. ok' => Resolving'
    BY <1>1, <2>1, <2>2, <2>3, <2>4, ResolvingKept
  <2> QED
    BY <1>1, <1>5, <2>3, <2>5, ResolvingMeaning
<1> QED
  BY <1>4, <1>5

(* The steps that leave the clauses and the assignments alone.             *)
LEMMA QuietMeaning ==
  ASSUME Types, Types', Meaning, ok,
         UNCHANGED <<input, loaded, trail, ok, elimclauses>>, Alike(db, db'),
         pc \notin {"resolve", "extend"}, pc' \notin {"resolve", "extend", "load"},
         pc = "load" => loaded = Len(formula), Freed' => Settled,
         cross' = cross \/ cross' = NoCross \/ cross'.v \notin db.eliminated
  PROVE  Meaning'
<1>1. FileOK /\ Apart
  BY DEF Meaning
<1>2. Aside /\ UNCHANGED trail /\ ok' /\ db'.live = db.live /\ db'.lits = db.lits
  BY DEF Aside, Alike, Done
<1>3. Steady /\ (Settled => Settled')
  BY <1>2, SameSteady
<1>4. loaded = Len(formula)
  BY <1>1 DEF FileOK
<1>5. cross' # NoCross => cross'.v \notin db.eliminated
  BY <1>1 DEF Apart
<1> QED
  BY <1>3, <1>4, <1>5, SteadyMeaning

LEMMA AlikeSame == ASSUME NEW d, NEW e, e = d PROVE Alike(d, e)
BY DEF Alike

LEMMA PassesMeaning ==
  Types /\ Types' /\ Meaning /\ Passes /\ ok => Meaning'
<1> SUFFICES ASSUME Types, Types', Meaning, Passes, ok PROVE Meaning'
  OBVIOUS
<1>1. Alike(db, db')
  BY AlikeSame DEF Passes
<1> QED
  BY <1>1, QuietMeaning DEF Passes, Freed

LEMMA GatherMeaning ==
  Types /\ Types' /\ Meaning /\ (Gather \/ Cleanup) => Meaning'
<1> SUFFICES ASSUME Types, Types', Meaning, Gather \/ Cleanup PROVE Meaning'
  OBVIOUS
<1>1. Alike(db, db')
  <2>1. CASE Gather
    BY <2>1, IndexOf, GatheredFacts DEF Gather, Freed
  <2>2. CASE Cleanup
    BY <2>2, CleanupFacts DEF Types, DatabaseOK, Frees
  <2> QED
    BY <2>1, <2>2
<1> QED
  BY <1>1, QuietMeaning DEF Gather, Cleanup

LEMMA TakeMeaning ==
  Types /\ Types' /\ Meaning /\ (TakeAssignment \/ TakeClause) => Meaning'
<1> SUFFICES ASSUME Types, Types', Meaning, TakeAssignment \/ TakeClause PROVE Meaning'
  OBVIOUS
<1>1. Alike(db, db')
  <2>1. CASE TakeAssignment
    BY <2>1, IndexOf DEF TakeAssignment, Freed, ClausesOK, Databases, Alike
  <2>2. CASE TakeClause
    <3>1. ClausesOK(db) /\ IndexOK(db)
      BY <2>2, IndexOf DEF TakeClause, Freed
    <3>2. PICK d : d = [db EXCEPT !.queue = Tail(@)]
      OBVIOUS
    <3>3. Alike(db, d)
      BY <3>1, <3>2 DEF ClausesOK, Databases, Alike
    <3>4. \A v : Alike(d, Lookup(d, v))
      <4>1. d \in [DOMAIN db -> {d[f] : f \in DOMAIN db}] /\ db \in Databases
        BY <3>1, <3>2 DEF ClausesOK
      <4> QED
        BY <3>1, <3>2 DEF ClausesOK, Databases, Alike, Lookup
    <3>5. db' = d \/ \E v : db' = Lookup(d, v)
      BY <2>2, <3>2 DEF TakeClause
    <3> QED
      BY <3>3, <3>4, <3>5, Zenon DEF Alike
  <2> QED
    BY <2>1, <2>2
<1> QED
  BY <1>1, QuietMeaning DEF TakeAssignment, TakeClause, Freed

(* The clause scanned has no complementary literals.                       *)
LEMMA OppositeInClause ==
  ASSUME Types, (scan.cr = TmpUnit /\ bwdsub > 0) \/ scan.cr \in db.live,
         NEW l \in LitsOf(scan.cr)
  PROVE  -l \notin LitsOf(scan.cr)
<1>1. CASE scan.cr = TmpUnit
  <2>1. LitsOf(scan.cr) \subseteq Assigned
    BY <1>1, LitsOfFacts
  <2> QED
    BY <2>1, LiveVarsFacts
<1>2. CASE scan.cr # TmpUnit
  <2>1. scan.cr \in db.live /\ LitsOf(scan.cr) = db.lits[scan.cr]
    BY <1>2, LitsOfFacts
  <2> QED
    BY <2>1, LiveVarsFacts
<1> QED
  BY <1>1, <1>2

LEMMA SubsumeShape ==
  ASSUME Types, Subsume \/ Strengthen
  PROVE  /\ UNCHANGED <<input, loaded, elimclauses, cross, pc>>
         /\ db'.nvars = db.nvars /\ db'.eliminated = db.eliminated
<1>1. ClausesOK(db) /\ IndexOK(db)
  BY IndexOf DEF Subsume, Strengthen, Freed
<1>2. PICK cs \in db.live : cs = Min(Hits) /\ cs \in Nat \ {0} /\ db.lits[cs] \in SUBSET Lits
  BY HitsFacts DEF Subsume, Strengthen
<1>3. LitsOf(scan.cr) \in SUBSET Lits
  BY HitsFacts, LitsOfFacts DEF Subsume, Strengthen
<1>4. db'.nvars = db.nvars /\ db'.eliminated = db.eliminated
  <2>1. CASE Subsume
    <3>1. db' = AllRemoved(db, {cs}) /\ {cs} \in SUBSET db.live
      BY <1>2, <2>1 DEF Subsume, Removed
    <3> QED
      BY <1>1, <3>1, AllRemovedFacts
  <2>2. CASE Strengthen
    <3>1. PICK l \in Subsumes(LitsOf(scan.cr), db.lits[cs]) \ {0} : StrengthenClause(cs, -l)
      BY <1>2, <2>2 DEF Strengthen
    <3>2. -l \in db.lits[cs]
      BY <1>2, <1>3, SubsumesFacts
    <3> QED
      BY <1>1, <1>2, <3>1, <3>2, StrengthenTypes DEF Types
  <2> QED
    BY <2>1, <2>2
<1> QED
  BY <1>4 DEF Subsume, Strengthen

(* A literal of the clause scanned that the other one need not have.       *)
LEMMA SubsumeMeaning ==
  Types /\ Types' /\ Meaning /\ (Subsume \/ Strengthen) => Meaning'
<1> SUFFICES ASSUME Types, Types', Meaning, Subsume \/ Strengthen PROVE Meaning'
  OBVIOUS
<1>1. ClausesOK(db) /\ IndexOK(db) /\ ok /\ pc = "subsume" /\ pc' = pc
  BY IndexOf DEF Subsume, Strengthen, Freed
<1>2. PICK cs \in db.live :
        cs = Min(Hits) /\ cs # scan.cr /\ db.lits[cs] \in SUBSET Lits
  BY HitsFacts DEF Subsume, Strengthen
<1>3. (scan.cr = TmpUnit /\ bwdsub > 0) \/ scan.cr \in db.live
  BY HitsFacts DEF Subsume, Strengthen
<1>4. PICK c \in SUBSET Lits : c = LitsOf(scan.cr)
  BY <1>3, LitsOfFacts
<1>5. ASSUME NEW b, Assigned \subseteq b, \A i \in db.live \ {cs} : b \cap db.lits[i] # {}
      PROVE  b \cap c # {}
  <2>1. CASE scan.cr = TmpUnit
    <3>1. c \subseteq Assigned
      BY <1>3, <1>4, <2>1, LitsOfFacts
    <3>2. c # {}
      BY <1>4, <2>1 DEF LitsOf
    <3> QED
      BY <1>5, <3>1, <3>2
  <2>2. CASE scan.cr # TmpUnit
    <3>1. scan.cr \in db.live \ {cs} /\ c = db.lits[scan.cr]
      BY <1>2, <1>3, <1>4, <2>2, LitsOfFacts
    <3> QED
      BY <1>5, <3>1
  <2> QED
    BY <2>1, <2>2
<1>6. Aside
  BY <1>1, SubsumeShape DEF Aside, Done
<1>7. Steady
  <2>1. CASE Subsume
    <3>1. db' = Removed(db, cs) /\ UNCHANGED <<trail, ok>> /\ c \subseteq db.lits[cs]
      BY <1>2, <1>4, <2>1, SubsumesFacts DEF Subsume
    <3> QED
      BY <1>1, <1>5, <1>6, <3>1, RemoveSteady
  <2>2. CASE Strengthen
    <3>1. PICK l \in Subsumes(c, db.lits[cs]) \ {0} : StrengthenClause(cs, -l)
      BY <1>2, <1>4, <2>2 DEF Strengthen
    <3>2. l \in c /\ -l \in db.lits[cs] /\ c \ {l} \subseteq db.lits[cs] /\ l \in Lits
      BY <1>2, <3>1, SubsumesFacts
    <3>3. Holds(db.lits[cs] \ {-l})
      <4> SUFFICES ASSUME NEW vs \in SUBSET Vars, NEW b, LiveVars \subseteq vs,
                          b \in SetsOfLits(vs), Sat(b)
                   PROVE  b \cap (db.lits[cs] \ {-l}) # {}
        BY DEF Holds
      <4>1. /\ Assigned \subseteq b /\ \A i \in db.live : b \cap db.lits[i] # {}
            /\ \A k \in b : -k \notin b
        BY SatIs, ValuesFacts
      <4>2. b \cap c # {} /\ b \cap db.lits[cs] # {}
        BY <1>5, <4>1
      <4>3. CASE l \in b
        BY <4>1, <4>2, <4>3
      <4>4. CASE l \notin b
        <5>1. PICK k \in b : k \in c /\ k # l
          BY <4>2, <4>4
        <5>2. k # -l
          BY <1>3, <1>4, <3>2, <5>1, OppositeInClause
        <5> QED
          BY <3>2, <5>1, <5>2
      <4> QED
        BY <4>3, <4>4
    <3> QED
      BY <1>1, <1>6, <3>1, <3>2, <3>3, StrengthenSteady
  <2> QED
    BY <2>1, <2>2
<1>8. Apart /\ cross' = cross /\ UNCHANGED <<formula, loaded>>
  BY DEF Meaning, Subsume, Strengthen, input
<1> QED
  BY <1>1, <1>7, <1>8, SteadyMeaning DEF Meaning, FileOK, Apart, Freed

LEMMA AsymmShape ==
  ASSUME Types, Asymm
  PROVE  /\ ClausesOK(db) /\ IndexOK(db) /\ cross.v \in Vars /\ cross'.v = cross.v
         /\ db'.nvars = db.nvars /\ db'.eliminated = db.eliminated
         /\ UNCHANGED <<input, loaded, elimclauses>> /\ ok
         /\ pc = "asymm" /\ pc' = "asymm"
         /\ \/ UNCHANGED <<db, trail, ok>>
            \/ \E cr \in db.live : \E l \in db.lits[cr] :
                 StrengthenClause(cr, l) /\ Holds(db.lits[cr] \ {l})
<1>1. /\ ClausesOK(db) /\ IndexOK(db) /\ pc = "asymm" /\ pc' = pc /\ ok
      /\ UNCHANGED <<input, loaded, elimclauses>>
  BY IndexOf DEF Asymm, Freed
<1>2. cross.v \in Vars /\ cross'.v = cross.v
  <2>1. \E s : cross' = [cross EXCEPT !.todo = s]
    BY DEF Asymm
  <2> QED
    BY <1>1, <2>1 DEF Types, CrossOK
<1>3. PICK cr : cr = Head(cross.todo)
  OBVIOUS
<1>4. PICK mine : mine = {l \in db.lits[cr] : Var(l) = cross.v \/ IsFalse(l)}
  OBVIOUS
<1>5. \/ UNCHANGED <<db, trail, ok>>
      \/ /\ cr \in db.live /\ Refutes(db.lits[cr] \ mine)
         /\ \E l \in mine : StrengthenClause(cr, l)
  BY <1>3, <1>4 DEF Asymm
<1>6. ASSUME cr \in db.live, Refutes(db.lits[cr] \ mine), NEW l \in mine, StrengthenClause(cr, l)
      PROVE  /\ l \in db.lits[cr] /\ Holds(db.lits[cr] \ {l})
             /\ db'.nvars = db.nvars /\ db'.eliminated = db.eliminated
  <2>1. l \in db.lits[cr]
    BY <1>4
  <2>2. cr \in Nat \ {0} /\ db.lits[cr] \in SUBSET Lits
    BY <1>1, <1>6, LiveFacts
  <2>3. db'.nvars = db.nvars /\ db'.eliminated = db.eliminated
    BY <1>1, <1>6, <2>1, <2>2, StrengthenTypes DEF Types
  <2>4. Holds(db.lits[cr] \ {l})
    <3> SUFFICES ASSUME NEW vs \in SUBSET Vars, NEW b, LiveVars \subseteq vs,
                        b \in SetsOfLits(vs), Sat(b), b \cap (db.lits[cr] \ {l}) = {}
                 PROVE  FALSE
      BY DEF Holds
    <3>1. PICK c \in SUBSET Lits : c = db.lits[cr] \ mine
      BY <2>2
    <3>2. b \cap c = {}
      BY <3>1
    <3>3. VarsOf(c) \subseteq vs
      BY <1>6, <3>1, LiveVarsFacts DEF VarsOf
    <3>4. {-k : k \in c} \in SUBSET b /\ \A k \in b : -k \notin b
      BY <3>2, <3>3, ValuesFacts
    <3>5. Models(b, LiveClauses) /\ Assigned \subseteq b
      BY DEF Sat
    <3>6. ~Refuted({-k : k \in c})
      BY <1>1, <3>4, <3>5, RefutedFacts
    <3> QED
      BY <1>6, <3>1, <3>6 DEF Refutes
  <2> QED
    BY <2>1, <2>3, <2>4
<1> QED
  BY <1>1, <1>2, <1>5, <1>6

LEMMA AsymmMeaning == Types /\ Types' /\ Meaning /\ Asymm => Meaning'
<1> SUFFICES ASSUME Types, Types', Meaning, Asymm PROVE Meaning'
  OBVIOUS
<1>1. /\ ClausesOK(db) /\ IndexOK(db) /\ cross.v \in Vars /\ cross'.v = cross.v
      /\ db'.nvars = db.nvars /\ db'.eliminated = db.eliminated
      /\ UNCHANGED <<input, loaded, elimclauses>> /\ ok
      /\ pc = "asymm" /\ pc' = "asymm"
      /\ \/ UNCHANGED <<db, trail, ok>>
         \/ \E cr \in db.live : \E l \in db.lits[cr] :
              StrengthenClause(cr, l) /\ Holds(db.lits[cr] \ {l})
  BY AsymmShape
<1>2. Aside
  BY <1>1 DEF Aside, Done
<1>3. Steady
  BY <1>1, <1>2, SameSteady, StrengthenSteady
<1>4. cross # NoCross
  BY <1>1, VarFacts DEF NoCross
<1>5. loaded' = Len(formula) /\ loaded = Len(formula) /\ cross'.v \notin db.eliminated
  BY <1>1, <1>4 DEF Meaning, FileOK, Apart
<1> QED
  BY <1>1, <1>3, <1>5, SteadyMeaning DEF Freed

-----------------------------------------------------------------------------
(* What is stored for a variable is a block of one of its sides.           *)
StoredAs(v, B, l) ==
  /\ Len(B) > 0 /\ B[Len(B)] = <<-l, {}>>
  /\ \A i \in 1..(Len(B) - 1) :
       \E cr \in WithLit(db, l) : B[i] = <<l, db.lits[cr] \ {l}>>
  /\ \A cr \in WithLit(db, l) :
       \E i \in 1..(Len(B) - 1) : B[i] = <<l, db.lits[cr] \ {l}>>

LEMMA StoredSide ==
  ASSUME NEW v, NEW l \in Lits, NEW s \in Seq(WithLit(db, l)), ToSet(s) = WithLit(db, l),
         NEW B, B = Append(Stored(v, l, s), <<-l, {}>>)
  PROVE  StoredAs(v, B, l)
<1>1. PICK k \in Nat : k = Len(s) /\ DOMAIN s = 1..k
  OBVIOUS
<1>2. PICK t : t = [i \in 1..k |-> <<l, db.lits[s[i]] \ {l}>>]
  OBVIOUS
<1>3. t = Stored(v, l, s)
  BY <1>1, <1>2 DEF Stored
<1>4. PICK X : t \in Seq(X) /\ Len(t) = k
  <2>1. PICK X : X = {t[i] : i \in 1..k}
    OBVIOUS
  <2>2. t = [i \in 1..k |-> t[i]]
    BY <1>2
  <2>3. t \in [1..k -> X]
    BY <2>1, <2>2, Zenon
  <2>4. t \in Seq(X) /\ Len(t) = k
    BY <2>3
  <2> QED
    BY <2>4
<1>5. \A i \in 1..k : t[i] = <<l, db.lits[s[i]] \ {l}>>
  BY <1>2
<1>6. PICK last : last = <<-l, {}>>
  OBVIOUS
<1>7. B = Append(t, last)
  BY <1>3, <1>6
<1>8. Len(B) = k + 1 /\ B[k + 1] = last /\ \A i \in 1..k : B[i] = t[i]
  <2>1. PICK Y : t \in Seq(Y) /\ last \in Y
    <3>1. PICK Y : Y = X \cup {last}
      OBVIOUS
    <3>2. X \subseteq Y /\ last \in Y
      BY <3>1
    <3>3. t \in Seq(Y)
      BY <1>4, <3>2
    <3> QED
      BY <3>2, <3>3
  <2>2. PICK u : u = Append(t, last)
    OBVIOUS
  <2>3. Len(u) = Len(t) + 1 /\ u[Len(t) + 1] = last /\ \A i \in 1..Len(t) : u[i] = t[i]
    <3>1. \A w \in Seq(Y), y \in Y :
            /\ Len(Append(w, y)) = Len(w) + 1 /\ Append(w, y)[Len(w) + 1] = y
            /\ \A i \in 1..Len(w) : Append(w, y)[i] = w[i]
      OBVIOUS
    <3> QED
      BY <2>1, <2>2, <3>1, Zenon
  <2> QED
    BY <1>4, <1>7, <2>2, <2>3
<1>9. ASSUME NEW i \in 1..k
      PROVE  \E cr \in WithLit(db, l) : B[i] = <<l, db.lits[cr] \ {l}>>
  <2>1. s[i] \in WithLit(db, l)
    BY <1>1
  <2> QED
    BY <1>5, <1>8, <2>1
<1>10. ASSUME NEW cr \in WithLit(db, l)
       PROVE  \E i \in 1..k : B[i] = <<l, db.lits[cr] \ {l}>>
  <2>1. PICK i \in 1..k : s[i] = cr
    BY <1>1, ToSetFacts
  <2> QED
    BY <1>5, <1>8, <2>1
<1>11. (k + 1) - 1 = k /\ k + 1 > 0
  OBVIOUS
<1> QED
  BY <1>6, <1>8, <1>9, <1>10, <1>11 DEF StoredAs

LEMMA StoredBlock ==
  ASSUME ClausesOK(db), IndexOK(db), NEW v \in Vars
  PROVE  \E B \in Seq(Entries), l \in {v, -v} :
           /\ B = StoredFor(v) /\ StoredAs(v, B, l)
           /\ \A k \in 1..Len(B) : Var(B[k][1]) = v
<1>1. PICK B \in Seq(Entries) : B = StoredFor(v)
  BY StoredTypes DEF Entries
<1>2. v \in Lits /\ -v \in Lits /\ -(-v) = v
  BY VarFacts, LitFacts
<1>3. /\ PosOf(v) \in Seq(WithLit(db, v)) /\ ToSet(PosOf(v)) = WithLit(db, v)
      /\ NegOf(v) \in Seq(WithLit(db, -v)) /\ ToSet(NegOf(v)) = WithLit(db, -v)
  BY SidesFacts
<1>4. PICK l \in {v, -v} : StoredAs(v, B, l)
  <2>1. CASE Len(PosOf(v)) > Len(NegOf(v))
    <3>1. B = Append(Stored(v, -v, NegOf(v)), <<-(-v), {}>>)
      BY <1>1, <1>2, <2>1 DEF StoredFor
    <3>2. StoredAs(v, B, -v)
      BY <1>2, <1>3, <3>1, StoredSide
    <3> QED
      BY <3>2
  <2>2. CASE ~(Len(PosOf(v)) > Len(NegOf(v)))
    <3>1. B = Append(Stored(v, v, PosOf(v)), <<-v, {}>>)
      BY <1>1, <2>2 DEF StoredFor
    <3>2. StoredAs(v, B, v)
      BY <1>2, <1>3, <3>1, StoredSide
    <3> QED
      BY <3>2
  <2> QED
    BY <2>1, <2>2
<1>5. Var(l) = v /\ Var(-l) = v
  BY <1>2, VarFacts
<1>6. ASSUME NEW k \in 1..Len(B) PROVE Var(B[k][1]) = v
  <2>1. PICK n \in Nat : n = Len(B)
    OBVIOUS
  <2>2. CASE k = n
    <3>1. B[k] = <<-l, {}>>
      BY <1>4, <2>1, <2>2 DEF StoredAs
    <3> QED
      BY <1>5, <3>1
  <2>3. CASE k # n
    <3>1. k \in 1..(n - 1)
      BY <2>1, <2>3
    <3>2. PICK cr : B[k] = <<l, db.lits[cr] \ {l}>>
      BY <1>4, <2>1, <3>1 DEF StoredAs
    <3> QED
      BY <1>5, <3>2
  <2> QED
    BY <2>2, <2>3
<1> QED
  BY <1>1, <1>4, <1>6

(* A variable without a value is eliminated: what is stored is a block, to *)
(* be used once its clauses have left.                                     *)
LEMMA EliminatesShape ==
  ASSUME Types, NEW d, LikeDb(d), NEW v \in Vars, NEW e, e = Lookup(d, v), Eliminates(d, v, e)
  PROVE  /\ db'.live = db.live /\ db'.lits = db.lits /\ db'.nvars = db.nvars
         /\ db'.eliminated = db.eliminated \cup {v}
<1>1. LikeDb(e)
  BY LikeDbFacts
<1>2. e \in Databases /\ Alike(db, e)
  BY <1>1, DatabaseIs DEF LikeDb
<1>3. PICK w \in SUBSET Vars : w = e.eliminated \cup {v}
  BY <1>2 DEF Databases
<1>4. db' = [e EXCEPT !.eliminated = w]
  BY <1>3 DEF Eliminates
<1>5. /\ db'.lits = e.lits /\ db'.live = e.live /\ db'.nvars = e.nvars
      /\ db'.eliminated = w
  BY <1>2, <1>4 DEF Databases
<1> QED
  BY <1>2, <1>3, <1>5 DEF Alike

LEMMA EliminatesMeaning ==
  ASSUME Types, Types', Meaning, ok, ClausesOK(db), IndexOK(db),
         pc \in {"eliminate", "variable"},
         NEW d, LikeDb(d), NEW v \in Vars \ db.eliminated, Eliminates(d, v, Lookup(d, v)),
         UNCHANGED <<input, loaded, trail, ok>>
  PROVE  Meaning'
<1>1. /\ db'.live = db.live /\ db'.lits = db.lits /\ db'.nvars = db.nvars
      /\ db'.eliminated = db.eliminated \cup {v}
  BY EliminatesShape
<1>2. /\ v \in Unassigned /\ pc' = "resolve" /\ pc \notin {"resolve", "load", "extend"}
      /\ elimclauses' = elimclauses \o StoredFor(v)
      /\ cross' = [v |-> v, todo |-> Pairs(v)]
  BY DEF Eliminates
<1>3. cross'.v = v /\ cross'.todo = Pairs(v)
  BY <1>2
<1>4. FileOK /\ Implied /\ Apart /\ Extends(elimclauses, Remaining, Unfalsified)
  BY <1>2 DEF Meaning, Chain
<1>5. /\ Assigned' = Assigned /\ Known' = Known /\ LiveVars' = LiveVars /\ File' = File
      /\ \A b : Sat(b) <=> Sat(b)'
  <2>1. Assigned' = Assigned
    BY DEF Assigned
  <2> QED
    BY <1>1, <2>1, SatIs, SatNext DEF Known, LiveVars, File, input
<1>6. Unfalsified' = Unfalsified /\ Implied'
  <2>1. Origin' = Origin /\ Unfalsified' = Unfalsified
    BY <1>5 DEF Origin, Unfalsified
  <2> QED
    BY <1>4, <1>5, <2>1 DEF Implied
<1>7. Done' = Done
  BY <1>1, <1>2, <1>3 DEF Done
<1>8. Unassigned' = Unassigned
  BY <1>5 DEF Unassigned
<1>9. Remaining' = Remaining
  <2>1. Left' = Left
    BY <1>5, <1>7, <1>8 DEF Left, Gone
  <2>2. \A b : Sure(b)' <=> Sure(b)
    BY <1>5 DEF Sure
  <2> QED
    BY <1>5, <2>1, <2>2 DEF Remaining
<1>10. FileOK'
  <2>1. db'.eliminated \subseteq Known
    BY <1>1, <1>2, <1>4 DEF FileOK, Unassigned
  <2> QED
    BY <1>2, <1>4, <1>5, <2>1 DEF FileOK, input
<1>11. PICK B \in Seq(Entries), l \in {v, -v} :
         /\ B = StoredFor(v) /\ StoredAs(v, B, l)
         /\ \A k \in 1..Len(B) : Var(B[k][1]) = v
  BY StoredBlock
<1>12. elimclauses' = elimclauses \o B /\ elimclauses \in Seq(Entries)
  BY <1>2, <1>11 DEF Types, RestOK, Entries
<1>13. ASSUME NEW k \in 1..Len(elimclauses')
       PROVE  Var(elimclauses'[k][1]) \in db'.eliminated
  <2>1. PICK n \in Nat, m \in Nat : n = Len(elimclauses) /\ m = Len(B)
    BY <1>12
  <2>2. k \in 1..(n + m)
    BY <1>12, <2>1
  <2>3. CASE k <= n
    <3>1. elimclauses'[k] = elimclauses[k] /\ k \in 1..Len(elimclauses)
      BY <1>12, <2>1, <2>2, <2>3
    <3> QED
      BY <1>1, <1>4, <3>1 DEF Apart
  <2>4. CASE k > n
    <3>1. k - n \in 1..Len(B) /\ elimclauses'[k] = B[k - n]
      BY <1>12, <2>1, <2>2, <2>4
    <3>2. Var(B[k - n][1]) = v
      BY <1>11, <3>1
    <3> QED
      BY <1>1, <3>1, <3>2
  <2> QED
    BY <2>2, <2>3, <2>4
<1>14. Apart'
  <2>1. v \in Known
    BY <1>2 DEF Unassigned
  <2> QED
    BY <1>1, <1>2, <1>3, <1>4, <1>5, <1>7, <1>13, <2>1 DEF Apart, Freed
<1>15. \A k : WithLit(db, k)' = WithLit(db, k)
  BY <1>1 DEF WithLit
<1>16. Resolving'
  <2>1. ToSet(cross'.todo) = WithLit(db, v) \X WithLit(db, -v)
    BY <1>3, PairsFacts
  <2>2. \A k \in Assigned : Var(k) # v
    <3>1. v \notin Assigned /\ -v \notin Assigned
      BY <1>2 DEF Unassigned
    <3> QED
      BY <3>1, LiveVarsFacts, LitFacts
  <2>3. PICK P, N : /\ P = WithLit(db, v) /\ N = WithLit(db, -v)
                    /\ P = WithLit(db, v)' /\ N = WithLit(db, -v)'
    BY <1>15
  <2> QED
    BY <1>3, <1>5, <2>1, <2>2, <2>3 DEF Resolving
<1>17. Block(B, l)'
  <2>1. PICK W : W = WithLit(db, l) /\ W = WithLit(db, l)'
    BY <1>15
  <2>2. PICK L : L = db.lits /\ L = db'.lits
    BY <1>1
  <2>3. ASSUME NEW i \in 1..(Len(B) - 1) PROVE \E cr \in W : B[i] = <<l, L[cr] \ {l}>>
    <3>1. PICK cr \in WithLit(db, l) : B[i] = <<l, db.lits[cr] \ {l}>>
      BY <1>11 DEF StoredAs
    <3> QED
      BY <2>1, <2>2, <3>1, Zenon
  <2>4. ASSUME NEW cr \in W PROVE \E i \in 1..(Len(B) - 1) : B[i] = <<l, L[cr] \ {l}>>
    <3>1. PICK i \in 1..(Len(B) - 1) : B[i] = <<l, db.lits[cr] \ {l}>>
      BY <1>11, <2>1 DEF StoredAs
    <3> QED
      BY <2>2, <3>1, Zenon
  <2>5. Len(B) > 0 /\ B[Len(B)] = <<-l, {}>>
    BY <1>11 DEF StoredAs
  <2> QED
    BY <2>1, <2>2, <2>3, <2>4, <2>5, Zenon DEF Block
<1>18. InBlock'
  <2>1. Extends(elimclauses, Remaining', Unfalsified')
    BY <1>4, <1>6, <1>9
  <2>2. l \in {cross'.v, -cross'.v}
    BY <1>3
  <2> QED
    BY <1>12, <1>17, <2>1, <2>2 DEF InBlock
<1>19. Chain' /\ Extending'
  BY <1>2, <1>16, <1>18 DEF Chain, Extending
<1> QED
  BY <1>6, <1>10, <1>14, <1>19 DEF Meaning

LEMMA EliminateVarMeaning ==
  ASSUME Types, Types', Meaning, ok, ClausesOK(db), IndexOK(db),
         pc \in {"eliminate", "variable"},
         NEW d, LikeDb(d), NEW v \in Vars \ db.eliminated, EliminateVar(d, v),
         UNCHANGED <<input, loaded, trail, ok>>
  PROVE  Meaning'
<1>1. CASE Eliminates(d, v, Lookup(d, v))
  BY <1>1, EliminatesMeaning
<1>2. CASE Renounces(d, v)
  <2>1. Alike(db, db')
    <3>1. LikeDb(Lookup(d, v))
      BY LikeDbFacts
    <3>2. Alike(db, d) /\ Alike(db, Lookup(d, v))
      BY <3>1 DEF LikeDb
    <3>3. db' = d \/ db' = Lookup(d, v)
      BY <1>2 DEF Renounces
    <3> QED
      BY <3>2, <3>3
  <2>2. pc' = "eliminate" /\ cross' = NoCross /\ UNCHANGED elimclauses
    BY <1>2 DEF Renounces
  <2> QED
    BY <2>1, <2>2, QuietMeaning DEF Freed
<1> QED
  BY <1>1, <1>2, EliminateVarCases

LEMMA EliminateMeaning == Types /\ Types' /\ Meaning /\ Eliminate => Meaning'
<1> SUFFICES ASSUME Types, Types', Meaning, Eliminate PROVE Meaning'
  OBVIOUS
<1>1. ClausesOK(db) /\ IndexOK(db) /\ ok /\ pc = "variable"
  BY IndexOf DEF Eliminate, Freed
<1>2. LikeDb(db)
  BY <1>1, AlikeSame DEF LikeDb
<1>3. cross.v \in Vars
  BY <1>1 DEF Types, CrossOK
<1>4. cross # NoCross
  BY <1>3, VarFacts DEF NoCross
<1>5. cross.v \notin db.eliminated
  BY <1>1, <1>4 DEF Meaning, Apart
<1>6. EliminateVar(db, cross.v) /\ UNCHANGED <<input, loaded, trail, ok>>
  BY DEF Eliminate
<1> QED
  BY <1>1, <1>2, <1>3, <1>5, <1>6, EliminateVarMeaning

LEMMA TakeVarMeaning == Types /\ Types' /\ Meaning /\ TakeVar => Meaning'
<1> SUFFICES ASSUME Types, Types', Meaning, TakeVar PROVE Meaning'
  OBVIOUS
<1>1. /\ ClausesOK(db) /\ IndexOK(db) /\ ok /\ pc = "eliminate"
      /\ UNCHANGED <<input, loaded, trail, ok>>
  BY IndexOf DEF TakeVar, Freed
<1>2. PICK v, d :
        /\ v \in Vars
        /\ LikeDb(d) /\ db.eliminated = d.eliminated
        /\ \/ PassesOver(d)
           \/ /\ v \in Unassigned \ db.eliminated
              /\ VisitsClauses(d, v) \/ EliminateVar(d, v)
  BY <1>1, TakeVarCases
<1>3. CASE PassesOver(d)
  <2>1. Alike(db, db') /\ UNCHANGED <<elimclauses, cross, pc>>
    BY <1>2, <1>3 DEF PassesOver, LikeDb
  <2> QED
    BY <1>1, <2>1, QuietMeaning DEF Freed
<1>4. CASE v \in Unassigned \ db.eliminated /\ VisitsClauses(d, v)
  <2>1. Alike(db, db')
    <3>1. LikeDb(Lookup(d, v))
      BY <1>2, LikeDbFacts
    <3> QED
      BY <1>4, <3>1 DEF VisitsClauses, LikeDb
  <2>2. UNCHANGED elimclauses /\ pc' = "asymm" /\ cross'.v = v
    BY <1>4 DEF VisitsClauses
  <2> QED
    BY <1>1, <1>4, <2>1, <2>2, QuietMeaning DEF Freed
<1>5. CASE v \in Unassigned \ db.eliminated /\ EliminateVar(d, v)
  BY <1>1, <1>2, <1>5, EliminateVarMeaning
<1> QED
  BY <1>2, <1>3, <1>4, <1>5

-----------------------------------------------------------------------------
(* A resolvent is implied by its clauses.                                  *)
LEMMA ResolventHolds ==
  ASSUME Types, NEW v \in Vars, NEW p \in WithLit(db, v), NEW n \in WithLit(db, -v)
  PROVE  /\ Holds(Resolvent(db.lits[p], db.lits[n], v))
         /\ Resolvent(db.lits[p], db.lits[n], v) \in SUBSET Lits
         /\ VarsOf(Resolvent(db.lits[p], db.lits[n], v)) \subseteq LiveVars
         /\ v \notin Resolvent(db.lits[p], db.lits[n], v)
         /\ -v \notin Resolvent(db.lits[p], db.lits[n], v)
<1>1. p \in db.live /\ n \in db.live /\ v \in db.lits[p] /\ -v \in db.lits[n]
  BY DEF WithLit
<1>2. PICK c \in SUBSET Lits, e \in SUBSET Lits : c = db.lits[p] /\ e = db.lits[n]
  BY <1>1, LiveFacts DEF Types, DatabaseOK
<1>3. /\ v \in c /\ -v \notin c /\ -v \in e /\ v \notin e
      /\ VarsOf(c) \subseteq LiveVars /\ VarsOf(e) \subseteq LiveVars
  <2>1. -v \notin c /\ -(-v) \notin e
    BY <1>1, <1>2, LiveVarsFacts
  <2> QED
    BY <1>1, <1>2, <2>1, LiveVarsFacts, VarFacts, LitFacts
<1>4. PICK R : R = Resolvent(c, e, v) /\ R = (c \cup e) \ {v, -v}
  BY DEF Resolvent
<1>5. Holds(R)
  <2> SUFFICES ASSUME NEW vs \in SUBSET Vars, NEW b, LiveVars \subseteq vs,
                      b \in SetsOfLits(vs), Sat(b)
               PROVE  b \cap R # {}
    BY DEF Holds
  <2>1. b \cap c # {} /\ b \cap e # {} /\ \A k \in b : -k \notin b
    BY <1>1, <1>2, SatIs, ValuesFacts
  <2>2. CASE v \in b
    <3>1. -v \notin b
      BY <2>1, <2>2
    <3> QED
      BY <1>3, <1>4, <2>1, <3>1
  <2>3. CASE v \notin b
    BY <1>3, <1>4, <2>1, <2>3
  <2> QED
    BY <2>2, <2>3
<1>6. VarsOf(R) \subseteq LiveVars
  BY <1>3, <1>4 DEF VarsOf
<1> QED
  BY <1>2, <1>4, <1>5, <1>6

(* A clause without a variable does not change those of the variable.      *)
LEMMA AddClauseSides ==
  ASSUME Types, IndexOK(db), NEW v \in Vars, NEW c \in SUBSET Lits,
         VarsOf(c) \subseteq LiveVars, v \notin c, -v \notin c, AddClause(db, c)
  PROVE  /\ db'.nvars = db.nvars /\ db'.eliminated = db.eliminated
         /\ \A cr \in db.live : cr \in db'.live /\ db'.lits[cr] = db.lits[cr]
         /\ \A l \in {v, -v} : WithLit(db, l)' = WithLit(db, l)
         /\ \A k \in Assigned' : k \in Assigned \/ k \in c
<1>1. ClausesOK(db) /\ TrailOK
  BY DEF Types, DatabaseOK
<1>2. VarsOf(c) \subseteq 1..db.nvars /\ Known \subseteq 1..db.nvars
  BY LiveVarsFacts DEF Known
<1>3. /\ db'.nvars = db.nvars /\ db'.eliminated = db.eliminated
      /\ \A cr \in db.live : cr \in db'.live /\ db'.lits[cr] = db.lits[cr]
  BY <1>1, <1>2, AddClauseTypes
<1>4. ASSUME NEW l \in {v, -v} PROVE WithLit(db, l)' = WithLit(db, l)
  <2>1. CASE db' = db
    BY <2>1 DEF WithLit
  <2>2. CASE Kept(db, c)
    <3>1. Open(c) \in SUBSET Lits /\ VarsOf(Open(c)) \subseteq VarsOf(c)
          /\ ~Tautology(Open(c)) /\ Cardinality(Open(c)) > 1 /\ Open(c) \subseteq c
      BY <2>2 DEF Kept, Open, VarsOf, Tautology
    <3>2. WithClause(db, Open(c), db')
      <4>1. db' = Added(db, Open(c)) /\ VarsOf(Open(c)) \subseteq 1..db.nvars
        BY <1>2, <2>2, <3>1 DEF Kept
      <4> QED
        BY <1>1, <3>1, <4>1, AddedFacts
    <3>3. PICK new : /\ db'.live = db.live \cup {new} /\ db'.lits[new] = Open(c)
                     /\ \A cr \in db.live : db'.lits[cr] = db.lits[cr]
      BY <3>2 DEF WithClause
    <3>4. l \notin db'.lits[new]
      BY <3>1, <3>3
    <3> QED
      BY <3>3, <3>4 DEF WithLit
  <2> QED
    BY <2>1, <2>2, AddClauseCases DEF Dropped, Contradicts, Enqueued
<1>5. ASSUME NEW k \in Assigned' PROVE k \in Assigned \/ k \in c
  <2>1. CASE UNCHANGED trail
    BY <1>5, <2>1 DEF Assigned
  <2>2. ASSUME NEW l \in c, Enqueued(db, c, l) PROVE k \in Assigned \/ k \in c
    <3>1. Assigned' = Assigned \cup {l}
      BY <1>1, <2>2, EnqueueFacts DEF TrailOK, Enqueued
    <3> QED
      BY <1>5, <3>1
  <2> QED
    BY <2>1, <2>2, AddClauseCases DEF Dropped, Contradicts, Kept
<1> QED
  BY <1>3, <1>4, <1>5

LEMMA ResolveMeaning ==
  Types /\ Types' /\ Meaning /\ Resolve /\ "rcheck" \notin options => Meaning'
<1> SUFFICES ASSUME Types, Types', Meaning, Resolve, "rcheck" \notin options PROVE Meaning'
  OBVIOUS
<1>1. /\ ClausesOK(db) /\ IndexOK(db) /\ ok /\ pc = "resolve" /\ pc' = "resolve"
      /\ UNCHANGED <<input, loaded, elimclauses>>
  BY IndexOf DEF Resolve, Freed
<1>2. PICK p \in db.live, n \in db.live, rest \in Seq(Nat \X Nat) :
        /\ <<p, n>> \in ToSet(cross.todo)
        /\ ToSet(cross.todo) = {<<p, n>>} \cup ToSet(rest)
        /\ cross' = [cross EXCEPT !.todo = rest]
        /\ AddClause(db, Resolvent(db.lits[p], db.lits[n], cross.v))
  BY ResolveHead
<1>3. PICK v \in Vars : v = cross.v
  BY <1>1 DEF Types, CrossOK
<1>4. cross'.v = v /\ cross'.todo = rest
  BY <1>2, <1>3 DEF Types, CrossOK
<1>5. Resolving
  BY <1>1 DEF Meaning, Chain
<1>6. p \in WithLit(db, v) /\ n \in WithLit(db, -v)
  BY <1>2, <1>3, <1>5 DEF Resolving
<1>7. PICK R \in SUBSET Lits : /\ R = Resolvent(db.lits[p], db.lits[n], v) /\ Holds(R)
                               /\ VarsOf(R) \subseteq LiveVars /\ v \notin R /\ -v \notin R
  BY <1>6, ResolventHolds
<1>8. AddClause(db, R)
  BY <1>2, <1>3, <1>7
<1>9. /\ db'.nvars = db.nvars /\ db'.eliminated = db.eliminated
      /\ \A cr \in db.live : cr \in db'.live /\ db'.lits[cr] = db.lits[cr]
      /\ \A l \in {v, -v} : WithLit(db, l)' = WithLit(db, l)
      /\ \A k \in Assigned' : k \in Assigned \/ k \in R
  BY <1>1, <1>7, <1>8, AddClauseSides
<1>10. Aside
  BY <1>1, <1>3, <1>4, <1>9 DEF Aside, Done
<1>11. Steady /\ (ok' => Covered(R)')
  BY <1>1, <1>7, <1>8, <1>10, AddClauseSteady
<1>12. ok' => Resolving'
  <2>1. /\ cross.v \in Vars /\ cross'.v = cross.v /\ Assigned \subseteq Assigned'
        /\ Assigned \subseteq Lits /\ Assigned' \subseteq Lits
    BY <1>3, <1>4, <1>11, ToSetFacts DEF Types, TrailOK, Assigned, Steady
  <2>2. /\ db.live \subseteq db'.live /\ \A cr \in db.live : db'.lits[cr] = db.lits[cr]
        /\ \A l \in {cross.v, -cross.v} : WithLit(db, l)' = WithLit(db, l)
        /\ ToSet(cross'.todo) \subseteq ToSet(cross.todo)
    BY <1>2, <1>3, <1>4, <1>9
  <2>3. ASSUME ok', NEW i \in db.live, NEW j \in db.live, <<i, j>> \in ToSet(cross.todo)
        PROVE  \/ <<i, j>> \in ToSet(cross'.todo)
               \/ Covered(Resolvent(db.lits[i], db.lits[j], cross.v))'
    <3>1. CASE <<i, j>> = <<p, n>>
      <4>1. R = Resolvent(db.lits[i], db.lits[j], cross.v)
        BY <1>3, <1>7, <3>1
      <4>2. R = Resolvent(db'.lits[i], db'.lits[j], cross'.v)
        BY <1>9, <2>1, <4>1
      <4>3. R' = Resolvent(db.lits[i], db.lits[j], cross.v)'
        BY <4>2
      <4>4. Covered(R)'
        BY <1>11, <2>3
      <4> QED
        BY <4>3, <4>4
    <3>2. CASE <<i, j>> # <<p, n>>
      BY <1>2, <1>4, <2>3, <3>2
    <3> QED
      BY <3>1, <3>2
  <2>4. \A l \in Assigned' : l \in Assigned \/ Var(l) # cross.v
    <3>1. \A l \in R : Var(l) # v
      BY <1>7, LitFacts
    <3> QED
      BY <1>3, <1>9, <3>1
  <2> QED
    BY <1>5, <2>1, <2>2, <2>3, <2>4, ResolvingKept
<1>13. cross'.v = cross.v /\ \A l \in {cross.v, -cross.v} : WithLit(db, l)' = WithLit(db, l)
  BY <1>3, <1>4, <1>9
<1> QED
  BY <1>1, <1>9, <1>11, <1>12, <1>13, ResolvingMeaning

-----------------------------------------------------------------------------
(* The value a block gives its variable, after its entries j + 1 and on.   *)
Fails(e, b) == \A k \in e[2] : -k \in b /\ k \notin b
WithValue(B, l, b, j) ==
  (b \ {l, -l}) \cup {IF \E i \in (j + 1)..(Len(B) - 1) : Fails(B[i], b) THEN l ELSE -l}
BlockOf(B, l) ==
  /\ Len(B) > 0 /\ B[Len(B)] = <<-l, {}>>
  /\ \A i \in 1..(Len(B) - 1) : B[i][1] = l /\ l \notin B[i][2] /\ -l \notin B[i][2]

LEMMA ValueBefore ==
  ASSUME NEW B \in Seq(Entries), NEW l \in Lits, BlockOf(B, l), NEW b \in SUBSET Lits,
         NEW j \in 1..(Len(B) - 1)
  PROVE  Applied(B[j], WithValue(B, l, b, j)) = WithValue(B, l, b, j - 1)
<1>1. PICK n \in Nat : n = Len(B)
  OBVIOUS
<1>2. PICK e \in Entries : e = B[j]
  BY <1>1
<1>3. e[1] = l /\ l \notin e[2] /\ -l \notin e[2] /\ e[2] \in SUBSET Lits
  BY <1>1, <1>2 DEF BlockOf, Entries
<1>4. PICK m : m = WithValue(B, l, b, j)
  OBVIOUS
<1>5. -l # l /\ -(-l) = l
  BY LitFacts
<1>6. Fails(e, m) <=> Fails(e, b)
  <2>1. ASSUME NEW k \in e[2] PROVE (-k \in m <=> -k \in b) /\ (k \in m <=> k \in b)
    <3>1. k \in Lits /\ k # l /\ k # -l
      BY <1>3
    <3>2. -k # l /\ -k # -l
      BY <1>5, <3>1, LitFacts
    <3> QED
      BY <1>4, <3>1, <3>2 DEF WithValue
  <2> QED
    BY <2>1 DEF Fails
<1>7. (j - 1) + 1 = j /\ j \in Nat
  BY <1>1
<1>8. PICK later : later = \E i \in (j + 1)..(n - 1) : Fails(B[i], b)
  OBVIOUS
<1>9. (\E i \in j..(n - 1) : Fails(B[i], b)) <=> (Fails(e, b) \/ later)
  <2>1. \A i : i \in j..(n - 1) <=> i = j \/ i \in (j + 1)..(n - 1)
    BY <1>1
  <2> QED
    BY <1>2, <1>8, <2>1
<1>10. m = (b \ {l, -l}) \cup {IF later THEN l ELSE -l}
  BY <1>1, <1>4, <1>8 DEF WithValue
<1>11. WithValue(B, l, b, j - 1) = (b \ {l, -l}) \cup {IF Fails(e, b) \/ later THEN l ELSE -l}
  BY <1>1, <1>7, <1>9 DEF WithValue
<1>12. Applied(e, m) = IF Fails(e, b) THEN (m \ {-l}) \cup {l} ELSE m
  BY <1>3, <1>6 DEF Applied, Fails
<1>13. CASE Fails(e, b)
  BY <1>2, <1>4, <1>5, <1>10, <1>11, <1>12, <1>13
<1>14. CASE ~Fails(e, b)
  BY <1>2, <1>4, <1>10, <1>11, <1>12, <1>14
<1> QED
  BY <1>13, <1>14

BlockStages(B, T, S) ==
  \E G \in [0..Len(B) -> SUBSET SUBSET Lits] :
    G[0] \subseteq S /\ G[Len(B)] = T /\ LeadsFrom(B, G)

LEMMA BlockLeads ==
  ASSUME NEW B \in Seq(Entries), NEW l \in Lits, BlockOf(B, l),
         NEW T \in SUBSET SUBSET Lits, NEW S, \A b \in T : WithValue(B, l, b, 0) \in S
  PROVE  BlockStages(B, T, S)
<1>1. PICK n \in Nat : n = Len(B) /\ n > 0
  BY DEF BlockOf
<1> DEFINE At(j) == IF j = n THEN T ELSE {WithValue(B, l, b, j) : b \in T}
           G == [j \in 0..n |-> At(j)]
<1>2. ASSUME NEW j \in 0..n PROVE At(j) \in SUBSET SUBSET Lits
  <2>1. -l \in Lits
    BY LitFacts
  <2>2. \A b \in T : WithValue(B, l, b, j) \in SUBSET Lits
    BY <2>1 DEF WithValue
  <2> QED
    BY <2>2
<1>3. G \in [0..Len(B) -> SUBSET SUBSET Lits]
  BY <1>1, <1>2
<1>4. 0 \in 0..n /\ n \in 0..n /\ 0 # n
  BY <1>1
<1>5. G[n] = T /\ G[0] = {WithValue(B, l, b, 0) : b \in T}
  BY <1>4
<1>6. ASSUME NEW k \in 1..n, NEW m \in At(k) PROVE Applied(B[k], m) \in At(k - 1)
  <2>1. k - 1 # n /\ k - 1 \in 0..n
    BY <1>1
  <2>2. At(k - 1) = {WithValue(B, l, b, k - 1) : b \in T}
    BY <2>1
  <2>3. CASE k = n
    <3>1. m \in T /\ B[k] = <<-l, {}>>
      BY <1>1, <1>6, <2>3 DEF BlockOf
    <3>2. Applied(B[k], m) = (m \ {-(-l)}) \cup {-l}
      BY <3>1 DEF Applied
    <3>3. (n - 1) + 1 = n /\ n..(n - 1) = {}
      BY <1>1
    <3>4. WithValue(B, l, m, k - 1) = (m \ {l, -l}) \cup {-l}
      BY <1>1, <2>3, <3>3 DEF WithValue
    <3>5. Applied(B[k], m) = WithValue(B, l, m, k - 1)
      BY <3>2, <3>4, LitFacts
    <3> QED
      BY <2>2, <3>1, <3>5
  <2>4. CASE k # n
    <3>1. PICK b \in T : m = WithValue(B, l, b, k)
      BY <1>6, <2>4
    <3>2. k \in 1..(Len(B) - 1)
      BY <1>1, <2>4
    <3>3. Applied(B[k], m) = WithValue(B, l, b, k - 1)
      BY <3>1, <3>2, ValueBefore
    <3> QED
      BY <2>2, <3>3
  <2> QED
    BY <2>3, <2>4
<1>7. LeadsFrom(B, G)
  <2>1. \A k \in 1..n : k \in 0..n /\ k - 1 \in 0..n
    BY <1>1
  <2>2. \A k \in 1..n : G[k] = At(k) /\ G[k - 1] = At(k - 1)
    BY <2>1
  <2> QED
    BY <1>1, <1>6, <2>2 DEF LeadsFrom
<1> HIDE DEF G
<1> QED
  BY <1>1, <1>3, <1>5, <1>7 DEF BlockStages

-----------------------------------------------------------------------------
(* The clauses of the variable leave.                                      *)
Without(v, b) ==
  /\ \A cr \in db.live : v \notin VarsOf(db.lits[cr]) => b \cap db.lits[cr] # {}
  /\ Assigned \subseteq b

LEMMA DropVarShape ==
  ASSUME Types, Meaning, DropVar, NEW v, v = cross.v
  PROVE  /\ v \in Vars /\ v \in db.eliminated /\ v \in Known /\ ClausesOK(db)
         /\ db'.live = {cr \in db.live : v \notin VarsOf(db.lits[cr])}
         /\ db'.lits = db.lits /\ db'.nvars = db.nvars /\ db'.eliminated = db.eliminated
         /\ UNCHANGED <<input, loaded, trail, ok, elimclauses>> /\ ok
         /\ pc = "resolve" /\ pc' = "subsume" /\ cross' = NoCross
         /\ Resolving /\ InBlock /\ cross.todo = <<>>
         /\ \A b : Sat(b)' <=> Without(v, b)
<1>1. /\ ClausesOK(db) /\ IndexOK(db) /\ ok /\ pc = "resolve" /\ pc' = "subsume"
      /\ cross' = NoCross /\ cross.todo = <<>>
      /\ UNCHANGED <<input, loaded, trail, ok, elimclauses>>
  BY IndexOf DEF DropVar, Freed
<1>2. cross.v \in Vars /\ cross.v \notin db.dirty
  BY <1>1 DEF Types, CrossOK
<1>3. WithoutVar(v, db')
  BY <1>1, <1>2, DropVarFacts
<1>4. Resolving /\ InBlock /\ v \in db.eliminated /\ v \in Known
  BY <1>1 DEF Meaning, Chain, Apart
<1>5. Assigned' = Assigned
  BY <1>1 DEF Assigned
<1>6. /\ db'.live = {cr \in db.live : v \notin VarsOf(db.lits[cr])}
      /\ db'.lits = db.lits /\ db'.nvars = db.nvars /\ db'.eliminated = db.eliminated
  BY <1>3 DEF WithoutVar
<1>7. \A b : Sat(b)' <=> Without(v, b)
  BY <1>5, <1>6, SatNext DEF Without
<1> QED
  BY <1>1, <1>2, <1>4, <1>6, <1>7

(* The other literals of a clause of the variable are false: then one of   *)
(* each clause on the other side is true, that of their resolvent.         *)
LEMMA OtherSideHolds ==
  ASSUME Types, Resolving, cross.todo = <<>>, NEW v \in Vars, v = cross.v, NEW b,
         Without(v, b), NEW m \in {v, -v},
         NEW p \in WithLit(db, m), NEW n \in WithLit(db, -m),
         \A k \in db.lits[p] \ {m} : -k \in b /\ k \notin b
  PROVE  b \cap (db.lits[n] \ {-m}) # {}
<1>1. -(-v) = v /\ v # -v /\ v \in Lits /\ -v \in Lits
  BY VarFacts, LitFacts
<1>2. p \in db.live /\ n \in db.live /\ m \in db.lits[p] /\ -m \in db.lits[n]
  BY DEF WithLit
<1>3. PICK c \in SUBSET Lits, e \in SUBSET Lits : c = db.lits[p] /\ e = db.lits[n]
  BY <1>2, LiveFacts DEF Types, DatabaseOK
<1>4. -m \notin c /\ m \notin e
  <2>1. -m \notin c /\ -(-m) \notin e
    BY <1>2, <1>3, LiveVarsFacts
  <2> QED
    BY <1>1, <2>1
<1>5. PICK R : R = (c \ {m}) \cup (e \ {-m})
  OBVIOUS
<1>6. Covered(R)
  <2>1. ToSet(cross.todo) = {}
    BY DEF ToSet
  <2>2. CASE m = v
    <3>1. Resolvent(c, e, v) = R
      BY <1>1, <1>4, <1>5, <2>2 DEF Resolvent
    <3> QED
      BY <1>3, <2>1, <2>2, <3>1 DEF Resolving
  <2>3. CASE m = -v
    <3>1. Resolvent(e, c, v) = R
      BY <1>1, <1>4, <1>5, <2>3 DEF Resolvent
    <3>2. n \in WithLit(db, v) /\ p \in WithLit(db, -v)
      BY <1>1, <2>3
    <3> QED
      BY <1>3, <2>1, <3>1, <3>2 DEF Resolving
  <2> QED
    BY <2>2, <2>3
<1>7. \A k \in c \ {m} : k \in Lits /\ -k \in b /\ k \notin b /\ -k \notin c /\ -(-k) = k
  <2> SUFFICES ASSUME NEW k \in c \ {m}
               PROVE  k \in Lits /\ -k \in b /\ k \notin b /\ -k \notin c /\ -(-k) = k
    OBVIOUS
  <2>1. k \in Lits /\ -k \in b /\ -(-k) = k
    BY <1>3, LitFacts
  <2>2. -k \notin c
    BY <1>2, <1>3, LiveVarsFacts
  <2>3. k \notin b
    BY <1>3
  <2> QED
    BY <2>1, <2>2, <2>3
<1>8. b \cap R # {} => b \cap (e \ {-m}) # {}
  BY <1>5, <1>7
<1>9. CASE Tautology(R)
  <2>1. PICK k \in R : -k \in R
    BY <1>9 DEF Tautology
  <2>2. k \in Lits /\ -(-k) = k
    BY <1>3, <1>5, <2>1, LitFacts
  <2>3. CASE k \in c \ {m}
    BY <1>3, <1>5, <1>7, <2>1, <2>3
  <2>4. CASE k \notin c \ {m}
    <3>1. k \in e \ {-m}
      BY <1>5, <2>1, <2>4
    <3>2. -k \notin e
      BY <1>2, <1>3, <3>1, LiveVarsFacts
    <3>3. -k \in c \ {m}
      BY <1>5, <2>1, <3>2
    <3>4. k \in b
      BY <1>7, <2>2, <3>3
    <3> QED
      BY <1>3, <3>1, <3>4
  <2> QED
    BY <2>3, <2>4
<1>10. CASE R \cap Assigned # {}
  <2>1. b \cap R # {}
    BY <1>10 DEF Without
  <2> QED
    BY <1>3, <1>8, <2>1
<1>11. ASSUME NEW cr \in db.live, db.lits[cr] \subseteq R PROVE b \cap R # {}
  <2>1. v \notin R /\ -v \notin R
    BY <1>1, <1>4, <1>5
  <2>2. v \notin VarsOf(db.lits[cr])
    <3>1. v \notin db.lits[cr] /\ -v \notin db.lits[cr]
      BY <1>11, <2>1
    <3>2. db.lits[cr] \in SUBSET Lits
      BY LiveFacts DEF Types, DatabaseOK
    <3> QED
      BY <3>1, <3>2, VarsOfIs
  <2>3. b \cap db.lits[cr] # {}
    BY <2>2 DEF Without
  <2> QED
    BY <1>11, <2>3
<1> QED
  BY <1>3, <1>6, <1>8, <1>9, <1>10, <1>11 DEF Covered

(* A model without the variable, with the value the block gives it.        *)
LEMMA BlockValue ==
  ASSUME Types, Resolving, cross.todo = <<>>, NEW v \in Vars, v = cross.v, v \in Known,
         NEW vs \in SUBSET Vars, LiveVars \subseteq vs, v \in vs,
         \A l \in Assigned : Var(l) \in vs,
         NEW us \in SUBSET vs, vs \ {v} \subseteq us, NEW b \in Loose(us), Without(v, b),
         Sure(b),
         NEW l \in {v, -v}, NEW x, x = IF \E cr \in WithLit(db, l) :
                                   \A k \in db.lits[cr] \ {l} : -k \in b /\ k \notin b
                                       THEN l ELSE -l
  PROVE  /\ (b \ {l, -l}) \cup {x} \in Loose(vs)
         /\ Sat((b \ {l, -l}) \cup {x})
         /\ Sure((b \ {l, -l}) \cup {x})
<1>1. -(-v) = v /\ v # -v /\ v \in Lits /\ -v \in Lits /\ Var(v) = v /\ Var(-v) = v
  BY VarFacts, LitFacts
<1>2. l \in Lits /\ -l \in Lits /\ -(-l) = l /\ l # -l /\ {l, -l} = {v, -v} /\ x \in {l, -l}
  BY <1>1
<1>3. /\ b \subseteq Lits /\ \A k \in b : Var(k) \in us
      /\ \A w \in us : w \in b \/ -w \in b
  BY DEF Loose
<1>4. PICK a : a = (b \ {l, -l}) \cup {x}
  OBVIOUS
<1>5. a \in Loose(vs)
  <2>1. a \subseteq Lits
    BY <1>2, <1>3, <1>4
  <2>2. ASSUME NEW k \in a PROVE Var(k) \in vs
    BY <1>1, <1>2, <1>3, <1>4
  <2>3. ASSUME NEW w \in vs PROVE w \in a \/ -w \in a
    <3>1. CASE w = v
      BY <1>1, <1>2, <1>4, <3>1
    <3>2. CASE w # v
      <4>1. w \in b \/ -w \in b
        BY <1>3, <3>2
      <4>2. w \notin {v, -v} /\ -w \notin {v, -v}
        BY <1>1, <3>2, VarFacts
      <4> QED
        BY <1>2, <1>4, <4>1, <4>2
    <3> QED
      BY <3>1, <3>2
  <2> QED
    BY <2>1, <2>2, <2>3 DEF Loose
(* The clauses with l, and those with its negation.                        *)
<1>6. ASSUME NEW cr \in WithLit(db, l) PROVE a \cap db.lits[cr] # {}
  <2>1. cr \in db.live /\ l \in db.lits[cr]
    BY DEF WithLit
  <2>2. CASE x = l
    BY <1>4, <2>1, <2>2
  <2>3. CASE x = -l
    <3>1. PICK k \in db.lits[cr] \ {l} : -k \notin b \/ k \in b
      BY <1>2, <2>3
    <3>2. k \in Lits /\ Var(k) \in vs /\ k # -l
      BY <2>1, <3>1, LiveVarsFacts
    <3>3. k \notin {v, -v}
      BY <1>2, <3>1, <3>2
    <3>4. Var(k) # v /\ (k = Var(k) \/ k = -Var(k)) /\ -(-k) = k
      BY <3>2, <3>3, LitFacts
    <3>5. Var(k) \in us
      BY <3>2, <3>4
    <3>6. k \in b
      <4>1. Var(k) \in b \/ -Var(k) \in b
        BY <1>3, <3>5
      <4>2. Var(k) \in Lits /\ -(-Var(k)) = Var(k)
        BY <3>2, LitFacts, VarFacts
      <4> QED
        BY <3>1, <3>4, <4>1, <4>2
    <3> QED
      BY <1>2, <1>4, <3>1, <3>3, <3>6
  <2> QED
    BY <1>2, <2>2, <2>3
<1>7. ASSUME NEW cr \in WithLit(db, -l) PROVE a \cap db.lits[cr] # {}
  <2>1. cr \in db.live /\ -l \in db.lits[cr]
    BY DEF WithLit
  <2>2. CASE x = -l
    BY <1>4, <2>1, <2>2
  <2>3. CASE x = l
    <3>1. PICK p \in WithLit(db, l) : \A k \in db.lits[p] \ {l} : -k \in b /\ k \notin b
      BY <1>2, <2>3
    <3>2. b \cap (db.lits[cr] \ {-l}) # {}
      BY <3>1, OtherSideHolds
    <3>3. l \notin db.lits[cr]
      <4>1. -(-l) \notin db.lits[cr]
        BY <2>1, LiveVarsFacts
      <4> QED
        BY <1>2, <4>1
    <3> QED
      BY <1>4, <3>2, <3>3
  <2> QED
    BY <1>2, <2>2, <2>3
<1>8. ASSUME NEW cr \in db.live PROVE a \cap db.lits[cr] # {}
  <2>1. CASE l \in db.lits[cr]
    BY <1>6, <2>1 DEF WithLit
  <2>2. CASE -l \in db.lits[cr]
    BY <1>7, <2>2 DEF WithLit
  <2>3. CASE l \notin db.lits[cr] /\ -l \notin db.lits[cr]
    <3>1. v \notin db.lits[cr] /\ -v \notin db.lits[cr]
      BY <1>2, <2>3
    <3>2. db.lits[cr] \in SUBSET Lits
      BY LiveFacts DEF Types, DatabaseOK
    <3>3. v \notin VarsOf(db.lits[cr])
      BY <3>1, <3>2, VarsOfIs
    <3>4. b \cap db.lits[cr] # {}
      BY <3>3 DEF Without
    <3> QED
      BY <1>4, <2>3, <3>4
  <2> QED
    BY <2>1, <2>2, <2>3
(* An assignment of the variable is what the block gives it.               *)
<1>9. ASSUME NEW k \in Assigned PROVE k \in a
  <2>1. k \in b /\ k \in Lits
    BY LiveVarsFacts DEF Without
  <2>2. CASE k \notin {l, -l}
    BY <1>4, <2>1, <2>2
  <2>3. CASE k \in {l, -l}
    <3>1. Var(k) = v
      BY <1>1, <1>2, <2>3
    <3>2. PICK cr \in WithLit(db, k) : \A i \in db.lits[cr] \ {k} : -i \in Assigned
      BY <3>1 DEF Resolving, Forced
    <3>3. \A i \in db.lits[cr] \ {k} : -i \in b /\ i \notin b
      <4> SUFFICES ASSUME NEW i \in db.lits[cr] \ {k} PROVE -i \in b /\ i \notin b
        OBVIOUS
      <4>1. -i \in Assigned /\ cr \in db.live
        BY <3>2 DEF WithLit
      <4>2. i \in Lits /\ -(-i) = i
        BY <4>1, LiveVarsFacts, LitFacts
      <4> QED
        BY <4>1, <4>2 DEF Without, Sure
    <3>4. CASE k = l
      <4>1. x = l
        BY <3>2, <3>3, <3>4
      <4> QED
        BY <1>4, <3>4, <4>1
    <3>5. CASE k = -l
      <4>1. x = -l
        <5> SUFFICES ASSUME NEW p \in WithLit(db, l),
                            \A i \in db.lits[p] \ {l} : -i \in b /\ i \notin b
                     PROVE  FALSE
          OBVIOUS
        <5>1. b \cap (db.lits[cr] \ {-l}) # {}
          BY <3>2, <3>5, OtherSideHolds
        <5>2. PICK i \in b : i \in db.lits[cr] /\ i # k
          BY <3>5, <5>1
        <5> QED
          BY <3>3, <5>2
      <4> QED
        BY <1>4, <3>5, <4>1
    <3> QED
      BY <2>3, <3>4, <3>5
  <2> QED
    BY <2>2, <2>3
<1>10. Sat(a)
  BY <1>8, <1>9, SatIs
<1>11. Sure(a)
  <2> SUFFICES ASSUME NEW k \in Assigned PROVE -k \notin a
    BY DEF Sure
  <2>1. k \in a /\ k \in Lits /\ -k \notin b /\ -(-k) = k /\ -k # k
    BY <1>9, LiveVarsFacts, LitFacts DEF Sure
  <2>2. -k # x
    BY <1>2, <1>4, <2>1
  <2> QED
    BY <1>4, <2>1, <2>2
<1> QED
  BY <1>4, <1>5, <1>10, <1>11

LEMMA DropVarMeaning == Types /\ Types' /\ Meaning /\ DropVar => Meaning'
<1> SUFFICES ASSUME Types, Types', Meaning, DropVar PROVE Meaning'
  OBVIOUS
<1>1. PICK v : v = cross.v
  OBVIOUS
<1>2. /\ v \in Vars /\ v \in db.eliminated /\ v \in Known /\ ClausesOK(db)
      /\ db'.live = {cr \in db.live : v \notin VarsOf(db.lits[cr])}
      /\ db'.lits = db.lits /\ db'.nvars = db.nvars /\ db'.eliminated = db.eliminated
      /\ UNCHANGED <<input, loaded, trail, ok, elimclauses>> /\ ok
      /\ pc = "resolve" /\ pc' = "subsume" /\ cross' = NoCross
      /\ Resolving /\ InBlock /\ cross.todo = <<>>
      /\ \A b : Sat(b)' <=> Without(v, b)
  BY <1>1, DropVarShape
<1>3. FileOK /\ Implied /\ Apart
  BY DEF Meaning
<1>4. /\ Assigned' = Assigned /\ Known' = Known /\ File' = File /\ Origin' = Origin
      /\ Unassigned' = Unassigned /\ Unfalsified' = Unfalsified
  <2>1. Assigned' = Assigned /\ Known' = Known /\ File' = File
    BY <1>2 DEF Assigned, Known, File, input
  <2> QED
    BY <2>1 DEF Origin, Unassigned, Unfalsified
<1>5. FileOK'
  BY <1>2, <1>3, <1>4 DEF FileOK, input
<1>6. Implied'
  <2>1. \A b : Sat(b) => Sat(b)'
    BY <1>2, SatIs DEF Without
  <2> QED
    BY <1>2, <1>3, <1>4, <2>1 DEF Implied
<1>7. Done' = Done \cup {v} /\ v \notin Done
  BY <1>1, <1>2 DEF Done
<1>8. LiveVars' \subseteq LiveVars \ {v}
  <2> SUFFICES ASSUME NEW cr \in db'.live PROVE VarsOf(db'.lits[cr]) \subseteq LiveVars \ {v}
    BY DEF LiveVars
  <2> QED
    BY <1>2, LiveVarsFacts
<1>9. Apart'
  <2>1. LiveVars' \cap Done' = {}
    BY <1>3, <1>7, <1>8 DEF Apart
  <2> QED
    BY <1>2, <1>3, <2>1 DEF Apart, Freed
<1>10. PICK E \in Seq(Entries), B \in Seq(Entries), l \in {v, -v} :
         elimclauses = E \o B /\ Extends(E, Remaining, Unfalsified) /\ Block(B, l)
  BY <1>1, <1>2 DEF InBlock
<1>11. l \in Lits /\ -l \in Lits
  BY <1>2, VarFacts, LitFacts
<1>12. BlockOf(B, l)
  <2>1. ASSUME NEW i \in 1..(Len(B) - 1)
        PROVE  B[i][1] = l /\ l \notin B[i][2] /\ -l \notin B[i][2]
    <3>1. PICK cr \in WithLit(db, l) : B[i] = <<l, db.lits[cr] \ {l}>>
      BY <1>10 DEF Block
    <3>2. -l \notin db.lits[cr]
      BY LiveVarsFacts DEF WithLit
    <3> QED
      BY <3>1, <3>2
  <2> QED
    BY <1>10, <2>1 DEF Block, BlockOf
<1>13. /\ Known \subseteq Vars /\ Left \in SUBSET Vars /\ LiveVars \subseteq Left /\ v \in Left
       /\ Left' \in SUBSET Left /\ Left \ {v} \subseteq Left'
       /\ \A k \in Assigned : Var(k) \in Left
  <2>1. Known \subseteq Vars /\ LiveVars \subseteq Known
        /\ \A k \in Assigned : Var(k) \in Known \ Unassigned
    BY LiveVarsFacts
  <2>2. Left \in SUBSET Vars /\ LiveVars \subseteq Left /\ v \in Left
        /\ \A k \in Assigned : Var(k) \in Left
    BY <1>2, <1>3, <1>7, <2>1 DEF Left, Gone, Apart
  <2>3. Left' \in SUBSET Left /\ Left \ {v} \subseteq Left'
    BY <1>4, <1>7 DEF Left, Gone
  <2> QED
    BY <2>1, <2>2, <2>3
<1>14. ASSUME NEW b \in Remaining' PROVE b \in SUBSET Lits /\ WithValue(B, l, b, 0) \in Remaining
  <2>1. b \in Loose(Left') /\ Without(v, b) /\ Sure(b)
    BY <1>2, <1>4 DEF Remaining, Sure
  <2>2. b \in SUBSET Lits
    BY <2>1 DEF Loose
  <2> DEFINE False(cr) == \A k \in db.lits[cr] \ {l} : -k \in b /\ k \notin b
  <2>3. PICK x : x = IF \E cr \in WithLit(db, l) : False(cr) THEN l ELSE -l
    OBVIOUS
  <2>4. /\ (b \ {l, -l}) \cup {x} \in Loose(Left) /\ Sat((b \ {l, -l}) \cup {x})
        /\ Sure((b \ {l, -l}) \cup {x})
    BY <1>1, <1>2, <1>13, <2>1, <2>3, BlockValue
  <2>5. (\E i \in 1..(Len(B) - 1) : Fails(B[i], b))
          <=> (\E cr \in WithLit(db, l) : False(cr))
    <3>1. ASSUME NEW i \in 1..(Len(B) - 1), Fails(B[i], b)
          PROVE  \E cr \in WithLit(db, l) : False(cr)
      <4>1. PICK cr \in WithLit(db, l) : B[i] = <<l, db.lits[cr] \ {l}>>
        BY <1>10 DEF Block
      <4> QED
        BY <3>1, <4>1 DEF Fails
    <3>2. ASSUME NEW cr \in WithLit(db, l), False(cr)
          PROVE  \E i \in 1..(Len(B) - 1) : Fails(B[i], b)
      <4>1. PICK i \in 1..(Len(B) - 1) : B[i] = <<l, db.lits[cr] \ {l}>>
        BY <1>10 DEF Block
      <4> QED
        BY <3>2, <4>1 DEF Fails
    <3> QED
      BY <3>1, <3>2
  <2>6. WithValue(B, l, b, 0) = (b \ {l, -l}) \cup {x}
    BY <2>3, <2>5 DEF WithValue
  <2> QED
    BY <2>2, <2>4, <2>6 DEF Remaining
<1>15. PICK T \in SUBSET SUBSET Lits : T = Remaining'
  BY <1>14
<1>16. \A b \in T : WithValue(B, l, b, 0) \in Remaining
  BY <1>14, <1>15
<1>17. PICK G \in [0..Len(B) -> SUBSET SUBSET Lits] :
         G[0] \subseteq Remaining /\ G[Len(B)] = T /\ LeadsFrom(B, G)
  <2>1. PICK S : S = Remaining
    OBVIOUS
  <2>2. \A b \in T : WithValue(B, l, b, 0) \in S
    BY <1>16, <2>1
  <2>3. BlockStages(B, T, S)
    BY <1>11, <1>12, <2>2, BlockLeads
  <2> QED
    BY <2>1, <2>3 DEF BlockStages
<1>18. Extends(E \o B, G[Len(B)], Unfalsified)
  BY <1>10, <1>17, ExtendsJoin
<1>19. Extends(elimclauses', Remaining', Unfalsified')
  BY <1>2, <1>4, <1>10, <1>15, <1>17, <1>18
<1>20. Chain' /\ Extending'
  BY <1>2, <1>19 DEF Chain, Extending
<1> QED
  BY <1>5, <1>6, <1>9, <1>20 DEF Meaning

-----------------------------------------------------------------------------
(* The clauses that are left say what the file says: of the models.        *)
LEMMA MeaningSame == Types /\ Meaning /\ pc # "extend" => SameModels
<1> SUFFICES ASSUME Types, Meaning, pc # "extend" PROVE SameModels
  OBVIOUS
<1>1. Implied /\ Apart
  BY DEF Meaning
<1>2. PICK all : all = SetsOfLits(Known)
  OBVIOUS
<1>3. PICK kept : kept = Known \ db.eliminated
  OBVIOUS
<1>4. Origin = {a \in all : Models(a, ToSet(SubSeq(formula, 1, loaded)))}
  BY <1>2 DEF Origin, File
<1>5. CASE ~ok
  <2>1. Origin = {}
    BY <1>1, <1>5 DEF Implied
  <2> QED
    BY <1>2, <1>4, <1>5, <2>1 DEF SameModels
<1>6. CASE ok
  <2>1. ASSUME NEW a \in Origin PROVE a \in all /\ Sat(a)
    BY <1>1, <1>4 DEF Implied
  <2>2. ASSUME NEW b \in all, Sat(b) PROVE \E a \in Origin : Over(a, kept) = Over(b, kept)
    <3>1. /\ Known \in SUBSET Vars /\ Left \in SUBSET Known /\ LiveVars \subseteq Left
          /\ Known \ Unassigned \subseteq Left /\ kept \subseteq Left
      BY <1>1, <1>3, LiveVarsFacts DEF Left, Gone, Done, Apart
    <3>2. PICK c : c = Over(b, Left)
      OBVIOUS
    <3>3. c \in Remaining /\ Sharp(c)
      <4>1. b \in Loose(Known) /\ Sharp(b)
        BY <1>2, <2>2, <3>1, SharpIs
      <4>2. c \in Loose(Left) /\ Sat(c) /\ Sharp(c)
        BY <2>2, <3>1, <3>2, <4>1, Restricted
      <4> QED
        BY <4>2, SharpIsSure DEF Remaining
    <3>4. PICK E \in Seq(Entries) :
            /\ Extends(E, Remaining, Unfalsified)
            /\ \A k \in 1..Len(E) : Var(E[k][1]) \notin kept
      <4>1. \A k \in 1..Len(elimclauses) : Var(elimclauses[k][1]) \notin kept
        BY <1>1, <1>3 DEF Apart
      <4>2. CASE pc # "resolve"
        <5>1. Extends(elimclauses, Remaining, Unfalsified) /\ elimclauses \in Seq(Entries)
          BY <1>6, <4>2 DEF Meaning, Chain, Types, RestOK, Entries
        <5> QED
          BY <4>1, <5>1
      <4>3. CASE pc = "resolve"
        <5>1. PICK E \in Seq(Entries), B \in Seq(Entries) :
                elimclauses = E \o B /\ Extends(E, Remaining, Unfalsified)
          BY <1>6, <4>3 DEF Meaning, Chain, InBlock
        <5>2. \A k \in 1..Len(E) : k \in 1..Len(elimclauses) /\ elimclauses[k] = E[k]
          BY <5>1
        <5>3. \A k \in 1..Len(E) : Var(E[k][1]) \notin kept
          BY <4>1, <5>2
        <5> QED
          BY <5>1, <5>3
      <4> QED
        BY <4>2, <4>3
    <3>5. PICK a \in Origin : Over(a, kept) = Over(c, kept)
      <4>1. PICK a \in Unfalsified : Over(a, kept) = Over(c, kept) /\ Sharp(a)
        BY <3>3, <3>4, ExtendsKeepsValues
      <4>2. a \in Origin
        BY <3>1, <4>1, SharpIs DEF Origin, Unfalsified
      <4> QED
        BY <4>1, <4>2
    <3>6. Over(c, kept) = Over(b, kept)
      BY <3>1, <3>2 DEF Over
    <3> QED
      BY <3>5, <3>6
  <2>3. PICK S : S = {b \in all : Sat(b)}
    OBVIOUS
  <2>4. {Over(a, kept) : a \in Origin} = {Over(a, kept) : a \in S}
    BY <2>1, <2>2, <2>3
  <2>5. S = {b \in all : Models(b, LiveClauses) /\ Assigned \subseteq b}
    BY <2>3 DEF Sat
  <2> QED
    BY <1>2, <1>3, <1>4, <1>6, <2>4, <2>5, Zenon DEF SameModels
<1> QED
  BY <1>5, <1>6 DEF Types, TrailOK

SameModelsIn(file, all, kept, L, A, okay) ==
  IF okay
  THEN {Over(a, kept) : a \in {b \in all : Models(b, file)}} =
       {Over(a, kept) : a \in {b \in all : Models(b, L) /\ A \subseteq b}}
  ELSE {a \in all : Models(a, file)} = {}

LEMMA SameModelsKept ==
  ASSUME SameModels, UNCHANGED <<formula, loaded, db, trail, ok>>
  PROVE  SameModels'
<1>1. SameModelsIn(File, SetsOfLits(Known), Known \ db.eliminated, LiveClauses, Assigned, ok)
  BY Zenon DEF SameModels, SameModelsIn, File
<1>2. /\ File' = File /\ SetsOfLits(Known)' = SetsOfLits(Known)
      /\ (Known \ db.eliminated)' = Known \ db.eliminated
      /\ LiveClauses' = LiveClauses /\ Assigned' = Assigned /\ ok' = ok
  BY DEF File, Known, LiveClauses, Assigned
<1>3. SameModelsIn(File', SetsOfLits(Known)', (Known \ db.eliminated)', LiveClauses',
                   Assigned', ok')
  BY <1>1, <1>2
<1> QED
  BY <1>3, Zenon DEF SameModels, SameModelsIn, File

(* What the search may leave without a value occurs only in clauses that   *)
(* the literals fixed at level 0 satisfy.                                  *)
LEMMA SearchedModel ==
  ASSUME Types, Apart, pc = "solve", NEW b \in Solutions, NEW fixed \in SUBSET b,
         Assigned \subseteq fixed, NEW vs \in SUBSET Undecided(fixed), NEW m,
         m = {l \in b : Var(l) \notin vs}
  PROVE  /\ m \subseteq Lits /\ Models(m, LiveClauses) /\ Assigned \subseteq m
         /\ \A l \in m : Var(l) \in Left /\ -l \notin m
         /\ Known \ VarsOf(m) \subseteq Unassigned
<1>1. Left = Known \ (db.eliminated \cap Unassigned) /\ Left \in SUBSET Vars
  BY LiveVarsFacts DEF Left, Gone, Done
<1>2. b \in SetsOfLits(Left) /\ Models(b, LiveClauses) /\ Assigned \subseteq b
  BY <1>1 DEF Solutions
<1>3. /\ b \subseteq Lits /\ \A l \in b : Var(l) \in Left /\ -l \notin b
      /\ \A v \in Left : v \in b \/ -v \in b
  BY <1>1, <1>2, AssignmentIs
<1>4. \A v \in vs : v \in Known /\ v \notin fixed /\ -v \notin fixed
  BY DEF Undecided
<1>5. ASSUME NEW l \in fixed PROVE l \in m
  <2>1. l \in b /\ (l = Var(l) \/ l = -Var(l))
    BY <1>3, LitFacts
  <2>2. Var(l) \notin vs
    BY <1>4, <2>1
  <2> QED
    BY <2>1, <2>2
<1>6. ASSUME NEW c \in LiveClauses PROVE m \cap c # {}
  <2>1. CASE c \cap fixed # {}
    BY <1>5, <2>1
  <2>2. CASE c \cap fixed = {}
    <3>1. PICK l \in b : l \in c
      BY <1>2 DEF Models
    <3>2. Var(l) \in VarsOf(c)
      BY <3>1 DEF VarsOf
    <3>3. Var(l) \notin vs
      BY <2>2, <3>2 DEF Undecided
    <3> QED
      BY <3>1, <3>3
  <2> QED
    BY <2>1, <2>2
<1>7. ASSUME NEW v \in Known, v \notin VarsOf(m) PROVE v \in Unassigned
  <2>1. CASE v \in vs
    BY <1>4, <2>1 DEF Unassigned
  <2>2. CASE v \in Left /\ v \notin vs
    <3>1. v \in Vars /\ (v \in b \/ -v \in b)
      BY <1>1, <1>3, <2>2
    <3>2. Var(v) = v /\ Var(-v) = v
      BY <3>1, VarFacts
    <3> QED
      BY <1>7, <2>2, <3>1, <3>2 DEF VarsOf
  <2>3. CASE v \notin Left
    BY <1>1, <2>3
  <2> QED
    BY <2>1, <2>2, <2>3
<1> QED
  BY <1>3, <1>5, <1>6, <1>7 DEF Models

(* The literals that are not false are a loose model of what is left.      *)
LEMMA PossibleRemains ==
  ASSUME Types, Apart, pc = "solve", NEW m \in SUBSET Lits, Models(m, LiveClauses),
         Assigned \subseteq m, \A l \in m : Var(l) \in Left /\ -l \notin m
  PROVE  {l \in Lits : Var(l) \in Left /\ -l \notin m} \in Remaining
<1>1. Left \in SUBSET Vars
  BY LiveVarsFacts DEF Left
<1>2. PICK p : p = {l \in Lits : Var(l) \in Left /\ -l \notin m}
  OBVIOUS
<1>3. ASSUME NEW v \in Left PROVE v \in p \/ -v \in p
  <2>1. v \in Vars /\ v \in Lits /\ -v \in Lits /\ Var(v) = v /\ Var(-v) = v /\ -(-v) = v
    BY <1>1, VarFacts, LitFacts DEF Lits
  <2> QED
    BY <1>2, <2>1
<1>4. m \subseteq p
  BY <1>2
<1>5. \A l \in Assigned : -l \notin p
  <2> SUFFICES ASSUME NEW l \in Assigned PROVE -l \notin p
    OBVIOUS
  <2>1. l \in m /\ -(-l) = l
    BY LitFacts
  <2> QED
    BY <1>2, <2>1
<1>6. Sat(p)
  BY <1>4 DEF Sat, Models
<1>7. p \in Loose(Left)
  BY <1>2, <1>3 DEF Loose
<1> QED
  BY <1>2, <1>5, <1>6, <1>7 DEF Remaining, Sure

(* The search: a model of what is left, or the file has none.              *)
LEMMA SolveMeaning == Types /\ Types' /\ Meaning /\ Solve => Meaning'
<1> SUFFICES ASSUME Types, Types', Meaning, Solve PROVE Meaning'
  OBVIOUS
<1>1. /\ ok /\ pc = "solve" /\ pc' \in {"solve", "extend"}
      /\ UNCHANGED <<input, loaded, db, trail, elimclauses, bwdsub, scan, cross>>
  BY DEF Solve
<1>2. /\ Assigned' = Assigned /\ Known' = Known /\ File' = File /\ Origin' = Origin
      /\ LiveVars' = LiveVars /\ Pending' = Pending /\ \A b : Sat(b)' <=> Sat(b)
      /\ Unfalsified' = Unfalsified /\ Unassigned' = Unassigned
      /\ LiveClauses' = LiveClauses
  <2>1. Assigned' = Assigned /\ Known' = Known /\ File' = File /\ LiveVars' = LiveVars
        /\ LiveClauses' = LiveClauses
    BY <1>1 DEF Assigned, Known, File, LiveVars, LiveClauses, input
  <2>2. Pending' = Pending
    BY <1>1, <2>1 DEF Pending, Satisfied, IsTrue, Open, IsFalse
  <2> QED
    BY <1>1, <2>1, <2>2, SatIs, SatNext DEF Origin, Unfalsified, Unassigned
<1>3. FileOK /\ Implied /\ Apart /\ Extends(elimclauses, Remaining, Unfalsified) /\ SameModels
  BY <1>1, MeaningSame DEF Meaning, Chain
<1>4. FileOK'
  BY <1>1, <1>2, <1>3 DEF FileOK, input
<1>5. Apart'
  <2>1. Done' = Done
    BY <1>1 DEF Done
  <2> QED
    BY <1>1, <1>2, <1>3, <2>1 DEF Apart, Freed, Settled
<1>6. CASE Solutions = {} /\ ok' = FALSE /\ pc' = pc
  <2>1. ASSUME NEW a \in Origin PROVE FALSE
    <3>1. /\ Known \in SUBSET Vars /\ Left \in SUBSET Known /\ LiveVars \subseteq Left
          /\ Known \ Unassigned \subseteq Left
          /\ Left = Known \ (db.eliminated \cap Unassigned)
      BY <1>1, <1>3, LiveVarsFacts DEF Left, Gone, Done, Apart
    <3>2. a \in Loose(Known) /\ Sharp(a) /\ Sat(a)
      BY <1>3, <3>1, SharpIs DEF Implied, Origin
    <3>3. PICK c : c = Over(a, Left)
      OBVIOUS
    <3>4. c \in Loose(Left) /\ Sat(c) /\ Sharp(c)
      BY <3>1, <3>2, <3>3, Restricted
    <3>5. c \in SetsOfLits(Left)
      BY <3>1, <3>4, SharpIs
    <3> QED
      BY <1>6, <3>1, <3>4, <3>5 DEF Solutions, Sat
  <2>2. Implied'
    BY <1>2, <2>1 DEF Implied
  <2>3. Chain' /\ Extending'
    BY <1>1, <1>6 DEF Chain, Extending
  <2> QED
    BY <1>4, <1>5, <2>2, <2>3 DEF Meaning
<1>7. ASSUME NEW b \in Solutions, NEW fixed \in SUBSET b, Assigned \subseteq fixed,
             NEW vs \in SUBSET Undecided(fixed),
             model' = {l \in b : Var(l) \notin vs}, pc' = "extend", UNCHANGED ok
      PROVE  Meaning'
  <2>1. PICK m : m = model'
    OBVIOUS
  <2>2. /\ m \subseteq Lits /\ Models(m, LiveClauses) /\ Assigned \subseteq m
        /\ \A l \in m : Var(l) \in Left /\ -l \notin m
        /\ Known \ VarsOf(m) \subseteq Unassigned
    BY <1>1, <1>3, <1>7, <2>1, SearchedModel
  <2>3. Left = Known \ (db.eliminated \cap Unassigned)
    BY <1>1 DEF Left, Gone, Done
  <2>4. ModelOK'
    BY <1>2, <2>1, <2>2, <2>3 DEF ModelOK, Models
  <2>5. Reached' = Left
    <3>1. VarsOf(m) \cap (db.eliminated \cap Unassigned) = {}
      BY <2>2, <2>3 DEF VarsOf
    <3> QED
      BY <1>1, <1>2, <2>1, <2>3, <3>1 DEF Reached
  <2>6. PICK p : p = {l \in Lits : Var(l) \in Left /\ -l \notin m}
    OBVIOUS
  <2>7. p \in Remaining
    BY <1>1, <1>3, <2>2, <2>6, PossibleRemains
  <2>8. Possible' = p
    BY <2>1, <2>5, <2>6 DEF Possible
  <2>9. Extends(elimclauses, {p}, Unfalsified)
    BY <1>3, <2>7, ExtendsFewer
  <2>10. Implied' /\ ok'
    BY <1>1, <1>2, <1>3, <1>7 DEF Implied
  <2>11. SameModels'
    BY <1>1, <1>3, <1>7, SameModelsKept DEF input
  <2>12. Extending'
    BY <1>1, <1>2, <2>4, <2>8, <2>9, <2>10, <2>11 DEF Extending
  <2>13. Chain'
    BY <1>7 DEF Chain
  <2> QED
    BY <1>4, <1>5, <2>10, <2>12, <2>13 DEF Meaning
<1> QED
  BY <1>1, <1>6, <1>7 DEF Solve

(* A stored clause is used when all its other literals are false, which    *)
(* the literals that are not false say as well.                            *)
LEMMA PossibleApplied ==
  ASSUME Types, NEW e \in Entries, NEW m \in SUBSET Lits, \A l \in m : -l \notin m,
         Var(e[1]) \in Known, NEW vs \in SUBSET Vars, VarsOf(m) \subseteq vs,
         NEW p, p = {l \in Lits : Var(l) \in vs /\ -l \notin m}
  PROVE  IF \A l \in e[2] : -l \in m
         THEN Applied(e, p) = {l \in Lits : Var(l) \in vs \cup {Var(e[1])}
                                            /\ -l \notin (m \ {-e[1]}) \cup {e[1]}}
         ELSE Applied(e, p) = p
<1>1. PICK x \in Lits, others \in SUBSET Lits : x = e[1] /\ others = e[2]
  BY DEF Entries
<1>2. -x \in Lits /\ Var(-x) = Var(x) /\ -(-x) = x /\ -x # x
  BY LitFacts
<1>3. ASSUME NEW l \in others
      PROVE  -l \in m <=> -l \in p /\ l \notin p
  <2>1. l \in Lits /\ -l \in Lits /\ Var(-l) = Var(l) /\ -(-l) = l
    BY LitFacts
  <2>2. ASSUME -l \in m PROVE -l \in p /\ l \notin p
    <3>1. Var(-l) \in vs /\ l \notin m
      BY <2>1, <2>2 DEF VarsOf
    <3> QED
      BY <2>1, <2>2, <3>1
  <2>3. ASSUME -l \in p, l \notin p PROVE -l \in m
    BY <2>1, <2>3
  <2> QED
    BY <2>2, <2>3
<1>4. (\A l \in e[2] : -l \in m) <=> \A l \in e[2] : -l \in p /\ l \notin p
  BY <1>1, <1>3
<1>5. (p \ {-x}) \cup {x} = {l \in Lits : Var(l) \in vs \cup {Var(x)}
                                          /\ -l \notin (m \ {-x}) \cup {x}}
  <2> SUFFICES ASSUME NEW l \in Lits
               PROVE  l \in (p \ {-x}) \cup {x} <=> /\ Var(l) \in vs \cup {Var(x)}
                                                    /\ -l \notin (m \ {-x}) \cup {x}
    OBVIOUS
  <2>1. CASE l = x
    BY <1>2, <2>1
  <2>2. CASE l = -x
    BY <1>2, <2>2
  <2>3. CASE l # x /\ l # -x
    <3>1. Var(l) # Var(x)
      BY <2>3, SameVar
    <3>2. -l # x /\ -l # -x
      BY <1>2, <2>3, LitFacts
    <3> QED
      BY <2>3, <3>1, <3>2
  <2> QED
    BY <2>1, <2>2, <2>3
<1> QED
  BY <1>1, <1>4, <1>5 DEF Applied

(* extendModel: nothing changes but the model and what is still to apply.  *)
LEMMA ExtendMeaning == Types /\ Types' /\ Meaning /\ Extend => Meaning'
<1> SUFFICES ASSUME Types, Types', Meaning, Extend PROVE Meaning'
  OBVIOUS
<1>1. /\ pc = "extend" /\ elimclauses # <<>> /\ elimclauses' = Front(elimclauses)
      /\ UNCHANGED <<formula, options, loaded, db, trail, ok, cross, pc>>
  BY DEF Extend, input
<1>2. /\ Assigned' = Assigned /\ Known' = Known /\ File' = File /\ Origin' = Origin
      /\ LiveVars' = LiveVars /\ Pending' = Pending /\ Done' = Done
      /\ \A b : Sat(b)' <=> Sat(b)
      /\ Unfalsified' = Unfalsified /\ Unassigned' = Unassigned
      /\ LiveClauses' = LiveClauses
  <2>1. Assigned' = Assigned /\ Known' = Known /\ File' = File /\ LiveVars' = LiveVars
        /\ LiveClauses' = LiveClauses
    BY <1>1 DEF Assigned, Known, File, LiveVars, LiveClauses
  <2>2. Pending' = Pending
    BY <1>1, <2>1 DEF Pending, Satisfied, IsTrue, Open, IsFalse
  <2> QED
    BY <1>1, <2>1, <2>2, SatIs, SatNext DEF Origin, Done, Unfalsified, Unassigned
<1>3. /\ FileOK /\ Implied /\ Apart /\ ok /\ SameModels /\ ModelOK
      /\ Extends(elimclauses, {Possible}, Unfalsified)
  BY <1>1 DEF Meaning, Extending
<1>4. elimclauses \in Seq(Entries)
  BY DEF Types, RestOK, Entries
<1>5. FileOK' /\ Implied'
  BY <1>1, <1>2, <1>3 DEF FileOK, Implied
<1>6. PICK n \in Nat : Len(elimclauses) = n + 1
  <2>1. Len(elimclauses) - 1 \in Nat /\ Len(elimclauses) = (Len(elimclauses) - 1) + 1
    BY <1>1, <1>4
  <2> QED
    BY <2>1
<1>7. Apart'
  <2>1. ASSUME NEW k \in 1..Len(elimclauses')
        PROVE  k \in 1..Len(elimclauses) /\ elimclauses'[k] = elimclauses[k]
    <3>1. elimclauses' = SubSeq(elimclauses, 1, n)
      BY <1>1, <1>6 DEF Front
    <3>2. Len(elimclauses') = n /\ \A i \in 1..n : elimclauses'[i] = elimclauses[i]
      BY <1>4, <1>6, <3>1
    <3> QED
      BY <1>6, <3>2
  <2> QED
    BY <1>1, <1>2, <1>3, <2>1 DEF Apart, Freed, Settled
<1>8. PICK e \in Entries : e = Last(elimclauses) /\ Var(e[1]) \in db.eliminated
  <2>1. Last(elimclauses) = elimclauses[n + 1] /\ n + 1 \in 1..Len(elimclauses)
    BY <1>6 DEF Last
  <2> QED
    BY <1>3, <1>4, <2>1 DEF Apart
<1>9. PICK x \in Lits : x = e[1]
  BY <1>8 DEF Entries
<1>10. /\ -x \in Lits /\ Var(-x) = Var(x) /\ -(-x) = x /\ -x # x /\ Var(x) \in Known
       /\ db.eliminated \subseteq Known
  <2>1. db.eliminated \subseteq Known
    BY <1>3 DEF FileOK
  <2> QED
    BY <1>8, <1>9, <2>1, LitFacts
<1>11. PICK m \in SUBSET Lits : m = model
  BY DEF Types, RestOK
<1>12. /\ \A l \in m : Var(l) \in Known /\ -l \notin m
       /\ Known \ VarsOf(m) \subseteq Unassigned /\ Models(m, LiveClauses)
  BY <1>3, <1>11 DEF ModelOK
<1>13. PICK vs : vs = Reached
  OBVIOUS
<1>14. /\ vs = Known \ ((db.eliminated \cap Unassigned) \ VarsOf(m)) /\ vs \in SUBSET Vars
       /\ VarsOf(m) \subseteq vs
  <2>1. VarsOf(m) \subseteq Known /\ Known \subseteq Vars
    BY <1>12, LiveVarsFacts DEF VarsOf
  <2> QED
    BY <1>11, <1>13, <2>1 DEF Reached
<1>15. PICK p : p = {l \in Lits : Var(l) \in vs /\ -l \notin m}
  OBVIOUS
<1>16. Extends(Front(elimclauses), {Applied(e, p)}, Unfalsified)
  <2>1. Extends(elimclauses, {p}, Unfalsified)
    BY <1>3, <1>11, <1>13, <1>15 DEF Possible
  <2> QED
    BY <1>1, <1>4, <1>8, <2>1, ExtendsByLast
<1>17. ASSUME \A l \in e[2] : -l \in m PROVE Possible' = Applied(e, p) /\ ModelOK'
  <2>1. PICK m2 : m2 = (m \ {-x}) \cup {x}
    OBVIOUS
  <2>2. model' = m2
    BY <1>8, <1>9, <1>11, <1>17, <2>1 DEF Extend
  <2>3. VarsOf(m2) = VarsOf(m) \cup {Var(x)}
    <3>1. \A l \in m2 : l \in m \/ l = x
      BY <2>1
    <3>2. \A l \in m : l \in m2 \/ l = -x
      BY <2>1
    <3> QED
      BY <1>10, <2>1, <3>1, <3>2 DEF VarsOf
  <2>4. Reached' = vs \cup {Var(x)}
    BY <1>1, <1>2, <1>10, <1>14, <2>2, <2>3 DEF Reached
  <2>5. Possible' = Applied(e, p)
    <3>1. Applied(e, p) = {l \in Lits : Var(l) \in vs \cup {Var(x)} /\ -l \notin m2}
      BY <1>9, <1>10, <1>12, <1>14, <1>15, <1>17, <2>1, PossibleApplied
    <3> QED
      BY <2>2, <2>4, <3>1 DEF Possible
  <2>6. \A l \in m2 : Var(l) \in Known /\ -l \notin m2
    <3> SUFFICES ASSUME NEW l \in m2 PROVE Var(l) \in Known /\ -l \notin m2
      OBVIOUS
    <3>1. CASE l = x
      BY <1>10, <2>1, <3>1
    <3>2. CASE l # x
      <4>1. l \in m /\ l # -x /\ l \in Lits
        BY <2>1, <3>2
      <4>2. -l # x
        BY <4>1, LitFacts
      <4> QED
        BY <1>12, <2>1, <4>1, <4>2
    <3> QED
      BY <3>1, <3>2
  <2>7. Models(m2, LiveClauses)
    <3> SUFFICES ASSUME NEW cr \in db.live PROVE m2 \cap db.lits[cr] # {}
      BY DEF Models, LiveClauses
    <3>1. PICK l \in m : l \in db.lits[cr]
      BY <1>12 DEF Models, LiveClauses
    <3>2. Var(l) \in LiveVars
      BY <3>1, LiveVarsFacts
    <3>3. Var(x) \notin LiveVars
      BY <1>1, <1>3, <1>8, <1>9 DEF Apart, Done
    <3>4. l # -x
      BY <1>10, <3>2, <3>3
    <3> QED
      BY <2>1, <3>1, <3>4
  <2>8. ModelOK'
    <3>1. Known \ VarsOf(m2) \subseteq Unassigned
      BY <1>12, <2>3
    <3>2. Models(m2, LiveClauses')
      BY <1>2, <2>7
    <3> QED
      BY <1>2, <2>2, <2>6, <3>1, <3>2 DEF ModelOK, Models
  <2> QED
    BY <2>5, <2>8
<1>18. ASSUME ~\A l \in e[2] : -l \in m PROVE Possible' = Applied(e, p) /\ ModelOK'
  <2>1. model' = m
    BY <1>8, <1>11, <1>18 DEF Extend
  <2>2. Reached' = vs
    BY <1>1, <1>2, <1>14, <2>1 DEF Reached
  <2>3. Applied(e, p) = p
    BY <1>8, <1>9, <1>10, <1>12, <1>14, <1>15, <1>18, PossibleApplied
  <2>4. Possible' = p
    BY <1>15, <2>1, <2>2 DEF Possible
  <2>5. ModelOK'
    BY <1>2, <1>12, <2>1 DEF ModelOK, Models
  <2> QED
    BY <2>3, <2>4, <2>5
<1>19. Possible' = Applied(e, p) /\ ModelOK'
  BY <1>17, <1>18
<1>20. SameModels'
  BY <1>1, <1>3, SameModelsKept
<1>21. Extends(elimclauses', {Possible'}, Unfalsified')
  BY <1>1, <1>2, <1>16, <1>19
<1>22. Chain' /\ Extending'
  BY <1>1, <1>3, <1>19, <1>20, <1>21 DEF Chain, Extending
<1> QED
  BY <1>5, <1>7, <1>22 DEF Meaning

(* What a state that is about to load the next clause says.                *)
LEMMA LoadingFacts ==
  ASSUME Types, Meaning, ok, pc = "load", NEW b \in Loose(Known), Sat(b), Sure(b)
  PROVE  Models(b, File)
<1>1. /\ FileOK /\ Implied /\ Extends(elimclauses, Remaining, Unfalsified)
      /\ elimclauses = <<>> /\ db.eliminated = {}
  BY DEF Meaning, Chain, FileOK
<1>2. Left = Known
  BY <1>1 DEF Left, Gone, Done
<1>3. b \in Remaining
  BY <1>2 DEF Remaining
<1>4. Extends(<<>>, {b}, Unfalsified)
  BY <1>1, <1>3, ExtendsFewer
<1> QED
  BY <1>4, ExtendsEnds DEF Unfalsified

LEMMA LoadShape ==
  ASSUME Types, Load
  PROVE  \E c \in SUBSET Lits : \E d :
           /\ AddClause(d, c) /\ File' = File \cup {c}
           /\ ClausesOK(d) /\ IndexOK(d) /\ d.lits = db.lits /\ d.live = db.live
           /\ d.eliminated = db.eliminated
           /\ Known \subseteq 1..d.nvars /\ VarsOf(c) \subseteq 1..d.nvars
           /\ 1..d.nvars \subseteq Vars
<1>1. ClausesOK(db) /\ IndexOK(db) /\ loaded \in Nat
  BY IndexOf DEF Load, Freed, Types, FormulaOK
<1>2. PICK c \in SUBSET Lits : c = formula[loaded + 1]
  BY DEF Types, FormulaOK, Load
<1>3. PICK d : d = NewVars(db, c)
  OBVIOUS
<1>4. /\ ClausesOK(d) /\ IndexOK(d) /\ d.lits = db.lits /\ d.live = db.live
      /\ d.eliminated = db.eliminated /\ d.nvars \in Nat /\ VarsOf(c) \subseteq 1..d.nvars
      /\ db.nvars <= d.nvars
  BY <1>1, <1>3, NewVarsFacts
<1>5. AddClause(d, c)
  BY <1>2, <1>3 DEF Load
<1>6. Known \subseteq 1..d.nvars
  BY <1>1, <1>4, DatabaseIs DEF Known
<1>7. 1..d.nvars \subseteq Vars
  BY <1>4, DatabaseIs, VarsAssumption DEF Vars
<1>8. File' = File \cup {c}
  <2>1. formula' = formula /\ loaded' = loaded + 1 /\ FormulaOK /\ loaded < Len(formula)
        /\ formula \in Seq(SUBSET Lits)
    BY DEF Load, input, Types, FormulaOK
  <2>2. File = {formula[i] : i \in 1..loaded}
    BY <2>1, FileIs
  <2>3. PICK n \in Nat, f \in Seq(SUBSET Lits) : n = loaded + 1 /\ f = formula /\ n <= Len(f)
    BY <1>1, <2>1
  <2>4. PICK s : s = SubSeq(f, 1, n)
    OBVIOUS
  <2>5. s \in Seq(SUBSET Lits) /\ Len(s) = n /\ \A i \in 1..n : s[i] = f[i]
    BY <2>3, <2>4
  <2>6. ToSet(s) = {s[i] : i \in 1..Len(s)}
    BY <2>5, ToSetFacts
  <2>7. \A i : i \in 1..n <=> i \in 1..loaded \/ i = n
    BY <1>1, <2>3
  <2>8. ToSet(s) = {f[i] : i \in 1..loaded} \cup {f[n]}
    BY <2>5, <2>6, <2>7
  <2>9. File' = ToSet(s)
    BY <2>1, <2>3, <2>4 DEF File
  <2> QED
    BY <1>2, <2>2, <2>3, <2>8, <2>9
<1> QED
  BY <1>4, <1>5, <1>6, <1>7, <1>8

(* What addClause_ does to the models, of the variables 1..d.nvars.        *)
AddsClause(d, c, b) ==
  LET before == (\A cr \in d.live : b \cap d.lits[cr] # {}) /\ Assigned \subseteq b
  IN /\ Sharp(b) /\ before /\ b \cap c # {} => ok' /\ Sat(b)'
     /\ ok' /\ Sat(b)' => before /\ b \cap c # {}

LEMMA AddClauseModels ==
  ASSUME Types, NEW d, ClausesOK(d), IndexOK(d), NEW c \in SUBSET Lits,
         VarsOf(c) \subseteq 1..d.nvars, 1..d.nvars \subseteq Vars, AddClause(d, c), ok,
         "rcheck" \notin options, NEW b \in Loose(1..d.nvars)
  PROVE  AddsClause(d, c, b)
<1>1. /\ b \subseteq Lits
      /\ (b \cap c = {} => \A l \in c : -l \in b)
  BY LooseFacts
<1>2. PICK before : before = ((\A cr \in d.live : b \cap d.lits[cr] # {}) /\ Assigned \subseteq b)
                    /\ before \in BOOLEAN
  OBVIOUS
<1>3. before => Assigned \subseteq b
  BY <1>2
<1>4. Sharp(b) /\ before /\ b \cap c # {} => b \cap Open(c) # {}
  BY <1>1, <1>3, LitFacts DEF Open, IsFalse, Sharp
<1>5. CASE db' = d /\ UNCHANGED trail
  <2>1. Sat(b)' <=> before
    <3>1. Assigned' = Assigned
      BY <1>5 DEF Assigned
    <3> QED
      BY <1>2, <1>5, <3>1, SatNext
  <2>2. CASE Dropped(d, c)
    <3>1. ok' /\ (Satisfied(c) \/ Tautology(c))
      BY <2>2 DEF Dropped
    <3>2. before => b \cap c # {}
      <4>1. CASE Satisfied(c)
        BY <1>3, <4>1 DEF Satisfied, IsTrue
      <4>2. CASE Tautology(c)
        <5>1. PICK l \in c : -l \in c
          BY <4>2 DEF Tautology
        <5> QED
          BY <1>1, <5>1
      <4> QED
        BY <3>1, <4>1, <4>2
    <3> QED
      BY <1>2, <2>1, <3>1, <3>2 DEF AddsClause
  <2>3. CASE Contradicts(d, c)
    <3>1. ~ok' /\ Open(c) = {}
      BY <2>3 DEF Contradicts
    <3> QED
      BY <1>2, <1>4, <3>1 DEF AddsClause
  <2>4. CASE ~Dropped(d, c) /\ ~Contradicts(d, c)
    <3>1. (\E l \in c : Enqueued(d, c, l)) \/ Kept(d, c)
      BY <2>4, AddClauseCases
    <3>2. ASSUME NEW l \in c, Enqueued(d, c, l) PROVE FALSE
      <4>1. trail' = Append(trail, l) /\ trail \in Seq(Lits)
        BY <3>2 DEF Enqueued, Types, TrailOK
      <4>2. Len(trail') = Len(trail) + 1 /\ Len(trail) \in Nat
        BY <4>1, EnqueueFacts
      <4>3. Len(trail') = Len(trail)
        BY <1>5
      <4> QED
        BY <4>2, <4>3
    <3>3. ASSUME Kept(d, c) PROVE FALSE
      <4>1. Open(c) \in SUBSET Lits /\ VarsOf(Open(c)) \subseteq VarsOf(c)
            /\ ~Tautology(Open(c)) /\ Cardinality(Open(c)) > 1
        BY <3>3 DEF Kept, Open, VarsOf, Tautology
      <4>2. WithClause(d, Open(c), db')
        <5>1. db' = Added(d, Open(c)) /\ VarsOf(Open(c)) \subseteq 1..d.nvars
          BY <3>3, <4>1 DEF Kept
        <5> QED
          BY <4>1, <5>1, AddedFacts
      <4>3. Len(db'.lits) = Len(d.lits) + 1 /\ Len(d.lits) \in Nat
        BY <4>2, DatabaseIs DEF WithClause
      <4> QED
        BY <1>5, <4>3
    <3> QED
      BY <3>1, <3>2, <3>3
  <2> QED
    BY <2>2, <2>3, <2>4
<1>6. ASSUME NEW l \in c, Enqueued(d, c, l) PROVE AddsClause(d, c, b)
  <2>1. Open(c) = {l} /\ trail' = Append(trail, l) /\ db' = d /\ ok'
    BY <1>6 DEF Enqueued
  <2>2. Assigned' = Assigned \cup {l}
    BY <2>1, EnqueueFacts DEF Types, TrailOK
  <2>3. Sat(b)' <=> before /\ l \in b
    BY <1>2, <2>1, <2>2, SatNext
  <2>4. Sharp(b) /\ before /\ b \cap c # {} => l \in b
    BY <1>4, <2>1
  <2> QED
    BY <1>2, <2>1, <2>3, <2>4 DEF AddsClause
<1>7. CASE Kept(d, c)
  <2>1. Open(c) \in SUBSET Lits /\ VarsOf(Open(c)) \subseteq VarsOf(c)
        /\ ~Tautology(Open(c)) /\ Cardinality(Open(c)) > 1 /\ Open(c) \subseteq c
    BY <1>7 DEF Kept, Open, VarsOf, Tautology
  <2>2. WithClause(d, Open(c), db')
    <3>1. db' = Added(d, Open(c)) /\ VarsOf(Open(c)) \subseteq 1..d.nvars
      BY <1>7, <2>1 DEF Kept
    <3> QED
      BY <2>1, <3>1, AddedFacts
  <2>3. PICK new : /\ db'.live = d.live \cup {new} /\ db'.lits[new] = Open(c)
                   /\ \A cr \in d.live : db'.lits[cr] = d.lits[cr]
    BY <2>2 DEF WithClause
  <2>4. ok' /\ Assigned' = Assigned
    BY <1>7 DEF Kept, Assigned
  <2>5. Sat(b)' <=> before /\ b \cap Open(c) # {}
    BY <1>2, <2>3, <2>4, SatNext
  <2>6. b \cap Open(c) # {} => b \cap c # {}
    BY <2>1
  <2> QED
    BY <1>2, <1>4, <2>4, <2>5, <2>6 DEF AddsClause
<1> QED
  BY <1>5, <1>6, <1>7, AddClauseCases DEF Dropped, Contradicts

LEMMA LoadMeaning ==
  Types /\ Types' /\ Meaning /\ Load /\ "rcheck" \notin options => Meaning'
<1> SUFFICES ASSUME Types, Types', Meaning, Load, "rcheck" \notin options PROVE Meaning'
  OBVIOUS
<1>1. /\ ok /\ pc = "load" /\ pc' = "load" /\ UNCHANGED <<elimclauses, cross>>
      /\ UNCHANGED <<formula, options>>
  BY DEF Load, input
<1>2. /\ FileOK /\ Implied /\ db.eliminated = {} /\ elimclauses = <<>> /\ cross = NoCross
  BY <1>1 DEF Meaning, FileOK
<1>3. PICK c, d :
        /\ c \in SUBSET Lits
        /\ AddClause(d, c) /\ File' = File \cup {c}
        /\ ClausesOK(d) /\ IndexOK(d) /\ d.lits = db.lits /\ d.live = db.live
        /\ d.eliminated = db.eliminated
        /\ Known \subseteq 1..d.nvars /\ VarsOf(c) \subseteq 1..d.nvars
        /\ 1..d.nvars \subseteq Vars
  BY LoadShape
<1>4. PICK vs \in SUBSET Vars : vs = 1..d.nvars
  BY <1>3
<1>5. db'.nvars = d.nvars /\ db'.eliminated = {}
  BY <1>2, <1>3, AddClauseTypes DEF Types
<1>6. Known' = vs /\ Known \in SUBSET vs
  BY <1>3, <1>4, <1>5 DEF Known
<1>7. ASSUME NEW b \in Loose(vs)
      PROVE  /\ Sharp(b) /\ Sat(b) /\ b \cap c # {} => ok' /\ Sat(b)'
             /\ ok' /\ Sat(b)' => Sat(b) /\ b \cap c # {}
  <2>1. AddsClause(d, c, b)
    BY <1>1, <1>3, <1>4, AddClauseModels
  <2> QED
    BY <1>3, <2>1, SatIs DEF AddsClause
<1>8. ASSUME NEW b \in Loose(vs)
      PROVE  /\ Over(b, Known) \in Loose(Known) /\ Over(b, Known) \subseteq b
             /\ Sharp(b) => Sharp(Over(b, Known))
             /\ Models(Over(b, Known), File) <=> Models(b, File)
  <2>1. /\ Over(b, Known) \in Loose(Known) /\ Over(b, Known) \subseteq b
        /\ Sharp(b) => Sharp(Over(b, Known))
        /\ \A e \in SUBSET Lits : VarsOf(e) \subseteq Known => Over(b, Known) \cap e = b \cap e
    BY <1>6, OverIs
  <2>2. \A e \in File : e \in SUBSET Lits /\ VarsOf(e) \subseteq Known
    BY <1>2, FileIs DEF FileOK, Types
  <2> QED
    BY <2>1, <2>2 DEF Models
<1>9. ASSUME NEW b PROVE Models(b, File)' <=> Models(b, File) /\ b \cap c # {}
  BY <1>3 DEF Models
<1>10. ASSUME NEW b \in Loose(vs), Sharp(b), Models(b, File) PROVE Sat(b)
  <2>1. PICK a : a = Over(b, Known)
    OBVIOUS
  <2>2. a \in Loose(Known) /\ Sharp(a) /\ Models(a, File) /\ a \subseteq b
    BY <1>8, <1>10, <2>1
  <2>3. a \in Origin
    BY <1>6, <2>2, SharpIs DEF Origin
  <2>4. Sat(a)
    BY <1>2, <2>3 DEF Implied
  <2> QED
    BY <2>2, <2>4, SatIs
<1>11. ASSUME NEW b \in Loose(vs), Sat(b), Sure(b) PROVE Models(b, File)
  <2>1. PICK a : a = Over(b, Known)
    OBVIOUS
  <2>2. LiveVars \subseteq Known /\ Known \ Unassigned \subseteq Known
    BY LiveVarsFacts
  <2>3. a \in Loose(Known) /\ Sat(a) /\ Sure(a)
    BY <1>6, <1>11, <2>1, <2>2, Restricted
  <2>4. Models(a, File)
    BY <1>1, <2>3, LoadingFacts
  <2> QED
    BY <1>8, <2>1, <2>4
<1>12. FileOK'
  <2>1. \A e \in File : VarsOf(e) \subseteq Known
    BY <1>2 DEF FileOK
  <2> QED
    BY <1>1, <1>2, <1>3, <1>4, <1>5, <1>6, <2>1 DEF FileOK
<1>13. Implied'
  <2> SUFFICES ASSUME NEW a \in Origin' PROVE ok' /\ Sat(a)'
    BY DEF Implied
  <2>1. a \in Loose(vs) /\ Sharp(a) /\ Models(a, File)'
    BY <1>6, SharpIs DEF Origin
  <2> QED
    BY <1>7, <1>9, <1>10, <2>1
<1>14. Done' = {}
  BY <1>1, <1>5 DEF Done
<1>15. Apart'
  BY <1>1, <1>2, <1>14 DEF Apart, Freed
<1>16. Assigned \subseteq Assigned'
  <2>1. CASE UNCHANGED trail
    BY <2>1 DEF Assigned
  <2>2. ASSUME NEW l \in c, Enqueued(d, c, l) PROVE Assigned' = Assigned \cup {l}
    BY <1>3, <2>2, EnqueueFacts DEF Types, TrailOK, Enqueued
  <2> QED
    BY <1>3, <2>1, <2>2, AddClauseCases DEF Dropped, Contradicts, Kept
<1>17. ASSUME ok' PROVE Extends(elimclauses', Remaining', Unfalsified')
  <2>1. Left' = vs
    BY <1>6, <1>14 DEF Left, Gone
  <2>2. Assigned \subseteq Assigned'
    BY <1>16
  <2>3. ASSUME NEW b \in Remaining' PROVE b \in Unfalsified'
    <3>1. b \in Loose(vs) /\ Sat(b)' /\ Sure(b)'
      BY <2>1 DEF Remaining
    <3>2. Sat(b) /\ b \cap c # {} /\ Sure(b)
      BY <1>7, <1>17, <2>2, <3>1 DEF Sure
    <3>3. Models(b, File)'
      BY <1>9, <1>11, <3>1, <3>2
    <3> QED
      BY <1>6, <3>1, <3>3 DEF Unfalsified
  <2>4. PICK O : O = Unfalsified'
    OBVIOUS
  <2>5. O \in SUBSET SUBSET Lits
    BY <2>4 DEF Unfalsified, Loose
  <2>6. Remaining' \in SUBSET O
    BY <2>3, <2>4
  <2>7. Extends(<<>>, Remaining', O)
    BY <2>5, <2>6, ExtendsNothing
  <2> QED
    BY <1>1, <1>2, <2>4, <2>7
<1>18. Chain' /\ Extending'
  BY <1>1, <1>17 DEF Chain, Extending
<1> QED
  BY <1>12, <1>13, <1>15, <1>18 DEF Meaning

LEMMA PassingMeaning ==
  Types /\ Types' /\ Meaning /\ (ScanDone \/ SubsumeDone \/ AsymmDone \/ HeapEmpty) => Meaning'
<1>1. ScanDone \/ SubsumeDone \/ AsymmDone \/ HeapEmpty => Passes /\ ok
  BY DEF Passes, ScanDone, SubsumeDone, AsymmDone, HeapEmpty
<1> QED
  BY <1>1, PassesMeaning

LEMMA InitMeaning == Init => Meaning
<1> SUFFICES ASSUME Init PROVE Meaning
  OBVIOUS
<1>1. Types
  BY InitTypes
<1>2. /\ ok /\ pc = "load" /\ loaded = 0 /\ elimclauses = <<>> /\ cross = NoCross
      /\ db.live = {} /\ db.nvars = 0 /\ db.eliminated = {} /\ trail = <<>>
  BY DEF Init, EmptyDatabase
<1>3. File = {} /\ Assigned = {} /\ Known = {} /\ LiveVars = {}
  <2>1. File = {formula[i] : i \in 1..0}
    BY <1>1, <1>2, FileIs DEF Types
  <2> QED
    BY <1>2, <2>1 DEF Assigned, ToSet, Known, LiveVars
<1>4. \A b : Sat(b)
  BY <1>2, <1>3, SatIs
<1>5. FileOK /\ Implied /\ Apart
  BY <1>2, <1>3, <1>4 DEF FileOK, Implied, Apart, Freed, Done
<1>6. Left = Known
  BY <1>3 DEF Left
<1>7. Unfalsified = Remaining
  BY <1>3, <1>4, <1>6 DEF Unfalsified, Remaining, Models, Sure
<1>8. Unfalsified \in SUBSET SUBSET Lits
  BY DEF Unfalsified, Loose
<1>9. Extends(<<>>, Remaining, Unfalsified)
  BY <1>7, <1>8, ExtendsNothing
<1>10. Chain /\ Extending
  BY <1>2, <1>9 DEF Chain, Extending
<1> QED
  BY <1>5, <1>10 DEF Meaning

LEMMA StutterMeaning == Types /\ Types' /\ Meaning /\ UNCHANGED vars => Meaning'
<1> SUFFICES ASSUME Types, Types', Meaning, UNCHANGED vars PROVE Meaning'
  OBVIOUS
<1>1. UNCHANGED <<formula, options, loaded, db, trail, ok, elimclauses, bwdsub, scan, cross,
                  pc, model>>
  BY DEF vars, input
<1>2. /\ Assigned' = Assigned /\ Known' = Known /\ File' = File /\ Origin' = Origin
      /\ LiveVars' = LiveVars /\ Pending' = Pending /\ Done' = Done
      /\ \A b : Sat(b)' <=> Sat(b)
      /\ Unfalsified' = Unfalsified /\ Unassigned' = Unassigned
  <2>1. Assigned' = Assigned /\ Known' = Known /\ File' = File /\ LiveVars' = LiveVars
    BY <1>1 DEF Assigned, Known, File, LiveVars
  <2>2. Pending' = Pending
    BY <1>1, <2>1 DEF Pending, Satisfied, IsTrue, Open, IsFalse
  <2> QED
    BY <1>1, <2>1, <2>2, SatIs, SatNext DEF Origin, Done, Unfalsified, Unassigned
<1>3. Remaining' = Remaining
  <2>1. Left' = Left
    BY <1>1, <1>2 DEF Left, Gone
  <2> QED
    BY <1>2, <2>1 DEF Remaining, Sure
<1>4. FileOK /\ Implied /\ Apart /\ Chain /\ Extending
  BY DEF Meaning
<1>5. FileOK' /\ Implied'
  BY <1>1, <1>2, <1>4 DEF FileOK, Implied
<1>6. Apart'
  BY <1>1, <1>2, <1>4 DEF Apart, Freed, Settled
<1>7. ASSUME Resolving PROVE Resolving'
  <2>1. \A R : Covered(R) => Covered(R)'
    BY <1>1, <1>2 DEF Covered
  <2>2. \A l : Forced(l) => Forced(l)'
    BY <1>1, <1>2 DEF Forced
  <2> QED
    BY <1>1, <1>2, <1>7, <2>1, <2>2, Zenon DEF Resolving
<1>8. ASSUME InBlock PROVE InBlock'
  <2>1. PICK E \in Seq(Entries), B \in Seq(Entries), l \in {cross.v, -cross.v} :
          elimclauses = E \o B /\ Extends(E, Remaining, Unfalsified) /\ Block(B, l)
    BY <1>8 DEF InBlock
  <2>2. Block(B, l)'
    BY <1>1, <2>1 DEF Block
  <2> QED
    BY <1>1, <1>2, <1>3, <2>1, <2>2, Zenon DEF InBlock
<1>9. Chain'
  BY <1>1, <1>2, <1>3, <1>4, <1>7, <1>8 DEF Chain
<1>10. Extending'
  <2>1. Possible' = Possible
    BY <1>1, <1>2 DEF Possible, Reached
  <2>2. ModelOK => ModelOK'
    BY <1>1, <1>2 DEF ModelOK, LiveClauses
  <2> QED
    BY <1>1, <1>2, <1>4, <2>1, <2>2, SameModelsKept DEF Extending
<1> QED
  BY <1>5, <1>6, <1>9, <1>10 DEF Meaning

LEMMA NextMeaning ==
  Types /\ Types' /\ Meaning /\ [Next]_vars /\ "rcheck" \notin options => Meaning'
<1> SUFFICES ASSUME Types, Types', Meaning, [Next]_vars, "rcheck" \notin options PROVE Meaning'
  OBVIOUS
<1>1. CASE Next
  BY <1>1, PropagateMeaning, LoadMeaning, GatherMeaning, TakeMeaning, SubsumeMeaning,
     PassingMeaning, TakeVarMeaning, AsymmMeaning, EliminateMeaning, ResolveMeaning,
     DropVarMeaning, SolveMeaning, ExtendMeaning, StutterMeaning, Zenon
  DEF Next, Finished
<1> QED
  BY <1>1, StutterMeaning

(* The model a worker answers with.                                        *)
LEMMA MeaningOfTheModel == Types /\ Meaning => ModelOfTheFile
<1> SUFFICES ASSUME Types, Meaning, ok, Answered
             PROVE  /\ \A l \in model : Var(l) \in Known /\ -l \notin model
                    /\ Known \ VarsOf(model) \subseteq Unassigned \ db.eliminated
                    /\ Models(model, LiveClauses)
                    /\ \A c \in ToSet(formula) : \E l \in c : -l \notin model
  BY DEF ModelOfTheFile
<1>1. pc = "extend" /\ elimclauses = <<>>
  BY DEF Answered
<1>2. /\ Extends(<<>>, {Possible}, Unfalsified) /\ ModelOK
      /\ loaded = Len(formula) /\ FormulaOK
  BY <1>1 DEF Meaning, Extending, FileOK, Types
<1>3. PICK p : p = Possible
  OBVIOUS
<1>4. p \in Unfalsified
  BY <1>2, <1>3, ExtendsEnds
<1>5. File = ToSet(formula)
  <2>1. File = {formula[i] : i \in 1..Len(formula)}
    BY <1>2, FileIs
  <2>2. ToSet(formula) = {formula[i] : i \in 1..Len(formula)}
    BY <1>2, ToSetFacts DEF FormulaOK
  <2> QED
    BY <2>1, <2>2
<1>6. Known \ VarsOf(model) \subseteq Unassigned \ db.eliminated
  <2> SUFFICES ASSUME NEW v \in Known, v \notin VarsOf(model)
               PROVE  v \in Unassigned /\ v \notin db.eliminated
    OBVIOUS
  <2>1. v \in Unassigned
    BY <1>2 DEF ModelOK
  <2>2. v \in p \/ -v \in p
    BY <1>4 DEF Unfalsified, Loose
  <2>3. v \in Vars /\ Var(v) = v /\ Var(-v) = v
    BY LiveVarsFacts, VarFacts
  <2>4. v \in Reached
    BY <1>3, <2>2, <2>3 DEF Possible
  <2> QED
    BY <2>1, <2>4 DEF Reached
<1>7. ASSUME NEW c \in ToSet(formula) PROVE \E l \in c : -l \notin model
  <2>1. p \cap c # {}
    BY <1>4, <1>5, <1>7 DEF Unfalsified, Models
  <2> QED
    BY <1>3, <2>1 DEF Possible
<1> QED
  BY <1>2, <1>6, <1>7 DEF ModelOK

LEMMA MeaningOfTheClauses == Types /\ Meaning => SameModels
BY MeaningSame DEF Meaning, Extending


(* Without -rcheck, what a run says once it runs without it: the options   *)
(* of a run never change.                                                  *)
Careful == Types /\ Meaning /\ "rcheck" \notin options

LEMMA InitCareful == Init /\ "rcheck" \notin options => Careful
BY InitTypes, InitMeaning DEF Careful

LEMMA NextCareful == Careful /\ [Next]_vars => Careful'
<1> SUFFICES ASSUME Careful, [Next]_vars PROVE Careful'
  OBVIOUS
<1>1. Types /\ Types'
  BY NextTypes DEF Careful
<1>2. options' = options
  BY DEF Next, vars, input, Propagate, Load, Gather, TakeAssignment, TakeClause, Subsume,
         Strengthen, ScanDone, SubsumeDone, TakeVar, Asymm, AsymmDone, Eliminate, Resolve,
         DropVar, HeapEmpty, Cleanup, Solve, Extend, Finished
<1> QED
  BY <1>1, <1>2, NextMeaning DEF Careful

(* For every formula and, without -rcheck, every choice of the other       *)
(* options: after every call of the preprocessing, the clauses left and    *)
(* the assignments have, on the variables not eliminated, exactly the      *)
(* models of the clauses loaded, and a formula found contradictory has     *)
(* none (eliminate, merge, strengthenClause and backwardSubsumptionCheck   *)
(* of SimpSolver, and the propagation between them).                       *)
THEOREM ModelsAreKept == Spec /\ "rcheck" \notin options => []SameModels
<1>1. Careful => SameModels
  BY MeaningOfTheClauses DEF Careful
<1> QED
  BY InitCareful, NextCareful, <1>1, PTL DEF Spec

(* For every formula, without -rcheck, whatever was eliminated and         *)
(* whatever alphaAdjustSolver left without a value: what extendModel makes *)
(* of a model of the clauses left has at most one value for each variable, *)
(* one for each variable eliminated, still satisfies the clauses left, and *)
(* no clause of the file has all its literals false in it; a model with a  *)
(* value for every variable satisfies then every clause of the file.       *)
THEOREM ModelIsOfTheFile == Spec /\ "rcheck" \notin options => []ModelOfTheFile
<1>1. Careful => ModelOfTheFile
  BY MeaningOfTheModel DEF Careful
<1> QED
  BY InitCareful, NextCareful, <1>1, PTL DEF Spec
=============================================================================
