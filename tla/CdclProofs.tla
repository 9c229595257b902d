------------------------------ MODULE CdclProofs ------------------------------
(***************************************************************************)
(* That the search of a solver thread is sound, for any formula, any       *)
(* variables and any bounds: what it learns follows from the formula and   *)
(* is new, reasons are in place when they are followed, no propagation is  *)
(* missed, and its answers are right.                                      *)
(*                                                                         *)
(* The parts of the invariant are stated about a trail t, clauses D and so *)
(* on, which are the variables before a step and after it: how each part   *)
(* survives a step is a lemma about what the step does to the trail or to  *)
(* the clauses, whatever the action.                                       *)
(***************************************************************************)
EXTENDS Cdcl, FiniteSetTheorems, SequenceTheorems, TLAPS

Refs == [lits : SUBSET Lits, list : Lists \cup {"none"}]
Entries == [lit : Lits, level : Nat, reason : Refs]
Clauses == [lits : SUBSET Lits, list : Lists, watch : SUBSET Lits]
RefsOf(D) == {Ref(c) : c \in D}

(* A trail: no variable twice, levels in order, and an assignment that has *)
(* no reason opens its level, unless the level is 0.                       *)
TrailOK(t, lvl) ==
  /\ t \in Seq(Entries) /\ lvl \in Nat
  /\ \A i, j \in 1..Len(t) : Var(t[i].lit) = Var(t[j].lit) => i = j
  /\ \A i, j \in 1..Len(t) : i <= j => t[i].level <= t[j].level
  /\ \A i \in 1..Len(t) : t[i].level <= lvl
  /\ \A i \in 1..Len(t) : t[i].level = 0 => t[i].reason = NoReason
  /\ \A i, j \in 1..Len(t) :
       t[i].reason = NoReason /\ t[i].level > 0 /\ j < i => t[j].level < t[i].level

(* A reason is a clause that is there; it has the literal, and the others  *)
(* were false before, one of them of the same level if L holds.            *)
ReasonOK(t, refs, L, i) ==
  /\ t[i].reason \in refs
  /\ t[i].lit \in t[i].reason.lits
  /\ \A l \in t[i].reason.lits \ {t[i].lit} : \E j \in 1..(i - 1) : t[j].lit = -l
  /\ L => \E j \in 1..(i - 1) : -t[j].lit \in t[i].reason.lits /\ t[j].level = t[i].level
ReasonsOK(t, refs, L) ==
  \A i \in 1..Len(t) : t[i].reason # NoReason => ReasonOK(t, refs, L, i)

DbOK(D) ==
  /\ D \subseteq Clauses
  /\ \A c \in D :
       /\ Cardinality(c.lits) > 1
       /\ c.watch \subseteq c.lits /\ Cardinality(c.watch) \in 1..2
       /\ OneWatched(c) => c.list = "imported"

(* What watching two literals is good for: when one was made false by the  *)
(* assignment p and that was propagated, up to q, the clause is satisfied, *)
(* and stays so as long as the literal is false.  Not so are clauses of    *)
(* others, and learnt ones, that watch a literal that is false for good;   *)
(* and one literal of level 0, at s, may never be propagated.  While the   *)
(* thread walks down the tree, W, only what level 0 owes is kept.          *)
Served(c, t, p) == \E i \in 1..Len(t) : t[i].lit \in c.lits /\ t[i].level <= t[p].level
DullAt(c, t, q) == \E p \in 1..Len(t) : p < q /\ t[p].level = 0 /\ -t[p].lit \in c.watch
Owes(c, t, q, s, W, p) == p < q /\ p # s /\ -t[p].lit \in c.watch /\ (W => t[p].level = 0)
WatchOK(c, t, q, s, W) ==
  \/ OneWatched(c)
  \/ c.list # "clauses" /\ DullAt(c, t, q)
  \/ \A p \in 1..Len(t) : Owes(c, t, q, s, W, p) => Served(c, t, p)
SkipOK(t, q, s, W, walked) ==
  /\ s \in 0..Len(t)
  /\ s # 0 => walked /\ t[s].level = 0
  /\ W => \A p \in 1..Len(t) : p >= q /\ t[p].level = 0 => p = s
WatchesOK(D, t, q, s, W, walked) ==
  SkipOK(t, q, s, W, walked) /\ \A c \in D : WatchOK(c, t, q, s, W)

(* Outside of the tree, the first levels are those of the assumptions.     *)
CubeOK(a, t, lvl) ==
  /\ \A i \in 1..Len(t) :
       t[i].reason = NoReason /\ t[i].level \in 1..Len(a) => t[i].lit = a[t[i].level]
  /\ \A k \in 1..Len(a) : k <= lvl =>
       \E i \in 1..Len(t) : t[i].lit = a[k] /\ t[i].level <= k

(* The clauses of the formula are still there, and decisions are made on   *)
(* their variables, unless they are satisfied for good.                    *)
FixedIn(t) == {t[i].lit : i \in {j \in 1..Len(t) : t[j].level = 0}}
HasClause(D, c) == \E d \in D : d.lits = c /\ d.list = "clauses"
FormulaOK(f, D, t, dec) ==
  \A c \in f : c \cap FixedIn(t) = {} =>
    HasClause(D, c) /\ \A l \in c : Var(l) \in dec

(* What follows from the formula.                                          *)
Implies(f, lits) == lits \subseteq LitsOf(f) /\ \A m \in ModelsOf[f] : lits \cap m # {}
EntailedBy(f, D, t) ==
  /\ \A c \in D : Implies(f, c.lits)
  /\ \A l \in FixedIn(t) : Implies(f, {l})
  /\ \A i \in 1..Len(t) : t[i].lit \in LitsOf(f)

Scalars ==
  /\ formula \in Formulas
  /\ assumptions \in Seq(LitsOf(formula)) /\ Len(assumptions) <= MaxCube
  /\ decision \subseteq VarsOf(formula)
  /\ pc \in {"top", "propagate", "walk", "refuted", "SAT", "UNSAT"}
  /\ conflict.lits \subseteq Lits
  /\ tree \in BOOLEAN /\ conflicts \in 0..MaxConflicts /\ imports \in 0..MaxImports

(* Pending assignments are of the level the thread is at.                  *)
QueueOK ==
  /\ qhead \in 1..(Len(trail) + 1)
  /\ pc # "walk" => \A i \in 1..Len(trail) : i >= qhead => trail[i].level = level
  /\ pc = "refuted" => level = 0 /\ qhead = Len(trail) + 1

Walking == pc = "walk"

IInv ==
  /\ Scalars
  /\ TrailOK(trail, level)
  /\ QueueOK
  /\ DbOK(db)
  /\ ReasonsOK(trail, RefsOf(db), ~Walking)
  /\ EntailedBy(formula, db, trail)
  /\ \E s \in 0..Len(trail) : WatchesOK(db, trail, qhead, s, Walking, tree)
  /\ ~Walking => CubeOK(assumptions, trail, level)
  /\ FormulaOK(formula, db, trail, decision)
  /\ VerdictIsRight

-----------------------------------------------------------------------------
(* A set of naturals that is not empty has a least element.  Of the        *)
(* intervals that start at 0 and end in it, one contains no other.         *)
LEMMA LeastNatural ==
  ASSUME NEW T \in SUBSET Nat, T # {}
  PROVE  \E x \in T : \A y \in T : x <= y
<1> DEFINE Starts == {0..m : m \in T}
<1>1. ASSUME NEW m \in T PROVE 0..m \in FiniteSubsetsOf(Nat)
  <2>1. IsFiniteSet(0..m) /\ 0..m \in SUBSET Nat
    BY FS_Interval
  <2> QED
    BY <2>1 DEF FiniteSubsetsOf
<1>2. Starts \subseteq FiniteSubsetsOf(Nat) /\ Starts # {}
  BY <1>1
<1> HIDE DEF Starts
<1>3. PICK A \in Starts : \A B \in Starts : <<B, A>> \notin StrictSubsetOrdering(Nat)
  BY <1>2, FS_StrictSubsetOrderingWellFounded, WFMin, Zenon
<1>4. PICK m \in T : A = 0..m
  BY <1>3 DEF Starts
<1>5. ASSUME NEW y \in T, y < m PROVE FALSE
  <2>1. 0..y \in Starts
    BY DEF Starts
  <2>2. m \in 0..m /\ m \notin 0..y
    BY <1>5
  <2>3. 0..y \subseteq 0..m /\ 0..y \in SUBSET Nat /\ 0..m \in SUBSET Nat
    BY <1>5
  <2> QED
    BY <1>3, <1>4, <2>1, <2>2, <2>3 DEF StrictSubsetOrdering
<1> QED
  BY <1>4, <1>5

(* Induction over the natural numbers.                                     *)
LEMMA SetInduction ==
  ASSUME NEW S, 0 \in S, \A n \in Nat : n \in S => n + 1 \in S
  PROVE  Nat \subseteq S
<1> SUFFICES ASSUME Nat \ S # {} PROVE FALSE
  OBVIOUS
<1>1. PICK m \in Nat \ S : \A y \in Nat \ S : m <= y
  BY LeastNatural, Zenon
<1>2. m # 0 /\ m - 1 \in Nat
  BY <1>1
<1>3. m - 1 \in S
  BY <1>1, <1>2
<1> QED
  BY <1>1, <1>2, <1>3

(* Literals, formulas and their models.                                    *)
LEMMA LitFacts ==
  ASSUME NEW l \in Lits
  PROVE  /\ l \in Int /\ l # 0 /\ -l \in Lits /\ -(-l) = l /\ -l # l
         /\ Var(l) \in Vars /\ Var(-l) = Var(l)
BY VarsAssumption DEF Lits, Var

LEMMA SameVar ==
  ASSUME NEW a \in Lits, NEW b \in Lits
  PROVE  Var(a) = Var(b) <=> a = b \/ a = -b
BY VarsAssumption DEF Lits, Var

LEMMA LitsFinite ==
  /\ IsFiniteSet(Lits)
  /\ \A S \in SUBSET Lits : IsFiniteSet(S)
<1>1. IsFiniteSet(Vars)
  BY VarsAssumption
<1>2. IsFiniteSet({-v : v \in Vars})
  <2> DEFINE T == {-v : v \in Vars}
             f == [v \in Vars |-> -v]
  <2>1. f \in Surjection(Vars, T)
    BY DEF Surjection
  <2> QED
    BY <1>1, <2>1, FS_Surjection
<1>3. IsFiniteSet(Lits)
  BY <1>1, <1>2, FS_Union DEF Lits
<1> QED
  BY <1>3, FS_Subset

LEMMA FormulaFacts ==
  ASSUME NEW f \in Formulas
  PROVE  /\ VarsOf(f) \subseteq Vars
         /\ LitsOf(f) \subseteq Lits
         /\ \A l \in Lits : l \in LitsOf(f) <=> Var(l) \in VarsOf(f)
         /\ \A l \in LitsOf(f) : -l \in LitsOf(f)
         /\ \A c \in f : c \subseteq LitsOf(f)
<1>1. \A c \in f : c \subseteq Lits
  BY FormulasAssumption
<1>2. UNION f \subseteq Lits
  BY <1>1
<1>3. VarsOf(f) \subseteq Vars
  BY <1>2, LitFacts DEF VarsOf
<1>4. LitsOf(f) \subseteq Lits
  BY <1>3 DEF LitsOf, Lits
<1>5. ASSUME NEW l \in Lits PROVE l \in LitsOf(f) <=> Var(l) \in VarsOf(f)
  <2>1. \A v \in VarsOf(f) : v \in Nat \ {0}
    BY <1>3, VarsAssumption
  <2>2. l \in Int /\ l # 0
    BY LitFacts
  <2>3. CASE l > 0
    <3>1. Var(l) = l /\ \A v \in VarsOf(f) : -v # l
      BY <2>1, <2>2, <2>3 DEF Var
    <3> QED
      BY <3>1 DEF LitsOf
  <2>4. CASE l < 0
    <3>1. Var(l) = -l /\ -(-l) = l /\ l \notin VarsOf(f) /\ \A v \in VarsOf(f) : -(-v) = v
      BY <2>1, <2>2, <2>4 DEF Var
    <3> QED
      BY <3>1 DEF LitsOf
  <2> QED
    BY <2>2, <2>3, <2>4
<1>6. \A l \in LitsOf(f) : -l \in LitsOf(f)
  BY <1>4, <1>5, LitFacts
<1>7. \A c \in f : c \subseteq LitsOf(f)
  BY <1>1, <1>5 DEF VarsOf
<1> QED
  BY <1>3, <1>4, <1>5, <1>6, <1>7

(* A model gives every literal of the formula a value.                     *)
LEMMA ModelFacts ==
  ASSUME NEW f \in Formulas, NEW m \in ModelsOf[f]
  PROVE  /\ \A l \in LitsOf(f) : l \in m <=> -l \notin m
         /\ \A c \in f : c \cap m # {}
<1>1. m \in Models(f)
  BY DEF ModelsOf
<1>2. PICK P \in SUBSET VarsOf(f) : m = P \cup {-v : v \in VarsOf(f) \ P}
  BY <1>1 DEF Models
<1>3. ASSUME NEW v \in VarsOf(f) PROVE v \in Nat /\ v > 0
  <2>1. v \in Nat \ {0}
    BY FormulaFacts, VarsAssumption
  <2> QED
    BY <2>1
<1>4. ASSUME NEW v \in VarsOf(f)
      PROVE  /\ v \in m <=> v \in P
             /\ -v \in m <=> v \notin P
             /\ -(-v) = v
  <2>1. \A w \in VarsOf(f) : -w # v /\ -v # w /\ (-v = -w => v = w) /\ -(-v) = v
    BY <1>3
  <2> QED
    BY <1>2, <2>1
<1>5. \A l \in LitsOf(f) : l \in m <=> -l \notin m
  BY <1>4 DEF LitsOf
<1>6. \A c \in f : c \cap m # {}
  BY <1>1 DEF Models
<1> QED
  BY <1>5, <1>6

-----------------------------------------------------------------------------
(* Sets with one element, and with more.                                   *)
LEMMA SizeFacts ==
  ASSUME NEW S, IsFiniteSet(S)
  PROVE  /\ Cardinality(S) \in Nat
         /\ Cardinality(S) = 0 <=> S = {}
         /\ Cardinality(S) > 1 <=> \E x, y \in S : x # y
         /\ \A x : S = {x} => Cardinality(S) = 1
<1>1. Cardinality(S) \in Nat /\ (Cardinality(S) = 0 <=> S = {})
  BY FS_CardinalityType, FS_EmptySet
<1>2. \A x : S = {x} => Cardinality(S) = 1
  BY FS_Singleton
<1>3. ASSUME NEW x \in S, NEW y \in S, x # y PROVE Cardinality(S) > 1
  <2>1. Cardinality(S) # 1
    BY <1>3, FS_Singleton
  <2> QED
    BY <1>1, <2>1
<1>4. ASSUME Cardinality(S) > 1 PROVE \E x, y \in S : x # y
  <2>1. PICK x : x \in S
    BY <1>1, <1>4
  <2>2. S # {x}
    BY <1>2, <1>4
  <2> QED
    BY <2>1, <2>2
<1> QED
  BY <1>1, <1>2, <1>3, <1>4

LEMMA PairFacts ==
  ASSUME NEW x, NEW y, x # y
  PROVE  IsFiniteSet({x, y}) /\ Cardinality({x, y}) = 2
<1>1. IsFiniteSet({x}) /\ Cardinality({x}) = 1 /\ y \notin {x}
  BY FS_Singleton
<1>2. IsFiniteSet({x} \cup {y}) /\ Cardinality({x} \cup {y}) = 1 + 1
  BY <1>1, FS_AddElement
<1>3. {x, y} = {x} \cup {y}
  OBVIOUS
<1> QED
  BY <1>2, <1>3
-----------------------------------------------------------------------------
(* Trails: what is on one, and what is left by cancelUntil.                *)
LEMMA EntryFacts ==
  ASSUME NEW t, NEW lvl, TrailOK(t, lvl), NEW i \in 1..Len(t)
  PROVE  /\ Len(t) \in Nat
         /\ t[i] \in Entries /\ t[i].lit \in Lits /\ t[i].level \in 0..lvl
         /\ t[i].reason \in Refs
<1>1. t \in Seq(Entries) /\ t[i].level <= lvl /\ lvl \in Nat
  BY DEF TrailOK
<1>2. t[i] \in Entries /\ Len(t) \in Nat
  BY <1>1, ElementOfSeq
<1> QED
  BY <1>1, <1>2 DEF Entries

LEMMA TrailLength ==
  ASSUME NEW t, NEW lvl, TrailOK(t, lvl)
  PROVE  Len(t) \in Nat /\ Len(t) <= Cardinality(Vars) /\ lvl \in Nat
<1>1. t \in Seq(Entries) /\ lvl \in Nat
  BY DEF TrailOK
<1>2. Len(t) \in Nat
  BY <1>1
<1>3. IsFiniteSet(1..Len(t)) /\ Cardinality(1..Len(t)) = Len(t)
  <2>1. Len(t) \in Int /\ 1 \in Int /\ (1 > Len(t) <=> Len(t) = 0) /\ Len(t) - 1 + 1 = Len(t)
    BY <1>2
  <2> QED
    BY <2>1, FS_Interval
<1>4. IsFiniteSet(Vars) /\ Cardinality(Vars) \in Nat
  BY VarsAssumption, FS_CardinalityType
<1> DEFINE f == [i \in 1..Len(t) |-> Var(t[i].lit)]
<1>5. f \in [1..Len(t) -> Vars]
  BY EntryFacts, LitFacts
<1>6. \A i, j \in 1..Len(t) : f[i] = f[j] => i = j
  BY DEF TrailOK
<1>7. f \in Injection(1..Len(t), Vars)
  BY <1>5, <1>6 DEF Injection, IsInjective
<1>8. Cardinality(1..Len(t)) <= Cardinality(Vars)
  BY <1>4, <1>7, FS_Injection
<1> QED
  BY <1>1, <1>2, <1>3, <1>4, <1>8

(* Where a literal was assigned.                                           *)
LEMMA PositionIs ==
  ASSUME TrailOK(trail, level), NEW i \in 1..Len(trail), NEW l \in Lits,
         trail[i].lit = l \/ trail[i].lit = -l
  PROVE  Position(l) = i /\ Level(l) = trail[i].level /\ Level(l) \in 0..level
<1>1. Var(trail[i].lit) = Var(l)
  BY LitFacts
<1>2. \A j \in 1..Len(trail) : Var(trail[j].lit) = Var(l) => j = i
  BY <1>1 DEF TrailOK
<1>3. Position(l) = i
  BY <1>1, <1>2 DEF Position
<1> QED
  BY <1>3, EntryFacts DEF Level

LEMMA ValueFacts ==
  ASSUME TrailOK(trail, level), NEW l \in Lits
  PROVE  /\ l \in Trues <=> \E i \in 1..Len(trail) : trail[i].lit = l
         /\ l \in Falses <=> \E i \in 1..Len(trail) : trail[i].lit = -l
         /\ l \in Falses <=> -l \in Trues
         /\ ~(l \in Trues /\ l \in Falses)
         /\ Unassigned(l) <=> \A i \in 1..Len(trail) : Var(trail[i].lit) # Var(l)
<1>1. \A i \in 1..Len(trail) : trail[i].lit \in Lits
  BY EntryFacts
<1>2. l \in Falses <=> -l \in Trues
  <2>1. \A k \in Trues : k \in Lits /\ -(-k) = k
    BY <1>1, LitFacts DEF Trues
  <2> QED
    BY <2>1, LitFacts DEF Falses
<1>3. ~(l \in Trues /\ l \in Falses)
  <2> SUFFICES ASSUME NEW i \in 1..Len(trail), NEW j \in 1..Len(trail),
                      trail[i].lit = l, trail[j].lit = -l
               PROVE  FALSE
    BY <1>2 DEF Trues
  <2>1. i = j
    BY LitFacts DEF TrailOK
  <2> QED
    BY <2>1, LitFacts
<1>4. Unassigned(l) <=> \A i \in 1..Len(trail) : Var(trail[i].lit) # Var(l)
  <2>1. \A i \in 1..Len(trail) :
          Var(trail[i].lit) = Var(l) <=> trail[i].lit = l \/ trail[i].lit = -l
    BY <1>1, SameVar, LitFacts
  <2> QED
    BY <1>2, <2>1 DEF Unassigned, Trues
<1> QED
  BY <1>2, <1>3, <1>4 DEF Trues

(* What cancelUntil leaves, r of t: the assignments up to level k.         *)
IsKept(r, t, k) ==
  /\ r \in Seq(Entries) /\ Len(r) <= Len(t)
  /\ \A i \in 1..Len(t) : i <= Len(r) <=> t[i].level <= k
  /\ \A i \in 1..Len(r) : r[i] = t[i]

LEMMA UpToKept ==
  ASSUME TrailOK(trail, level), NEW k \in Nat
  PROVE  IsKept(UpTo(k), trail, k)
<1> DEFINE S == {i \in 1..Len(trail) : trail[i].level <= k}
           T == {n \in 0..Len(trail) : \A i \in S : i <= n}
<1>1. trail \in Seq(Entries) /\ Len(trail) \in Nat
  BY DEF TrailOK
<1>2. \A i \in 1..Len(trail) : trail[i].level \in Nat
  BY EntryFacts
<1>3. PICK n \in T : \A y \in T : n <= y
  <2>1. T \in SUBSET Nat /\ Len(trail) \in T
    BY <1>1
  <2> QED
    BY <2>1, LeastNatural
<1>4. n > 0 => n \in S
  <2> SUFFICES ASSUME n > 0, n \notin S PROVE FALSE
    OBVIOUS
  <2>1. n \in Nat /\ n - 1 \in 0..Len(trail) /\ ~(n <= n - 1)
    BY <1>1, <1>3
  <2>2. ASSUME NEW i \in S PROVE i <= n - 1
    <3>1. i <= n /\ i # n /\ i \in Nat
      BY <1>3, <2>2
    <3> QED
      BY <2>1, <3>1
  <2>3. n - 1 \in T
    BY <2>1, <2>2
  <2> QED
    BY <1>3, <2>1, <2>3
<1>5. \A i \in 1..Len(trail) : i <= n <=> trail[i].level <= k
  <2> SUFFICES ASSUME NEW i \in 1..Len(trail) PROVE i <= n <=> trail[i].level <= k
    OBVIOUS
  <2>1. CASE i <= n
    <3>1. n \in S /\ n \in 1..Len(trail)
      BY <1>1, <1>3, <1>4, <2>1
    <3>2. trail[i].level <= trail[n].level /\ trail[n].level <= k
      BY <2>1, <3>1 DEF TrailOK
    <3> QED
      BY <1>2, <2>1, <3>1, <3>2
  <2>2. CASE ~(i <= n)
    BY <1>3, <2>2
  <2> QED
    BY <2>1, <2>2
<1>6. S = 1..n /\ n \in 0..Len(trail)
  BY <1>1, <1>3, <1>5
<1>7. TrailLim(k) = n
  <2>1. Cardinality(1..n) = n
    <3>1. n \in Int /\ 1 \in Int /\ (1 > n <=> n = 0) /\ n - 1 + 1 = n
      BY <1>6
    <3> QED
      BY <3>1, FS_Interval
  <2> QED
    BY <1>6, <2>1 DEF TrailLim
<1>8. /\ UpTo(k) \in Seq(Entries) /\ Len(UpTo(k)) = n
      /\ \A i \in 1..n : UpTo(k)[i] = trail[i]
  <2>1. \A i \in 1..n : trail[i] \in Entries
    BY <1>1, <1>6, ElementOfSeq
  <2>2. /\ SubSeq(trail, 1, n) \in Seq(Entries)
        /\ Len(SubSeq(trail, 1, n)) = IF 1 <= n THEN n - 1 + 1 ELSE 0
        /\ \A i \in 1..(n - 1 + 1) : SubSeq(trail, 1, n)[i] = trail[1 + i - 1]
    <3>1. n \in Int /\ 1 \in Int
      BY <1>6
    <3> QED
      BY <2>1, <3>1, SubSeqProperties
  <2>3. n \in Nat /\ n - 1 + 1 = n /\ \A i \in 1..n : 1 + i - 1 = i
    BY <1>6
  <2> QED
    BY <1>7, <2>2, <2>3 DEF UpTo
<1> QED
  BY <1>5, <1>6, <1>8 DEF IsKept

LEMMA KeptAll ==
  ASSUME NEW t, NEW lvl, TrailOK(t, lvl)
  PROVE  IsKept(t, t, lvl)
<1>1. t \in Seq(Entries) /\ Len(t) \in Nat /\ \A i \in 1..Len(t) : t[i].level <= lvl
  BY DEF TrailOK
<1> QED
  BY <1>1 DEF IsKept

LEMMA KeptFacts ==
  ASSUME NEW t, NEW lvl, TrailOK(t, lvl), NEW k \in 0..lvl, NEW r, IsKept(r, t, k)
  PROVE  /\ TrailOK(r, k)
         /\ Len(r) \in 0..Len(t)
         /\ \A i \in 1..Len(r) : i \in 1..Len(t) /\ r[i] = t[i] /\ t[i].level <= k
         /\ \A i \in 1..Len(t) : t[i].level <= k => i \in 1..Len(r)
<1>1. t \in Seq(Entries) /\ Len(t) \in Nat /\ Len(r) \in Nat /\ r \in Seq(Entries)
      /\ Len(r) <= Len(t) /\ k \in Nat /\ lvl \in Nat
  BY DEF IsKept, TrailOK
<1>2. \A i \in 1..Len(r) : i \in 1..Len(t) /\ r[i] = t[i] /\ t[i].level <= k
  BY <1>1 DEF IsKept
<1>3. \A i \in 1..Len(t) : t[i].level <= k => i \in 1..Len(r)
  BY <1>1 DEF IsKept
<1>4. TrailOK(r, k)
  BY <1>1, <1>2 DEF TrailOK
<1> QED
  BY <1>1, <1>2, <1>3, <1>4

(* One more assignment.                                                    *)
IsGrown(u, t, e) ==
  /\ u = Append(t, e) /\ t \in Seq(Entries) /\ e \in Entries
  /\ \A i \in 1..Len(t) : Var(t[i].lit) # Var(e.lit) /\ t[i].level <= e.level
  /\ e.level = 0 => e.reason = NoReason
  /\ e.level > 0 /\ e.reason = NoReason => \A i \in 1..Len(t) : t[i].level < e.level

LEMMA GrownFacts ==
  ASSUME NEW t, NEW lvl, TrailOK(t, lvl), NEW e, NEW u, IsGrown(u, t, e),
         NEW k \in Nat, lvl <= k, e.level <= k
  PROVE  /\ TrailOK(u, k)
         /\ Len(u) = Len(t) + 1 /\ Len(t) \in Nat
         /\ \A i \in 1..Len(t) : u[i] = t[i] /\ i \in 1..Len(u)
         /\ u[Len(t) + 1] = e /\ Len(t) + 1 \in 1..Len(u)
         /\ \A i \in 1..Len(u) : i \in 1..Len(t) \/ i = Len(t) + 1
<1>1. t \in Seq(Entries) /\ Len(t) \in Nat /\ e \in Entries /\ lvl \in Nat
  BY DEF TrailOK, IsGrown
<1>2. /\ u \in Seq(Entries) /\ Len(u) = Len(t) + 1
      /\ \A i \in 1..Len(t) : u[i] = t[i]
      /\ u[Len(t) + 1] = e
  BY <1>1, AppendProperties DEF IsGrown
<1>3. \A i \in 1..Len(u) : i \in 1..Len(t) \/ i = Len(t) + 1
  BY <1>1, <1>2
<1>4. e.level \in Nat /\ \A i \in 1..Len(t) : t[i].level \in 0..lvl
  BY <1>1, EntryFacts DEF Entries
<1>5. \A i, j \in 1..Len(u) : Var(u[i].lit) = Var(u[j].lit) => i = j
  <2>1. \A i, j \in 1..Len(t) : Var(t[i].lit) = Var(t[j].lit) => i = j
    BY DEF TrailOK
  <2>2. \A i \in 1..Len(t) : Var(t[i].lit) # Var(e.lit)
    BY DEF IsGrown
  <2> QED
    BY <1>2, <1>3, <2>1, <2>2
<1>6. \A i, j \in 1..Len(u) : i <= j => u[i].level <= u[j].level
  <2>1. \A i, j \in 1..Len(t) : i <= j => t[i].level <= t[j].level
    BY DEF TrailOK
  <2>2. \A i \in 1..Len(t) : t[i].level <= e.level
    BY DEF IsGrown
  <2> QED
    BY <1>1, <1>2, <1>3, <1>4, <2>1, <2>2
<1>7. \A i \in 1..Len(u) : u[i].level <= k
  <2>1. \A i \in 1..Len(t) : t[i].level <= k
    BY <1>1, <1>4
  <2> QED
    BY <1>2, <1>3, <2>1
<1>8. \A i \in 1..Len(u) : u[i].level = 0 => u[i].reason = NoReason
  <2>1. \A i \in 1..Len(t) : t[i].level = 0 => t[i].reason = NoReason
    BY DEF TrailOK
  <2>2. e.level = 0 => e.reason = NoReason
    BY DEF IsGrown
  <2> QED
    BY <1>2, <1>3, <2>1, <2>2
<1>9. \A i, j \in 1..Len(u) :
        u[i].reason = NoReason /\ u[i].level > 0 /\ j < i => u[j].level < u[i].level
  <2>1. \A i, j \in 1..Len(t) :
          t[i].reason = NoReason /\ t[i].level > 0 /\ j < i => t[j].level < t[i].level
    BY DEF TrailOK
  <2>2. e.level > 0 /\ e.reason = NoReason => \A i \in 1..Len(t) : t[i].level < e.level
    BY DEF IsGrown
  <2> QED
    BY <1>1, <1>2, <1>3, <2>1, <2>2
<1>10. TrailOK(u, k)
  BY <1>2, <1>5, <1>6, <1>7, <1>8, <1>9 DEF TrailOK
<1> QED
  BY <1>1, <1>2, <1>3, <1>10
-----------------------------------------------------------------------------
(* How the parts of the invariant survive what a step does to the trail.   *)
LEMMA ReasonsKept ==
  ASSUME NEW t, NEW lvl, TrailOK(t, lvl), NEW k \in 0..lvl, NEW r, IsKept(r, t, k),
         NEW A, NEW B, NEW L, NEW M, M => L, ReasonsOK(t, A, L),
         \A i \in 1..Len(r) : t[i].reason \in A => t[i].reason \in B
  PROVE  ReasonsOK(r, B, M)
<1> SUFFICES ASSUME NEW i \in 1..Len(r), r[i].reason # NoReason PROVE ReasonOK(r, B, M, i)
  BY DEF ReasonsOK
<1>1. /\ Len(r) \in Nat /\ \A j \in 1..Len(r) : r[j] = t[j]
      /\ i \in 1..Len(t)
  BY KeptFacts
<1>2. r[i] = t[i] /\ \A j \in 1..(i - 1) : r[j] = t[j]
  BY <1>1
<1>3. ReasonOK(t, A, L, i)
  BY <1>1, <1>2 DEF ReasonsOK
<1> QED
  BY <1>2, <1>3 DEF ReasonOK

LEMMA ReasonsGrown ==
  ASSUME NEW t, NEW lvl, TrailOK(t, lvl), NEW e, NEW u, IsGrown(u, t, e),
         NEW k \in Nat, lvl <= k, e.level <= k,
         NEW A, NEW B, A \subseteq B, NEW L, NEW M, M => L, ReasonsOK(t, A, L),
         e.reason = NoReason \/ ReasonOK(u, B, M, Len(t) + 1)
  PROVE  ReasonsOK(u, B, M)
<1>1. /\ Len(t) \in Nat /\ \A j \in 1..Len(t) : u[j] = t[j]
      /\ u[Len(t) + 1] = e
      /\ \A i \in 1..Len(u) : i \in 1..Len(t) \/ i = Len(t) + 1
  BY GrownFacts
<1>2. ASSUME NEW i \in 1..Len(t), u[i].reason # NoReason PROVE ReasonOK(u, B, M, i)
  <2>1. u[i] = t[i] /\ \A j \in 1..(i - 1) : u[j] = t[j]
    BY <1>1
  <2>2. ReasonOK(t, A, L, i)
    BY <1>2, <2>1 DEF ReasonsOK
  <2> QED
    BY <2>1, <2>2 DEF ReasonOK
<1> QED
  BY <1>1, <1>2 DEF ReasonsOK

LEMMA FixedIs ==
  ASSUME NEW t, NEW l
  PROVE  l \in FixedIn(t) <=> \E i \in 1..Len(t) : t[i].level = 0 /\ t[i].lit = l
BY DEF FixedIn

LEMMA FixedKept ==
  ASSUME NEW t, NEW lvl, TrailOK(t, lvl), NEW k \in 0..lvl, NEW r, IsKept(r, t, k)
  PROVE  FixedIn(r) = FixedIn(t)
<1>1. /\ \A i \in 1..Len(r) : i \in 1..Len(t) /\ r[i] = t[i]
      /\ \A i \in 1..Len(t) : t[i].level = 0 => i \in 1..Len(r)
  BY KeptFacts
<1>2. \A l : l \in FixedIn(r) <=> l \in FixedIn(t)
  BY <1>1, FixedIs
<1> QED
  BY <1>2

LEMMA FixedGrown ==
  ASSUME NEW t, NEW lvl, TrailOK(t, lvl), NEW e, NEW u, IsGrown(u, t, e),
         NEW k \in Nat, lvl <= k, e.level <= k
  PROVE  /\ FixedIn(t) \subseteq FixedIn(u)
         /\ \A l \in FixedIn(u) : l \in FixedIn(t) \/ (e.level = 0 /\ l = e.lit)
<1>1. /\ \A i \in 1..Len(t) : u[i] = t[i] /\ i \in 1..Len(u)
      /\ u[Len(t) + 1] = e
      /\ \A i \in 1..Len(u) : i \in 1..Len(t) \/ i = Len(t) + 1
  BY GrownFacts
<1>2. ASSUME NEW l \in FixedIn(t) PROVE l \in FixedIn(u)
  <2>1. PICK i \in 1..Len(t) : t[i].level = 0 /\ t[i].lit = l
    BY FixedIs
  <2> QED
    BY <1>1, <2>1, FixedIs
<1>3. ASSUME NEW l \in FixedIn(u) PROVE l \in FixedIn(t) \/ (e.level = 0 /\ l = e.lit)
  <2>1. PICK i \in 1..Len(u) : u[i].level = 0 /\ u[i].lit = l
    BY FixedIs
  <2>2. CASE i \in 1..Len(t)
    <3>1. t[i].level = 0 /\ t[i].lit = l
      BY <1>1, <2>1, <2>2
    <3>2. l \in FixedIn(t)
      BY <2>2, <3>1, FixedIs, Zenon
    <3> QED
      BY <3>2
  <2> QED
    BY <1>1, <2>1, <2>2
<1> QED
  BY <1>2, <1>3

LEMMA EntailedKept ==
  ASSUME NEW t, NEW lvl, TrailOK(t, lvl), NEW k \in 0..lvl, NEW r, IsKept(r, t, k),
         NEW f, NEW D, NEW E, EntailedBy(f, D, t), \A c \in E : Implies(f, c.lits)
  PROVE  EntailedBy(f, E, r)
<1>1. \A i \in 1..Len(r) : i \in 1..Len(t) /\ r[i] = t[i]
  BY KeptFacts
<1>2. FixedIn(r) = FixedIn(t)
  BY FixedKept
<1> QED
  BY <1>1, <1>2 DEF EntailedBy

LEMMA EntailedGrown ==
  ASSUME NEW t, NEW lvl, TrailOK(t, lvl), NEW e, NEW u, IsGrown(u, t, e),
         NEW k \in Nat, lvl <= k, e.level <= k,
         NEW f, NEW D, NEW E, EntailedBy(f, D, t), \A c \in E : Implies(f, c.lits),
         e.lit \in LitsOf(f), e.level = 0 => Implies(f, {e.lit})
  PROVE  EntailedBy(f, E, u)
<1>1. /\ \A i \in 1..Len(t) : u[i] = t[i] /\ i \in 1..Len(u)
      /\ u[Len(t) + 1] = e
      /\ \A i \in 1..Len(u) : i \in 1..Len(t) \/ i = Len(t) + 1
  BY GrownFacts
<1>2. \A i \in 1..Len(u) : u[i].lit \in LitsOf(f)
  BY <1>1 DEF EntailedBy
<1>3. \A l \in FixedIn(u) : l \in FixedIn(t) \/ (e.level = 0 /\ l = e.lit)
  BY FixedGrown
<1>4. \A l \in FixedIn(u) : Implies(f, {l})
  BY <1>3 DEF EntailedBy
<1> QED
  BY <1>2, <1>4 DEF EntailedBy

LEMMA WatchKept ==
  ASSUME NEW t, NEW lvl, TrailOK(t, lvl), NEW k \in 0..lvl, NEW r, IsKept(r, t, k),
         NEW c, NEW q, NEW h, NEW s, NEW z, NEW W, NEW V,
         WatchOK(c, t, q, s, W),
         \A p \in 1..Len(r) : p < q => p < h,
         \A p \in 1..Len(r) : Owes(c, t, h, z, V, p) => Owes(c, t, q, s, W, p)
                                                        \/ Served(c, t, p)
  PROVE  WatchOK(c, r, h, z, V)
<1>1. /\ Len(r) \in Nat /\ lvl \in Nat
      /\ \A i \in 1..Len(r) : i \in 1..Len(t) /\ r[i] = t[i] /\ t[i].level <= k
      /\ \A i \in 1..Len(t) : t[i].level <= k => i \in 1..Len(r)
  BY KeptFacts, TrailLength
<1>2. \A i \in 1..Len(t) : t[i].level \in Nat
  BY EntryFacts
<1>3. ASSUME DullAt(c, t, q) PROVE DullAt(c, r, h)
  <2>1. PICK p \in 1..Len(t) : p < q /\ t[p].level = 0 /\ -t[p].lit \in c.watch
    BY <1>3 DEF DullAt
  <2>2. p \in 1..Len(r) /\ r[p] = t[p]
    BY <1>1, <2>1
  <2> QED
    BY <2>1, <2>2 DEF DullAt
<1>4. ASSUME NEW p \in 1..Len(r), Served(c, t, p) PROVE Served(c, r, p)
  <2>1. PICK i \in 1..Len(t) : t[i].lit \in c.lits /\ t[i].level <= t[p].level
    BY <1>4 DEF Served
  <2>2. t[i].level <= k /\ r[p] = t[p]
    BY <1>1, <1>2, <2>1
  <2>3. i \in 1..Len(r) /\ r[i] = t[i]
    BY <1>1, <2>2
  <2> QED
    BY <2>1, <2>2, <2>3 DEF Served
<1>5. ASSUME NEW p \in 1..Len(r), Owes(c, r, h, z, V, p) PROVE Owes(c, t, h, z, V, p)
  <2>1. r[p] = t[p]
    BY <1>1
  <2> QED
    BY <1>5, <2>1 DEF Owes
<1>6. ASSUME \A p \in 1..Len(t) : Owes(c, t, q, s, W, p) => Served(c, t, p)
      PROVE  \A p \in 1..Len(r) : Owes(c, r, h, z, V, p) => Served(c, r, p)
  BY <1>1, <1>4, <1>5, <1>6
<1> QED
  BY <1>3, <1>6 DEF WatchOK

LEMMA WatchGrown ==
  ASSUME NEW t, NEW lvl, TrailOK(t, lvl), NEW e, NEW u, IsGrown(u, t, e),
         NEW k \in Nat, lvl <= k, e.level <= k,
         NEW c, NEW q \in 1..(Len(t) + 1), NEW s, NEW W,
         WatchOK(c, t, q, s, W)
  PROVE  WatchOK(c, u, q, s, W)
<1>1. /\ Len(t) \in Nat
      /\ \A i \in 1..Len(t) : u[i] = t[i] /\ i \in 1..Len(u)
      /\ \A i \in 1..Len(u) : i \in 1..Len(t) \/ i = Len(t) + 1
  BY GrownFacts
<1>2. \A p \in 1..Len(u) : p < q => p \in 1..Len(t)
  BY <1>1
<1>3. DullAt(c, t, q) => DullAt(c, u, q)
  BY <1>1 DEF DullAt
<1>4. ASSUME NEW p \in 1..Len(t), Served(c, t, p) PROVE Served(c, u, p)
  BY <1>1, <1>4 DEF Served
<1>5. ASSUME NEW p \in 1..Len(u), Owes(c, u, q, s, W, p)
      PROVE  p \in 1..Len(t) /\ Owes(c, t, q, s, W, p)
  BY <1>1, <1>2, <1>5 DEF Owes
<1>6. ASSUME \A p \in 1..Len(t) : Owes(c, t, q, s, W, p) => Served(c, t, p)
      PROVE  \A p \in 1..Len(u) : Owes(c, u, q, s, W, p) => Served(c, u, p)
  BY <1>4, <1>5, <1>6
<1> QED
  BY <1>3, <1>6 DEF WatchOK

LEMMA CubeKept ==
  ASSUME NEW t, NEW lvl, TrailOK(t, lvl), NEW k \in 0..lvl, NEW r, IsKept(r, t, k),
         NEW a, Len(a) \in Nat, CubeOK(a, t, lvl)
  PROVE  CubeOK(a, r, k)
<1>1. /\ \A i \in 1..Len(r) : i \in 1..Len(t) /\ r[i] = t[i]
      /\ \A i \in 1..Len(t) : t[i].level <= k => i \in 1..Len(r)
      /\ lvl \in Nat
  BY KeptFacts, TrailLength
<1>2. ASSUME NEW j \in 1..Len(a), j <= k
      PROVE  \E i \in 1..Len(r) : r[i].lit = a[j] /\ r[i].level <= j
  <2>1. PICK i \in 1..Len(t) : t[i].lit = a[j] /\ t[i].level <= j
    BY <1>1, <1>2 DEF CubeOK
  <2>2. t[i].level \in Nat
    BY EntryFacts
  <2>3. t[i].level <= k
    BY <1>2, <2>1, <2>2
  <2> QED
    BY <1>1, <2>1, <2>3
<1>3. \A i \in 1..Len(r) :
        r[i].reason = NoReason /\ r[i].level \in 1..Len(a) => r[i].lit = a[r[i].level]
  BY <1>1 DEF CubeOK
<1> QED
  BY <1>2, <1>3 DEF CubeOK

LEMMA CubeGrown ==
  ASSUME NEW t, NEW lvl, TrailOK(t, lvl), NEW e, NEW u, IsGrown(u, t, e),
         NEW k \in Nat, lvl <= k, e.level <= k,
         NEW a, CubeOK(a, t, lvl),
         e.reason = NoReason /\ e.level \in 1..Len(a) => e.lit = a[e.level],
         \A j \in 1..Len(a) : j <= k => j <= lvl \/ (a[j] = e.lit /\ e.level <= j)
  PROVE  CubeOK(a, u, k)
<1>1. /\ \A i \in 1..Len(t) : u[i] = t[i] /\ i \in 1..Len(u)
      /\ u[Len(t) + 1] = e /\ Len(t) + 1 \in 1..Len(u)
      /\ \A i \in 1..Len(u) : i \in 1..Len(t) \/ i = Len(t) + 1
  BY GrownFacts
<1>2. \A j \in 1..Len(a) : j <= k => \E i \in 1..Len(u) : u[i].lit = a[j] /\ u[i].level <= j
  BY <1>1 DEF CubeOK
<1>3. \A i \in 1..Len(u) :
        u[i].reason = NoReason /\ u[i].level \in 1..Len(a) => u[i].lit = a[u[i].level]
  BY <1>1 DEF CubeOK
<1> QED
  BY <1>2, <1>3 DEF CubeOK

LEMMA CubeAtRoot ==
  ASSUME NEW t, TrailOK(t, 0), NEW a, Len(a) \in Nat
  PROVE  CubeOK(a, t, 0)
<1>1. \A i \in 1..Len(t) : t[i].level = 0
  BY EntryFacts
<1> QED
  BY <1>1 DEF CubeOK

(* At level 0 nothing has a reason.                                        *)
LEMMA ReasonsAtRoot ==
  ASSUME NEW t, TrailOK(t, 0), NEW A, NEW L
  PROVE  ReasonsOK(t, A, L)
<1>1. \A i \in 1..Len(t) : t[i].level = 0
  BY EntryFacts
<1> QED
  BY <1>1 DEF ReasonsOK, TrailOK
-----------------------------------------------------------------------------
(* analyze resolves back along the trail: R[i] is what is left when the    *)
(* literals after the i-th have been looked at.                            *)
IsResolution(R, confl) ==
  /\ R[Len(trail)] = Upper(confl)
  /\ \A i \in 0..(Len(trail) - 1) : R[i] = Resolved(R[i + 1], trail[i + 1])

LEMMA ResolutionIs ==
  ASSUME NEW confl, Len(trail) \in Nat
  PROVE  \E R : IsResolution(R, confl) /\ FirstUIP(confl) = R[0]
<1> DEFINE n == Len(trail)
           S == {m \in Nat : m <= n => \E f : f = [i \in (n - m)..n |->
                  IF i = n THEN Upper(confl) ELSE Resolved(f[i + 1], trail[i + 1])]}
<1>1. 0 \in S
  <2> DEFINE g == [i \in (n - 0)..n |-> Upper(confl)]
  <2>1. g = [i \in (n - 0)..n |->
               IF i = n THEN Upper(confl) ELSE Resolved(g[i + 1], trail[i + 1])]
    OBVIOUS
  <2> QED
    BY <2>1
<1>2. ASSUME NEW m \in Nat, m \in S PROVE m + 1 \in S
  <2> SUFFICES ASSUME m + 1 <= n
               PROVE  \E f : f = [i \in (n - (m + 1))..n |->
                        IF i = n THEN Upper(confl) ELSE Resolved(f[i + 1], trail[i + 1])]
    OBVIOUS
  <2>1. PICK f : f = [i \in (n - m)..n |->
                 IF i = n THEN Upper(confl) ELSE Resolved(f[i + 1], trail[i + 1])]
    BY <1>2
  <2>2. PICK g : g = [i \in (n - (m + 1))..n |->
                 IF i >= n - m THEN f[i] ELSE Resolved(f[i + 1], trail[i + 1])]
    OBVIOUS
  <2>3. ASSUME NEW i \in (n - (m + 1))..n
        PROVE  g[i] = IF i = n THEN Upper(confl) ELSE Resolved(g[i + 1], trail[i + 1])
    <3>1. CASE i = n
      <4>1. f[n] = Upper(confl)
        BY <2>1
      <4> QED
        BY <2>2, <3>1, <4>1
    <3>2. CASE i # n /\ i >= n - m
      <4>1. f[i] = Resolved(f[i + 1], trail[i + 1])
        BY <2>1, <3>2
      <4>2. g[i] = f[i] /\ g[i + 1] = f[i + 1]
        BY <2>2, <3>2
      <4> QED
        BY <3>2, <4>1, <4>2
    <3>3. CASE i = n - (m + 1)
      <4>1. g[i] = Resolved(f[i + 1], trail[i + 1]) /\ g[i + 1] = f[i + 1] /\ i # n
        BY <2>2, <3>3
      <4> QED
        BY <4>1
    <3> QED
      BY <3>1, <3>2, <3>3
  <2>4. g = [i \in (n - (m + 1))..n |->
               IF i = n THEN Upper(confl) ELSE Resolved(g[i + 1], trail[i + 1])]
    <3>1. g = [i \in (n - (m + 1))..n |-> g[i]]
      BY <2>2
    <3> QED
      BY <2>3, <3>1
  <2> QED
    BY <2>4
<1> HIDE DEF S
<1>3. n \in S
  BY <1>1, <1>2, SetInduction
<1>4. \E f : f = [i \in 0..n |->
                    IF i = n THEN Upper(confl) ELSE Resolved(f[i + 1], trail[i + 1])]
  BY <1>3 DEF S
<1>5. PICK R : R = CHOOSE f : f = [i \in 0..n |->
                    IF i = n THEN Upper(confl) ELSE Resolved(f[i + 1], trail[i + 1])]
  OBVIOUS
<1>6. R = [i \in 0..n |->
             IF i = n THEN Upper(confl) ELSE Resolved(R[i + 1], trail[i + 1])]
  BY <1>4, <1>5
<1>7. FirstUIP(confl) = R[0]
  BY <1>5 DEF FirstUIP
<1>8. IsResolution(R, confl)
  BY <1>6 DEF IsResolution
<1> QED
  BY <1>7, <1>8
-----------------------------------------------------------------------------
(* What analyze works on: literals that are false above level 0, one of    *)
(* which every model makes true.                                           *)
NoGood(lits) ==
  /\ lits \subseteq Falses /\ lits \subseteq LitsOf(formula)
  /\ \A l \in lits : Level(l) > 0
  /\ \A m \in ModelsOf[formula] : lits \cap m # {}

LEMMA Known ==
  ASSUME IInv
  PROVE  /\ TrailOK(trail, level) /\ formula \in Formulas
         /\ LitsOf(formula) \subseteq Lits
         /\ Len(trail) \in Nat /\ level \in Nat
         /\ \A i \in 1..Len(trail) :
              /\ trail[i].lit \in Lits /\ trail[i].lit \in LitsOf(formula)
              /\ -trail[i].lit \in LitsOf(formula)
              /\ trail[i].level \in 0..level
              /\ trail[i].reason \in Refs
<1>1. TrailOK(trail, level) /\ formula \in Formulas /\ EntailedBy(formula, db, trail)
  BY DEF IInv, Scalars
<1>2. LitsOf(formula) \subseteq Lits
  BY <1>1, FormulaFacts
<1>3. Len(trail) \in Nat /\ level \in Nat
  BY <1>1, TrailLength
<1>4. ASSUME NEW i \in 1..Len(trail)
      PROVE  /\ trail[i].lit \in Lits /\ trail[i].lit \in LitsOf(formula)
             /\ -trail[i].lit \in LitsOf(formula)
             /\ trail[i].level \in 0..level
             /\ trail[i].reason \in Refs
  <2>1. trail[i].lit \in LitsOf(formula)
    BY <1>1 DEF EntailedBy
  <2>2. -trail[i].lit \in LitsOf(formula)
    BY <1>1, <2>1, FormulaFacts
  <2> QED
    BY <1>1, <2>1, <2>2, EntryFacts
<1> QED
  BY <1>1, <1>2, <1>3, <1>4

(* A literal that is false, and where it became so.                        *)
LEMMA FalseAt ==
  ASSUME IInv, NEW l \in Lits, l \in Falses
  PROVE  \E i \in 1..Len(trail) :
           /\ trail[i].lit = -l /\ l = -trail[i].lit
           /\ Position(l) = i /\ Level(l) = trail[i].level /\ Level(l) \in 0..level
<1>1. TrailOK(trail, level)
  BY Known
<1>2. PICK i \in 1..Len(trail) : trail[i].lit = -l
  BY <1>1, ValueFacts
<1>3. l = -trail[i].lit
  BY <1>2, LitFacts
<1>4. Position(l) = i /\ Level(l) = trail[i].level /\ Level(l) \in 0..level
  BY <1>1, <1>2, PositionIs
<1> QED
  BY <1>2, <1>3, <1>4

LEMMA MadeFalse ==
  ASSUME IInv, NEW i \in 1..Len(trail)
  PROVE  /\ -trail[i].lit \in Falses /\ -trail[i].lit \in Lits
         /\ trail[i].lit \in Lits /\ -(-trail[i].lit) = trail[i].lit
         /\ Position(-trail[i].lit) = i /\ Level(-trail[i].lit) = trail[i].level
         /\ Position(trail[i].lit) = i /\ Level(trail[i].lit) = trail[i].level
<1>1. TrailOK(trail, level) /\ trail[i].lit \in Lits
  BY Known
<1>2. -trail[i].lit \in Lits /\ -(-trail[i].lit) = trail[i].lit
  BY <1>1, LitFacts
<1>3. -trail[i].lit \in Falses
  BY <1>1, <1>2, ValueFacts
<1>4. Position(-trail[i].lit) = i /\ Level(-trail[i].lit) = trail[i].level
  BY <1>1, <1>2, PositionIs
<1>5. Position(trail[i].lit) = i /\ Level(trail[i].lit) = trail[i].level
  BY <1>1, PositionIs
<1> QED
  BY <1>1, <1>2, <1>3, <1>4, <1>5

(* No model has the negation of a literal of level 0.                      *)
LEMMA RootInModel ==
  ASSUME IInv, NEW i \in 1..Len(trail), trail[i].level = 0, NEW m \in ModelsOf[formula]
  PROVE  trail[i].lit \in m /\ -trail[i].lit \notin m
<1>1. trail[i].lit \in FixedIn(trail)
  BY FixedIs
<1>2. Implies(formula, {trail[i].lit})
  BY <1>1 DEF IInv, EntailedBy
<1>3. trail[i].lit \in m /\ trail[i].lit \in LitsOf(formula)
  BY <1>2 DEF Implies
<1> QED
  BY <1>3, Known, ModelFacts

(* Literals of level 0 may be left out.                                    *)
LEMMA UpperHits ==
  ASSUME IInv, NEW lits \in SUBSET Lits, lits \subseteq Falses,
         NEW m \in ModelsOf[formula], NEW l \in lits, l \in m
  PROVE  l \in Upper(lits)
<1>1. PICK i \in 1..Len(trail) :
        l = -trail[i].lit /\ Level(l) = trail[i].level /\ Level(l) \in 0..level
  BY FalseAt
<1>2. Level(l) # 0
  BY <1>1, RootInModel
<1> QED
  BY <1>1, <1>2 DEF Upper

LEMMA ConflictIsNoGood ==
  ASSUME IInv, NEW lits \in SUBSET Lits, lits \subseteq Falses, Implies(formula, lits)
  PROVE  NoGood(Upper(lits))
<1>1. Upper(lits) \subseteq lits /\ \A l \in Upper(lits) : Level(l) > 0
  BY DEF Upper
<1>2. ASSUME NEW m \in ModelsOf[formula] PROVE Upper(lits) \cap m # {}
  <2>1. PICK l \in lits : l \in m
    BY DEF Implies
  <2> QED
    BY <2>1, UpperHits
<1> QED
  BY <1>1, <1>2 DEF NoGood, Implies

(* What is known of the reason of an assignment.                           *)
LEMMA ReasonFacts ==
  ASSUME IInv, NEW i \in 1..Len(trail), trail[i].reason # NoReason
  PROVE  LET others == trail[i].reason.lits \ {trail[i].lit}
         IN /\ trail[i].level > 0
            /\ trail[i].reason \in RefsOf(db)
            /\ trail[i].reason.lits \in SUBSET Lits
            /\ others \subseteq Lits /\ others \subseteq Falses
            /\ trail[i].lit \in trail[i].reason.lits
            /\ Implies(formula, trail[i].reason.lits)
            /\ \A l \in others : Position(l) \in 1..(i - 1) /\ Level(l) <= trail[i].level
            /\ ~Walking => \E l \in others : Level(l) = trail[i].level
<1> DEFINE others == trail[i].reason.lits \ {trail[i].lit}
<1>1. TrailOK(trail, level) /\ Len(trail) \in Nat
  BY Known
<1>2. trail[i].level \in Nat /\ trail[i].reason \in Refs
  BY Known
<1>3. trail[i].level > 0
  BY <1>1, <1>2 DEF TrailOK
<1>4. ReasonOK(trail, RefsOf(db), ~Walking, i)
  BY DEF IInv, ReasonsOK
<1>5. trail[i].reason \in RefsOf(db) /\ trail[i].lit \in trail[i].reason.lits
  BY <1>4 DEF ReasonOK
<1>6. trail[i].reason.lits \in SUBSET Lits
  BY <1>2 DEF Refs
<1>7. Implies(formula, trail[i].reason.lits)
  <2>1. PICK c \in db : trail[i].reason = Ref(c)
    BY <1>5 DEF RefsOf
  <2>2. Implies(formula, c.lits)
    BY DEF IInv, EntailedBy
  <2> QED
    BY <2>1, <2>2 DEF Ref
<1>8. ASSUME NEW l \in others
      PROVE  /\ l \in Lits /\ l \in Falses
             /\ Position(l) \in 1..(i - 1) /\ Level(l) <= trail[i].level
  <2>1. PICK j \in 1..(i - 1) : trail[j].lit = -l
    BY <1>4 DEF ReasonOK
  <2>2. j \in 1..Len(trail) /\ j <= i /\ l \in Lits
    BY <1>1, <1>6
  <2>3. Position(l) = j /\ Level(l) = trail[j].level
    BY <1>1, <2>1, <2>2, PositionIs
  <2>4. l \in Falses
    BY <1>1, <2>1, <2>2, ValueFacts
  <2>5. trail[j].level <= trail[i].level
    BY <1>1, <2>2 DEF TrailOK
  <2> QED
    BY <2>2, <2>3, <2>4, <2>5
<1>9. ASSUME ~Walking PROVE \E l \in others : Level(l) = trail[i].level
  <2>1. PICK j \in 1..(i - 1) :
          -trail[j].lit \in trail[i].reason.lits /\ trail[j].level = trail[i].level
    BY <1>4, <1>9 DEF ReasonOK
  <2>2. j \in 1..Len(trail) /\ j # i
    BY <1>1
  <2>3. Level(-trail[j].lit) = trail[j].level /\ Position(-trail[j].lit) = j
    BY <2>2, MadeFalse
  <2>4. Position(trail[i].lit) = i
    BY MadeFalse
  <2> QED
    BY <2>1, <2>2, <2>3, <2>4
<1> QED
  BY <1>3, <1>5, <1>6, <1>7, <1>8, <1>9

(* One resolution with a reason.                                           *)
LEMMA ResolvedIsNoGood ==
  ASSUME IInv, NEW lits, NoGood(lits), NEW i \in 1..Len(trail),
         -trail[i].lit \in lits, trail[i].reason # NoReason
  PROVE  NoGood((lits \ {-trail[i].lit}) \cup Upper(trail[i].reason.lits \ {trail[i].lit}))
<1> DEFINE others == trail[i].reason.lits \ {trail[i].lit}
           next == (lits \ {-trail[i].lit}) \cup Upper(others)
<1>1. /\ others \subseteq Lits /\ others \subseteq Falses
      /\ Implies(formula, trail[i].reason.lits)
  BY ReasonFacts
<1>2. next \subseteq Falses /\ next \subseteq LitsOf(formula)
      /\ \A l \in next : Level(l) > 0
  BY <1>1 DEF NoGood, Upper, Implies
<1>3. ASSUME NEW m \in ModelsOf[formula] PROVE next \cap m # {}
  <2>1. PICK k \in lits : k \in m
    BY DEF NoGood
  <2>2. CASE k # -trail[i].lit
    BY <2>1, <2>2
  <2>3. CASE k = -trail[i].lit
    <3>1. trail[i].lit \notin m
      BY <2>1, <2>3, Known, ModelFacts
    <3>2. PICK l \in others : l \in m
      BY <1>1, <3>1 DEF Implies
    <3>3. l \in Upper(others)
      BY <1>1, <3>2, UpperHits
    <3> QED
      BY <3>2, <3>3
  <2> QED
    BY <2>2, <2>3
<1> QED
  BY <1>2, <1>3 DEF NoGood
-----------------------------------------------------------------------------
(* The first unique implication point: the walk stops before the decision  *)
(* of the level, whose reason there is none.                               *)
Focus(lits, i) ==
  /\ NoGood(lits) /\ Current(lits) # {}
  /\ \/ \E u : Current(lits) = {u}
     \/ \A l \in Current(lits) : Position(l) <= i

LEMMA NoGoodFacts ==
  ASSUME IInv, NEW lits, NoGood(lits)
  PROVE  /\ lits \in SUBSET Lits /\ IsFiniteSet(lits) /\ IsFiniteSet(Current(lits))
         /\ \A S \in SUBSET lits : IsFiniteSet(S)
<1>1. lits \in SUBSET Lits /\ Current(lits) \in SUBSET Lits
  BY Known DEF NoGood, Current
<1> QED
  BY <1>1, LitsFinite

LEMMA FocusStep ==
  ASSUME IInv, level > 0, NEW i \in 1..Len(trail), NEW lits, Focus(lits, i)
  PROVE  Focus(Resolved(lits, trail[i]), i - 1)
<1> DEFINE e == trail[i]
           k == -e.lit
           C == Current(lits)
<1>1. NoGood(lits) /\ C # {} /\ lits \in SUBSET Lits /\ IsFiniteSet(C)
  BY NoGoodFacts DEF Focus
<1>2. Len(trail) \in Nat /\ level \in Nat /\ TrailOK(trail, level)
  BY Known
<1>3. k \in Lits /\ Position(k) = i /\ Level(k) = e.level /\ e.level \in 0..level
  BY MadeFalse, Known
<1>4. ASSUME NEW l \in lits
      PROVE  \E j \in 1..Len(trail) : l = -trail[j].lit /\ Position(l) = j
                                      /\ Level(l) = trail[j].level
  <2>1. l \in Lits /\ l \in Falses
    BY <1>1 DEF NoGood
  <2> QED
    BY <2>1, FalseAt
<1>5. CASE ~(k \in lits /\ Cardinality(C) > 1)
  <2>1. Resolved(lits, e) = lits
    BY <1>5 DEF Resolved
  <2>2. CASE k \in lits
    <3>1. Cardinality(C) = 1
      BY <1>1, <1>5, <2>2, SizeFacts
    <3>2. \E u : C = {u}
      BY <1>1, <3>1, FS_Singleton
    <3> QED
      BY <1>1, <2>1, <3>2 DEF Focus
  <2>3. CASE k \notin lits /\ \A l \in C : Position(l) <= i
    <3>1. ASSUME NEW l \in C PROVE Position(l) <= i - 1
      <4>1. l \in lits
        BY DEF Current
      <4>2. PICK j \in 1..Len(trail) : l = -trail[j].lit /\ Position(l) = j
        BY <1>4, <4>1
      <4>3. j # i
        BY <2>3, <4>1, <4>2
      <4> QED
        BY <1>2, <2>3, <4>2, <4>3
    <3> QED
      BY <1>1, <2>1, <3>1 DEF Focus
  <2>4. CASE \E u : C = {u}
    BY <1>1, <2>1, <2>4 DEF Focus
  <2> QED
    BY <2>2, <2>3, <2>4 DEF Focus
<1>6. CASE k \in lits /\ Cardinality(C) > 1
  <2>1. PICK a \in C, b \in C : a # b
    BY <1>1, <1>6, SizeFacts
  <2>2. \A l \in C : Position(l) <= i
    <3>1. ~ \E u : C = {u}
      BY <2>1
    <3> QED
      BY <3>1 DEF Focus
  <2>3. ASSUME NEW l \in C
        PROVE  \E j \in 1..i : l = -trail[j].lit /\ trail[j].level = level /\ Position(l) = j
    <3>1. l \in lits /\ Level(l) = level
      BY DEF Current
    <3>2. PICK j \in 1..Len(trail) : l = -trail[j].lit /\ Position(l) = j
                                      /\ Level(l) = trail[j].level
      BY <1>4, <3>1
    <3>3. j <= i
      BY <2>2, <3>2
    <3> QED
      BY <1>2, <3>1, <3>2, <3>3
  <2>4. e.level = level
    <3>1. PICK j \in 1..i : trail[j].level = level
      BY <2>3
    <3>2. j \in 1..Len(trail)
      BY <1>2
    <3>3. trail[j].level <= trail[i].level
      BY <1>2, <3>2 DEF TrailOK
    <3> QED
      BY <1>2, <1>3, <3>1, <3>3
  <2>5. e.reason # NoReason
    <3> SUFFICES ASSUME e.reason = NoReason PROVE FALSE
      OBVIOUS
    <3>1. \A j \in 1..Len(trail) : j < i => trail[j].level < level
      BY <1>2, <2>4 DEF TrailOK
    <3>2. ASSUME NEW l \in C PROVE l = k
      <4>1. PICK j \in 1..i : l = -trail[j].lit /\ trail[j].level = level
        BY <2>3
      <4>2. j \in 1..Len(trail)
        BY <1>2
      <4>3. ~(trail[j].level < level)
        BY <1>2, <4>1
      <4>4. j = i
        BY <3>1, <4>2, <4>3
      <4> QED
        BY <4>1, <4>4
    <3> QED
      BY <2>1, <3>2
  <2> DEFINE others == e.reason.lits \ {e.lit}
             next == (lits \ {k}) \cup Upper(others)
  <2>6. Resolved(lits, e) = next
    BY <1>6 DEF Resolved
  <2>7. NoGood(next)
    BY <1>1, <1>6, <2>5, ResolvedIsNoGood
  <2>8. Current(next) # {}
    <3>1. PICK l \in C : l # k
      BY <2>1
    <3>2. l \in Current(next)
      BY <3>1 DEF Current
    <3> QED
      BY <3>2
  <2>9. ASSUME NEW l \in Current(next) PROVE Position(l) <= i - 1
    <3>1. CASE l \in others
      <4>1. Position(l) \in 1..(i - 1)
        BY <2>5, <3>1, ReasonFacts
      <4> QED
        BY <4>1
    <3>2. CASE l \in lits /\ l # k
      <4>1. l \in C
        BY <3>2 DEF Current
      <4>2. PICK j \in 1..i : l = -trail[j].lit /\ Position(l) = j
        BY <2>3, <4>1
      <4>3. j # i
        BY <3>2, <4>2
      <4> QED
        BY <4>2, <4>3
    <3> QED
      BY <3>1, <3>2 DEF Current, Upper
  <2> QED
    BY <2>6, <2>7, <2>8, <2>9 DEF Focus
<1> QED
  BY <1>5, <1>6

LEMMA FirstUIPFacts ==
  ASSUME IInv, level > 0,
         NEW confl \in SUBSET Lits, confl \subseteq Falses, Implies(formula, confl),
         NEW l \in confl, Level(l) = level
  PROVE  /\ NoGood(FirstUIP(confl))
         /\ \E u : Current(FirstUIP(confl)) = {u}
<1>1. Len(trail) \in Nat /\ level \in Nat
  BY Known
<1> DEFINE n == Len(trail)
<1>2. PICK R : IsResolution(R, confl) /\ FirstUIP(confl) = R[0]
  BY <1>1, ResolutionIs
<1> DEFINE S == {m \in Nat : m <= n => Focus(R[n - m], n - m)}
<1>3. 0 \in S
  <2>1. NoGood(Upper(confl))
    BY ConflictIsNoGood
  <2>2. l \in Current(Upper(confl))
    BY DEF Upper, Current
  <2>3. ASSUME NEW k \in Current(Upper(confl)) PROVE Position(k) <= n
    <3>1. k \in Lits /\ k \in Falses
      BY DEF Current, Upper
    <3>2. PICK i \in 1..Len(trail) : Position(k) = i
      BY <3>1, FalseAt
    <3> QED
      BY <1>1, <3>2
  <2>4. R[n] = Upper(confl)
    BY <1>2 DEF IsResolution
  <2>5. Focus(R[n], n)
    BY <2>1, <2>2, <2>3, <2>4 DEF Focus
  <2> QED
    BY <1>1, <2>5
<1>4. ASSUME NEW m \in Nat, m \in S PROVE m + 1 \in S
  <2> SUFFICES ASSUME m + 1 <= n PROVE Focus(R[n - (m + 1)], n - (m + 1))
    OBVIOUS
  <2>1. /\ n - m \in 1..Len(trail) /\ (n - (m + 1)) + 1 = n - m
        /\ n - (m + 1) \in 0..(Len(trail) - 1) /\ (n - m) - 1 = n - (m + 1) /\ m <= n
    BY <1>1
  <2>2. Focus(R[n - m], n - m)
    BY <1>4, <2>1
  <2>3. R[n - (m + 1)] = Resolved(R[n - m], trail[n - m])
    BY <1>2, <2>1 DEF IsResolution
  <2>4. Focus(Resolved(R[n - m], trail[n - m]), (n - m) - 1)
    BY <2>1, <2>2, FocusStep
  <2> QED
    BY <2>1, <2>3, <2>4
<1> HIDE DEF S
<1>5. n \in S
  BY <1>1, <1>3, <1>4, SetInduction
<1>6. Focus(R[0], 0)
  <2>1. n - n = 0 /\ n <= n
    BY <1>1
  <2> QED
    BY <1>5, <2>1 DEF S
<1>7. NoGood(R[0]) /\ Current(R[0]) # {}
  BY <1>6 DEF Focus
<1>8. ASSUME NEW k \in Current(R[0]) PROVE ~(Position(k) <= 0)
  <2>1. k \in Lits /\ k \in Falses
    BY <1>7, NoGoodFacts DEF Current, NoGood
  <2>2. PICK i \in 1..Len(trail) : Position(k) = i
    BY <2>1, FalseAt
  <2> QED
    BY <1>1, <2>2
<1>9. \E u : Current(R[0]) = {u}
  BY <1>6, <1>7, <1>8 DEF Focus
<1> QED
  BY <1>2, <1>7, <1>9

(* A conflict with one literal of the level is not resolved at all.        *)
LEMMA FirstUIPOfOne ==
  ASSUME Len(trail) \in Nat, NEW confl, Cardinality(Current(Upper(confl))) = 1
  PROVE  FirstUIP(confl) = Upper(confl)
<1> DEFINE n == Len(trail)
<1>1. PICK R : IsResolution(R, confl) /\ FirstUIP(confl) = R[0]
  BY ResolutionIs
<1> DEFINE S == {m \in Nat : m <= n => R[n - m] = Upper(confl)}
<1>2. 0 \in S
  BY <1>1 DEF IsResolution
<1>3. ASSUME NEW m \in Nat, m \in S PROVE m + 1 \in S
  <2> SUFFICES ASSUME m + 1 <= n PROVE R[n - (m + 1)] = Upper(confl)
    OBVIOUS
  <2>1. (n - (m + 1)) + 1 = n - m /\ n - (m + 1) \in 0..(Len(trail) - 1) /\ m <= n
    OBVIOUS
  <2>2. R[n - m] = Upper(confl)
    BY <1>3, <2>1
  <2>3. R[n - (m + 1)] = Resolved(R[n - m], trail[n - m])
    BY <1>1, <2>1 DEF IsResolution
  <2> QED
    BY <2>2, <2>3 DEF Resolved
<1> HIDE DEF S
<1>4. n \in S
  BY <1>2, <1>3, SetInduction
<1>5. R[n - n] = Upper(confl) /\ n - n = 0
  BY <1>4 DEF S
<1> QED
  BY <1>1, <1>5
-----------------------------------------------------------------------------
(* The minimization of a learnt clause.                                    *)
FollowsAt(F, rest, i) ==
  /\ trail[i].reason # NoReason
  /\ \A l \in Upper(trail[i].reason.lits \ {trail[i].lit}) :
       l \in rest \/ F[Position(l)]

FollowsUpTo(m, rest) == \E f : f = [i \in 1..m |-> FollowsAt(f, rest, i)]

(* Whether a literal follows depends on earlier ones only.                 *)
LEMMA FollowsLocally ==
  ASSUME IInv, NEW i \in 1..Len(trail), NEW rest, NEW F, NEW G,
         \A j \in 1..(i - 1) : F[j] = G[j]
  PROVE  FollowsAt(F, rest, i) = FollowsAt(G, rest, i)
<1>1. CASE trail[i].reason = NoReason
  BY <1>1 DEF FollowsAt
<1>2. CASE trail[i].reason # NoReason
  <2>1. \A l \in Upper(trail[i].reason.lits \ {trail[i].lit}) : Position(l) \in 1..(i - 1)
    BY <1>2, ReasonFacts DEF Upper
  <2>2. \A l \in Upper(trail[i].reason.lits \ {trail[i].lit}) :
          F[Position(l)] = G[Position(l)]
    BY <2>1
  <2> QED
    BY <2>2 DEF FollowsAt
<1> QED
  BY <1>1, <1>2

LEMMA RedundantIs ==
  ASSUME IInv, NEW lits
  PROVE  \E F : /\ Redundant(lits) = {l \in lits \ Current(lits) : F[Position(l)]}
                /\ \A i \in 1..Len(trail) :
                     F[i] => FollowsAt(F, lits \ Current(lits), i)
<1> DEFINE n == Len(trail)
           rest == lits \ Current(lits)
           S == {m \in Nat : m <= n => FollowsUpTo(m, rest)}
<1>1. n \in Nat
  BY Known
<1>2. 0 \in S
  <2> DEFINE g == [i \in 1..0 |-> TRUE]
  <2>1. g = [i \in 1..0 |-> FollowsAt(g, rest, i)]
    OBVIOUS
  <2>2. FollowsUpTo(0, rest)
    BY <2>1, Zenon DEF FollowsUpTo
  <2> QED
    BY <2>2
<1>3. ASSUME NEW m \in Nat, m \in S PROVE m + 1 \in S
  <2> SUFFICES ASSUME m + 1 <= n PROVE FollowsUpTo(m + 1, rest)
    OBVIOUS
  <2>0. FollowsUpTo(m, rest)
    BY <1>1, <1>3
  <2>1. PICK f : f = [i \in 1..m |-> FollowsAt(f, rest, i)]
    BY <2>0, Zenon DEF FollowsUpTo
  <2>2. PICK g : g = [i \in 1..(m + 1) |->
                        IF i <= m THEN f[i] ELSE FollowsAt(f, rest, i)]
    OBVIOUS
  <2>3. \A i \in 1..m : g[i] = f[i] /\ f[i] = FollowsAt(f, rest, i)
    <3>1. \A i \in 1..m : f[i] = FollowsAt(f, rest, i)
      BY <2>1, Zenon
    <3>2. \A i \in 1..m : i \in 1..(m + 1) /\ i <= m
      OBVIOUS
    <3> QED
      BY <2>2, <3>1, <3>2, Zenon
  <2>4. g[m + 1] = FollowsAt(f, rest, m + 1)
    <3>1. m + 1 \in 1..(m + 1) /\ ~(m + 1 <= m)
      OBVIOUS
    <3> QED
      BY <2>2, <3>1, Zenon
  <2>5. ASSUME NEW i \in 1..(m + 1) PROVE g[i] = FollowsAt(g, rest, i)
    <3>1. i \in 1..Len(trail) /\ \A j \in 1..(i - 1) : j \in 1..m
      BY <1>1
    <3>2. FollowsAt(f, rest, i) = FollowsAt(g, rest, i)
      <4>1. \A j \in 1..(i - 1) : f[j] = g[j]
        BY <2>3, <3>1
      <4> QED
        BY <3>1, <4>1, FollowsLocally
    <3>3. g[i] = FollowsAt(f, rest, i)
      <4>1. i \in 1..m \/ i = m + 1
        OBVIOUS
      <4> QED
        BY <2>3, <2>4, <4>1, Zenon
    <3> QED
      BY <3>2, <3>3
  <2>6. g = [i \in 1..(m + 1) |-> FollowsAt(g, rest, i)]
    <3>1. g = [i \in 1..(m + 1) |-> g[i]]
      BY <2>2, Zenon
    <3> QED
      BY <2>5, <3>1, Zenon
  <2> QED
    BY <2>6, Zenon DEF FollowsUpTo
<1> HIDE DEF S
<1>4. n \in S
  BY <1>1, <1>2, <1>3, SetInduction
<1>5. \E f : f = [i \in 1..n |-> FollowsAt(f, rest, i)]
  <2>1. FollowsUpTo(n, rest)
    BY <1>1, <1>4 DEF S
  <2> QED
    BY <2>1, Zenon DEF FollowsUpTo
<1>6. PICK F : F = CHOOSE f : f = [i \in 1..n |-> FollowsAt(f, rest, i)]
  OBVIOUS
<1>7. F = [i \in 1..n |-> FollowsAt(F, rest, i)]
  BY <1>5, <1>6, Zenon
<1>8. Redundant(lits) = {l \in rest : F[Position(l)]}
  BY <1>6 DEF Redundant, FollowsAt
<1>9. \A i \in 1..n : F[i] => FollowsAt(F, rest, i)
  BY <1>7, Zenon
<1> QED
  BY <1>8, <1>9

LEMMA MinimizedIsNoGood ==
  ASSUME IInv, NEW lits, NoGood(lits)
  PROVE  /\ NoGood(lits \ Redundant(lits))
         /\ Current(lits \ Redundant(lits)) = Current(lits)
<1> DEFINE rest == lits \ Current(lits)
           Red == Redundant(lits)
<1>1. PICK F : /\ Red = {l \in rest : F[Position(l)]}
               /\ \A i \in 1..Len(trail) : F[i] => FollowsAt(F, rest, i)
  BY RedundantIs
<1>2. Red \subseteq rest
  BY <1>1
<1>3. Current(lits \ Red) = Current(lits)
  BY <1>2 DEF Current
<1>4. ASSUME NEW m \in ModelsOf[formula] PROVE (lits \ Red) \cap m # {}
  <2> DEFINE Hit == (lits \ Red) \cap m # {}
             S == {q \in Nat : \A p \in 1..Len(trail) :
                     p <= q /\ F[p] /\ -trail[p].lit \in m => Hit}
  <2>1. Len(trail) \in Nat
    BY Known
  <2>2. 0 \in S
    BY <2>1
  <2>3. ASSUME NEW q \in Nat, q \in S PROVE q + 1 \in S
    <3> SUFFICES ASSUME NEW p \in 1..Len(trail), p = q + 1, F[p], -trail[p].lit \in m
                 PROVE  Hit
      BY <2>1, <2>3
    <3> DEFINE others == trail[p].reason.lits \ {trail[p].lit}
    <3>1. /\ trail[p].reason # NoReason
          /\ \A l \in Upper(others) : l \in rest \/ F[Position(l)]
      BY <1>1 DEF FollowsAt
    <3>2. /\ others \subseteq Lits /\ others \subseteq Falses
          /\ Implies(formula, trail[p].reason.lits)
          /\ \A l \in others : Position(l) \in 1..(p - 1)
      BY <3>1, ReasonFacts
    <3>3. trail[p].lit \notin m
      BY Known, ModelFacts
    <3>4. PICK l \in others : l \in m
      BY <3>2, <3>3 DEF Implies
    <3>5. l \in Upper(others)
      BY <3>2, <3>4, UpperHits
    <3>6. CASE F[Position(l)]
      <4>1. PICK i \in 1..Len(trail) : l = -trail[i].lit /\ Position(l) = i
        BY <3>2, FalseAt
      <4>2. i <= q
        BY <2>1, <3>2, <4>1
      <4> QED
        BY <2>3, <3>4, <3>6, <4>1, <4>2
    <3>7. CASE l \in rest /\ ~F[Position(l)]
      <4>1. l \in lits \ Red
        BY <1>1, <3>7
      <4> QED
        BY <3>4, <4>1
    <3> QED
      BY <3>1, <3>5, <3>6, <3>7
  <2> HIDE DEF S
  <2>4. Len(trail) \in S
    BY <2>1, <2>2, <2>3, SetInduction
  <2>5. PICK l \in lits : l \in m
    BY DEF NoGood
  <2>6. CASE l \notin Red
    BY <2>5, <2>6
  <2>7. CASE l \in Red
    <3>1. F[Position(l)] /\ l \in Lits /\ l \in Falses
      BY <1>1, <2>7, NoGoodFacts DEF NoGood
    <3>2. PICK i \in 1..Len(trail) : l = -trail[i].lit /\ Position(l) = i
      BY <3>1, FalseAt
    <3>3. i <= Len(trail)
      BY <2>1
    <3> QED
      BY <2>4, <2>5, <3>1, <3>2, <3>3 DEF S
  <2> QED
    BY <2>6, <2>7
<1> QED
  BY <1>3, <1>4 DEF NoGood

LEMMA BinaryIsNoGood ==
  ASSUME IInv, NEW lits, NoGood(lits)
  PROVE  /\ NoGood(lits \ BinaryRedundant(lits))
         /\ Current(lits \ BinaryRedundant(lits)) = Current(lits)
<1> DEFINE Red == BinaryRedundant(lits)
<1>1. /\ \A l \in Red : l \in lits /\ l \notin Current(lits)
      /\ \A l \in Red : \E c \in db : c.lits = Current(lits) \cup {-l}
  BY DEF BinaryRedundant
<1>2. Current(lits \ Red) = Current(lits)
  BY <1>1 DEF Current
<1>3. ASSUME NEW m \in ModelsOf[formula] PROVE (lits \ Red) \cap m # {}
  <2>1. PICK l \in lits : l \in m
    BY DEF NoGood
  <2>2. CASE l \notin Red
    BY <2>1, <2>2
  <2>3. CASE l \in Red
    <3>1. PICK c \in db : c.lits = Current(lits) \cup {-l}
      BY <1>1, <2>3
    <3>2. Implies(formula, c.lits)
      BY DEF IInv, EntailedBy
    <3>3. -l \notin m
      BY <2>1, Known, ModelFacts DEF NoGood
    <3>4. PICK k \in Current(lits) : k \in m
      BY <3>1, <3>2, <3>3 DEF Implies
    <3>5. k \in lits \ Red
      BY <1>1 DEF Current
    <3> QED
      BY <3>4, <3>5
  <2> QED
    BY <2>2, <2>3
<1> QED
  BY <1>2, <1>3 DEF NoGood

(* What analyze returns.                                                   *)
LEMMA LearntFacts ==
  ASSUME IInv, level > 0,
         NEW confl \in SUBSET Lits, confl \subseteq Falses, Implies(formula, confl),
         NEW l \in confl, Level(l) = level
  PROVE  /\ NoGood(Learnt(confl))
         /\ \E u : Current(Learnt(confl)) = {u}
         /\ Learnt(confl) \subseteq FirstUIP(confl)
<1> DEFINE uip == FirstUIP(confl)
           min == uip \ Redundant(uip)
<1>1. NoGood(uip) /\ \E u : Current(uip) = {u}
  BY FirstUIPFacts
<1>2. NoGood(min) /\ Current(min) = Current(uip)
  BY <1>1, MinimizedIsNoGood
<1> HIDE DEF min
<1>3. NoGood(min \ BinaryRedundant(min)) /\ Current(min \ BinaryRedundant(min)) = Current(min)
  BY <1>2, BinaryIsNoGood
<1> USE DEF min
<1>4. Learnt(confl) = min \ BinaryRedundant(min)
  BY DEF Learnt
<1> QED
  BY <1>1, <1>2, <1>3, <1>4
-----------------------------------------------------------------------------
(* The backjump.                                                           *)
LEMMA HighestIs ==
  ASSUME IInv, NEW S \in SUBSET Lits, S \subseteq Falses, S # {}
  PROVE  \E l \in S : l \in Highest(S)
<1> DEFINE T == {level - Level(l) : l \in S}
<1>1. level \in Nat /\ \A l \in S : Level(l) \in 0..level
  <2>1. \A l \in S : Level(l) \in 0..level
    BY FalseAt
  <2> QED
    BY <2>1, Known
<1>2. T \in SUBSET Nat /\ T # {}
  BY <1>1
<1>3. PICK d \in T : \A y \in T : d <= y
  BY <1>2, LeastNatural
<1>4. PICK l \in S : d = level - Level(l)
  BY <1>3
<1>5. ASSUME NEW k \in S PROVE Level(k) <= Level(l)
  <2>1. level - Level(l) <= level - Level(k)
    BY <1>3, <1>4
  <2> QED
    BY <1>1, <2>1
<1> QED
  BY <1>5 DEF Highest

LEMMA BackjumpFacts ==
  ASSUME IInv, NEW lits, NoGood(lits), NEW u, Current(lits) = {u}
  PROVE  /\ BacktrackLevel(lits) \in 0..(level - 1)
         /\ u \in lits /\ u \in Lits /\ Level(u) = level
         /\ (CHOOSE l \in Current(lits) : TRUE) = u
         /\ Cardinality(lits) = 1 <=> lits \ {u} = {}
         /\ Cardinality(lits) \in Nat \ {0}
         /\ lits \ {u} = {} => BacktrackLevel(lits) = 0
         /\ \A l \in lits \ {u} : Level(l) \in 1..BacktrackLevel(lits)
         /\ \A l \in Highest(lits \ {u}) : Level(l) = BacktrackLevel(lits)
<1> DEFINE rest == lits \ {u}
           bt == BacktrackLevel(lits)
<1>1. lits \in SUBSET Lits /\ IsFiniteSet(lits) /\ lits \subseteq Falses
  BY NoGoodFacts DEF NoGood
<1>2. level \in Nat
  BY Known
<1>3. ASSUME NEW l \in lits
      PROVE  Level(l) \in 1..level /\ (l # u => Level(l) < level) /\ (l = u => Level(l) = level)
  <2>1. Level(l) \in 0..level
    BY <1>1, FalseAt
  <2>2. Level(l) > 0
    BY DEF NoGood
  <2>3. l = u <=> Level(l) = level
    BY DEF Current
  <2> QED
    BY <1>2, <2>1, <2>2, <2>3
<1>4. u \in lits
  BY DEF Current
<1>5. (CHOOSE l \in Current(lits) : TRUE) = u
  OBVIOUS
<1>6. Cardinality(lits) \in Nat \ {0} /\ (Cardinality(lits) = 1 <=> rest = {})
  <2>1. Cardinality(lits) \in Nat /\ Cardinality(lits) # 0
    BY <1>1, <1>4, SizeFacts
  <2>2. rest = {} => Cardinality(lits) = 1
    <3>1. rest = {} => lits = {u}
      BY <1>4
    <3> QED
      BY <1>1, <3>1, SizeFacts
  <2>3. Cardinality(lits) = 1 => rest = {}
    <3> SUFFICES ASSUME Cardinality(lits) = 1 PROVE rest = {}
      OBVIOUS
    <3>1. PICK x : lits = {x}
      BY <1>1, FS_Singleton
    <3> QED
      BY <1>4, <3>1
  <2> QED
    BY <2>1, <2>2, <2>3
<1>7. rest = lits \ Current(lits)
  OBVIOUS
<1>8. CASE rest = {}
  <2>1. bt = 0
    BY <1>7, <1>8 DEF BacktrackLevel
  <2>2. Highest(rest) = {}
    BY <1>8 DEF Highest
  <2>3. level - 1 \in Nat
    BY <1>2, <1>3, <1>4
  <2>4. bt \in 0..(level - 1)
    BY <2>1, <2>3
  <2> QED
    BY <1>3, <1>4, <1>5, <1>1, <1>6, <1>8, <2>1, <2>2, <2>4
<1>9. CASE rest # {}
  <2>1. PICK h : h = CHOOSE l \in Highest(rest) : TRUE
    OBVIOUS
  <2>2. \E l \in rest : l \in Highest(rest)
    BY <1>1, <1>9, HighestIs
  <2>3. h \in Highest(rest)
    BY <2>1, <2>2
  <2>4. bt = Level(h)
    BY <1>7, <1>9, <2>1 DEF BacktrackLevel
  <2>5. h \in rest /\ \A l \in rest : Level(l) <= Level(h)
    BY <2>3 DEF Highest
  <2>6. bt \in 0..(level - 1)
    BY <1>2, <1>3, <2>4, <2>5
  <2>7. \A l \in rest : Level(l) \in 1..bt
    BY <1>3, <2>4, <2>5, <2>6
  <2>8. ASSUME NEW l \in Highest(rest) PROVE Level(l) = bt
    <3>1. l \in rest /\ Level(h) <= Level(l)
      BY <2>5, <2>8 DEF Highest
    <3> QED
      BY <2>4, <2>6, <2>7, <3>1
  <2> QED
    BY <1>1, <1>3, <1>4, <1>5, <1>6, <1>9, <2>6, <2>7, <2>8
<1> QED
  BY <1>8, <1>9

-----------------------------------------------------------------------------
(* What a step does to the clauses: new watches, fewer clauses, a new one. *)
LEMMA ClauseFacts ==
  ASSUME NEW D, DbOK(D), NEW c \in D
  PROVE  /\ c \in Clauses /\ c.lits \in SUBSET Lits /\ c.watch \in SUBSET c.lits
         /\ c = [lits |-> c.lits, list |-> c.list, watch |-> c.watch]
         /\ IsFiniteSet(c.lits) /\ IsFiniteSet(c.watch)
         /\ Cardinality(c.lits) > 1 /\ Cardinality(c.watch) \in 1..2
         /\ c.list \in Lists /\ (OneWatched(c) => c.list = "imported")
         /\ Ref(c) # NoReason
<1>1. c \in Clauses /\ c.watch \subseteq c.lits
      /\ Cardinality(c.lits) > 1 /\ Cardinality(c.watch) \in 1..2
      /\ (OneWatched(c) => c.list = "imported")
  BY DEF DbOK
<1>2. c.lits \in SUBSET Lits /\ c.list \in Lists
      /\ c = [lits |-> c.lits, list |-> c.list, watch |-> c.watch]
  BY <1>1 DEF Clauses
<1>3. IsFiniteSet(c.lits) /\ IsFiniteSet(c.watch)
  BY <1>1, <1>2, LitsFinite
<1>4. Ref(c) # NoReason
  BY <1>2 DEF Ref, NoReason, Lists
<1> QED
  BY <1>1, <1>2, <1>3, <1>4

LEMMA RefsFacts ==
  ASSUME NEW D, NEW E
  PROVE  /\ RefsOf(D) \subseteq RefsOf(E) =>
              \A c : HasClause(D, c) => HasClause(E, c)
         /\ \A f : RefsOf(E) \subseteq RefsOf(D) /\ (\A c \in D : Implies(f, c.lits)) =>
              \A c \in E : Implies(f, c.lits)
         /\ E \subseteq D => RefsOf(E) \subseteq RefsOf(D)
<1>1. ASSUME RefsOf(D) \subseteq RefsOf(E), NEW c, HasClause(D, c) PROVE HasClause(E, c)
  <2>1. PICK d \in D : d.lits = c /\ d.list = "clauses"
    BY <1>1 DEF HasClause
  <2>2. PICK x \in E : Ref(d) = Ref(x)
    BY <1>1 DEF RefsOf
  <2>3. x.lits = d.lits /\ x.list = d.list
    BY <2>2 DEF Ref
  <2> QED
    BY <2>1, <2>3 DEF HasClause
<1>2. ASSUME NEW f, RefsOf(E) \subseteq RefsOf(D), \A c \in D : Implies(f, c.lits), NEW c \in E
      PROVE  Implies(f, c.lits)
  <2>1. PICK d \in D : Ref(c) = Ref(d)
    BY <1>2 DEF RefsOf
  <2>2. c.lits = d.lits
    BY <2>1 DEF Ref
  <2> QED
    BY <1>2, <2>2
<1>3. E \subseteq D => RefsOf(E) \subseteq RefsOf(D)
  BY DEF RefsOf
<1> QED
  BY <1>1, <1>2, <1>3

LEMMA RewatchFacts ==
  ASSUME DbOK(db), NEW c \in db, NEW V \in SUBSET c.lits, Cardinality(V) \in 1..2,
         Cardinality(V) = 1 => c.list = "imported"
  PROVE  /\ DbOK(Rewatch(c, V))
         /\ RefsOf(Rewatch(c, V)) = RefsOf(db)
         /\ \A x \in Rewatch(c, V) :
              x \in db \/ (x.lits = c.lits /\ x.list = c.list /\ x.watch = V)
<1> DEFINE n == [c EXCEPT !.watch = V]
<1>1. c \in Clauses
  BY ClauseFacts
<1>2. n = [lits |-> c.lits, list |-> c.list, watch |-> V]
  BY <1>1 DEF Clauses
<1>3. n.lits = c.lits /\ n.list = c.list /\ n.watch = V /\ Ref(n) = Ref(c)
  BY <1>2 DEF Ref
<1>4. n \in Clauses
  BY <1>1, <1>2 DEF Clauses
<1>5. Rewatch(c, V) = (db \ {c}) \cup {n}
  BY DEF Rewatch
<1> HIDE DEF n
<1>6. DbOK(Rewatch(c, V))
  BY <1>3, <1>4, <1>5 DEF DbOK, OneWatched
<1>7. RefsOf(Rewatch(c, V)) = RefsOf(db)
  <2>1. \A r : r \in RefsOf(Rewatch(c, V)) <=> r \in RefsOf(db)
    BY <1>3, <1>5 DEF RefsOf
  <2> QED
    BY <2>1
<1> QED
  BY <1>3, <1>5, <1>6, <1>7
-----------------------------------------------------------------------------
(* Steps by what they do to the trail: nothing, one assignment more, or    *)
(* back to a lower level.                                                  *)
LEMMA Parts ==
  ASSUME IInv
  PROVE  /\ Scalars /\ TrailOK(trail, level) /\ QueueOK /\ DbOK(db)
         /\ ReasonsOK(trail, RefsOf(db), ~Walking)
         /\ EntailedBy(formula, db, trail)
         /\ \E s \in 0..Len(trail) : WatchesOK(db, trail, qhead, s, Walking, tree)
         /\ ~Walking => CubeOK(assumptions, trail, level)
         /\ FormulaOK(formula, db, trail, decision)
         /\ Len(trail) \in Nat /\ level \in Nat /\ qhead \in 1..(Len(trail) + 1)
         /\ Len(assumptions) \in Nat
<1>1. Len(trail) \in Nat /\ level \in Nat
  BY Known
<1>2. Len(assumptions) \in Nat
  BY DEF IInv, Scalars
<1> QED
  BY <1>1, <1>2 DEF IInv, QueueOK

LEMMA NoVerdict ==
  ASSUME pc \notin {"SAT", "UNSAT", "refuted"}
  PROVE  VerdictIsRight
BY DEF VerdictIsRight

LEMMA StayStep ==
  ASSUME IInv, UNCHANGED <<formula, trail, level, tree>>,
         Scalars', QueueOK', VerdictIsRight',
         DbOK(db'), ReasonsOK(trail, RefsOf(db'), ~Walking'),
         \A c \in db' : Implies(formula, c.lits),
         ~Walking' => CubeOK(assumptions', trail, level),
         FormulaOK(formula, db', trail, decision'),
         \A s \in 0..Len(trail) : WatchesOK(db, trail, qhead, s, Walking, tree)
                          => WatchesOK(db', trail, qhead', s, Walking', tree)
  PROVE  IInv'
<1>1. EntailedBy(formula, db', trail)
  BY Parts DEF EntailedBy
<1>2. \E s \in 0..Len(trail) : WatchesOK(db', trail, qhead', s, Walking', tree)
  BY Parts
<1>3. /\ TrailOK(trail', level')
      /\ EntailedBy(formula', db', trail')
      /\ ReasonsOK(trail', RefsOf(db'), ~Walking')
      /\ \E s \in 0..Len(trail') : WatchesOK(db', trail', qhead', s, Walking', tree')
      /\ ~Walking' => CubeOK(assumptions', trail', level')
      /\ FormulaOK(formula', db', trail', decision')
  BY <1>1, <1>2, Parts
<1> QED
  BY <1>3 DEF IInv

LEMMA GrowStep ==
  ASSUME IInv, UNCHANGED <<formula, db, qhead, decision, pc, tree>>, Scalars',
         pc \in {"top", "propagate", "walk"},
         NEW e, IsGrown(trail', trail, e), level' \in Nat, level <= level', e.level = level',
         level' = level \/ qhead = Len(trail) + 1 \/ Walking,
         Walking => level' > 0,
         \/ e.reason = NoReason
         \/ ReasonOK(trail', RefsOf(db), ~Walking, Len(trail) + 1),
         e.lit \in LitsOf(formula), e.level = 0 => Implies(formula, {e.lit}),
         ~Walking => CubeOK(assumptions', trail', level')
  PROVE  IInv'
<1>1. /\ TrailOK(trail, level) /\ QueueOK /\ ReasonsOK(trail, RefsOf(db), ~Walking)
      /\ EntailedBy(formula, db, trail) /\ FormulaOK(formula, db, trail, decision)
      /\ qhead \in 1..(Len(trail) + 1) /\ level \in Nat /\ Len(trail) \in Nat
      /\ DbOK(db)
  BY Parts
<1>2. e.level <= level'
  OBVIOUS
<1>3. /\ TrailOK(trail', level')
      /\ Len(trail') = Len(trail) + 1
      /\ \A i \in 1..Len(trail) : trail'[i] = trail[i] /\ i \in 1..Len(trail')
      /\ trail'[Len(trail) + 1] = e
      /\ \A i \in 1..Len(trail') : i \in 1..Len(trail) \/ i = Len(trail) + 1
  BY <1>1, <1>2, GrownFacts
<1>4. ReasonsOK(trail', RefsOf(db), ~Walking)
  BY <1>1, <1>2, ReasonsGrown
<1>5. EntailedBy(formula, db, trail')
  <2>1. \A c \in db : Implies(formula, c.lits)
    BY <1>1 DEF EntailedBy
  <2> QED
    BY <1>1, <1>2, <2>1, EntailedGrown
<1>6. FormulaOK(formula, db, trail', decision)
  <2>1. FixedIn(trail) \subseteq FixedIn(trail')
    BY <1>1, <1>2, FixedGrown
  <2>2. \A c : c \cap FixedIn(trail') = {} => c \cap FixedIn(trail) = {}
    BY <2>1
  <2> QED
    BY <1>1, <2>2 DEF FormulaOK
<1>7. \E s \in 0..Len(trail') : WatchesOK(db, trail', qhead, s, Walking, tree)
  <2>1. PICK s \in 0..Len(trail) : WatchesOK(db, trail, qhead, s, Walking, tree)
    BY Parts
  <2>2. \A c \in db : WatchOK(c, trail', qhead, s, Walking)
    <3>1. \A c \in db : WatchOK(c, trail, qhead, s, Walking)
      BY <2>1 DEF WatchesOK
    <3> QED
      BY <1>1, <1>2, <3>1, WatchGrown
  <2>3. SkipOK(trail', qhead, s, Walking, tree)
    <3>1. SkipOK(trail, qhead, s, Walking, tree)
      BY <2>1 DEF WatchesOK
    <3>2. s \in 0..Len(trail') /\ (s # 0 => tree /\ trail'[s].level = 0)
      BY <1>1, <1>3, <3>1 DEF SkipOK
    <3>3. Walking => \A p \in 1..Len(trail') : p >= qhead /\ trail'[p].level = 0 => p = s
      BY <1>1, <1>3, <3>1 DEF SkipOK
    <3> QED
      BY <3>2, <3>3 DEF SkipOK
  <2>4. s \in 0..Len(trail')
    BY <1>1, <1>3
  <2> QED
    BY <2>2, <2>3, <2>4 DEF WatchesOK
<1>8. QueueOK'
  <2>1. qhead' \in 1..(Len(trail') + 1)
    BY <1>1, <1>3
  <2>2. ASSUME ~Walking, NEW i \in 1..Len(trail'), i >= qhead PROVE trail'[i].level = level'
    <3>1. CASE i = Len(trail) + 1
      BY <1>3, <3>1
    <3>2. CASE i \in 1..Len(trail)
      <4>1. trail[i].level = level
        BY <1>1, <2>2, <3>2 DEF QueueOK, Walking
      <4>2. qhead # Len(trail) + 1
        BY <1>1, <2>2, <3>2
      <4> QED
        BY <1>3, <2>2, <3>2, <4>1, <4>2
    <3> QED
      BY <1>3, <3>1, <3>2
  <2> QED
    BY <2>1, <2>2 DEF QueueOK, Walking
<1>9. VerdictIsRight'
  BY DEF VerdictIsRight
<1>10. Walking' = Walking
  BY DEF Walking
<1>11. /\ ReasonsOK(trail', RefsOf(db'), ~Walking')
       /\ EntailedBy(formula', db', trail')
       /\ \E s \in 0..Len(trail') : WatchesOK(db', trail', qhead', s, Walking', tree')
       /\ ~Walking' => CubeOK(assumptions', trail', level')
       /\ FormulaOK(formula', db', trail', decision')
       /\ DbOK(db')
  BY <1>1, <1>4, <1>5, <1>6, <1>7, <1>10
<1> QED
  BY <1>3, <1>8, <1>9, <1>11 DEF IInv
LEMMA BackStep ==
  ASSUME IInv, formula' = formula, tree => tree', Scalars', VerdictIsRight',
         NEW k \in Nat, k < level, IsKept(trail', trail, k),
         level' = k, qhead' = Len(trail') + 1,
         pc' = "refuted" => k = 0,
         k = 0 \/ Walking' = Walking,
         k = 0 \/ RefsOf(db) \subseteq RefsOf(db'),
         Walking' \/ k = 0 \/ assumptions' = assumptions,
         DbOK(db'), \A c \in db' : Implies(formula, c.lits),
         FormulaOK(formula, db', trail', decision'),
         \A c \in db' : c \in db \/ \A s : WatchOK(c, trail', qhead', s, Walking')
  PROVE  IInv'
<1>1. /\ TrailOK(trail, level) /\ QueueOK /\ ReasonsOK(trail, RefsOf(db), ~Walking)
      /\ EntailedBy(formula, db, trail)
      /\ qhead \in 1..(Len(trail) + 1) /\ level \in Nat /\ Len(trail) \in Nat
      /\ Len(assumptions) \in Nat /\ (~Walking => CubeOK(assumptions, trail, level))
  BY Parts
<1>2. k \in 0..level
  BY <1>1
<1>3. /\ TrailOK(trail', k)
      /\ Len(trail') \in 0..Len(trail)
      /\ \A i \in 1..Len(trail') : i \in 1..Len(trail) /\ trail'[i] = trail[i]
                                   /\ trail[i].level <= k
      /\ \A i \in 1..Len(trail) : trail[i].level <= k => i \in 1..Len(trail')
  BY <1>1, <1>2, KeptFacts
<1>4. ReasonsOK(trail', RefsOf(db'), ~Walking')
  <2>1. CASE k = 0
    BY <1>3, <2>1, ReasonsAtRoot
  <2>2. CASE k # 0
    <3>1. ~Walking' => ~Walking
      BY <2>2
    <3>2. \A i \in 1..Len(trail') : trail[i].reason \in RefsOf(db) => trail[i].reason \in RefsOf(db')
      BY <2>2
    <3> QED
      BY <1>1, <1>2, <3>1, <3>2, ReasonsKept
  <2> QED
    BY <2>1, <2>2
<1>5. EntailedBy(formula, db', trail')
  BY <1>1, <1>2, EntailedKept
<1>6. ~Walking' => CubeOK(assumptions', trail', k)
  <2> SUFFICES ASSUME ~Walking' PROVE CubeOK(assumptions', trail', k)
    OBVIOUS
  <2>1. CASE k = 0
    <3>1. Len(assumptions') \in Nat
      BY DEF Scalars
    <3> QED
      BY <1>3, <2>1, <3>1, CubeAtRoot
  <2>2. CASE k # 0
    <3>1. ~Walking /\ assumptions' = assumptions
      BY <2>2
    <3> QED
      BY <1>1, <1>2, <3>1, CubeKept
  <2> QED
    BY <2>1, <2>2
<1>7. \E s \in 0..Len(trail') : WatchesOK(db', trail', qhead', s, Walking', tree')
  <2>1. PICK s \in 0..Len(trail) : WatchesOK(db, trail, qhead, s, Walking, tree)
    BY Parts
  <2>2. SkipOK(trail, qhead, s, Walking, tree) /\ \A c \in db : WatchOK(c, trail, qhead, s, Walking)
    BY <2>1 DEF WatchesOK
  <2>3. s \in 0..Len(trail') /\ SkipOK(trail', qhead', s, Walking', tree')
    <3>1. s # 0 => s \in 1..Len(trail') /\ trail'[s].level = 0
      <4> SUFFICES ASSUME s # 0 PROVE s \in 1..Len(trail') /\ trail'[s].level = 0
        OBVIOUS
      <4>1. s \in 1..Len(trail) /\ trail[s].level = 0
        BY <1>1, <2>2 DEF SkipOK
      <4>2. trail[s].level <= k
        BY <4>1
      <4> QED
        BY <1>3, <4>1, <4>2
    <3>2. \A p \in 1..Len(trail') : ~(p >= qhead')
      BY <1>3
    <3> QED
      BY <1>3, <2>2, <3>1, <3>2 DEF SkipOK
  <2>4. ASSUME NEW c \in db PROVE WatchOK(c, trail', qhead', s, Walking')
    <3>1. \A p \in 1..Len(trail') : p < qhead => p < qhead'
      BY <1>3
    <3>2. ASSUME NEW p \in 1..Len(trail'), Owes(c, trail, qhead', s, Walking', p)
          PROVE  Owes(c, trail, qhead, s, Walking, p)
      <4>1. p \in 1..Len(trail) /\ trail[p].level <= k /\ trail[p].level \in Nat
        BY <1>1, <1>3, EntryFacts
      <4>2. p # s /\ -trail[p].lit \in c.watch /\ (Walking' => trail[p].level = 0)
        BY <3>2 DEF Owes
      <4>3. CASE Walking
        <5>1. trail[p].level = 0
          <6>1. CASE Walking'
            BY <4>2, <6>1
          <6>2. CASE k = 0
            BY <4>1, <6>2
          <6> QED
            BY <4>3, <6>1, <6>2
        <5>2. ~(p >= qhead)
          BY <2>2, <4>1, <4>2, <4>3, <5>1 DEF SkipOK
        <5> QED
          BY <1>1, <4>1, <4>2, <5>1, <5>2 DEF Owes
      <4>4. CASE ~Walking
        <5>1. p >= qhead => trail[p].level = level
          BY <1>1, <4>1, <4>4 DEF QueueOK, Walking
        <5>2. p < qhead
          BY <1>1, <4>1, <5>1
        <5> QED
          BY <4>2, <4>4, <5>2 DEF Owes
      <4> QED
        BY <4>3, <4>4
    <3> QED
      BY <1>1, <1>2, <2>2, <3>1, <3>2, WatchKept
  <2> QED
    BY <2>3, <2>4 DEF WatchesOK
<1>8. QueueOK'
  <2>1. qhead' \in 1..(Len(trail') + 1)
    BY <1>3
  <2>2. \A i \in 1..Len(trail') : ~(i >= qhead')
    BY <1>3
  <2> QED
    BY <2>1, <2>2 DEF QueueOK
<1>9. /\ TrailOK(trail', level')
      /\ EntailedBy(formula', db', trail')
      /\ ~Walking' => CubeOK(assumptions', trail', level')
      /\ FormulaOK(formula', db', trail', decision')
  BY <1>3, <1>5, <1>6
<1> QED
  BY <1>4, <1>7, <1>8, <1>9 DEF IInv
-----------------------------------------------------------------------------
(* The steps of propagate.                                                 *)
LEMMA SwapFacts ==
  ASSUME NEW S, IsFiniteSet(S), NEW x \in S, NEW y, y \notin S
  PROVE  Cardinality((S \ {x}) \cup {y}) = Cardinality(S)
<1>1. IsFiniteSet(S \ {x}) /\ Cardinality(S \ {x}) = Cardinality(S) - 1
  BY FS_RemoveElement
<1>2. Cardinality((S \ {x}) \cup {y}) = Cardinality(S \ {x}) + 1
  BY <1>1, FS_AddElement
<1>3. Cardinality(S) \in Nat
  BY FS_CardinalityType
<1> QED
  BY <1>1, <1>2, <1>3

(* The head of the queue is of the current level, unless the thread walks. *)
LEMMA HeadFacts ==
  ASSUME IInv, Propagating
  PROVE  /\ qhead \in 1..Len(trail)
         /\ pc \in {"propagate", "walk"}
         /\ Walking => level > 0
         /\ ~Walking => trail[qhead].level = level
         /\ FalseLit \in Lits /\ FalseLit \in Falses /\ -FalseLit = trail[qhead].lit
         /\ Level(FalseLit) = trail[qhead].level /\ trail[qhead].level \in 0..level
         /\ \A i \in 1..Len(trail) : -trail[i].lit = FalseLit => i = qhead
<1>1. qhead \in 1..(Len(trail) + 1) /\ Len(trail) \in Nat /\ level \in Nat /\ QueueOK
  BY Parts
<1>2. qhead \in 1..Len(trail)
  BY <1>1 DEF Propagating, Pending
<1>3. ~Walking => trail[qhead].level = level
  BY <1>1, <1>2 DEF QueueOK, Walking
<1>4. /\ FalseLit \in Lits /\ FalseLit \in Falses /\ -FalseLit = trail[qhead].lit
      /\ Level(FalseLit) = trail[qhead].level /\ trail[qhead].level \in 0..level
  BY <1>2, MadeFalse, Known DEF FalseLit
<1>5. ASSUME NEW i \in 1..Len(trail), -trail[i].lit = FalseLit PROVE i = qhead
  <2>1. Position(-trail[i].lit) = i /\ Position(-trail[qhead].lit) = qhead
    BY <1>2, MadeFalse
  <2> QED
    BY <1>5, <2>1 DEF FalseLit
<1> QED
  BY <1>2, <1>3, <1>4, <1>5 DEF Propagating, Walking

LEMMA MoveWatchStep ==
  ASSUME IInv, NEW c \in db, MoveWatch(c)
  PROVE  IInv'
<1>1. Propagating /\ FalseLit \in c.watch
  BY DEF MoveWatch, Watching
<1>2. PICK l \in c.lits \ (c.watch \cup Falses) :
        db' = Rewatch(c, (c.watch \ {FalseLit}) \cup {l})
  BY DEF MoveWatch
<1>3. UNCHANGED <<formula, trail, qhead, level, assumptions, decision, pc,
                  conflict, tree, conflicts, imports>>
  BY DEF MoveWatch
<1> DEFINE V == (c.watch \ {FalseLit}) \cup {l}
<1>4. /\ c.watch \subseteq c.lits /\ IsFiniteSet(c.watch)
      /\ Cardinality(c.watch) \in 1..2 /\ (OneWatched(c) => c.list = "imported")
      /\ DbOK(db)
  BY Parts, ClauseFacts
<1>5. Cardinality(V) = Cardinality(c.watch) /\ V \in SUBSET c.lits
  BY <1>1, <1>2, <1>4, SwapFacts
<1>6. /\ DbOK(db') /\ RefsOf(db') = RefsOf(db)
      /\ \A x \in db' : x \in db \/ (x.lits = c.lits /\ x.list = c.list /\ x.watch = V)
  BY <1>2, <1>4, <1>5, RewatchFacts DEF OneWatched
<1>7. ASSUME NEW s, NEW W, WatchOK(c, trail, qhead, s, W), NEW x,
             x.lits = c.lits, x.list = c.list, x.watch = V
      PROVE  WatchOK(x, trail, qhead, s, W)
  <2>1. \A p \in 1..Len(trail) : p < qhead => -trail[p].lit # FalseLit
    BY <1>1, HeadFacts
  <2>2. \A p \in 1..Len(trail) : -trail[p].lit # l
    BY <1>2, MadeFalse
  <2>3. OneWatched(c) => OneWatched(x)
    BY <1>5, <1>7 DEF OneWatched
  <2>4. DullAt(c, trail, qhead) => DullAt(x, trail, qhead)
    BY <1>7, <2>1 DEF DullAt
  <2>5. ASSUME NEW p \in 1..Len(trail), Owes(x, trail, qhead, s, W, p)
        PROVE  Owes(c, trail, qhead, s, W, p)
    BY <1>7, <2>2, <2>5 DEF Owes
  <2>6. \A p \in 1..Len(trail) : Served(c, trail, p) => Served(x, trail, p)
    BY <1>7 DEF Served
  <2> QED
    BY <1>7, <2>3, <2>4, <2>5, <2>6 DEF WatchOK
<1>8. Scalars' /\ QueueOK' /\ VerdictIsRight' /\ Walking' = Walking
  <2>1. Scalars' /\ QueueOK' /\ Walking' = Walking
    BY <1>3, Parts DEF Scalars, QueueOK, Walking
  <2>2. pc' \notin {"SAT", "UNSAT", "refuted"}
    BY <1>1, <1>3 DEF Propagating
  <2> QED
    BY <2>1, <2>2 DEF VerdictIsRight
<1>9. \A x \in db' : Implies(formula, x.lits)
  <2>1. \A x \in db : Implies(formula, x.lits)
    BY Parts DEF EntailedBy
  <2> QED
    BY <1>6, <2>1
<1>10. FormulaOK(formula, db', trail, decision')
  <2>1. \A x : HasClause(db, x) => HasClause(db', x)
    BY <1>6, RefsFacts
  <2> QED
    BY <1>3, <2>1, Parts DEF FormulaOK
<1>11. \A s \in 0..Len(trail) : WatchesOK(db, trail, qhead, s, Walking, tree)
                         => WatchesOK(db', trail, qhead', s, Walking', tree)
  BY <1>3, <1>6, <1>7, <1>8 DEF WatchesOK
<1>12. ReasonsOK(trail, RefsOf(db'), ~Walking') /\ (~Walking' => CubeOK(assumptions', trail, level))
  BY <1>3, <1>6, <1>8, Parts
<1> QED
  BY <1>3, <1>6, <1>8, <1>9, <1>10, <1>11, <1>12, StayStep

LEMMA ImplyStep ==
  ASSUME IInv, NEW c \in db, Imply(c)
  PROVE  IInv'
<1>1. Propagating /\ FalseLit \in c.watch
  BY DEF Imply, Visited, ToDo, Watching
<1>2. PICK l \in c.watch : Unassigned(l) /\ c.lits \ Falses = {l} /\ Enqueue(l, Ref(c))
  BY DEF Imply
<1>3. UNCHANGED <<formula, db, qhead, level, assumptions, decision, pc,
                  conflict, tree, conflicts, imports>>
  BY DEF Imply
<1>4. /\ c.watch \subseteq c.lits /\ c.lits \subseteq Lits /\ c.list \in Lists
      /\ Ref(c) # NoReason /\ Ref(c).lits = c.lits /\ Ref(c) \in Refs
      /\ Implies(formula, c.lits)
  <2>1. DbOK(db) /\ Implies(formula, c.lits)
    BY Parts DEF EntailedBy
  <2>2. c.watch \subseteq c.lits /\ c.lits \subseteq Lits /\ c.list \in Lists /\ Ref(c) # NoReason
    BY <2>1, ClauseFacts
  <2> QED
    BY <2>1, <2>2 DEF Ref, Refs
<1>5. l \in Lits /\ l \in c.lits /\ l \in LitsOf(formula) /\ {l} \subseteq LitsOf(formula)
  BY <1>4 DEF Implies
<1>6. PICK e : e = Entry(l, level, IF level = 0 THEN NoReason ELSE Ref(c))
  OBVIOUS
<1>7. /\ e.lit = l /\ e.level = level /\ level \in Nat
      /\ e.reason = IF level = 0 THEN NoReason ELSE Ref(c)
      /\ e \in Entries /\ trail' = Append(trail, e)
  <2>1. NoReason \in Refs
    BY DEF NoReason, Refs
  <2> QED
    BY <1>2, <1>4, <1>5, <1>6, <2>1, Known DEF Entry, Entries, Enqueue
<1>8. IsGrown(trail', trail, e)
  <2>1. trail \in Seq(Entries) /\ TrailOK(trail, level)
    BY Known DEF TrailOK
  <2>2. \A i \in 1..Len(trail) : Var(trail[i].lit) # Var(l)
    BY <1>2, <1>5, <2>1, ValueFacts
  <2>3. \A i \in 1..Len(trail) : trail[i].level <= level
    BY <2>1 DEF TrailOK
  <2> QED
    BY <1>4, <1>7, <2>1, <2>2, <2>3 DEF IsGrown
<1>9. /\ Len(trail) \in Nat
      /\ \A i \in 1..Len(trail) : trail'[i] = trail[i]
      /\ trail'[Len(trail) + 1] = e
  BY <1>7, <1>8, Known, GrownFacts
<1>10. ASSUME e.reason # NoReason PROVE ReasonOK(trail', RefsOf(db), ~Walking, Len(trail) + 1)
  <2>1. e.reason = Ref(c) /\ Ref(c) \in RefsOf(db)
    BY <1>7, <1>10 DEF RefsOf
  <2>2. ASSUME NEW k \in c.lits \ {l} PROVE \E j \in 1..(Len(trail) + 1 - 1) : trail'[j].lit = -k
    <3>1. k \in Lits /\ k \in Falses
      BY <1>2, <1>4, <2>2
    <3>2. PICK j \in 1..Len(trail) : trail[j].lit = -k
      BY <3>1, FalseAt
    <3> QED
      BY <1>9, <3>2
  <2>3. ASSUME ~Walking
        PROVE  \E j \in 1..(Len(trail) + 1 - 1) :
                 -trail'[j].lit \in c.lits /\ trail'[j].level = e.level
    <3>1. qhead \in 1..Len(trail) /\ trail[qhead].level = level
      BY <1>1, <2>3, HeadFacts
    <3>2. -trail[qhead].lit \in c.lits
      BY <1>1, <1>4 DEF FalseLit
    <3> QED
      BY <1>7, <1>9, <3>1, <3>2
  <2> QED
    BY <1>4, <1>5, <1>7, <1>9, <2>1, <2>2, <2>3 DEF ReasonOK
<1>11. ASSUME e.level = 0 PROVE Implies(formula, {e.lit})
  <2> SUFFICES ASSUME NEW m \in ModelsOf[formula] PROVE l \in m
    BY <1>5, <1>7 DEF Implies
  <2>1. PICK k \in c.lits : k \in m
    BY <1>4 DEF Implies
  <2> SUFFICES ASSUME k # l PROVE FALSE
    BY <2>1
  <2>2. k \in Lits /\ k \in Falses
    BY <1>2, <1>4
  <2>3. PICK i \in 1..Len(trail) : k = -trail[i].lit
    BY <2>2, FalseAt
  <2>4. trail[i].level = 0
    BY <1>7, <1>11, Known
  <2> QED
    BY <2>1, <2>3, <2>4, RootInModel
<1>12. ASSUME ~Walking PROVE CubeOK(assumptions', trail', level')
  <2>1. CubeOK(assumptions, trail, level) /\ TrailOK(trail, level) /\ level <= level /\ e.level <= level
        /\ level \in Nat
    BY <1>7, <1>12, Parts
  <2>2. e.reason = NoReason => e.level \notin 1..Len(assumptions)
    BY <1>4, <1>7
  <2>3. CubeOK(assumptions, trail', level)
    BY <1>8, <2>1, <2>2, CubeGrown
  <2> QED
    BY <1>3, <2>3
<1>13. Scalars'
  BY <1>3, Parts DEF Scalars
<1>14. pc \in {"top", "propagate", "walk"} /\ (Walking => level' > 0)
  BY <1>1, <1>3, HeadFacts
<1>15. level' \in Nat /\ level <= level' /\ e.level = level' /\ level' = level
  BY <1>3, <1>7
<1> QED
  BY <1>3, <1>5, <1>7, <1>8, <1>10, <1>11, <1>12, <1>13, <1>14, <1>15, GrowStep
LEMMA PropagatedStep ==
  ASSUME IInv, Propagated
  PROVE  IInv'
<1>1. Propagating /\ \A c \in db : ~ToDo(c)
  BY DEF Propagated
<1>2. /\ qhead' = qhead + 1
      /\ UNCHANGED <<formula, db, trail, level, assumptions, decision, pc,
                     conflict, tree, conflicts, imports>>
  BY DEF Propagated
<1>3. /\ qhead \in 1..Len(trail) /\ Len(trail) \in Nat /\ level \in Nat
      /\ (~Walking => trail[qhead].level = level)
      /\ TrailOK(trail, level)
  BY <1>1, HeadFacts, Parts
<1>4. Walking' = Walking
  BY <1>2 DEF Walking
<1>5. Scalars' /\ QueueOK' /\ VerdictIsRight'
  <2>1. Scalars'
    BY <1>2, Parts DEF Scalars
  <2>2. pc \in {"propagate", "walk"}
    BY <1>1 DEF Propagating
  <2>3. \A i \in 1..Len(trail) : i >= qhead' => i >= qhead
    BY <1>2, <1>3
  <2>4. qhead' \in 1..(Len(trail') + 1)
    BY <1>2, <1>3
  <2>5. QueueOK'
    BY <1>2, <2>2, <2>3, <2>4, Parts DEF QueueOK
  <2> QED
    BY <1>2, <2>1, <2>2, <2>5 DEF VerdictIsRight
<1>6. ASSUME NEW s \in 0..Len(trail), WatchesOK(db, trail, qhead, s, Walking, tree)
      PROVE  WatchesOK(db, trail, qhead + 1, s, Walking, tree)
  <2>1. SkipOK(trail, qhead, s, Walking, tree) /\ \A c \in db : WatchOK(c, trail, qhead, s, Walking)
    BY <1>6 DEF WatchesOK
  <2>2. SkipOK(trail, qhead + 1, s, Walking, tree)
    BY <1>3, <2>1 DEF SkipOK
  <2>3. \A p \in 1..Len(trail) : p < qhead + 1 <=> p < qhead \/ p = qhead
    BY <1>3
  <2>4. ASSUME NEW c \in db PROVE WatchOK(c, trail, qhead + 1, s, Walking)
    <3>1. DullAt(c, trail, qhead) => DullAt(c, trail, qhead + 1)
      BY <2>3 DEF DullAt
    <3>2. ASSUME Owes(c, trail, qhead + 1, s, Walking, qhead) PROVE Served(c, trail, qhead)
      <4>1. qhead # s /\ -trail[qhead].lit \in c.watch /\ (Walking => trail[qhead].level = 0)
        BY <3>2 DEF Owes
      <4>2. ~Walking
        <5> SUFFICES ASSUME Walking PROVE FALSE
          OBVIOUS
        <5>1. qhead >= qhead /\ trail[qhead].level = 0
          BY <1>3, <4>1
        <5> QED
          BY <1>3, <2>1, <4>1, <5>1 DEF SkipOK
      <4>3. Satisfied(c)
        BY <1>1, <4>1 DEF ToDo, Watching, FalseLit
      <4>4. PICK i \in 1..Len(trail) : trail[i].lit \in c.lits
        BY <4>3 DEF Satisfied, Trues
      <4>5. trail[i].level <= trail[qhead].level
        BY <1>3, <4>2, EntryFacts
      <4> QED
        BY <4>4, <4>5 DEF Served
    <3>3. \A p \in 1..Len(trail) : Owes(c, trail, qhead + 1, s, Walking, p) =>
             p = qhead \/ Owes(c, trail, qhead, s, Walking, p)
      BY <2>3 DEF Owes
    <3> QED
      BY <2>1, <3>1, <3>2, <3>3 DEF WatchOK
  <2> QED
    BY <2>2, <2>4 DEF WatchesOK
<1>7. \A c \in db' : Implies(formula, c.lits)
  BY <1>2, Parts DEF EntailedBy
<1>8. /\ DbOK(db') /\ ReasonsOK(trail, RefsOf(db'), ~Walking')
      /\ (~Walking' => CubeOK(assumptions', trail, level))
      /\ FormulaOK(formula, db', trail, decision')
  BY <1>2, <1>4, Parts
<1>9. \A s \in 0..Len(trail) : WatchesOK(db, trail, qhead, s, Walking, tree)
                        => WatchesOK(db', trail, qhead', s, Walking', tree)
  BY <1>2, <1>4, <1>6
<1> QED
  BY <1>2, <1>5, <1>7, <1>8, <1>9, StayStep

-----------------------------------------------------------------------------
(* Steps that only change what the thread is at.                           *)
LEMMA IdleStep ==
  ASSUME IInv, UNCHANGED <<formula, db, trail, qhead, level, decision, tree>>,
         Scalars', QueueOK', VerdictIsRight',
         \/ Walking' = Walking
         \/ Walking' /\ qhead = Len(trail) + 1,
         Walking' \/ assumptions' = assumptions
  PROVE  IInv'
<1>1. Len(trail) \in Nat
  BY Parts
<1>2. CASE Walking' = Walking
  <2>1. \A c \in db' : Implies(formula, c.lits)
    BY Parts DEF EntailedBy
  <2>2. /\ DbOK(db') /\ ReasonsOK(trail, RefsOf(db'), ~Walking')
        /\ (~Walking' => CubeOK(assumptions', trail, level))
        /\ FormulaOK(formula, db', trail, decision')
    BY <1>2, Parts
  <2>3. \A s \in 0..Len(trail) : WatchesOK(db, trail, qhead, s, Walking, tree)
                          => WatchesOK(db', trail, qhead', s, Walking', tree)
    BY <1>2
  <2> QED
    BY <2>1, <2>2, <2>3, StayStep
<1>3. CASE Walking' /\ qhead = Len(trail) + 1
  <2>1. \A c \in db' : Implies(formula, c.lits)
    BY Parts DEF EntailedBy
  <2>2. ReasonsOK(trail, RefsOf(db'), ~Walking')
    <3>1. ReasonsOK(trail, RefsOf(db), ~Walking)
      BY Parts
    <3>2. ReasonsOK(trail, RefsOf(db), FALSE)
      BY <3>1 DEF ReasonsOK, ReasonOK
    <3>3. Walking' = TRUE /\ db' = db
      BY <1>3 DEF Walking
    <3>4. ~Walking' = FALSE
      BY <3>3
    <3> QED
      BY <3>2, <3>3, <3>4
  <2>3. DbOK(db') /\ FormulaOK(formula, db', trail, decision')
    BY Parts
  <2>4. ASSUME NEW s \in 0..Len(trail), WatchesOK(db, trail, qhead, s, Walking, tree)
        PROVE  WatchesOK(db', trail, qhead', s, Walking', tree)
    <3>1. \A p \in 1..Len(trail) : ~(p >= qhead)
      BY <1>1, <1>3
    <3>2. SkipOK(trail, qhead, s, Walking, tree) /\ \A c \in db : WatchOK(c, trail, qhead, s, Walking)
      BY <2>4 DEF WatchesOK
    <3>3. SkipOK(trail, qhead, s, Walking', tree)
      BY <3>1, <3>2 DEF SkipOK
    <3>4. ASSUME NEW c \in db PROVE WatchOK(c, trail, qhead, s, Walking')
      <4>1. \A p \in 1..Len(trail) : Owes(c, trail, qhead, s, Walking', p) =>
              Owes(c, trail, qhead, s, Walking, p)
        BY <1>3 DEF Owes
      <4> QED
        BY <3>2, <4>1 DEF WatchOK
    <3> QED
      BY <3>3, <3>4 DEF WatchesOK
  <2> QED
    BY <1>3, <2>1, <2>2, <2>3, <2>4, StayStep
<1> QED
  BY <1>2, <1>3

LEMMA ConflictAtRootStep ==
  ASSUME IInv, NEW c \in db, ConflictAtRoot(c)
  PROVE  IInv'
<1>1. /\ pc = "propagate" /\ pc' = "UNSAT" /\ level = 0 /\ c.lits \subseteq Falses
      /\ UNCHANGED <<formula, db, trail, qhead, level, assumptions, decision,
                     conflict, tree, conflicts, imports>>
  BY DEF ConflictAtRoot, Falsified
<1>2. c.lits \subseteq Lits /\ Implies(formula, c.lits)
  <2>1. DbOK(db) /\ Implies(formula, c.lits)
    BY Parts DEF EntailedBy
  <2> QED
    BY <2>1, ClauseFacts
<1>3. ASSUME NEW m \in ModelsOf[formula] PROVE FALSE
  <2>1. PICK l \in c.lits : l \in m
    BY <1>2 DEF Implies
  <2>2. PICK i \in 1..Len(trail) : l = -trail[i].lit
    BY <1>1, <1>2, FalseAt
  <2>3. trail[i].level = 0
    BY <1>1, Known
  <2> QED
    BY <2>1, <2>2, <2>3, RootInModel
<1>4. Scalars' /\ QueueOK' /\ VerdictIsRight'
  <2>1. Scalars' /\ QueueOK'
    BY <1>1, Parts DEF Scalars, QueueOK
  <2>2. ModelsOf[formula] = {}
    BY <1>3
  <2>3. VerdictIsRight'
    BY <1>1, <2>2 DEF VerdictIsRight
  <2> QED
    BY <2>1, <2>3
<1>5. Walking' = Walking
  BY <1>1 DEF Walking
<1> QED
  BY <1>1, <1>4, <1>5, IdleStep

LEMMA StartPropagationStep ==
  ASSUME IInv, StartPropagation
  PROVE  IInv'
<1>1. /\ pc = "top" /\ pc' = "propagate"
      /\ UNCHANGED <<formula, db, trail, qhead, level, assumptions, decision,
                     conflict, tree, conflicts, imports>>
  BY DEF StartPropagation
<1>2. Scalars' /\ QueueOK' /\ VerdictIsRight' /\ Walking' = Walking
  <2>1. Scalars' /\ QueueOK' /\ Walking' = Walking
    BY <1>1, Parts DEF Scalars, QueueOK, Walking
  <2> QED
    BY <1>1, <2>1 DEF VerdictIsRight
<1> QED
  BY <1>1, <1>2, IdleStep

LEMMA AskSubproblemStep ==
  ASSUME IInv, AskSubproblem
  PROVE  IInv'
<1>1. /\ pc = "refuted" /\ pc' = "walk" /\ assumptions' = <<>> /\ conflict' = NoConflict
      /\ UNCHANGED <<formula, db, trail, qhead, level, decision, tree, conflicts, imports>>
  BY DEF AskSubproblem
<1>2. Scalars' /\ QueueOK' /\ VerdictIsRight' /\ Walking' /\ qhead = Len(trail) + 1
  <2>1. Scalars'
    <3>1. <<>> \in Seq(LitsOf(formula)) /\ Len(<<>>) <= MaxCube
      BY BoundsAssumption
    <3>2. NoConflict.lits \subseteq Lits
      BY DEF NoConflict
    <3> QED
      BY <1>1, <3>1, <3>2, Parts DEF Scalars
  <2>2. QueueOK' /\ qhead = Len(trail) + 1
    BY <1>1, Parts DEF QueueOK
  <2> QED
    BY <1>1, <2>1, <2>2 DEF VerdictIsRight, Walking
<1> QED
  BY <1>1, <1>2, IdleStep

LEMMA WalkAssignedStep ==
  ASSUME IInv, WalkAssigned
  PROVE  IInv'
<1>1. /\ pc = "walk" /\ Len(assumptions) < MaxCube
      /\ UNCHANGED <<formula, db, trail, qhead, level, decision, pc, conflict,
                     tree, conflicts, imports>>
  BY DEF WalkAssigned
<1>2. PICK l \in Trues : assumptions' = Append(assumptions, l)
  BY DEF WalkAssigned
<1>3. l \in LitsOf(formula)
  BY Known DEF Trues
<1>4. assumptions' \in Seq(LitsOf(formula)) /\ Len(assumptions') <= MaxCube
  <2>1. assumptions \in Seq(LitsOf(formula)) /\ Len(assumptions) \in Nat
    BY Parts DEF Scalars
  <2>2. assumptions' \in Seq(LitsOf(formula)) /\ Len(assumptions') = Len(assumptions) + 1
    BY <1>2, <1>3, <2>1, AppendProperties
  <2> QED
    BY <1>1, <2>1, <2>2, BoundsAssumption
<1>5. Scalars' /\ QueueOK' /\ VerdictIsRight' /\ Walking' /\ Walking' = Walking
  <2>1. Scalars' /\ QueueOK' /\ Walking' /\ Walking' = Walking
    BY <1>1, <1>4, Parts DEF Scalars, QueueOK, Walking
  <2> QED
    BY <1>1, <2>1 DEF VerdictIsRight
<1> QED
  BY <1>1, <1>5, IdleStep
-----------------------------------------------------------------------------
(* Decisions and what is imported.                                         *)
LEMMA DecideStep ==
  ASSUME IInv, NEW l \in LitsOf(formula), Unassigned(l), Decide(l),
         UNCHANGED <<formula, db, qhead, decision, pc, tree>>, Scalars',
         pc \in {"propagate", "walk"}, qhead = Len(trail) + 1 \/ Walking,
         ~Walking => /\ assumptions' = assumptions
                     /\ level < Len(assumptions) => assumptions[level + 1] = l
  PROVE  IInv'
<1>1. /\ TrailOK(trail, level) /\ level \in Nat /\ Len(trail) \in Nat
      /\ Len(assumptions) \in Nat
  BY Parts
<1>2. l \in Lits
  BY Known
<1>3. PICK e : e = Entry(l, level + 1, NoReason)
  OBVIOUS
<1>4. /\ e.lit = l /\ e.level = level + 1 /\ e.reason = NoReason /\ e \in Entries
      /\ trail' = Append(trail, e) /\ level' = level + 1
  <2>1. NoReason \in Refs
    BY DEF NoReason, Refs
  <2> QED
    BY <1>1, <1>2, <1>3, <2>1 DEF Entry, Entries, Decide
<1>5. IsGrown(trail', trail, e)
  <2>1. trail \in Seq(Entries)
    BY <1>1 DEF TrailOK
  <2>2. \A i \in 1..Len(trail) : Var(trail[i].lit) # Var(l)
    BY <1>1, <1>2, ValueFacts
  <2>3. \A i \in 1..Len(trail) : trail[i].level <= level + 1 /\ trail[i].level < level + 1
    BY <1>1, EntryFacts
  <2> QED
    BY <1>1, <1>4, <2>1, <2>2, <2>3 DEF IsGrown
<1>6. ASSUME ~Walking PROVE CubeOK(assumptions', trail', level')
  <2>1. CubeOK(assumptions, trail, level)
    BY <1>6, Parts
  <2>2. e.reason = NoReason /\ e.level \in 1..Len(assumptions) => e.lit = assumptions[e.level]
    BY <1>1, <1>4, <1>6
  <2>3. \A j \in 1..Len(assumptions) :
          j <= level + 1 => j <= level \/ (assumptions[j] = e.lit /\ e.level <= j)
    BY <1>1, <1>4, <1>6
  <2>4. level + 1 \in Nat /\ level <= level + 1 /\ e.level <= level + 1
    BY <1>1, <1>4
  <2>5. CubeOK(assumptions, trail', level + 1)
    BY <1>1, <1>5, <2>1, <2>2, <2>3, <2>4, CubeGrown
  <2> QED
    BY <1>4, <1>6, <2>5
<1>7. level' \in Nat /\ level <= level' /\ e.level = level' /\ level' > 0 /\ e.level # 0
  BY <1>1, <1>4
<1> QED
  BY <1>4, <1>5, <1>6, <1>7, GrowStep

LEMMA PickBranchLitStep ==
  ASSUME IInv, PickBranchLit
  PROVE  IInv'
<1>1. /\ pc = "propagate" /\ ~(qhead <= Len(trail)) /\ level >= Len(assumptions)
      /\ UNCHANGED <<formula, db, qhead, assumptions, decision, pc, conflict,
                     tree, conflicts, imports>>
  BY DEF PickBranchLit, Quiet, Pending
<1>2. PICK v \in decision : \E l \in {v, -v} : Unassigned(v) /\ Decide(l)
  BY DEF PickBranchLit
<1>3. PICK l \in {v, -v} : Unassigned(v) /\ Decide(l)
  BY <1>2
<1>4. l \in LitsOf(formula)
  BY Parts DEF Scalars, LitsOf
<1>5. Scalars'
  BY <1>1, Parts DEF Scalars
<1>6. qhead = Len(trail) + 1 /\ ~(level < Len(assumptions))
  BY <1>1, Parts
<1>7. Unassigned(l)
  <2>1. v \in LitsOf(formula) /\ -v \in LitsOf(formula)
    BY Parts DEF Scalars, LitsOf
  <2>2. v \in Lits /\ -v \in Lits
    BY <2>1, Known
  <2>3. Var(l) = Var(v) /\ l \in Lits
    BY <2>2, LitFacts
  <2> QED
    BY <1>3, <2>2, <2>3, Known, ValueFacts
<1> QED
  BY <1>1, <1>3, <1>4, <1>5, <1>6, <1>7, DecideStep

LEMMA WalkDecideStep ==
  ASSUME IInv, WalkDecide
  PROVE  IInv'
<1>1. /\ pc = "walk" /\ Len(assumptions) < MaxCube
      /\ UNCHANGED <<formula, db, qhead, decision, pc, conflict, tree,
                     conflicts, imports>>
  BY DEF WalkDecide
<1>2. PICK l \in LitsOf(formula) :
        Unassigned(l) /\ Decide(l) /\ assumptions' = Append(assumptions, l)
  BY DEF WalkDecide
<1>3. assumptions' \in Seq(LitsOf(formula)) /\ Len(assumptions') <= MaxCube
  <2>1. assumptions \in Seq(LitsOf(formula)) /\ Len(assumptions) \in Nat
    BY Parts DEF Scalars
  <2>2. assumptions' \in Seq(LitsOf(formula)) /\ Len(assumptions') = Len(assumptions) + 1
    BY <1>2, <2>1, AppendProperties
  <2> QED
    BY <1>1, <2>1, <2>2, BoundsAssumption
<1>4. Scalars' /\ Walking
  BY <1>1, <1>3, Parts DEF Scalars, Walking
<1> QED
  BY <1>1, <1>2, <1>4, DecideStep

(* An assumption that holds gets a level of its own, without a decision.   *)
LEMMA AssumeStep ==
  ASSUME IInv, Assume
  PROVE  IInv'
<1>1. /\ pc = "propagate" /\ ~(qhead <= Len(trail)) /\ level < Len(assumptions)
      /\ UNCHANGED <<formula, db, qhead, assumptions, decision, pc, conflict,
                     tree, conflicts, imports>>
  BY DEF Assume, Quiet, Pending
<1>2. PICK p : p = assumptions[level + 1]
  OBVIOUS
<1>3. /\ TrailOK(trail, level) /\ level \in Nat /\ Len(trail) \in Nat
      /\ Len(assumptions) \in Nat /\ qhead = Len(trail) + 1
  BY <1>1, Parts
<1>4. p \in LitsOf(formula)
  BY <1>1, <1>2, <1>3, Parts, ElementOfSeq DEF Scalars
<1>5. Scalars' /\ ~Walking /\ Walking' = Walking
  BY <1>1, Parts DEF Scalars, Walking
<1>6. CASE p \in Trues /\ level' = level + 1 /\ UNCHANGED trail
  <2>1. \A i \in 1..Len(trail) : trail[i].level \in 0..level
    BY <1>3, EntryFacts
  <2>2. TrailOK(trail, level + 1)
    BY <1>3, <2>1 DEF TrailOK
  <2>3. CubeOK(assumptions, trail, level + 1)
    <3>1. CubeOK(assumptions, trail, level)
      BY <1>5, Parts
    <3>2. PICK i \in 1..Len(trail) : trail[i].lit = p
      BY <1>6 DEF Trues
    <3>3. trail[i].level <= level + 1
      BY <1>3, <2>1
    <3>4. \A k \in 1..Len(assumptions) : k <= level + 1 => k <= level \/ k = level + 1
      BY <1>3
    <3>5. \A k \in 1..Len(assumptions) : k <= level + 1 =>
             \E j \in 1..Len(trail) : trail[j].lit = assumptions[k] /\ trail[j].level <= k
      BY <1>2, <3>1, <3>2, <3>3, <3>4 DEF CubeOK
    <3> QED
      BY <3>1, <3>5 DEF CubeOK
  <2>4. \A i \in 1..Len(trail) : ~(i >= qhead)
    BY <1>3
  <2>5. QueueOK' /\ VerdictIsRight'
    BY <1>1, <1>6, <2>4, Parts DEF QueueOK, VerdictIsRight
  <2>6. /\ TrailOK(trail', level') /\ DbOK(db')
        /\ ReasonsOK(trail', RefsOf(db'), ~Walking')
        /\ EntailedBy(formula', db', trail')
        /\ \E s \in 0..Len(trail') : WatchesOK(db', trail', qhead', s, Walking', tree')
        /\ ~Walking' => CubeOK(assumptions', trail', level')
        /\ FormulaOK(formula', db', trail', decision')
    BY <1>1, <1>5, <1>6, <2>2, <2>3, Parts
  <2> QED
    BY <1>5, <2>5, <2>6 DEF IInv
<1>7. CASE Unassigned(p) /\ Decide(p)
  BY <1>1, <1>2, <1>3, <1>4, <1>5, <1>7, DecideStep
<1> QED
  BY <1>2, <1>6, <1>7 DEF Assume

LEMMA ImportUnitStep ==
  ASSUME IInv, NEW l \in Lits, ImportUnit(l)
  PROVE  IInv'
<1>1. /\ pc = "top" /\ level = 0 /\ imports < MaxImports /\ imports' = imports + 1
      /\ Implied({l}) /\ Unassigned(l) /\ Enqueue(l, NoReason)
      /\ UNCHANGED <<formula, db, qhead, level, assumptions, decision, pc,
                     conflict, tree, conflicts>>
  BY DEF ImportUnit
<1>2. TrailOK(trail, level) /\ Len(trail) \in Nat /\ Len(assumptions) \in Nat
  BY Parts
<1>3. PICK e : e = Entry(l, 0, NoReason)
  OBVIOUS
<1>4. /\ e.lit = l /\ e.level = 0 /\ e.reason = NoReason /\ e \in Entries
      /\ trail' = Append(trail, e)
  <2>1. NoReason \in Refs
    BY DEF NoReason, Refs
  <2> QED
    BY <1>1, <1>3, <2>1 DEF Entry, Entries, Enqueue
<1>5. IsGrown(trail', trail, e)
  <2>1. trail \in Seq(Entries)
    BY <1>2 DEF TrailOK
  <2>2. \A i \in 1..Len(trail) : Var(trail[i].lit) # Var(l)
    BY <1>1, <1>2, ValueFacts
  <2>3. \A i \in 1..Len(trail) : trail[i].level <= 0
    BY <1>1, <1>2, EntryFacts
  <2> QED
    BY <1>4, <2>1, <2>2, <2>3 DEF IsGrown
<1>6. Implies(formula, {l}) /\ l \in LitsOf(formula)
  BY <1>1 DEF Implied, Implies
<1>7. CubeOK(assumptions', trail', level')
  <2>1. TrailOK(trail', 0)
    BY <1>1, <1>2, <1>4, <1>5, GrownFacts
  <2> QED
    BY <1>1, <1>2, <2>1, CubeAtRoot
<1>8. Scalars' /\ ~Walking
  BY <1>1, Parts, BoundsAssumption DEF Scalars, Walking
<1>9. level' \in Nat /\ level <= level' /\ e.level = level' /\ level' = level
  BY <1>1, <1>4
<1> QED
  BY <1>1, <1>4, <1>5, <1>6, <1>7, <1>8, <1>9, GrowStep
-----------------------------------------------------------------------------
(* What is added to the clauses, or removed from them, with the trail as   *)
(* it is.                                                                  *)
LEMMA WatchDull ==
  ASSUME NEW c, NEW t, NEW q, NEW s, NEW W, c.list # "clauses",
         \A p \in 1..Len(t) : Owes(c, t, q, s, W, p) => t[p].level = 0
  PROVE  WatchOK(c, t, q, s, W)
<1> SUFFICES ASSUME NEW p \in 1..Len(t), Owes(c, t, q, s, W, p) PROVE DullAt(c, t, q)
  BY DEF WatchOK
<1>1. p < q /\ -t[p].lit \in c.watch /\ t[p].level = 0
  BY DEF Owes
<1> QED
  BY <1>1 DEF DullAt

LEMMA NewClause ==
  ASSUME NEW D, DbOK(D), NEW lits \in SUBSET Lits, Cardinality(lits) > 1,
         NEW list \in Lists, NEW W \in SUBSET lits, Cardinality(W) \in 1..2,
         Cardinality(W) = 1 => list = "imported"
  PROVE  LET E == D \cup {Clause(lits, list, W)}
         IN /\ DbOK(E) /\ RefsOf(D) \subseteq RefsOf(E)
            /\ [lits |-> lits, list |-> list] \in RefsOf(E)
<1> DEFINE n == Clause(lits, list, W)
           E == D \cup {n}
<1>1. n.lits = lits /\ n.list = list /\ n.watch = W /\ n \in Clauses
      /\ Ref(n) = [lits |-> lits, list |-> list]
  BY DEF Clause, Clauses, Ref
<1> HIDE DEF n
<1>2. DbOK(E)
  BY <1>1 DEF DbOK, OneWatched
<1>3. RefsOf(D) \subseteq RefsOf(E) /\ Ref(n) \in RefsOf(E)
  BY DEF RefsOf
<1>4. [lits |-> lits, list |-> list] \in RefsOf(E)
  BY <1>1, <1>3
<1> QED
  BY <1>2, <1>3, <1>4 DEF n

LEMMA ImportClauseStep ==
  ASSUME IInv, NEW lits \in Shareable, ImportClause(lits)
  PROVE  IInv'
<1>1. /\ pc = "top" /\ level = 0 /\ imports < MaxImports /\ imports' = imports + 1
      /\ Cardinality(lits) > 1 /\ Implied(lits)
      /\ UNCHANGED <<formula, trail, qhead, level, assumptions, decision, pc,
                     conflict, tree, conflicts>>
  BY DEF ImportClause
<1>2. PICK l \in lits :
        db' = db \cup {Clause(lits, "imported", IF Cardinality(lits) = 2 THEN lits ELSE {l})}
  BY <1>1 DEF ImportClause
<1>3. lits \in SUBSET Lits
  BY FormulasAssumption
<1>4. PICK W : W = IF Cardinality(lits) = 2 THEN lits ELSE {l}
  OBVIOUS
<1>5. W \in SUBSET lits /\ (Cardinality(W) = 2 \/ Cardinality(W) = 1)
  BY <1>4, FS_Singleton
<1>6. /\ DbOK(db) /\ TrailOK(trail, level)
      /\ FormulaOK(formula, db, trail, decision) /\ Len(assumptions) \in Nat
  BY Parts
<1>7. /\ DbOK(db') /\ RefsOf(db) \subseteq RefsOf(db')
      /\ \A x \in db' : x \in db \/ (x.lits = lits /\ x.list = "imported")
  <2>1. "imported" \in Lists /\ db' = db \cup {Clause(lits, "imported", W)}
    BY <1>2, <1>4 DEF Lists
  <2> QED
    <3>1. lits \in SUBSET Lits /\ Cardinality(lits) > 1 /\ W \in SUBSET lits
      BY <1>1, <1>3, <1>5
    <3>2. Cardinality(W) \in 1..2
      BY <1>5
    <3>3. PICK list : list = "imported"
      OBVIOUS
    <3>4. list \in Lists /\ (Cardinality(W) = 1 => list = "imported")
      BY <2>1, <3>3
    <3>5. DbOK(db') /\ RefsOf(db) \subseteq RefsOf(db')
      BY <1>6, <2>1, <3>1, <3>2, <3>3, <3>4, NewClause
    <3>6. \A x \in db' : x \in db \/ (x.lits = lits /\ x.list = "imported")
      BY <2>1 DEF Clause
    <3> QED
      BY <3>5, <3>6
<1>8. \A x \in db' : Implies(formula, x.lits)
  <2>1. \A x \in db : Implies(formula, x.lits)
    BY Parts DEF EntailedBy
  <2>2. Implies(formula, lits)
    BY <1>1 DEF Implied, Implies
  <2> QED
    BY <1>7, <2>1, <2>2
<1>9. FormulaOK(formula, db', trail, decision')
  <2>1. \A x : HasClause(db, x) => HasClause(db', x)
    BY <1>7, RefsFacts
  <2> QED
    BY <1>1, <1>6, <2>1 DEF FormulaOK
<1>10. \A s \in 0..Len(trail) : WatchesOK(db, trail, qhead, s, Walking, tree)
                         => WatchesOK(db', trail, qhead', s, Walking', tree)
  <2>1. \A p \in 1..Len(trail) : trail[p].level = 0
    BY <1>1, <1>6, EntryFacts
  <2>2. ASSUME NEW x \in db', NEW s PROVE x \in db \/ WatchOK(x, trail, qhead, s, Walking)
    <3>1. x \in db \/ x.list # "clauses"
      BY <1>7
    <3> QED
      BY <2>1, <3>1, WatchDull
  <2>3. Walking' = Walking
    BY <1>1 DEF Walking
  <2> QED
    BY <1>1, <2>2, <2>3 DEF WatchesOK
<1>11. /\ ReasonsOK(trail, RefsOf(db'), ~Walking')
       /\ CubeOK(assumptions', trail, level)
  BY <1>1, <1>6, ReasonsAtRoot, CubeAtRoot
<1>12. Scalars' /\ QueueOK' /\ VerdictIsRight'
  <2>1. Scalars' /\ QueueOK'
    BY <1>1, Parts, BoundsAssumption DEF Scalars, QueueOK
  <2> QED
    BY <1>1, <2>1 DEF VerdictIsRight
<1> QED
  BY <1>1, <1>7, <1>8, <1>9, <1>10, <1>11, <1>12, StayStep

(* Clauses may go, but for those of the formula that are not satisfied for *)
(* good and those that are reasons.                                        *)
LEMMA ForgetStep ==
  ASSUME IInv, pc = "propagate", db' \subseteq db,
         UNCHANGED <<formula, trail, qhead, level, assumptions, decision, pc,
                     conflict, tree, conflicts, imports>>,
         \A i \in 1..Len(trail) : trail[i].reason \in RefsOf(db) => trail[i].reason \in RefsOf(db'),
         \A c \in db \ db' : c.list = "clauses" => c.lits \cap FixedIn(trail) # {}
  PROVE  IInv'
<1>1. /\ DbOK(db) /\ TrailOK(trail, level) /\ ReasonsOK(trail, RefsOf(db), ~Walking)
      /\ FormulaOK(formula, db, trail, decision) /\ CubeOK(assumptions, trail, level)
      /\ level \in Nat
  BY Parts DEF Walking
<1>2. Walking' = Walking
  BY DEF Walking
<1>3. DbOK(db')
  BY <1>1 DEF DbOK
<1>4. ReasonsOK(trail, RefsOf(db'), ~Walking')
  <2>1. IsKept(trail, trail, level) /\ level \in 0..level
    BY <1>1, KeptAll
  <2>2. ReasonsOK(trail, RefsOf(db'), ~Walking)
    BY <1>1, <2>1, ReasonsKept
  <2> QED
    BY <1>2, <2>2
<1>5. \A c \in db' : Implies(formula, c.lits)
  BY Parts DEF EntailedBy
<1>6. FormulaOK(formula, db', trail, decision')
  <2>1. ASSUME NEW c \in formula, c \cap FixedIn(trail) = {}
        PROVE  HasClause(db', c) /\ \A l \in c : Var(l) \in decision
    <3>1. HasClause(db, c) /\ \A l \in c : Var(l) \in decision
      BY <1>1, <2>1 DEF FormulaOK
    <3>2. PICK d \in db : d.lits = c /\ d.list = "clauses"
      BY <3>1 DEF HasClause
    <3>3. d \in db'
      BY <2>1, <3>2
    <3> QED
      BY <3>1, <3>2, <3>3 DEF HasClause
  <2> QED
    BY <2>1 DEF FormulaOK
<1>7. \A s \in 0..Len(trail) : WatchesOK(db, trail, qhead, s, Walking, tree)
                        => WatchesOK(db', trail, qhead', s, Walking', tree)
  BY <1>2 DEF WatchesOK
<1>8. Scalars' /\ QueueOK' /\ VerdictIsRight'
  BY Parts DEF Scalars, QueueOK, VerdictIsRight
<1> QED
  BY <1>1, <1>3, <1>4, <1>5, <1>6, <1>7, <1>8, StayStep

LEMMA SimplifyStep ==
  ASSUME IInv, Simplify
  PROVE  IInv'
<1>1. /\ pc = "propagate" /\ level = 0 /\ db' = {c \in db : ~Satisfied(c)}
      /\ UNCHANGED <<formula, trail, qhead, level, assumptions, decision, pc,
                     conflict, tree, conflicts, imports>>
  BY DEF Simplify, Quiet
<1>2. TrailOK(trail, level)
  BY Parts
<1>3. \A i \in 1..Len(trail) : trail[i].level = 0 /\ trail[i].reason = NoReason
  <2>1. \A i \in 1..Len(trail) : trail[i].level = 0
    BY <1>1, <1>2, EntryFacts
  <2> QED
    BY <1>2, <2>1 DEF TrailOK
<1>4. ASSUME NEW c \in db \ db' PROVE c.lits \cap FixedIn(trail) # {}
  <2>1. Satisfied(c)
    BY <1>1, <1>4
  <2> QED
    BY <1>3, <2>1 DEF Satisfied, Trues, FixedIn
<1>5. \A i \in 1..Len(trail) : trail[i].reason \notin RefsOf(db)
  <2>1. DbOK(db)
    BY Parts
  <2>2. NoReason \notin RefsOf(db)
    BY <2>1, ClauseFacts DEF RefsOf
  <2> QED
    BY <1>3, <2>2
<1> QED
  BY <1>1, <1>4, <1>5, ForgetStep

LEMMA ReduceDBStep ==
  ASSUME IInv, ReduceDB
  PROVE  IInv'
<1>1. /\ pc = "propagate"
      /\ UNCHANGED <<formula, trail, qhead, level, assumptions, decision, pc,
                     conflict, tree, conflicts, imports>>
  BY DEF ReduceDB, Quiet
<1>2. PICK c \in db : Deletable(c) /\ db' = db \ {c}
  BY DEF ReduceDB
<1>3. c.list # "clauses" /\ \A i \in 1..Len(trail) : trail[i].reason # Ref(c)
  BY <1>2 DEF Deletable, Locked
<1>4. \A i \in 1..Len(trail) : trail[i].reason \in RefsOf(db) => trail[i].reason \in RefsOf(db')
  BY <1>2, <1>3 DEF RefsOf
<1> QED
  BY <1>1, <1>2, <1>3, <1>4, ForgetStep
-----------------------------------------------------------------------------
(* A clause that is false, and its promotion if it is in the purgatory.    *)
LEMMA FalsifiedFacts ==
  ASSUME IInv, NEW c \in db, Falsified(c)
  PROVE  /\ Propagating /\ c.lits \in SUBSET Lits /\ c.lits \subseteq Falses
         /\ Implies(formula, c.lits)
         /\ FalseLit \in c.watch /\ FalseLit \in c.lits
         /\ ~Walking => Level(FalseLit) = level
<1>1. Propagating /\ FalseLit \in c.watch /\ c.lits \subseteq Falses
  BY DEF Falsified, Visited, ToDo, Watching
<1>2. DbOK(db) /\ Implies(formula, c.lits)
  BY Parts DEF EntailedBy
<1>3. c.lits \in SUBSET Lits /\ c.watch \in SUBSET c.lits
  BY <1>2, ClauseFacts
<1> QED
  BY <1>1, <1>2, <1>3, HeadFacts

LEMMA PromoteFacts ==
  ASSUME IInv, NEW c \in db, Falsified(c), NEW D \in Promote(c)
  PROVE  /\ DbOK(D) /\ RefsOf(D) = RefsOf(db)
         /\ \A x \in D :
              \/ x \in db
              \/ /\ x.lits = c.lits /\ x.list = "imported"
                 /\ \E l \in Highest(c.lits \ {FalseLit}) : x.watch = {FalseLit, l}
<1>1. DbOK(db)
  BY Parts
<1>2. CASE ~OneWatched(c)
  BY <1>1, <1>2 DEF Promote
<1>3. CASE OneWatched(c)
  <2>1. FalseLit \in c.watch /\ c.watch \in SUBSET c.lits /\ IsFiniteSet(c.watch)
        /\ c.list = "imported" /\ Cardinality(c.watch) = 1
    BY <1>1, <1>3, FalsifiedFacts, ClauseFacts DEF OneWatched
  <2>2. c.watch = {FalseLit}
    <3>1. PICK y : c.watch = {y}
      BY <2>1, FS_Singleton
    <3> QED
      BY <2>1, <3>1
  <2>3. PICK l \in Highest(c.lits \ c.watch) : D = Rewatch(c, c.watch \cup {l})
    BY <1>3 DEF Promote, PromotedWatches
  <2>4. l \in c.lits /\ l \notin c.watch
    BY <2>3 DEF Highest
  <2> DEFINE V == c.watch \cup {l}
  <2>5. Cardinality(V) = 2
    <3>1. Cardinality(V) = Cardinality(c.watch) + 1
      BY <2>1, <2>4, FS_AddElement
    <3> QED
      BY <2>1, <3>1
  <2>6. V \in SUBSET c.lits /\ Cardinality(V) \in 1..2 /\ Cardinality(V) # 1
    BY <2>1, <2>4, <2>5
  <2>7. V = {FalseLit, l} /\ l \in Highest(c.lits \ {FalseLit})
    BY <2>2, <2>3
  <2> HIDE DEF V
  <2>8. /\ DbOK(Rewatch(c, V)) /\ RefsOf(Rewatch(c, V)) = RefsOf(db)
        /\ \A x \in Rewatch(c, V) :
             x \in db \/ (x.lits = c.lits /\ x.list = c.list /\ x.watch = V)
    BY <1>1, <2>6, RewatchFacts
  <2>9. D = Rewatch(c, V)
    BY <2>3 DEF V
  <2> QED
    BY <2>1, <2>7, <2>8, <2>9
<1> QED
  BY <1>2, <1>3

LEMMA FormulaKept ==
  ASSUME NEW t, NEW lvl, TrailOK(t, lvl), NEW k \in 0..lvl, NEW r, IsKept(r, t, k),
         NEW f, NEW D, NEW E, RefsOf(D) \subseteq RefsOf(E), NEW dec, FormulaOK(f, D, t, dec)
  PROVE  FormulaOK(f, E, r, dec)
<1>1. FixedIn(r) = FixedIn(t)
  BY FixedKept
<1>2. \A c : HasClause(D, c) => HasClause(E, c)
  BY RefsFacts
<1> QED
  BY <1>1, <1>2 DEF FormulaOK

(* cancelUntil, if there is a level to leave.                              *)
LEMMA CancelFacts ==
  ASSUME IInv, NEW k \in Nat, CancelUntil(k)
  PROVE  /\ k < level => /\ IsKept(trail', trail, k) /\ level' = k
                         /\ qhead' = Len(trail') + 1 /\ k \in 0..level
         /\ ~(k < level) => UNCHANGED <<trail, qhead, level>>
<1>1. TrailOK(trail, level) /\ level \in Nat
  BY Parts
<1>2. IsKept(UpTo(k), trail, k)
  BY <1>1, UpToKept
<1> QED
  BY <1>1, <1>2 DEF CancelUntil

LEMMA RestartStep ==
  ASSUME IInv, Restart
  PROVE  IInv'
<1>1. /\ pc = "propagate" /\ ~(qhead <= Len(trail))
      /\ UNCHANGED <<formula, db, decision, conflict, tree, conflicts, imports>>
      /\ assumptions' = IF pc' = "walk" THEN <<>> ELSE assumptions
      /\ pc' \in {"top", "walk"}
  BY DEF Restart, Quiet, Pending
<1>2. PICK k \in Nat : /\ CancelUntil(k)
                       /\ \/ k < level /\ pc' = "top"
                          \/ k = 0 /\ pc' = "walk"
  <2>1. Len(assumptions) \in Nat
    BY Parts
  <2>2. CASE level > Len(assumptions) /\ CancelUntil(Len(assumptions)) /\ pc' = "top"
    <3>1. Len(assumptions) < level
      BY <2>1, <2>2, Parts
    <3> QED
      BY <2>1, <2>2, <3>1
  <2>3. CASE CancelUntil(0) /\ pc' = "walk"
    BY <2>3
  <2> QED
    BY <2>2, <2>3 DEF Restart
<1>3. /\ DbOK(db) /\ TrailOK(trail, level) /\ FormulaOK(formula, db, trail, decision)
      /\ qhead = Len(trail) + 1
  BY <1>1, Parts
<1>4. Scalars' /\ VerdictIsRight'
  <2>1. assumptions' \in Seq(LitsOf(formula)) /\ Len(assumptions') <= MaxCube
    BY <1>1, Parts, BoundsAssumption DEF Scalars
  <2> QED
    BY <1>1, <2>1, Parts DEF Scalars, VerdictIsRight
<1>5. CASE k < level
  <2>1. /\ IsKept(trail', trail, k) /\ level' = k /\ qhead' = Len(trail') + 1 /\ k \in 0..level
    BY <1>2, <1>5, CancelFacts
  <2>2. FormulaOK(formula, db', trail', decision')
    BY <1>1, <1>3, <2>1, FormulaKept
  <2>3. \A c \in db' : Implies(formula, c.lits)
    BY <1>1, Parts DEF EntailedBy
  <2>4. k = 0 \/ Walking' = Walking
    BY <1>1, <1>2 DEF Walking
  <2>5. Walking' \/ assumptions' = assumptions
    BY <1>1 DEF Walking
  <2> QED
    BY <1>1, <1>3, <1>4, <1>5, <2>1, <2>2, <2>3, <2>4, <2>5, BackStep
<1>6. CASE ~(k < level)
  <2>1. UNCHANGED <<trail, qhead, level>> /\ pc' = "walk"
    BY <1>2, <1>6, CancelFacts
  <2>2. QueueOK' /\ Walking'
    BY <1>3, <2>1, Parts DEF QueueOK, Walking
  <2> QED
    BY <1>1, <1>3, <1>4, <2>1, <2>2, IdleStep
<1> QED
  BY <1>5, <1>6

LEMMA FrontIsShorter ==
  ASSUME NEW S, NEW s \in Seq(S)
  PROVE  Front(s) \in Seq(S) /\ Len(Front(s)) \in Nat /\ Len(Front(s)) <= Len(s)
<1>1. Len(s) \in Nat /\ \A i \in 1..Len(s) : s[i] \in S
  BY ElementOfSeq
<1>2. /\ SubSeq(s, 1, Len(s) - 1) \in Seq(S)
      /\ Len(SubSeq(s, 1, Len(s) - 1)) = IF 1 <= Len(s) - 1 THEN Len(s) - 1 - 1 + 1 ELSE 0
  <2>1. /\ Len(s) - 1 \in Int /\ 1 \in Int
        /\ \A i \in 1..(Len(s) - 1) : s[i] \in S
    BY <1>1
  <2> QED
    BY <2>1, SubSeqProperties
<1> QED
  BY <1>1, <1>2 DEF Front

LEMMA WalkConflictStep ==
  ASSUME IInv, NEW c \in db, WalkConflict(c)
  PROVE  IInv'
<1>1. /\ pc = "walk" /\ Falsified(c) /\ level > 0 /\ CancelUntil(level - 1)
      /\ assumptions' = Front(assumptions) /\ db' \in Promote(c)
      /\ UNCHANGED <<formula, decision, pc, conflict, tree, conflicts, imports>>
  BY DEF WalkConflict
<1>2. /\ DbOK(db) /\ TrailOK(trail, level) /\ FormulaOK(formula, db, trail, decision)
      /\ level \in Nat
  BY Parts
<1>3. PICK k \in Nat : k = level - 1 /\ k < level
  BY <1>1, <1>2
<1>4. /\ IsKept(trail', trail, k) /\ level' = k /\ qhead' = Len(trail') + 1 /\ k \in 0..level
  BY <1>1, <1>3, CancelFacts
<1>5. /\ DbOK(db') /\ RefsOf(db') = RefsOf(db)
      /\ \A x \in db' : x \in db \/ x.list = "imported"
  BY <1>1, PromoteFacts
<1>6. Walking /\ Walking'
  BY <1>1 DEF Walking
<1>7. \A x \in db' : x \in db \/ \A s : WatchOK(x, trail', qhead', s, Walking')
  <2> SUFFICES ASSUME NEW x \in db', x.list = "imported", NEW s
               PROVE  WatchOK(x, trail', qhead', s, Walking')
    BY <1>5
  <2>1. \A p \in 1..Len(trail') : Owes(x, trail', qhead', s, Walking', p) => trail'[p].level = 0
    BY <1>6 DEF Owes
  <2> QED
    BY <2>1, WatchDull
<1>8. FormulaOK(formula, db', trail', decision')
  BY <1>1, <1>2, <1>4, <1>5, FormulaKept
<1>9. \A x \in db' : Implies(formula, x.lits)
  <2>1. \A x \in db : Implies(formula, x.lits)
    BY Parts DEF EntailedBy
  <2> QED
    BY <1>5, <2>1, RefsFacts
<1>10. Scalars' /\ VerdictIsRight'
  <2>1. assumptions' \in Seq(LitsOf(formula)) /\ Len(assumptions') <= MaxCube
    <3>1. assumptions \in Seq(LitsOf(formula)) /\ Len(assumptions) <= MaxCube
          /\ Len(assumptions) \in Nat
      BY Parts DEF Scalars
    <3>2. /\ Front(assumptions) \in Seq(LitsOf(formula))
          /\ Len(Front(assumptions)) \in Nat /\ Len(Front(assumptions)) <= Len(assumptions)
      BY <3>1, FrontIsShorter
    <3> QED
      BY <1>1, <3>1, <3>2, BoundsAssumption
  <2> QED
    BY <1>1, <2>1, Parts DEF Scalars, VerdictIsRight
<1> QED
  BY <1>1, <1>3, <1>4, <1>5, <1>6, <1>7, <1>8, <1>9, <1>10, BackStep
LEMMA WalkEndsStep ==
  ASSUME IInv, WalkEnds
  PROVE  IInv'
<1>1. /\ pc = "walk" /\ pc' = "top" /\ CancelUntil(0)
      /\ UNCHANGED <<formula, db, assumptions, decision, conflict, tree,
                     conflicts, imports>>
  BY DEF WalkEnds
<1>2. /\ DbOK(db) /\ TrailOK(trail, level) /\ FormulaOK(formula, db, trail, decision)
      /\ level \in Nat /\ Len(assumptions) \in Nat
  BY Parts
<1>3. Scalars' /\ VerdictIsRight' /\ Walking /\ ~Walking'
  BY <1>1, Parts DEF Scalars, VerdictIsRight, Walking
<1>4. \A c \in db' : Implies(formula, c.lits)
  BY <1>1, Parts DEF EntailedBy
<1>5. CASE 0 < level
  <2>1. 0 \in Nat /\ IsKept(trail', trail, 0) /\ level' = 0 /\ qhead' = Len(trail') + 1
        /\ 0 \in 0..level
    BY <1>1, <1>5, CancelFacts
  <2>2. RefsOf(db) \subseteq RefsOf(db')
    BY <1>1
  <2>3. FormulaOK(formula, db', trail', decision')
    BY <1>1, <1>2, <2>1, <2>2, FormulaKept
  <2> QED
    BY <1>1, <1>2, <1>3, <1>4, <1>5, <2>1, <2>3, BackStep
<1>6. CASE ~(0 < level)
  <2>1. UNCHANGED <<trail, qhead, level>> /\ level = 0
    BY <1>1, <1>2, <1>6, CancelFacts
  <2>2. \A i \in 1..Len(trail) : trail[i].level = 0
    BY <1>2, <2>1, EntryFacts
  <2>3. QueueOK'
    BY <1>1, <2>1, <2>2, Parts DEF QueueOK
  <2>4. /\ ReasonsOK(trail, RefsOf(db'), ~Walking')
        /\ CubeOK(assumptions', trail, level)
    BY <1>1, <1>2, <2>1, ReasonsAtRoot, CubeAtRoot
  <2>5. ASSUME NEW s \in 0..Len(trail), WatchesOK(db, trail, qhead, s, Walking, tree)
        PROVE  WatchesOK(db', trail, qhead', s, Walking', tree)
    <3>1. SkipOK(trail, qhead, s, Walking, tree) /\ \A c \in db : WatchOK(c, trail, qhead, s, Walking)
      BY <2>5 DEF WatchesOK
    <3>2. SkipOK(trail, qhead, s, Walking', tree)
      BY <1>3, <3>1 DEF SkipOK
    <3>3. \A c : \A p \in 1..Len(trail) :
            Owes(c, trail, qhead, s, Walking', p) => Owes(c, trail, qhead, s, Walking, p)
      BY <2>2 DEF Owes
    <3>4. \A c \in db : WatchOK(c, trail, qhead, s, Walking')
      BY <3>1, <3>3 DEF WatchOK
    <3> QED
      BY <1>1, <2>1, <3>2, <3>4 DEF WatchesOK
  <2> QED
    BY <1>1, <1>2, <1>3, <1>4, <2>1, <2>3, <2>4, <2>5, StayStep
<1> QED
  BY <1>5, <1>6

(* Decisions are only made from now on where a clause is not satisfied.    *)
LEMMA AlphaAdjustStep ==
  ASSUME IInv, NEW c \in db, AlphaAdjust(c)
  PROVE  IInv'
<1>1. /\ pc = "propagate" /\ pc' = "top" /\ Falsified(c) /\ level > 0
      /\ conflicts < MaxConflicts /\ conflicts' = conflicts + 1 /\ CancelUntil(0)
      /\ decision' = VarsOf({d.lits : d \in {d \in db :
                               d.list = "clauses" /\ d.lits \cap Fixed = {}}})
      /\ UNCHANGED <<formula, assumptions, conflict, tree, imports>>
  BY DEF AlphaAdjust
<1>2. PICK D \in Promote(c), reinit \in BOOLEAN :
        db' = {d \in D : reinit => d.list # "learnts"}
  BY DEF AlphaAdjust
<1>3. /\ DbOK(db) /\ TrailOK(trail, level) /\ FormulaOK(formula, db, trail, decision)
      /\ level \in Nat
  BY Parts
<1>4. /\ IsKept(trail', trail, 0) /\ level' = 0 /\ qhead' = Len(trail') + 1 /\ 0 \in 0..level
      /\ 0 \in Nat /\ 0 < level
  BY <1>1, <1>3, CancelFacts
<1>5. /\ DbOK(D) /\ RefsOf(D) = RefsOf(db)
      /\ \A x \in D : x \in db \/ x.list = "imported"
  BY <1>1, PromoteFacts
<1>6. DbOK(db') /\ db' \subseteq D
  BY <1>2, <1>5 DEF DbOK
<1>7. \A x \in db' : x \in db \/ \A s : WatchOK(x, trail', qhead', s, Walking')
  <2> SUFFICES ASSUME NEW x \in db', x.list = "imported", NEW s
               PROVE  WatchOK(x, trail', qhead', s, Walking')
    BY <1>5, <1>6
  <2>1. \A p \in 1..Len(trail') : trail'[p].level = 0
    <3>1. TrailOK(trail', 0)
      BY <1>3, <1>4, KeptFacts
    <3> QED
      BY <3>1, EntryFacts
  <2> QED
    BY <2>1, WatchDull
<1>8. \A x \in db' : Implies(formula, x.lits)
  <2>1. \A x \in db : Implies(formula, x.lits)
    BY Parts DEF EntailedBy
  <2> QED
    BY <1>5, <1>6, <2>1, RefsFacts
<1>9. Fixed = FixedIn(trail)
  BY DEF Fixed, FixedIn
<1> DEFINE U == {d.lits : d \in {d \in db : d.list = "clauses" /\ d.lits \cap Fixed = {}}}
<1>10. FormulaOK(formula, db', trail', decision')
  <2> SUFFICES ASSUME NEW x \in formula, x \cap FixedIn(trail) = {}
               PROVE  HasClause(db', x) /\ \A l \in x : Var(l) \in decision'
    <3>1. FixedIn(trail') = FixedIn(trail)
      BY <1>3, <1>4, FixedKept
    <3> QED
      BY <1>1, <3>1 DEF FormulaOK
  <2>1. HasClause(db, x)
    BY <1>3 DEF FormulaOK
  <2>2. HasClause(D, x)
    BY <1>5, <2>1, RefsFacts
  <2>3. HasClause(db', x)
    BY <1>2, <2>2 DEF HasClause
  <2>4. x \in U
    <3>1. PICK d \in db : d.lits = x /\ d.list = "clauses"
      BY <2>1 DEF HasClause
    <3>2. d.lits \cap Fixed = {}
      BY <1>9, <3>1
    <3> QED
      BY <3>1, <3>2
  <2>5. \A l \in x : Var(l) \in VarsOf(U)
    BY <2>4 DEF VarsOf
  <2> QED
    BY <1>1, <2>3, <2>5
<1>11. Scalars' /\ VerdictIsRight'
  <2>1. \A d \in db : d.lits \subseteq LitsOf(formula)
    BY Parts DEF EntailedBy, Implies
  <2>2. UNION U \subseteq LitsOf(formula)
    BY <2>1
  <2>3. \A l \in LitsOf(formula) : Var(l) \in VarsOf(formula)
    BY Known, FormulaFacts
  <2>4. VarsOf(U) \subseteq VarsOf(formula)
    BY <2>2, <2>3 DEF VarsOf
  <2>5. conflicts' \in 0..MaxConflicts
    BY <1>1, Parts, BoundsAssumption DEF Scalars
  <2> QED
    BY <1>1, <2>4, <2>5, Parts DEF Scalars, VerdictIsRight
<1> QED
  BY <1>1, <1>4, <1>6, <1>7, <1>8, <1>10, <1>11, BackStep
-----------------------------------------------------------------------------
(* The backjump of a conflict: back to a lower level, and one assignment.  *)
LEMMA JumpStep ==
  ASSUME IInv, pc = "propagate", UNCHANGED <<formula, assumptions, decision>>, Scalars',
         NEW k \in Nat, k < level, NEW r, IsKept(r, trail, k),
         NEW e, IsGrown(trail', r, e), e.level = k, level' = k, qhead' = Len(r) + 1,
         \/ pc' = "top" /\ tree' = tree
         \/ pc' = "walk" /\ ~tree /\ tree' /\ k = 0,
         \/ e.reason = NoReason /\ k = 0 /\ Implies(formula, {e.lit})
         \/ k > 0 /\ ReasonOK(trail', RefsOf(db'), TRUE, Len(r) + 1),
         e.lit \in LitsOf(formula),
         DbOK(db'), RefsOf(db) \subseteq RefsOf(db'), \A c \in db' : Implies(formula, c.lits),
         \A c \in db' : c \in db \/ \A s : WatchOK(c, trail', qhead', s, Walking')
  PROVE  IInv'
<1>1. /\ TrailOK(trail, level) /\ QueueOK /\ ReasonsOK(trail, RefsOf(db), TRUE)
      /\ EntailedBy(formula, db, trail) /\ FormulaOK(formula, db, trail, decision)
      /\ qhead \in 1..(Len(trail) + 1) /\ level \in Nat /\ Len(trail) \in Nat
      /\ Len(assumptions) \in Nat /\ CubeOK(assumptions, trail, level)
  <2>1. ~Walking
    BY DEF Walking
  <2>2. ~Walking = TRUE
    BY <2>1
  <2> QED
    BY <2>1, <2>2, Parts
<1>2. k \in 0..level /\ k <= k /\ e.level <= k
  BY <1>1
<1>3. /\ TrailOK(r, k)
      /\ Len(r) \in 0..Len(trail)
      /\ \A i \in 1..Len(r) : i \in 1..Len(trail) /\ r[i] = trail[i] /\ trail[i].level <= k
      /\ \A i \in 1..Len(trail) : trail[i].level <= k => i \in 1..Len(r)
  BY <1>1, <1>2, KeptFacts
<1>4. /\ TrailOK(trail', k)
      /\ Len(trail') = Len(r) + 1
      /\ \A i \in 1..Len(r) : trail'[i] = r[i]
      /\ trail'[Len(r) + 1] = e
      /\ \A i \in 1..Len(trail') : i \in 1..Len(r) \/ i = Len(r) + 1
  BY <1>2, <1>3, GrownFacts
<1>5. ReasonsOK(trail', RefsOf(db'), ~Walking')
  <2>1. CASE k = 0
    BY <1>4, <2>1, ReasonsAtRoot
  <2>2. CASE k # 0
    <3>1. \A i \in 1..Len(r) : trail[i].reason \in RefsOf(db) => trail[i].reason \in RefsOf(db)
      OBVIOUS
    <3>2. ReasonsOK(r, RefsOf(db), TRUE)
      BY <1>1, <1>2, <3>1, ReasonsKept
    <3>3. ReasonOK(trail', RefsOf(db'), TRUE, Len(r) + 1)
      BY <2>2
    <3>4. ReasonsOK(trail', RefsOf(db'), TRUE)
      BY <1>2, <1>3, <3>2, <3>3, ReasonsGrown
    <3>5. ~Walking' = TRUE
      BY <2>2 DEF Walking
    <3> QED
      BY <3>4, <3>5
  <2> QED
    BY <2>1, <2>2
<1>6. EntailedBy(formula, db', trail')
  <2>1. EntailedBy(formula, db', r)
    BY <1>1, <1>2, EntailedKept
  <2>2. e.level = 0 => Implies(formula, {e.lit})
    BY <1>2
  <2>3. \A c \in db' : Implies(formula, c.lits)
    OBVIOUS
  <2> QED
    BY <1>2, <1>3, <2>1, <2>2, <2>3, EntailedGrown
<1>7. CubeOK(assumptions, trail', k)
  <2>1. CubeOK(assumptions, r, k)
    BY <1>1, <1>2, CubeKept
  <2>2. CASE k = 0
    BY <1>1, <1>4, <2>2, CubeAtRoot
  <2>3. CASE k # 0
    <3>1. e.reason # NoReason
      <4>1. e.reason.lits # {}
        BY <1>4, <2>3 DEF ReasonOK
      <4> QED
        BY <4>1 DEF NoReason
    <3>2. \A j \in 1..Len(assumptions) : j <= k => j <= k \/ (assumptions[j] = e.lit /\ e.level <= j)
      OBVIOUS
    <3> QED
      BY <1>2, <1>3, <2>1, <3>1, <3>2, CubeGrown
  <2> QED
    BY <2>2, <2>3
<1>8. FormulaOK(formula, db', trail', decision)
  <2>1. FormulaOK(formula, db', r, decision)
    BY <1>1, <1>2, FormulaKept
  <2>2. FixedIn(r) \subseteq FixedIn(trail')
    BY <1>2, <1>3, FixedGrown
  <2>3. \A c : c \cap FixedIn(trail') = {} => c \cap FixedIn(r) = {}
    BY <2>2
  <2> QED
    BY <2>1, <2>3 DEF FormulaOK
<1>9. \E s \in 0..Len(trail') : WatchesOK(db', trail', qhead', s, Walking', tree')
  <2>0. PICK W : W = FALSE
    OBVIOUS
  <2>1. PICK s \in 0..Len(trail) : WatchesOK(db, trail, qhead, s, Walking, tree)
    BY Parts
  <2>2. SkipOK(trail, qhead, s, W, tree) /\ \A c \in db : WatchOK(c, trail, qhead, s, W)
    <3>1. Walking = W
      BY <2>0 DEF Walking
    <3> QED
      BY <2>1, <3>1 DEF WatchesOK
  <2>3. ASSUME NEW c \in db, NEW z, NEW V, z = s \/ s = 0
        PROVE  WatchOK(c, trail', qhead', z, V)
    <3>1. \A p \in 1..Len(r) : p < qhead => p < qhead'
      BY <1>3
    <3>2. ASSUME NEW p \in 1..Len(r), Owes(c, trail, qhead', z, V, p)
          PROVE  Owes(c, trail, qhead, s, W, p)
      <4>1. p \in 1..Len(trail) /\ trail[p].level <= k /\ trail[p].level \in Nat
        BY <1>1, <1>3, EntryFacts
      <4>2. p # z /\ -trail[p].lit \in c.watch
        BY <3>2 DEF Owes
      <4>3. p >= qhead => trail[p].level = level
        BY <1>1, <4>1 DEF QueueOK
      <4>4. p < qhead /\ p # s
        BY <1>1, <2>3, <4>1, <4>2, <4>3
      <4> QED
        BY <2>0, <4>2, <4>4 DEF Owes
    <3>3. WatchOK(c, trail, qhead, s, W)
      BY <2>2
    <3>4. WatchOK(c, r, qhead', z, V)
      BY <1>1, <1>2, <3>1, <3>2, <3>3, WatchKept
    <3>5. qhead' \in 1..(Len(r) + 1)
      BY <1>3
    <3> QED
      BY <1>2, <1>3, <3>4, <3>5, WatchGrown
  <2>4. CASE pc' = "top" /\ tree' = tree
    <3>1. Walking' = FALSE
      BY <2>4 DEF Walking
    <3>2. s \in 0..Len(trail') /\ SkipOK(trail', qhead', s, Walking', tree')
      <4>1. s # 0 => s \in 1..Len(r) /\ trail'[s].level = 0 /\ tree
        <5> SUFFICES ASSUME s # 0 PROVE s \in 1..Len(r) /\ trail'[s].level = 0 /\ tree
          OBVIOUS
        <5>1. s \in 1..Len(trail) /\ trail[s].level = 0 /\ tree
          BY <1>1, <2>2 DEF SkipOK
        <5>2. trail[s].level <= k
          BY <5>1
        <5> QED
          BY <1>3, <1>4, <5>1, <5>2
      <4>2. s \in 0..Len(trail')
        BY <1>3, <1>4, <2>2, <4>1
      <4> QED
        BY <2>4, <3>1, <4>1, <4>2 DEF SkipOK
    <3> QED
      BY <2>3, <3>2 DEF WatchesOK
  <2>5. CASE pc' = "walk" /\ ~tree /\ tree' /\ k = 0
    <3>1. s = 0
      BY <2>2, <2>5 DEF SkipOK
    <3> DEFINE z == Len(r) + 1
    <3>2. z \in 0..Len(trail') /\ SkipOK(trail', qhead', z, Walking', tree')
      <4>1. z \in 0..Len(trail') /\ trail'[z].level = 0
        BY <1>3, <1>4, <2>5
      <4>2. \A p \in 1..Len(trail') : p >= qhead' => p = z
        BY <1>3, <1>4
      <4> QED
        BY <2>5, <4>1, <4>2 DEF SkipOK
    <3>3. \A c \in db' : WatchOK(c, trail', qhead', z, Walking')
      BY <2>3, <3>1
    <3> QED
      BY <3>2, <3>3 DEF WatchesOK
  <2> QED
    BY <2>4, <2>5
<1>10. QueueOK' /\ VerdictIsRight'
  <2>1. qhead' \in 1..(Len(trail') + 1)
    BY <1>3, <1>4
  <2>2. \A i \in 1..Len(trail') : i >= qhead' => trail'[i].level = level'
    BY <1>3, <1>4
  <2> QED
    BY <2>1, <2>2 DEF QueueOK, VerdictIsRight
<1>11. /\ TrailOK(trail', level')
       /\ EntailedBy(formula', db', trail')
       /\ ~Walking' => CubeOK(assumptions', trail', level')
       /\ FormulaOK(formula', db', trail', decision')
  BY <1>4, <1>6, <1>7, <1>8
<1> QED
  BY <1>5, <1>9, <1>10, <1>11 DEF IInv
(* What is asserted of the clause that is learnt and of the other one that *)
(* changes, the promoted one, after the jump.                              *)
LEMMA LearntWatchOK ==
  ASSUME IInv, NEW k \in Nat, k < level, NEW r, IsKept(r, trail, k),
         NEW t, NEW e, IsGrown(t, r, e), e.level = k,
         NEW x, NEW l, l \in Lits, l \in Falses, Level(l) = k,
         NEW u, u \in Lits, u \in Falses, Level(u) = level,
         x.watch = {u, l}, e.lit \in x.lits,
         NEW s, NEW V
  PROVE  WatchOK(x, t, Len(r) + 1, s, V)
<1>1. TrailOK(trail, level) /\ level \in Nat /\ k \in 0..level /\ k <= k /\ e.level <= k
  BY Parts
<1>2. /\ TrailOK(r, k) /\ Len(r) \in Nat
      /\ \A i \in 1..Len(r) : i \in 1..Len(trail) /\ r[i] = trail[i] /\ trail[i].level <= k
  BY <1>1, KeptFacts
<1>3. /\ \A i \in 1..Len(r) : t[i] = r[i]
      /\ t[Len(r) + 1] = e /\ Len(r) + 1 \in 1..Len(t)
      /\ \A i \in 1..Len(t) : i \in 1..Len(r) \/ i = Len(r) + 1
  BY <1>1, <1>2, GrownFacts
<1> SUFFICES ASSUME NEW p \in 1..Len(t), Owes(x, t, Len(r) + 1, s, V, p)
             PROVE  Served(x, t, p)
  BY DEF WatchOK
<1>4. p < Len(r) + 1 /\ -t[p].lit \in x.watch
  BY DEF Owes
<1>5. p \in 1..Len(r)
  BY <1>2, <1>4
<1>6. p \in 1..Len(trail) /\ t[p] = trail[p] /\ trail[p].level <= k
  BY <1>2, <1>3, <1>5
<1>7. Level(-trail[p].lit) = trail[p].level
  BY <1>6, MadeFalse
<1>8. -t[p].lit = l
  <2>1. -t[p].lit # u
    BY <1>1, <1>6, <1>7
  <2> QED
    BY <1>4, <2>1
<1>9. t[p].level = k
  BY <1>6, <1>7, <1>8
<1> QED
  BY <1>3, <1>9 DEF Served

LEMMA PromotedWatchOK ==
  ASSUME IInv, ~Walking, NEW c \in db, Falsified(c), level > 0,
         NEW u, Current(Learnt(c.lits)) = {u},
         NEW k \in Nat, k < level, NEW r, IsKept(r, trail, k),
         \A l \in Learnt(c.lits) \ {u} : Level(l) <= k,
         k > 0 => \E l \in Learnt(c.lits) \ {u} : Level(l) = k,
         NEW t, NEW e, IsGrown(t, r, e), e.level = k, e.lit = u,
         NEW x, x.lits = c.lits, x.list = "imported",
         NEW l \in Highest(c.lits \ {FalseLit}), x.watch = {FalseLit, l},
         NEW s, NEW V
  PROVE  WatchOK(x, t, Len(r) + 1, s, V)
<1>1. TrailOK(trail, level) /\ level \in Nat /\ k \in 0..level /\ k <= k /\ e.level <= k
      /\ Len(trail) \in Nat
  BY Parts
<1>2. /\ TrailOK(r, k) /\ Len(r) \in Nat
      /\ \A i \in 1..Len(r) : i \in 1..Len(trail) /\ r[i] = trail[i] /\ trail[i].level <= k
  BY <1>1, KeptFacts
<1>3. /\ \A i \in 1..Len(r) : t[i] = r[i] /\ i \in 1..Len(t)
      /\ t[Len(r) + 1] = e /\ Len(r) + 1 \in 1..Len(t)
      /\ \A i \in 1..Len(t) : i \in 1..Len(r) \/ i = Len(r) + 1
  BY <1>1, <1>2, GrownFacts
<1>4. /\ c.lits \in SUBSET Lits /\ c.lits \subseteq Falses /\ Implies(formula, c.lits)
      /\ FalseLit \in c.lits /\ Level(FalseLit) = level
  BY FalsifiedFacts
<1>5. \A m \in c.lits : Level(m) \in 0..level
  BY <1>4, FalseAt
<1>6. l \in c.lits /\ \A m \in c.lits \ {FalseLit} : Level(m) <= Level(l)
  BY DEF Highest
<1> SUFFICES ASSUME NEW p \in 1..Len(t), Owes(x, t, Len(r) + 1, s, V, p), t[p].level # 0
             PROVE  Served(x, t, p)
  <2>1. \A p \in 1..Len(t) : Owes(x, t, Len(r) + 1, s, V, p) =>
          p < Len(r) + 1 /\ -t[p].lit \in x.watch
    BY DEF Owes
  <2>2. (\A p \in 1..Len(t) : Owes(x, t, Len(r) + 1, s, V, p) => Served(x, t, p))
        \/ DullAt(x, t, Len(r) + 1)
    BY <2>1 DEF DullAt
  <2> QED
    BY <2>2 DEF WatchOK
<1>7. p < Len(r) + 1 /\ -t[p].lit \in x.watch
  BY DEF Owes
<1>8. p \in 1..Len(r)
  BY <1>2, <1>7
<1>9. p \in 1..Len(trail) /\ t[p] = trail[p] /\ trail[p].level <= k
  BY <1>2, <1>3, <1>8
<1>10. Level(-trail[p].lit) = trail[p].level /\ trail[p].level \in 0..level
  BY <1>9, MadeFalse, Known
<1>11. -t[p].lit = l /\ Level(l) = t[p].level
  <2>1. -t[p].lit # FalseLit
    BY <1>1, <1>4, <1>9, <1>10
  <2> QED
    BY <1>7, <1>9, <1>10, <2>1
(* Only the one literal of the clause was of the level of the conflict.    *)
<1>12. \A m \in c.lits \ {FalseLit} : Level(m) < level
  BY <1>1, <1>5, <1>6, <1>9, <1>11
<1>13. Current(Upper(c.lits)) = {FalseLit}
  BY <1>1, <1>4, <1>12 DEF Current, Upper
<1>14. Learnt(c.lits) \subseteq Upper(c.lits)
  <2>1. Cardinality(Current(Upper(c.lits))) = 1
    BY <1>13, FS_Singleton
  <2>2. FirstUIP(c.lits) = Upper(c.lits)
    BY <1>1, <2>1, FirstUIPOfOne
  <2> QED
    BY <1>4, <2>2, LearntFacts
<1>15. u = FalseLit
  BY <1>13, <1>14 DEF Current
<1>16. k <= t[p].level
  <2>1. CASE k = 0
    BY <1>9, <1>10, <2>1
  <2>2. CASE k # 0
    <3>1. PICK m \in Learnt(c.lits) \ {u} : Level(m) = k
      BY <2>2
    <3>2. m \in c.lits \ {FalseLit}
      BY <1>14, <1>15, <3>1 DEF Upper
    <3> QED
      BY <1>6, <1>11, <3>1, <3>2
  <2> QED
    BY <2>1, <2>2
<1>17. e.lit \in x.lits /\ e.level <= t[p].level
  BY <1>4, <1>15, <1>16
<1> QED
  BY <1>3, <1>17 DEF Served
LEMMA ConflictStep ==
  ASSUME IInv, NEW c \in db, Conflict(c)
  PROVE  IInv'
<1>1. /\ pc = "propagate" /\ Falsified(c) /\ level > 0 /\ conflicts < MaxConflicts
      /\ conflicts' = conflicts + 1
      /\ UNCHANGED <<formula, assumptions, decision, conflict, imports>>
  BY DEF Conflict
<1>2. PICK D \in Promote(c), leaves \in {FALSE, Ampharos /\ ~tree} :
        /\ Learn(Learnt(c.lits), D, leaves)
        /\ pc' = IF leaves THEN "walk" ELSE "top"
        /\ tree' = (tree \/ leaves)
  BY DEF Conflict
<1>3. /\ DbOK(db) /\ TrailOK(trail, level) /\ level \in Nat /\ Len(trail) \in Nat
      /\ FormulaOK(formula, db, trail, decision) /\ ~Walking
      /\ LitsOf(formula) \subseteq Lits /\ tree \in BOOLEAN
  BY <1>1, Parts, Known DEF Walking, Scalars
<1>4. /\ c.lits \in SUBSET Lits /\ c.lits \subseteq Falses /\ Implies(formula, c.lits)
      /\ FalseLit \in c.lits /\ Level(FalseLit) = level
  BY <1>1, <1>3, FalsifiedFacts
<1>5. PICK learnt : learnt = Learnt(c.lits)
  OBVIOUS
<1>6. NoGood(learnt) /\ \E u : Current(learnt) = {u}
  BY <1>1, <1>4, <1>5, LearntFacts
<1>7. PICK u : Current(learnt) = {u}
  BY <1>6
<1>8. PICK bt : bt = BacktrackLevel(learnt)
  OBVIOUS
<1>9. /\ bt \in 0..(level - 1) /\ u \in learnt /\ u \in Lits /\ Level(u) = level
      /\ (CHOOSE l \in Current(learnt) : TRUE) = u
      /\ Cardinality(learnt) = 1 <=> learnt \ {u} = {}
      /\ Cardinality(learnt) \in Nat \ {0}
      /\ (learnt \ {u} = {} => bt = 0)
      /\ \A l \in learnt \ {u} : Level(l) \in 1..bt
      /\ \A l \in Highest(learnt \ {u}) : Level(l) = bt
  BY <1>6, <1>7, <1>8, BackjumpFacts
<1>10. /\ learnt \in SUBSET Lits /\ learnt \subseteq Falses /\ learnt \subseteq LitsOf(formula)
       /\ Implies(formula, learnt)
  BY <1>3, <1>6 DEF NoGood, Implies
<1>11. PICK k \in Nat : k = IF leaves THEN 0 ELSE bt
  BY <1>9
<1>12. k < level /\ k \in 0..level
  BY <1>1, <1>3, <1>9, <1>11
<1>13. PICK r : r = UpTo(k)
  OBVIOUS
<1>14. /\ IsKept(r, trail, k) /\ TrailOK(r, k) /\ Len(r) \in 0..Len(trail)
       /\ \A i \in 1..Len(r) : i \in 1..Len(trail) /\ r[i] = trail[i] /\ trail[i].level <= k
       /\ \A i \in 1..Len(trail) : trail[i].level <= k => i \in 1..Len(r)
  BY <1>3, <1>12, <1>13, UpToKept, KeptFacts
<1> DEFINE new == [lits |-> learnt, list |-> "learnts"]
           unit == learnt \ {u} = {}
<1>15. /\ level' = k /\ qhead' = Len(r) + 1
       /\ unit => trail' = Append(r, Entry(u, 0, NoReason)) /\ db' = D /\ bt = 0 /\ k = 0
       /\ ~unit => /\ leaves => trail' = r
                   /\ ~leaves => trail' = Append(r, Entry(u, bt, new))
                   /\ \E l \in Highest(learnt \ {u}) :
                        db' = D \cup {Clause(learnt, "learnts", {u, l})}
  <2>1. UpTo(IF leaves THEN 0 ELSE bt) = r
    BY <1>11, <1>13
  <2> QED
    BY <1>2, <1>5, <1>8, <1>9, <1>11, <2>1 DEF Learn, SecondWatch
<1>16. /\ DbOK(D) /\ RefsOf(D) = RefsOf(db)
       /\ \A x \in D :
            \/ x \in db
            \/ /\ x.lits = c.lits /\ x.list = "imported"
               /\ \E l \in Highest(c.lits \ {FalseLit}) : x.watch = {FalseLit, l}
  BY <1>1, PromoteFacts
<1>17. \A x \in D : Implies(formula, x.lits)
  <2>1. \A x \in db : Implies(formula, x.lits)
    BY Parts DEF EntailedBy
  <2> QED
    BY <1>16, <2>1, RefsFacts
<1>18. Scalars' /\ VerdictIsRight'
  <2>1. conflicts' \in 0..MaxConflicts
    BY <1>1, Parts, BoundsAssumption DEF Scalars
  <2>2. tree' \in BOOLEAN /\ pc' \in {"top", "walk"}
    BY <1>2
  <2> QED
    BY <1>1, <2>1, <2>2, Parts DEF Scalars, VerdictIsRight
<1>19. \A i \in 1..Len(r) : Var(r[i].lit) # Var(u) /\ r[i].level <= k
  <2> SUFFICES ASSUME NEW i \in 1..Len(r), Var(r[i].lit) = Var(u) PROVE FALSE
    BY <1>14
  <2>1. i \in 1..Len(trail) /\ trail[i].level <= k /\ trail[i].lit \in Lits /\ trail[i] = r[i]
    BY <1>14, Known
  <2>2. trail[i].lit = u \/ trail[i].lit = -u
    BY <1>9, <2>1, SameVar
  <2>3. Level(u) = trail[i].level
    BY <1>3, <1>9, <2>1, <2>2, PositionIs
  <2> QED
    BY <1>3, <1>9, <1>12, <2>1, <2>3
(* The promoted clause, wherever the thread goes on.                       *)
<1>20. ASSUME NEW t, NEW e, IsGrown(t, r, e), e.level = k, e.lit = u, k = bt
       PROVE  \A x \in D : x \in db \/ \A s : WatchOK(x, t, Len(r) + 1, s, FALSE)
  <2> SUFFICES ASSUME NEW x \in D, x \notin db, NEW s
               PROVE  WatchOK(x, t, Len(r) + 1, s, FALSE)
    OBVIOUS
  <2>1. PICK l \in Highest(c.lits \ {FalseLit}) : x.watch = {FalseLit, l}
    BY <1>16
  <2>2. x.lits = c.lits /\ x.list = "imported"
    BY <1>16
  <2>3. \A m \in learnt \ {u} : Level(m) <= k
    BY <1>9, <1>20
  <2>4. k > 0 => \E m \in learnt \ {u} : Level(m) = k
    <3> SUFFICES ASSUME learnt \ {u} # {} PROVE \E m \in learnt \ {u} : Level(m) = k
      BY <1>9, <1>20
    <3>1. \E m \in learnt \ {u} : m \in Highest(learnt \ {u})
      BY <1>10, HighestIs
    <3> QED
      BY <1>9, <1>20, <3>1
  <2>5. Current(Learnt(c.lits)) = {u} /\ Learnt(c.lits) = learnt
    BY <1>5, <1>7
  <2> QED
    BY <1>1, <1>3, <1>12, <1>14, <1>20, <2>1, <2>2, <2>3, <2>4, <2>5, PromotedWatchOK
<1>21. CASE unit
  <2>1. PICK e : e = Entry(u, 0, NoReason)
    OBVIOUS
  <2>2. /\ e.lit = u /\ e.level = 0 /\ e.reason = NoReason /\ e \in Entries
        /\ trail' = Append(r, e) /\ db' = D /\ k = 0
    <3>1. NoReason \in Refs
      BY DEF NoReason, Refs
    <3> QED
      BY <1>9, <1>15, <1>21, <2>1, <3>1 DEF Entry, Entries
  <2>3. IsGrown(trail', r, e)
    BY <1>14, <1>19, <2>2 DEF IsGrown, IsKept
  <2>4. \A x \in db' : x \in db \/ \A s : WatchOK(x, trail', qhead', s, Walking')
    <3> SUFFICES ASSUME NEW x \in D, x \notin db, NEW s
                 PROVE  WatchOK(x, trail', qhead', s, Walking')
      BY <2>2
    <3>1. x.list # "clauses"
      BY <1>16
    <3>2. TrailOK(trail', 0)
      BY <1>14, <2>2, <2>3, GrownFacts
    <3>3. \A p \in 1..Len(trail') : trail'[p].level = 0
      BY <3>2, EntryFacts
    <3> QED
      BY <3>1, <3>3, WatchDull
  <2>5. learnt = {u}
    BY <1>9, <1>21
  <2>6. Implies(formula, {e.lit}) /\ e.lit \in LitsOf(formula)
    BY <1>9, <1>10, <2>2, <2>5
  <2>7. \/ pc' = "top" /\ tree' = tree
        \/ pc' = "walk" /\ ~tree /\ tree' /\ k = 0
    BY <1>2, <1>3, <2>2
  <2>8. DbOK(db') /\ RefsOf(db) \subseteq RefsOf(db') /\ \A x \in db' : Implies(formula, x.lits)
    BY <1>16, <1>17, <2>2
  <2> QED
    BY <1>1, <1>12, <1>14, <1>15, <1>18, <2>2, <2>3, <2>4, <2>6, <2>7, <2>8, JumpStep
<1>22. CASE ~unit
  <2>1. PICK l \in Highest(learnt \ {u}) : db' = D \cup {Clause(learnt, "learnts", {u, l})}
    BY <1>15, <1>22
  <2>2. /\ l \in learnt /\ l # u /\ l \in Lits /\ l \in Falses /\ Level(l) = bt
        /\ bt > 0 /\ u \in Falses
    BY <1>9, <1>10 DEF Highest
  <2>3. Cardinality(learnt) > 1
    BY <1>9, <1>22
  <2>4. Cardinality({u, l}) = 2
    BY <2>2, PairFacts
  <2>5. DbOK(db') /\ RefsOf(D) \subseteq RefsOf(db') /\ new \in RefsOf(db')
    <3>1. PICK list : list = "learnts"
      OBVIOUS
    <3>2. PICK W : W = {u, l}
      OBVIOUS
    <3>3. list \in Lists /\ W \in SUBSET learnt /\ Cardinality(W) \in 1..2 /\ Cardinality(W) # 1
      BY <1>9, <2>2, <2>4, <3>1, <3>2 DEF Lists
    <3>4. db' = D \cup {Clause(learnt, list, W)} /\ new = [lits |-> learnt, list |-> list]
      BY <2>1, <3>1, <3>2
    <3> QED
      BY <1>10, <1>16, <2>3, <3>3, <3>4, NewClause
  <2>6. \A x \in db' : x \in D \/ (x.lits = learnt /\ x.list = "learnts" /\ x.watch = {u, l})
    BY <2>1 DEF Clause
  <2>7. \A x \in db' : Implies(formula, x.lits)
    BY <1>10, <1>17, <2>6
  <2>8. CASE leaves
    <3>1. trail' = r /\ k = 0 /\ pc' = "walk" /\ tree'
      BY <1>2, <1>11, <1>15, <1>22, <2>8
    <3>2. Walking'
      BY <3>1 DEF Walking
    <3>3. \A p \in 1..Len(trail') : trail'[p].level = 0
      BY <1>14, <3>1, EntryFacts
    <3>4. \A x \in db' : x \in db \/ \A s : WatchOK(x, trail', qhead', s, Walking')
      <4> SUFFICES ASSUME NEW x \in db', x \notin db, NEW s
                   PROVE  WatchOK(x, trail', qhead', s, Walking')
        OBVIOUS
      <4>1. x.list # "clauses"
        BY <1>16, <2>6
      <4> QED
        BY <3>3, <4>1, WatchDull
    <3>5. FormulaOK(formula, db', trail', decision')
      <4>1. RefsOf(db) \subseteq RefsOf(db')
        BY <1>16, <2>5
      <4> QED
        BY <1>1, <1>3, <1>12, <1>14, <3>1, <4>1, FormulaKept
    <3> QED
      BY <1>1, <1>12, <1>14, <1>15, <1>18, <2>5, <2>7, <3>1, <3>2, <3>4, <3>5, BackStep
  <2>9. CASE ~leaves
    <3>1. PICK e : e = Entry(u, bt, new)
      OBVIOUS
    <3>2. /\ e.lit = u /\ e.level = bt /\ e.reason = new /\ e \in Entries
          /\ trail' = Append(r, e) /\ k = bt /\ pc' = "top" /\ tree' = tree
      <4>1. new \in Refs
        BY <1>10 DEF Refs, Lists
      <4>2. bt \in Nat
        BY <1>9
      <4> HIDE DEF new
      <4> QED
        BY <1>2, <1>3, <1>9, <1>11, <1>15, <1>22, <2>9, <3>1, <4>1, <4>2 DEF Entry, Entries
    <3>3. new.lits = learnt /\ new # NoReason
      BY <1>9 DEF NoReason
    <3>4. IsGrown(trail', r, e)
      BY <1>14, <1>19, <2>2, <3>2, <3>3 DEF IsGrown, IsKept
    <3>5. /\ Len(r) \in Nat
          /\ \A i \in 1..Len(r) : trail'[i] = r[i]
          /\ trail'[Len(r) + 1] = e
      BY <1>11, <1>14, <3>2, <3>4, GrownFacts
    <3>6. ASSUME NEW m \in learnt \ {u}
          PROVE  \E j \in 1..Len(r) : trail'[j].lit = -m /\ trail'[j].level = Level(m)
      <4>1. m \in Lits /\ m \in Falses /\ Level(m) \in 1..bt
        BY <1>9, <1>10, <3>6
      <4>2. PICK i \in 1..Len(trail) : trail[i].lit = -m /\ Level(m) = trail[i].level
        BY <4>1, FalseAt
      <4>3. i \in 1..Len(r) /\ trail'[i] = trail[i]
        BY <1>14, <3>2, <3>5, <4>1, <4>2
      <4> QED
        BY <4>2, <4>3
    <3>7. ReasonOK(trail', RefsOf(db'), TRUE, Len(r) + 1)
      <4>1. \A m \in learnt \ {u} : \E j \in 1..(Len(r) + 1 - 1) : trail'[j].lit = -m
        BY <3>5, <3>6
      <4>2. \E j \in 1..(Len(r) + 1 - 1) : -trail'[j].lit \in learnt /\ trail'[j].level = bt
        <5>1. PICK j \in 1..Len(r) : trail'[j].lit = -l /\ trail'[j].level = Level(l)
          BY <2>2, <3>6
        <5>2. -trail'[j].lit = l
          BY <2>2, <5>1, LitFacts
        <5> QED
          BY <2>2, <3>5, <5>1, <5>2
      <4> HIDE DEF new
      <4> QED
        BY <1>9, <2>5, <3>2, <3>3, <3>5, <4>1, <4>2 DEF ReasonOK
    <3>8. \A x \in db' : x \in db \/ \A s : WatchOK(x, trail', qhead', s, Walking')
      <4>0. PICK V : V = FALSE
        OBVIOUS
      <4>1. Walking' = V
        BY <3>2, <4>0 DEF Walking
      <4>2. ASSUME NEW x \in db', x \notin D, NEW s
            PROVE  WatchOK(x, trail', Len(r) + 1, s, V)
        <5>1. x.watch = {u, l} /\ e.lit \in x.lits
          BY <1>9, <2>6, <3>2, <4>2
        <5>2. Level(l) = k /\ e.level = k
          BY <2>2, <3>2
        <5> QED
          BY <1>9, <1>12, <1>14, <2>2, <3>4, <5>1, <5>2, LearntWatchOK
      <4>3. \A x \in D : x \in db \/ \A s : WatchOK(x, trail', Len(r) + 1, s, FALSE)
        BY <1>20, <3>2, <3>4
      <4> QED
        BY <1>15, <4>0, <4>1, <4>2, <4>3
    <3>9. k > 0 /\ e.level = k /\ e.lit \in LitsOf(formula)
      BY <1>9, <1>10, <2>2, <3>2
    <3>10. RefsOf(db) \subseteq RefsOf(db')
      BY <1>16, <2>5
    <3> QED
      BY <1>1, <1>12, <1>14, <1>15, <1>18, <2>5, <2>7, <3>2, <3>4, <3>7, <3>8, <3>9, <3>10,
         JumpStep
  <2> QED
    BY <2>8, <2>9
<1> QED
  BY <1>21, <1>22
-----------------------------------------------------------------------------
(* analyzeFinal walks back along the trail too: T[i] is what is known of   *)
(* the final conflict when the literals after the i-th have been looked at.*)
IsTrace(T, q) ==
  /\ T[Len(trail)] = [seen |-> {q}, out |-> {q}]
  /\ \A i \in 0..(Len(trail) - 1) : T[i] = Traced(T[i + 1], trail[i + 1])

LEMMA TraceIs ==
  ASSUME NEW q, Len(trail) \in Nat
  PROVE  \E T : IsTrace(T, q) /\ FinalConflict(q) = T[0].out
<1> DEFINE n == Len(trail)
           start == [seen |-> {q}, out |-> {q}]
           S == {m \in Nat : m <= n => \E f : f = [i \in (n - m)..n |->
                  IF i = n THEN start ELSE Traced(f[i + 1], trail[i + 1])]}
<1> HIDE DEF start
<1>1. 0 \in S
  <2> DEFINE g == [i \in (n - 0)..n |-> start]
  <2>1. g = [i \in (n - 0)..n |->
               IF i = n THEN start ELSE Traced(g[i + 1], trail[i + 1])]
    OBVIOUS
  <2> QED
    BY <2>1
<1>2. ASSUME NEW m \in Nat, m \in S PROVE m + 1 \in S
  <2> SUFFICES ASSUME m + 1 <= n
               PROVE  \E f : f = [i \in (n - (m + 1))..n |->
                        IF i = n THEN start ELSE Traced(f[i + 1], trail[i + 1])]
    OBVIOUS
  <2>1. PICK f : f = [i \in (n - m)..n |->
                 IF i = n THEN start ELSE Traced(f[i + 1], trail[i + 1])]
    BY <1>2
  <2>2. PICK g : g = [i \in (n - (m + 1))..n |->
                 IF i >= n - m THEN f[i] ELSE Traced(f[i + 1], trail[i + 1])]
    OBVIOUS
  <2>3. ASSUME NEW i \in (n - (m + 1))..n
        PROVE  g[i] = IF i = n THEN start ELSE Traced(g[i + 1], trail[i + 1])
    <3>1. CASE i = n
      <4>1. f[n] = start
        BY <2>1
      <4> QED
        BY <2>2, <3>1, <4>1
    <3>2. CASE i # n /\ i >= n - m
      <4>1. f[i] = Traced(f[i + 1], trail[i + 1])
        BY <2>1, <3>2
      <4>2. g[i] = f[i] /\ g[i + 1] = f[i + 1]
        BY <2>2, <3>2
      <4> QED
        BY <3>2, <4>1, <4>2
    <3>3. CASE i = n - (m + 1)
      <4>1. g[i] = Traced(f[i + 1], trail[i + 1]) /\ g[i + 1] = f[i + 1] /\ i # n
        BY <2>2, <3>3
      <4> QED
        BY <4>1
    <3> QED
      BY <3>1, <3>2, <3>3
  <2>4. g = [i \in (n - (m + 1))..n |->
               IF i = n THEN start ELSE Traced(g[i + 1], trail[i + 1])]
    <3>1. g = [i \in (n - (m + 1))..n |-> g[i]]
      BY <2>2
    <3> QED
      BY <2>3, <3>1
  <2> QED
    BY <2>4
<1> HIDE DEF S
<1>3. n \in S
  BY <1>1, <1>2, SetInduction
<1>4. \E f : f = [i \in 0..n |-> IF i = n THEN start ELSE Traced(f[i + 1], trail[i + 1])]
  BY <1>3 DEF S
<1>5. PICK T : T = CHOOSE f : f = [i \in 0..n |->
                    IF i = n THEN start ELSE Traced(f[i + 1], trail[i + 1])]
  OBVIOUS
<1>6. T = [i \in 0..n |-> IF i = n THEN start ELSE Traced(T[i + 1], trail[i + 1])]
  BY <1>4, <1>5
<1>7. FinalConflict(q) = T[0].out
  BY <1>5 DEF FinalConflict, start
<1>8. IsTrace(T, q)
  <2>1. T[n] = start
    BY <1>6
  <2>2. \A i \in 0..(n - 1) : T[i] = Traced(T[i + 1], trail[i + 1])
    BY <1>6
  <2> QED
    BY <2>1, <2>2 DEF IsTrace, start
<1> QED
  BY <1>7, <1>8

(* A model makes a literal of out true, or one false that is seen but was  *)
(* not looked at; and until a decision is found, one such literal is left. *)
TraceOK(d, i, q) ==
  /\ d.seen \subseteq Trues /\ q \in d.out
  /\ \A l \in d.out : l = q \/ \E j \in 1..Len(trail) :
       l = -trail[j].lit /\ trail[j].reason = NoReason /\ trail[j].level > 0
  /\ \A m \in ModelsOf[formula] :
       d.out \cap m # {} \/ \E x \in d.seen : Position(x) <= i /\ -x \in m
  /\ Level(q) > 0 =>
       (\E l \in d.out : l # q) \/ \E x \in d.seen : Position(x) <= i /\ Level(x) > 0

LEMMA TraceStep ==
  ASSUME IInv, ~Walking, NEW q \in Trues, NEW i \in 1..Len(trail), NEW d, TraceOK(d, i, q)
  PROVE  TraceOK(Traced(d, trail[i]), i - 1, q)
<1> DEFINE e == trail[i]
<1>1. /\ e.lit \in Lits /\ e.lit \in Trues /\ e.lit \in LitsOf(formula)
      /\ Position(e.lit) = i /\ Level(e.lit) = e.level /\ e.level \in 0..level
      /\ Len(trail) \in Nat /\ TrailOK(trail, level)
  BY MadeFalse, Known DEF Trues
<1>2. ASSUME NEW x \in Trues
      PROVE  Position(x) \in 1..Len(trail) /\ (Position(x) <= i => x = e.lit \/ Position(x) <= i - 1)
  <2>1. PICK j \in 1..Len(trail) : trail[j].lit = x
    BY DEF Trues
  <2>2. Position(x) = j
    BY <2>1, MadeFalse
  <2> QED
    BY <1>1, <2>1, <2>2
<1>3. CASE e.lit \notin d.seen
  <2>1. Traced(d, e) = d
    BY <1>3 DEF Traced
  <2>2. \A x \in d.seen : Position(x) <= i => Position(x) <= i - 1
    BY <1>2, <1>3 DEF TraceOK
  <2> QED
    BY <2>1, <2>2 DEF TraceOK
<1>4. CASE e.lit \in d.seen /\ e.level = 0
  <2>1. Traced(d, e) = d
    BY <1>4 DEF Traced
  <2>2. ASSUME NEW x \in d.seen, Position(x) <= i, Level(x) > 0 \/ \E m \in ModelsOf[formula] : -x \in m
        PROVE  Position(x) <= i - 1
    <3> SUFFICES x # e.lit
      BY <1>2, <2>2 DEF TraceOK
    <3> SUFFICES ASSUME x = e.lit, NEW m \in ModelsOf[formula], -x \in m PROVE FALSE
      BY <1>1, <1>4, <2>2
    <3> QED
      BY <1>4, RootInModel
  <2>3. \A m \in ModelsOf[formula] :
          d.out \cap m # {} \/ \E x \in d.seen : Position(x) <= i - 1 /\ -x \in m
    BY <2>2 DEF TraceOK
  <2>4. Level(q) > 0 =>
          (\E l \in d.out : l # q) \/ \E x \in d.seen : Position(x) <= i - 1 /\ Level(x) > 0
    BY <2>2 DEF TraceOK
  <2> QED
    BY <2>1, <2>3, <2>4 DEF TraceOK
<1>5. CASE e.lit \in d.seen /\ e.level # 0 /\ e.reason = NoReason
  <2>1. PICK f : f = Traced(d, e)
    OBVIOUS
  <2>2. f.seen = d.seen /\ f.out = d.out \cup {-e.lit}
    BY <1>5, <2>1 DEF Traced
  <2>3. \A l \in f.out : l = q \/ \E j \in 1..Len(trail) :
          l = -trail[j].lit /\ trail[j].reason = NoReason /\ trail[j].level > 0
    BY <1>1, <1>5, <2>2 DEF TraceOK
  <2>4. ASSUME NEW m \in ModelsOf[formula]
        PROVE  f.out \cap m # {} \/ \E x \in f.seen : Position(x) <= i - 1 /\ -x \in m
    <3>1. CASE d.out \cap m # {}
      BY <2>2, <3>1
    <3>2. CASE \E x \in d.seen : Position(x) <= i /\ -x \in m
      <4>1. PICK x \in d.seen : Position(x) <= i /\ -x \in m
        BY <3>2
      <4>2. x = e.lit \/ Position(x) <= i - 1
        BY <1>2, <4>1 DEF TraceOK
      <4> QED
        BY <2>2, <4>1, <4>2
    <3> QED
      BY <3>1, <3>2 DEF TraceOK
  <2>5. \E l \in f.out : l # q
    <3>1. -e.lit \in Falses /\ -e.lit \in Lits
      BY MadeFalse
    <3>2. -e.lit # q
      BY <1>1, <3>1, ValueFacts
    <3> QED
      BY <2>2, <3>2
  <2>6. TraceOK(f, i - 1, q)
    BY <2>2, <2>3, <2>4, <2>5 DEF TraceOK
  <2> QED
    BY <2>1, <2>6
<1>6. CASE e.lit \in d.seen /\ e.level # 0 /\ e.reason # NoReason
  <2> DEFINE others == e.reason.lits \ {e.lit}
  <2>1. PICK f : f = Traced(d, e)
    OBVIOUS
  <2>2. f.seen = d.seen \cup {-l : l \in Upper(others)} /\ f.out = d.out
    BY <1>6, <2>1 DEF Traced
  <2>3. /\ others \in SUBSET Lits /\ others \subseteq Falses
        /\ Implies(formula, e.reason.lits)
        /\ \A l \in others : Position(l) \in 1..(i - 1)
        /\ \E l \in others : Level(l) = e.level
    BY <1>6, ReasonFacts
  <2>4. ASSUME NEW l \in others
        PROVE  -l \in Trues /\ Position(-l) = Position(l) /\ Level(-l) = Level(l) /\ -(-l) = l
    <3>1. l \in Lits /\ l \in Falses
      BY <2>3
    <3>2. PICK j \in 1..Len(trail) : trail[j].lit = -l /\ l = -trail[j].lit
      BY <3>1, FalseAt
    <3> QED
      BY <3>2, MadeFalse DEF Trues
  <2>5. f.seen \subseteq Trues
    BY <2>2, <2>4 DEF TraceOK, Upper
  <2>6. ASSUME NEW m \in ModelsOf[formula]
        PROVE  f.out \cap m # {} \/ \E x \in f.seen : Position(x) <= i - 1 /\ -x \in m
    <3>1. CASE d.out \cap m # {}
      BY <2>2, <3>1
    <3>2. CASE \E x \in d.seen : Position(x) <= i /\ -x \in m
      <4>1. PICK x \in d.seen : Position(x) <= i /\ -x \in m
        BY <3>2
      <4>2. CASE Position(x) <= i - 1
        BY <2>2, <4>1, <4>2
      <4>3. CASE x = e.lit
        <5>1. PICK l \in e.reason.lits : l \in m
          BY <2>3 DEF Implies
        <5>2. e.lit \notin m
          BY <1>1, <4>1, <4>3, Known, ModelFacts
        <5>3. l \in others
          BY <5>1, <5>2
        <5>4. l \in Upper(others)
          BY <2>3, <5>1, <5>3, UpperHits
        <5>5. -l \in f.seen /\ -(-l) \in m /\ Position(-l) \in 1..(i - 1)
          BY <2>2, <2>3, <2>4, <5>1, <5>3, <5>4
        <5>6. Position(-l) <= i - 1
          BY <5>5
        <5> QED
          BY <5>5, <5>6
      <4> QED
        BY <1>2, <4>1, <4>2, <4>3 DEF TraceOK
    <3> QED
      BY <3>1, <3>2 DEF TraceOK
  <2>7. \E x \in f.seen : Position(x) <= i - 1 /\ Level(x) > 0
    <3>1. PICK l \in others : Level(l) = e.level
      BY <2>3
    <3>2. l \in Upper(others) /\ Level(-l) > 0 /\ Position(-l) \in 1..(i - 1)
      BY <1>1, <1>6, <2>3, <2>4, <3>1 DEF Upper
    <3>3. -l \in f.seen /\ Position(-l) <= i - 1
      BY <2>2, <3>2
    <3> QED
      BY <3>2, <3>3
  <2>8. TraceOK(f, i - 1, q)
    BY <2>2, <2>5, <2>6, <2>7 DEF TraceOK
  <2> QED
    BY <2>1, <2>8
<1> QED
  BY <1>3, <1>4, <1>5, <1>6
LEMMA FinalConflictFacts ==
  ASSUME IInv, ~Walking, NEW q \in Trues
  PROVE  /\ q \in FinalConflict(q)
         /\ \A l \in FinalConflict(q) : l = q \/ \E j \in 1..Len(trail) :
              l = -trail[j].lit /\ trail[j].reason = NoReason /\ trail[j].level > 0
         /\ Implies(formula, FinalConflict(q))
         /\ Level(q) > 0 => \E l \in FinalConflict(q) : l # q
<1>1. Len(trail) \in Nat
  BY Known
<1>2. PICK T : IsTrace(T, q) /\ FinalConflict(q) = T[0].out
  BY <1>1, TraceIs
<1>3. /\ q \in LitsOf(formula) /\ q \in Lits /\ Position(q) \in 1..Len(trail)
      /\ \A x \in Trues : Position(x) \in 1..Len(trail)
  <2>1. \A x \in Trues : x \in LitsOf(formula) /\ x \in Lits /\ Position(x) \in 1..Len(trail)
    BY Known, MadeFalse DEF Trues
  <2> QED
    BY <2>1
<1>4. TraceOK(T[Len(trail)], Len(trail), q)
  <2>1. PICK d : d = T[Len(trail)]
    OBVIOUS
  <2>2. d.seen = {q} /\ d.out = {q}
    BY <1>2, <2>1 DEF IsTrace
  <2>3. \A m \in ModelsOf[formula] : q \in m \/ -q \in m
    BY <1>3, Known, ModelFacts
  <2>4. Position(q) <= Len(trail)
    BY <1>1, <1>3
  <2>5. TraceOK(d, Len(trail), q)
    BY <2>2, <2>3, <2>4 DEF TraceOK
  <2> QED
    BY <2>1, <2>5
<1> DEFINE S == {n \in Nat : n <= Len(trail) => TraceOK(T[Len(trail) - n], Len(trail) - n, q)}
<1>5. 0 \in S
  <2>1. Len(trail) - 0 = Len(trail)
    BY <1>1
  <2> QED
    BY <1>4, <2>1
<1>6. ASSUME NEW n \in Nat, n \in S PROVE n + 1 \in S
  <2> SUFFICES ASSUME n + 1 <= Len(trail)
               PROVE  TraceOK(T[Len(trail) - (n + 1)], Len(trail) - (n + 1), q)
    OBVIOUS
  <2>1. PICK i \in 1..Len(trail) : i = Len(trail) - n
    BY <1>1
  <2>2. i - 1 = Len(trail) - (n + 1) /\ i - 1 \in 0..(Len(trail) - 1) /\ i - 1 + 1 = i
    BY <1>1, <2>1
  <2>3. TraceOK(T[i], i, q)
    BY <1>1, <1>6, <2>1
  <2>4. T[i - 1] = Traced(T[i], trail[i])
    BY <1>2, <2>2 DEF IsTrace
  <2>5. TraceOK(T[i - 1], i - 1, q)
    BY <2>3, <2>4, TraceStep
  <2> QED
    BY <2>2, <2>5
<1> HIDE DEF S
<1>7. Len(trail) \in S
  BY <1>1, <1>5, <1>6, SetInduction
<1>8. TraceOK(T[0], 0, q)
  <2>1. Len(trail) - Len(trail) = 0 /\ Len(trail) <= Len(trail)
    BY <1>1
  <2> QED
    BY <1>7, <2>1 DEF S
<1>9. \A x \in T[0].seen : ~(Position(x) <= 0)
  BY <1>3, <1>8 DEF TraceOK
<1>10. \A m \in ModelsOf[formula] : T[0].out \cap m # {}
  BY <1>8, <1>9 DEF TraceOK
<1>11. T[0].out \subseteq LitsOf(formula)
  BY <1>3, <1>8, Known DEF TraceOK
<1>12. Level(q) > 0 => \E l \in T[0].out : l # q
  BY <1>8, <1>9 DEF TraceOK
<1> QED
  BY <1>2, <1>8, <1>10, <1>11, <1>12 DEF TraceOK, Implies

(* Two literals of least variables.                                        *)
LEMMA LeastVar ==
  ASSUME NEW S \in SUBSET Lits, S # {}
  PROVE  \E a \in S : \A l \in S : Var(a) <= Var(l)
<1> DEFINE T == {Var(l) : l \in S}
<1>1. \A l \in S : Var(l) \in Nat
  BY LitFacts, VarsAssumption
<1>2. T \in SUBSET Nat /\ T # {}
  BY <1>1
<1>3. PICK n \in T : \A y \in T : n <= y
  BY <1>2, LeastNatural
<1>4. PICK a \in S : n = Var(a)
  BY <1>3
<1> QED
  BY <1>3, <1>4

LEMMA FirstTwoIs ==
  ASSUME NEW lits \in SUBSET Lits, Cardinality(lits) > 1, \A l \in lits : -l \notin lits
  PROVE  FirstTwo(lits) \in SUBSET lits /\ Cardinality(FirstTwo(lits)) = 2
<1>1. IsFiniteSet(lits)
  BY LitsFinite
<1>2. PICK x \in lits, y \in lits : x # y
  BY <1>1, SizeFacts
<1>3. PICK a \in lits : \A l \in lits : Var(a) <= Var(l)
  BY <1>2, LeastVar
<1>4. lits \ {a} \in SUBSET Lits /\ lits \ {a} # {}
  BY <1>2
<1>5. PICK b \in lits \ {a} : \A l \in lits \ {a} : Var(b) <= Var(l)
  BY <1>4, LeastVar
<1>6. \A l, k \in lits : Var(l) = Var(k) => l = k
  BY SameVar, LitFacts
<1>7. \A l \in lits : Var(l) \in Nat
  BY LitFacts, VarsAssumption
<1> DEFINE W == {a, b}
<1>8. Cardinality(W) = 2 /\ W \in SUBSET lits
  BY <1>5, PairFacts
<1>9. \A l \in W, k \in lits \ W : Var(l) < Var(k)
  BY <1>3, <1>5, <1>6, <1>7
<1> HIDE DEF W
<1> QED
  BY <1>8, <1>9 DEF FirstTwo
LEMMA RefuteStep ==
  ASSUME IInv, Refute
  PROVE  IInv'
<1>1. /\ pc = "propagate" /\ pc' = "refuted" /\ ~(qhead <= Len(trail))
      /\ level < Len(assumptions) /\ CancelUntil(0)
      /\ UNCHANGED <<formula, assumptions, decision, tree, conflicts, imports>>
  BY DEF Refute, Quiet, Pending
<1>2. PICK q : q = -assumptions[level + 1]
  OBVIOUS
<1>3. PICK lits : lits = FinalConflict(q)
  OBVIOUS
<1>4. /\ q \in Trues /\ conflict' = [first |-> q, lits |-> lits]
      /\ db' = IF Level(q) = 0 \/ \E l \in lits : -l \in lits THEN db
               ELSE db \cup {Clause(lits, "clauses", FirstTwo(lits))}
  BY <1>2, <1>3 DEF Refute
<1>5. /\ DbOK(db) /\ TrailOK(trail, level) /\ level \in Nat /\ Len(trail) \in Nat
      /\ FormulaOK(formula, db, trail, decision) /\ ~Walking /\ ~Walking'
      /\ LitsOf(formula) \subseteq Lits /\ qhead = Len(trail) + 1
      /\ Len(assumptions) \in Nat /\ CubeOK(assumptions, trail, level)
  BY <1>1, Parts, Known DEF Walking
<1>6. /\ q \in lits /\ Implies(formula, lits)
      /\ \A l \in lits : l = q \/ \E j \in 1..Len(trail) :
           l = -trail[j].lit /\ trail[j].reason = NoReason /\ trail[j].level > 0
      /\ Level(q) > 0 => \E l \in lits : l # q
  BY <1>3, <1>4, <1>5, FinalConflictFacts
<1>7. lits \in SUBSET Lits
  BY <1>5, <1>6 DEF Implies
<1>8. Scalars' /\ VerdictIsRight'
  <2>1. conflict'.lits = lits /\ conflict'.first = q
    BY <1>4
  <2>2. Scalars'
    BY <1>1, <1>7, <2>1, Parts DEF Scalars
  <2>3. PICK i : i = level + 1
    OBVIOUS
  <2>4. i \in 1..Len(assumptions) /\ q = -assumptions[i]
    BY <1>1, <1>2, <1>5, <2>3
  <2>5. ASSUME NEW l \in lits, l # q PROVE \E j \in 1..i : l = -assumptions[j]
    <3>1. PICK j \in 1..Len(trail) :
            l = -trail[j].lit /\ trail[j].reason = NoReason /\ trail[j].level > 0
      BY <1>6, <2>5
    <3>2. trail[j].level \in 1..Len(assumptions) /\ trail[j].level \in 1..i
      BY <1>1, <1>5, <2>3, <3>1, EntryFacts
    <3>3. trail[j].lit = assumptions[trail[j].level]
      BY <1>5, <3>1, <3>2 DEF CubeOK
    <3> QED
      BY <3>1, <3>2, <3>3
  <2>6. lits \subseteq {-assumptions[j] : j \in 1..i} \cup {q}
    BY <2>5
  <2>7. lits \subseteq LitsOf(formula) /\ \A m \in ModelsOf[formula] : lits \cap m # {}
    BY <1>6 DEF Implies
  <2> QED
    BY <1>1, <2>1, <2>2, <2>4, <2>6, <2>7 DEF VerdictIsRight, Implied
<1>9. CASE ~(0 < level)
  <2>1. UNCHANGED <<trail, qhead, level>> /\ level = 0
    BY <1>1, <1>5, <1>9, CancelFacts
  <2>2. Level(q) = 0
    <3>1. PICK i \in 1..Len(trail) : trail[i].lit = q
      BY <1>4 DEF Trues
    <3> QED
      BY <1>5, <2>1, <3>1, MadeFalse, EntryFacts
  <2>3. db' = db
    BY <1>4, <2>2
  <2>4. QueueOK'
    BY <1>1, <1>5, <2>1, Parts DEF QueueOK
  <2>5. Walking' = Walking
    BY <1>1 DEF Walking
  <2> QED
    BY <1>1, <1>8, <2>1, <2>3, <2>4, <2>5, IdleStep
<1>10. CASE 0 < level
  <2>1. 0 \in Nat /\ IsKept(trail', trail, 0) /\ level' = 0 /\ qhead' = Len(trail') + 1
        /\ 0 \in 0..level
    BY <1>1, <1>10, CancelFacts
  <2>2. /\ DbOK(db') /\ RefsOf(db) \subseteq RefsOf(db')
        /\ \A c \in db' : Implies(formula, c.lits)
        /\ \A c \in db' : c \in db \/ \A s : WatchOK(c, trail', qhead', s, Walking')
    <3>1. \A c \in db : Implies(formula, c.lits)
      BY Parts DEF EntailedBy
    <3>2. CASE db' = db
      BY <1>5, <3>1, <3>2
    <3>3. CASE db' # db
      <4>1. /\ Level(q) # 0 /\ \A l \in lits : -l \notin lits
            /\ db' = db \cup {Clause(lits, "clauses", FirstTwo(lits))}
        BY <1>4, <3>3
      <4>2. PICK iq \in 1..Len(trail) : trail[iq].lit = q
        BY <1>4 DEF Trues
      <4>3. Level(q) = trail[iq].level /\ trail[iq].level \in 0..level
        BY <4>2, MadeFalse, Known
      <4>4. Cardinality(lits) > 1
        <5>1. IsFiniteSet(lits) /\ \E l \in lits : l # q
          BY <1>6, <1>7, <4>1, <4>3, LitsFinite
        <5> QED
          BY <1>6, <5>1, SizeFacts
      <4>5. FirstTwo(lits) \in SUBSET lits /\ Cardinality(FirstTwo(lits)) = 2
        BY <1>7, <4>1, <4>4, FirstTwoIs
      <4>6. DbOK(db') /\ RefsOf(db) \subseteq RefsOf(db')
        <5>1. PICK list : list = "clauses"
          OBVIOUS
        <5>2. PICK W : W = FirstTwo(lits)
          OBVIOUS
        <5>3. list \in Lists /\ W \in SUBSET lits /\ Cardinality(W) \in 1..2 /\ Cardinality(W) # 1
          BY <4>5, <5>1, <5>2 DEF Lists
        <5>4. db' = db \cup {Clause(lits, list, W)}
          BY <4>1, <5>1, <5>2
        <5> QED
          BY <1>5, <1>7, <4>4, <5>3, <5>4, NewClause
      <4>7. \A c \in db' : c \in db \/ (c.lits = lits /\ c.watch = FirstTwo(lits))
        BY <4>1 DEF Clause
      <4>8. ASSUME NEW p \in 1..Len(trail') PROVE -trail'[p].lit \notin lits
        <5>1. p \in 1..Len(trail) /\ trail'[p] = trail[p] /\ trail[p].level <= 0
          BY <1>5, <2>1, KeptFacts
        <5>2. -trail[p].lit # q
          <6>1. -trail[p].lit \in Falses /\ -trail[p].lit \in Lits
            BY <5>1, MadeFalse
          <6> QED
            BY <1>4, <1>5, <6>1, ValueFacts
        <5>3. ASSUME NEW j \in 1..Len(trail), -trail[p].lit = -trail[j].lit, trail[j].level > 0
              PROVE  FALSE
          <6>1. Position(-trail[p].lit) = p /\ Position(-trail[j].lit) = j
            BY <5>1, MadeFalse
          <6>2. trail[j].level <= 0 /\ trail[j].level \in 0..level
            BY <5>1, <5>3, <6>1, Known
          <6> QED
            BY <5>3, <6>2
        <5> QED
          BY <1>6, <5>1, <5>2, <5>3
      <4>9. \A c \in db' : c \in db \/ \A s : WatchOK(c, trail', qhead', s, Walking')
        <5> SUFFICES ASSUME NEW c \in db', c \notin db, NEW s
                     PROVE  WatchOK(c, trail', qhead', s, Walking')
          OBVIOUS
        <5>1. c.watch \subseteq lits
          BY <4>5, <4>7
        <5>2. \A p \in 1..Len(trail') : ~Owes(c, trail', qhead', s, Walking', p)
          BY <4>8, <5>1 DEF Owes
        <5> QED
          BY <5>2 DEF WatchOK
      <4> QED
        BY <1>6, <3>1, <4>6, <4>7, <4>9
    <3> QED
      BY <3>2, <3>3
  <2>3. FormulaOK(formula, db', trail', decision')
    BY <1>1, <1>5, <2>1, <2>2, FormulaKept
  <2> QED
    BY <1>1, <1>8, <1>10, <2>1, <2>2, <2>3, BackStep
<1> QED
  BY <1>9, <1>10

-----------------------------------------------------------------------------
(* A clause that no literal satisfies watches no false literal that was    *)
(* propagated, unless it is dull, or for the one that may be skipped.      *)
LEMMA Unserved ==
  ASSUME IInv, ~Walking, NEW c \in db, ~OneWatched(c), c.lits \cap Trues = {}
  PROVE  \/ c.list # "clauses" /\ DullAt(c, trail, qhead)
         \/ \E s \in 0..Len(trail) :
              /\ s # 0 => trail[s].level = 0
              /\ \A p \in 1..Len(trail) : p < qhead /\ -trail[p].lit \in c.watch => p = s
<1>1. PICK s \in 0..Len(trail) : WatchesOK(db, trail, qhead, s, Walking, tree)
  BY Parts
<1>2. SkipOK(trail, qhead, s, Walking, tree) /\ WatchOK(c, trail, qhead, s, Walking)
  BY <1>1 DEF WatchesOK
<1>3. \A p \in 1..Len(trail) : ~Served(c, trail, p)
  BY DEF Served, Trues
<1>4. \A p \in 1..Len(trail) :
        p < qhead /\ p # s /\ -trail[p].lit \in c.watch => Owes(c, trail, qhead, s, Walking, p)
  BY DEF Owes
<1> QED
  BY <1>2, <1>3, <1>4 DEF WatchOK, SkipOK

LEMMA ModelFoundStep ==
  ASSUME IInv, ModelFound
  PROVE  IInv'
<1>1. /\ pc = "propagate" /\ pc' = "SAT" /\ ~(qhead <= Len(trail)) /\ level >= Len(assumptions)
      /\ \A v \in decision : ~Unassigned(v)
      /\ UNCHANGED <<formula, db, trail, qhead, level, assumptions, decision,
                     conflict, tree, conflicts, imports>>
  BY DEF ModelFound, Quiet, Pending
<1>2. /\ DbOK(db) /\ TrailOK(trail, level) /\ level \in Nat /\ Len(trail) \in Nat
      /\ FormulaOK(formula, db, trail, decision) /\ ~Walking
      /\ formula \in Formulas /\ qhead = Len(trail) + 1
      /\ Len(assumptions) \in Nat /\ CubeOK(assumptions, trail, level)
  BY <1>1, Parts, Known DEF Walking
<1>3. ASSUME NEW c \in formula, c \cap Trues = {} PROVE FALSE
  <2>1. c \cap FixedIn(trail) = {}
    BY <1>3 DEF FixedIn, Trues
  <2>2. HasClause(db, c) /\ \A l \in c : Var(l) \in decision
    BY <1>2, <1>3, <2>1 DEF FormulaOK
  <2>3. PICK d \in db : d.lits = c /\ d.list = "clauses"
    BY <2>2 DEF HasClause
  <2>4. /\ ~OneWatched(d) /\ d.lits \in SUBSET Lits /\ d.watch \in SUBSET d.lits
        /\ IsFiniteSet(d.watch) /\ Cardinality(d.watch) \in 1..2
    BY <1>2, <2>3, ClauseFacts
  <2>5. PICK a \in d.watch, b \in d.watch : a # b
    <3>1. Cardinality(d.watch) > 1
      BY <2>4 DEF OneWatched
    <3> QED
      BY <2>4, <3>1, SizeFacts
  <2>6. ASSUME NEW l \in c PROVE \E i \in 1..Len(trail) : l = -trail[i].lit
    <3>1. l \in Lits /\ ~Unassigned(Var(l)) /\ l \notin Trues
      BY <1>1, <1>3, <2>2, <2>3, <2>4, <2>6
    <3>2. Var(l) \in Lits /\ Var(Var(l)) = Var(l)
      BY <3>1, LitFacts, VarsAssumption DEF Lits, Var
    <3>3. ~Unassigned(l)
      BY <1>2, <3>1, <3>2, ValueFacts
    <3>4. l \in Falses
      BY <3>1, <3>3 DEF Unassigned
    <3> QED
      BY <3>1, <3>4, FalseAt
  <2>7. PICK i \in 1..Len(trail) : a = -trail[i].lit
    BY <2>3, <2>4, <2>6
  <2>8. PICK j \in 1..Len(trail) : b = -trail[j].lit
    BY <2>3, <2>4, <2>6
  <2>9. i # j /\ i < qhead /\ j < qhead
    BY <1>2, <2>5, <2>7, <2>8
  <2>10. PICK s \in 0..Len(trail) :
           \A p \in 1..Len(trail) : p < qhead /\ -trail[p].lit \in d.watch => p = s
    BY <1>2, <1>3, <2>3, <2>4, Unserved
  <2> QED
    BY <2>5, <2>7, <2>8, <2>9, <2>10
<1>4. ToSet(assumptions) \subseteq Trues
  <2>1. \A k \in 1..Len(assumptions) : assumptions[k] \in Trues
    BY <1>1, <1>2 DEF CubeOK, Trues
  <2>2. DOMAIN assumptions = 1..Len(assumptions)
    BY Parts, LenProperties DEF Scalars
  <2> QED
    BY <2>1, <2>2 DEF ToSet
<1>5. Scalars' /\ QueueOK' /\ VerdictIsRight' /\ Walking' = Walking
  <2>1. Scalars' /\ QueueOK' /\ Walking' = Walking
    BY <1>1, Parts DEF Scalars, QueueOK, Walking
  <2>2. Trues' = Trues /\ ToSet(assumptions)' = ToSet(assumptions)
    BY <1>1 DEF Trues
  <2>3. VerdictIsRight'
    BY <1>1, <1>3, <1>4, <2>2 DEF VerdictIsRight
  <2> QED
    BY <2>1, <2>3
<1> QED
  BY <1>1, <1>5, IdleStep
-----------------------------------------------------------------------------
(* The invariant holds, and what it says.                                  *)
LEMMA Initially == Init => IInv
<1> SUFFICES ASSUME Init PROVE IInv
  OBVIOUS
<1>1. /\ formula \in Formulas
      /\ db = {Clause(c, "clauses", FirstTwo(c)) : c \in formula}
      /\ trail = <<>> /\ qhead = 1 /\ level = 0 /\ assumptions = <<>>
      /\ decision = VarsOf(formula) /\ pc = "top" /\ conflict = NoConflict
      /\ tree = FALSE /\ conflicts = 0 /\ imports = 0
  BY DEF Init
<1>2. Len(trail) = 0 /\ trail \in Seq(Entries) /\ Len(assumptions) = 0
      /\ assumptions \in Seq(LitsOf(formula))
  BY <1>1
<1>3. \A i : i \notin 1..Len(trail)
  BY <1>2
<1>4. Scalars
  <2>1. conflict.lits \subseteq Lits
    BY <1>1 DEF NoConflict
  <2>2. conflicts \in 0..MaxConflicts /\ imports \in 0..MaxImports
        /\ Len(assumptions) <= MaxCube
    BY <1>1, <1>2, BoundsAssumption
  <2>3. assumptions \in Seq(LitsOf(formula)) /\ decision \subseteq VarsOf(formula)
        /\ tree \in BOOLEAN
    BY <1>1, <1>2
  <2>4. pc \in {"top", "propagate", "walk", "refuted", "SAT", "UNSAT"}
    BY <1>1
  <2> QED
    BY <1>1, <2>1, <2>2, <2>3, <2>4, Zenon DEF Scalars
<1>5. TrailOK(trail, level) /\ QueueOK /\ VerdictIsRight
  BY <1>1, <1>2, <1>3 DEF TrailOK, QueueOK, VerdictIsRight
<1>6. ASSUME NEW d \in db
      PROVE  /\ d \in Clauses /\ d.lits \in formula /\ d.watch \subseteq d.lits
             /\ Cardinality(d.lits) > 1 /\ Cardinality(d.watch) = 2
  <2>1. PICK c \in formula : d = Clause(c, "clauses", FirstTwo(c))
    BY <1>1
  <2>2. c \in SUBSET Lits /\ Cardinality(c) > 1 /\ \A l \in c : -l \notin c
    BY <1>1, FormulasAssumption, NoUnitAssumption
  <2>3. FirstTwo(c) \in SUBSET c /\ Cardinality(FirstTwo(c)) = 2
    BY <2>2, FirstTwoIs
  <2> QED
    BY <2>1, <2>2, <2>3 DEF Clause, Clauses, Lists
<1>7. DbOK(db)
  <2>1. \A d \in db : ~OneWatched(d) /\ Cardinality(d.watch) \in 1..2
    BY <1>6 DEF OneWatched
  <2> QED
    BY <1>6, <2>1 DEF DbOK
<1>8. EntailedBy(formula, db, trail)
  <2>1. \A d \in db : Implies(formula, d.lits)
    BY <1>1, <1>6, FormulaFacts, ModelFacts DEF Implies
  <2>2. FixedIn(trail) = {}
    BY <1>3 DEF FixedIn
  <2> QED
    BY <1>3, <2>1, <2>2 DEF EntailedBy
<1>9. ReasonsOK(trail, RefsOf(db), ~Walking)
  BY <1>3 DEF ReasonsOK
<1>10. WatchesOK(db, trail, qhead, 0, Walking, tree) /\ 0 \in 0..Len(trail)
  <2>1. SkipOK(trail, qhead, 0, Walking, tree)
    BY <1>2, <1>3 DEF SkipOK
  <2>2. \A d \in db : WatchOK(d, trail, qhead, 0, Walking)
    BY <1>3 DEF WatchOK
  <2> QED
    BY <1>2, <2>1, <2>2 DEF WatchesOK
<1>11. CubeOK(assumptions, trail, level)
  BY <1>2, <1>3 DEF CubeOK
<1>12. FormulaOK(formula, db, trail, decision)
  <2>1. ASSUME NEW c \in formula PROVE HasClause(db, c)
    <3>1. Clause(c, "clauses", FirstTwo(c)) \in db
      BY <1>1
    <3> QED
      BY <3>1 DEF HasClause, Clause
  <2>2. \A c \in formula : \A l \in c : Var(l) \in decision
    BY <1>1 DEF VarsOf
  <2> QED
    BY <2>1, <2>2 DEF FormulaOK
<1> QED
  BY <1>4, <1>5, <1>7, <1>8, <1>9, <1>10, <1>11, <1>12 DEF IInv

LEMMA Inductive == IInv /\ [Next]_vars => IInv'
<1> SUFFICES ASSUME IInv, [Next]_vars PROVE IInv'
  OBVIOUS
<1>1. CASE Propagate
  BY <1>1, MoveWatchStep, ImplyStep, PropagatedStep DEF Propagate
<1>2. CASE Search
  BY <1>2, ConflictStep, ConflictAtRootStep, AlphaAdjustStep, ImportUnitStep,
     ImportClauseStep, StartPropagationStep, RestartStep, SimplifyStep, ReduceDBStep,
     AssumeStep, RefuteStep, PickBranchLitStep, ModelFoundStep DEF Search
<1>3. CASE Walk
  BY <1>3, AskSubproblemStep, WalkAssignedStep, WalkDecideStep, WalkEndsStep,
     WalkConflictStep DEF Walk
<1>4. CASE UNCHANGED vars
  <2>1. UNCHANGED <<formula, db, trail, qhead, level, assumptions, decision, pc,
                    conflict, tree, conflicts, imports>>
    BY <1>4 DEF vars
  <2>2. Scalars' /\ QueueOK' /\ Walking' = Walking
    BY <2>1, Parts DEF Scalars, QueueOK, Walking
  <2>3. VerdictIsRight'
    <3>1. VerdictIsRight
      BY DEF IInv
    <3> QED
      BY <2>1, <3>1 DEF VerdictIsRight, Trues, Implied
  <2> QED
    BY <2>1, <2>2, <2>3, IdleStep
<1> QED
  BY <1>1, <1>2, <1>3, <1>4 DEF Next

LEMMA Invariant == Spec => []IInv
<1> QED
  BY Initially, Inductive, PTL DEF Spec

LEMMA TypesFollow == IInv => TypeOK
<1> SUFFICES ASSUME IInv PROVE TypeOK
  OBVIOUS
<1>1. /\ DbOK(db) /\ TrailOK(trail, level) /\ Scalars /\ QueueOK
      /\ LitsOf(formula) \subseteq Lits /\ VarsOf(formula) \subseteq Vars
  BY Parts, Known, FormulaFacts
<1>2. \A c \in db :
        /\ c.lits \subseteq Lits /\ Cardinality(c.lits) > 1 /\ c.list \in Lists
        /\ c.watch \subseteq c.lits /\ Cardinality(c.watch) \in 1..2
        /\ OneWatched(c) => c.list = "imported"
  BY <1>1, ClauseFacts
<1>3. Len(trail) <= Cardinality(Vars)
  BY <1>1, TrailLength
<1>4. \A i \in 1..Len(trail) : trail[i].lit \in Lits /\ trail[i].level \in 0..level
  BY <1>1, EntryFacts
<1>5. assumptions \in Seq(Lits)
  BY <1>1, SeqMonotonic DEF Scalars
<1>6. \A i, j \in 1..Len(trail) : Var(trail[i].lit) = Var(trail[j].lit) => i = j
  BY <1>1 DEF TrailOK
<1> QED
  BY <1>1, <1>2, <1>3, <1>4, <1>5, <1>6 DEF TypeOK, Scalars, QueueOK

LEMMA EntailedFollows == IInv => Entailed
<1> SUFFICES ASSUME IInv PROVE Entailed
  OBVIOUS
<1>1. EntailedBy(formula, db, trail)
  BY Parts
<1>2. Fixed = FixedIn(trail)
  BY DEF Fixed, FixedIn
<1>3. \A lits : Implied(lits) <=> Implies(formula, lits)
  BY DEF Implied, Implies
<1> QED
  BY <1>1, <1>2, <1>3 DEF Entailed, EntailedBy

LEMMA ReasonsFollow == IInv => ReasonsHold
<1> SUFFICES ASSUME IInv, NEW i \in 1..Len(trail), trail[i].reason # NoReason
             PROVE  LET e == trail[i]
                        others == e.reason.lits \ {e.lit}
                    IN /\ \E c \in db : Ref(c) = e.reason
                       /\ e.lit \in e.reason.lits
                       /\ others \subseteq {-trail[j].lit : j \in 1..(i - 1)}
                       /\ pc # "walk" => \E l \in others : Level(l) = e.level
  BY DEF ReasonsHold
<1> DEFINE others == trail[i].reason.lits \ {trail[i].lit}
<1>1. /\ trail[i].reason \in RefsOf(db) /\ trail[i].lit \in trail[i].reason.lits
      /\ others \subseteq Lits
      /\ ~Walking => \E l \in others : Level(l) = trail[i].level
  BY ReasonFacts
<1>2. \A l \in others : \E j \in 1..(i - 1) : trail[j].lit = -l
  <2>1. ReasonsOK(trail, RefsOf(db), ~Walking)
    BY Parts
  <2> QED
    BY <2>1 DEF ReasonsOK, ReasonOK
<1>3. \A l \in others : l \in {-trail[j].lit : j \in 1..(i - 1)}
  <2> SUFFICES ASSUME NEW l \in others PROVE \E j \in 1..(i - 1) : l = -trail[j].lit
    OBVIOUS
  <2>1. PICK j \in 1..(i - 1) : trail[j].lit = -l
    BY <1>2
  <2>2. -(-l) = l
    BY <1>1, LitFacts
  <2> QED
    BY <2>1, <2>2
<1>4. \E c \in db : Ref(c) = trail[i].reason
  BY <1>1 DEF RefsOf
<1> QED
  BY <1>1, <1>3, <1>4 DEF Walking

LEMMA NoUnitMissedFollows == IInv => NoUnitMissed
<1> SUFFICES ASSUME IInv, pc = "propagate", ~Pending, NEW c \in db, ~OneWatched(c),
                    ~Dull(c), ~Satisfied(c), NEW l \in c.watch, l \in Falses
             PROVE  FALSE
  BY DEF NoUnitMissed, Quiet
<1>1. DbOK(db) /\ Len(trail) \in Nat /\ qhead = Len(trail) + 1 /\ ~Walking
  BY Parts DEF Pending, Walking
<1>2. l \in Lits
  BY <1>1, ClauseFacts
<1>3. PICK i \in 1..Len(trail) : l = -trail[i].lit
  BY <1>2, FalseAt
<1>4. \A p \in 1..Len(trail) : trail[p].level = 0 => -trail[p].lit \notin c.watch
  <2> SUFFICES ASSUME NEW p \in 1..Len(trail), trail[p].level = 0, -trail[p].lit \in c.watch
               PROVE  FALSE
    OBVIOUS
  <2>1. -(-trail[p].lit) = trail[p].lit
    BY MadeFalse
  <2>2. trail[p].lit \in Fixed
    BY DEF Fixed
  <2> QED
    BY <2>1, <2>2 DEF Dull
<1>5. c.lits \cap Trues = {}
  BY DEF Satisfied
<1>6. ~DullAt(c, trail, qhead)
  BY <1>4 DEF DullAt
<1>7. PICK s \in 0..Len(trail) :
        /\ s # 0 => trail[s].level = 0
        /\ \A p \in 1..Len(trail) : p < qhead /\ -trail[p].lit \in c.watch => p = s
  BY <1>1, <1>5, <1>6, Unserved
<1>8. i = s /\ trail[i].level = 0
  BY <1>1, <1>3, <1>7
<1> QED
  BY <1>3, <1>4, <1>8

LEMMA LearntIsNewFollows == IInv => LearntIsNew
<1> SUFFICES ASSUME IInv, NEW c \in db, pc = "propagate", level > 0, Falsified(c)
             PROVE  LET learnt == Learnt(c.lits)
                    IN /\ Cardinality(Current(learnt)) = 1
                       /\ learnt \subseteq Falses
                       /\ Implied(learnt)
                       /\ \A d \in db : d.lits \subseteq learnt => OneWatched(d) \/ Dull(d)
  BY DEF LearntIsNew
<1>1. /\ DbOK(db) /\ TrailOK(trail, level) /\ level \in Nat /\ Len(trail) \in Nat
      /\ QueueOK /\ qhead \in 1..(Len(trail) + 1) /\ ~Walking
  BY Parts DEF Walking
<1>2. /\ c.lits \in SUBSET Lits /\ c.lits \subseteq Falses /\ Implies(formula, c.lits)
      /\ FalseLit \in c.lits /\ Level(FalseLit) = level
  BY <1>1, FalsifiedFacts
<1>3. PICK learnt : learnt = Learnt(c.lits)
  OBVIOUS
<1>4. NoGood(learnt) /\ \E u : Current(learnt) = {u}
  BY <1>2, <1>3, LearntFacts
<1>5. PICK u : Current(learnt) = {u}
  BY <1>4
<1>6. Cardinality(Current(learnt)) = 1
  BY <1>5, FS_Singleton
<1>7. learnt \subseteq Falses /\ Implied(learnt) /\ learnt \in SUBSET Lits
  BY <1>4, NoGoodFacts DEF NoGood, Implied
<1>8. ASSUME NEW d \in db, d.lits \subseteq learnt, ~OneWatched(d), ~Dull(d) PROVE FALSE
  <2>1. /\ d.watch \in SUBSET d.lits /\ d.lits \in SUBSET Lits
        /\ IsFiniteSet(d.watch) /\ Cardinality(d.watch) \in 1..2
    BY <1>1, ClauseFacts
  <2>2. PICK l \in d.watch : l # u
    <3>1. Cardinality(d.watch) > 1
      BY <1>8, <2>1 DEF OneWatched
    <3> QED
      BY <2>1, <3>1, SizeFacts
  <2>3. l \in learnt /\ l \in Lits /\ l \in Falses
    BY <1>7, <1>8, <2>1
  <2>4. PICK i \in 1..Len(trail) : l = -trail[i].lit /\ Level(l) = trail[i].level
                                   /\ Level(l) \in 0..level
    BY <2>3, FalseAt
  <2>5. trail[i].level # level /\ trail[i].level > 0
    <3>1. Level(l) # level
      BY <1>5, <2>2, <2>3 DEF Current
    <3> QED
      BY <1>4, <2>3, <2>4, <3>1 DEF NoGood
  <2>6. i < qhead
    BY <1>1, <2>4, <2>5 DEF QueueOK
  <2>7. ~DullAt(d, trail, qhead)
    <3> SUFFICES ASSUME NEW p \in 1..Len(trail), trail[p].level = 0, -trail[p].lit \in d.watch
                 PROVE  FALSE
      BY DEF DullAt
    <3>1. -(-trail[p].lit) = trail[p].lit
      BY MadeFalse
    <3>2. trail[p].lit \in Fixed
      BY DEF Fixed
    <3> QED
      BY <1>8, <3>1, <3>2 DEF Dull
  <2>8. d.lits \cap Trues = {}
    BY <1>1, <1>7, <1>8, <2>1, ValueFacts
  <2>9. PICK s \in 0..Len(trail) :
          /\ s # 0 => trail[s].level = 0
          /\ \A p \in 1..Len(trail) : p < qhead /\ -trail[p].lit \in d.watch => p = s
    BY <1>1, <1>8, <2>7, <2>8, Unserved
  <2> QED
    BY <2>2, <2>4, <2>5, <2>6, <2>9
<1> QED
  BY <1>3, <1>6, <1>7, <1>8

(* What a thread learns, whatever subproblem it learns it under, follows   *)
(* from the formula: the clauses it keeps, the literals it assigns for     *)
(* good and what analyze returns, which has one literal of the current     *)
(* level and is subsumed by no clause that propagates.                     *)
THEOREM LearningIsAlwaysSound == Spec => []LearningIsSound
<1>1. IInv => LearningIsSound
  BY TypesFollow, EntailedFollows, LearntIsNewFollows DEF LearningIsSound
<1> QED
  BY <1>1, Invariant, PTL

(* A clause that analyze or analyzeFinal looks up as the reason of an      *)
(* assignment is there, implies it, and leads back to earlier assignments, *)
(* one of the same level, whatever reduceDB and simplify have removed.     *)
THEOREM ReasonsAlwaysHold == Spec => []ReasonsHold
<1> QED
  BY ReasonsFollow, Invariant, PTL

(* When a thread decides, every clause that watches a false literal is     *)
(* satisfied, but for those in the purgatory and those that watch a        *)
(* literal that is false for good.                                         *)
THEOREM NoUnitIsEverMissed == Spec => []NoUnitMissed
<1> QED
  BY NoUnitMissedFollows, Invariant, PTL

(* A thread that answers SAT has a model of the formula and the subproblem,*)
(* one that answers UNSAT has a formula without any, and the conflict of a *)
(* refuted subproblem follows from the formula and names its assumptions.  *)
THEOREM VerdictIsAlwaysRight == Spec => []VerdictIsRight
<1>1. IInv => VerdictIsRight
  BY DEF IInv
<1> QED
  BY <1>1, Invariant, PTL
=============================================================================
