--------------------------- MODULE PharusTreeProofs ---------------------------
(***************************************************************************)
(* What holds of the tree of subproblems for any formula, any threads and  *)
(* any depth: the verdict UNSAT of the manager is right, its counters are  *)
(* exact, everybody is found where the manager believes him to be.         *)
(*                                                                         *)
(* First paths, then what each operation on a tree does to a tree T with   *)
(* the threads at A, then the steps of the specification.                  *)
(***************************************************************************)
EXTENDS PharusTree, FiniteSetTheorems, SequenceTheorems, TLAPS

Paths == Seq(Sides)

Nodes == [variable : Vars \cup {End}, nbSubproblems : Int, nbWorkers : Int,
          workers : SUBSET Threads]

HasChild(T, p) == \E side \in Sides : Child(p, side) \in DOMAIN T

(* A tree: with a node the nodes above it, nothing below a leaf, something *)
(* below every other node, unless the root has been cut.                   *)
Shaped(T) ==
  /\ T \in [DOMAIN T -> Nodes]
  /\ IsFiniteSet(DOMAIN T)
  /\ \A p \in DOMAIN T : p \in Paths /\ Len(p) <= MaxDepth
  /\ \A p \in DOMAIN T : OnPath(p) \subseteq DOMAIN T
  /\ \A p \in DOMAIN T : T[p].variable = End => Below(T, p) = {p}
  /\ \A p \in DOMAIN T : T[p].variable # End => DOMAIN T = {Root} \/ HasChild(T, p)

Rooted(T) == Root \in DOMAIN T /\ T[Root].variable # End

(* The counters, as in CountersExact.                                      *)
Counted(T) ==
  \A p \in DOMAIN T : T[p].nbSubproblems = Cardinality(Leaves(T) \cap Below(T, p))
Staffed(T) == \A p \in DOMAIN T : T[p].nbWorkers = Cardinality(Team(T, p))

(* A thread is on no list but that of the node the manager has for it.     *)
Listed(T, A) == \A p \in DOMAIN T : \A t \in T[p].workers : A[t] = p

Sound(T, A) == Shaped(T) /\ Counted(T) /\ Staffed(T) /\ Listed(T, A)

(* The models below a node of T, and that none is lost.                    *)
WithinTree(T, p) ==
  {m \in Models : \A n \in 1..Len(p) : m[T[SubSeq(p, 1, n - 1)].variable] = p[n]}
Covered(T) == \A m \in Models : \E p \in Leaves(T) : m \in WithinTree(T, p)

-----------------------------------------------------------------------------
(* The inductive invariant.                                                *)
Types ==
  /\ Models \subseteq [Vars -> Sides]
  /\ at \in [Threads -> Paths \cup {Null, Freed}]
  /\ pc \in [Threads -> {"init", "ask", "work", "stopped"}]
  /\ walker \in Threads \cup {Null}
  /\ solved \in BOOLEAN
  /\ fate \in {"none", "null", "freed", "satisfied"}

(* Nobody asks for a subproblem before there is a tree.                    *)
Started ==
  \/ tree = <<>> /\ \A t \in Threads : pc[t] = "init"
  \/ Rooted(tree) /\ Covered(tree)

(* Who works on a node that was not cut is on its list.                    *)
Working ==
  \A t \in Threads : pc[t] = "work" /\ at[t] # Null =>
    at[t] \in DOMAIN tree /\ t \in tree[at[t]].workers

(* A pointer is to a node of the tree unless it is known not to be; there  *)
(* is no node left to point to when the root is cut.                       *)
Pointing(T, A) ==
  (\A t \in Threads : A[t] \in {Null, Freed} \cup DOMAIN T) \/ DOMAIN T = {Root}

(* Who walks is on no list, and stands where it can go on.                 *)
Walking ==
  walker # Null =>
    /\ pc[walker] = "ask"
    /\ \A p \in DOMAIN tree : walker \notin tree[p].workers
    /\ place \in DOMAIN tree /\ tree[place].variable # End /\ HasChild(tree, place)

IInv ==
  /\ Types
  /\ Sound(tree, at)
  /\ Started /\ Working /\ Walking /\ Pointing(tree, at)

-----------------------------------------------------------------------------
(* A set of naturals that is not empty has a least element.  Of the        *)
(* intervals that start at 0 and end in it, one contains no other.         *)
LEMMA LeastNatural ==
  ASSUME NEW T \in SUBSET Nat, T # {}
  PROVE  \E x \in T : \A y \in T : x <= y
<1> DEFINE Starts == {0..m : m \in T}
<1>1. ASSUME NEW m \in T PROVE 0..m \in FiniteSubsetsOf(Nat)
  <2>1. IsFiniteSet(0..m) /\ 0..m \in SUBSET Nat
    BY FS_Interval
  <2> QED
    BY <2>1 DEF FiniteSubsetsOf
<1>2. Starts \subseteq FiniteSubsetsOf(Nat) /\ Starts # {}
  BY <1>1
<1> HIDE DEF Starts
<1>3. PICK A \in Starts : \A B \in Starts : <<B, A>> \notin StrictSubsetOrdering(Nat)
  BY <1>2, FS_StrictSubsetOrderingWellFounded, WFMin, Zenon
<1>4. PICK m \in T : A = 0..m
  BY <1>3 DEF Starts
<1>5. ASSUME NEW y \in T, y < m PROVE FALSE
  <2>1. 0..y \in Starts
    BY DEF Starts
  <2>2. m \in 0..m /\ m \notin 0..y
    BY <1>5
  <2>3. 0..y \subseteq 0..m /\ 0..y \in SUBSET Nat /\ 0..m \in SUBSET Nat
    BY <1>5
  <2> QED
    BY <1>3, <1>4, <2>1, <2>2, <2>3 DEF StrictSubsetOrdering
<1> QED
  BY <1>4, <1>5

(* Paths.  The nodes above p are the sequences that agree with p as far as *)
(* they go.                                                                *)
LEMMA SideFacts ==
  /\ Sides = {0, 1}
  /\ \A s \in Sides : 1 - s \in Sides /\ 1 - s # s /\ 1 - (1 - s) = s
  /\ \A s, u \in Sides : u = s \/ u = 1 - s
BY DEF Sides, Left, Right

LEMMA Beginning ==
  ASSUME NEW p \in Paths, NEW n \in 0..Len(p)
  PROVE  /\ SubSeq(p, 1, n) \in Paths /\ Len(SubSeq(p, 1, n)) = n
         /\ \A i \in 1..n : SubSeq(p, 1, n)[i] = p[i]
<1>1. Len(p) \in Nat /\ \A i \in 1..n : p[i] \in Sides
  BY LenProperties, ElementOfSeq DEF Paths
<1>2. n \in Int /\ 1 \in Int /\ n \in Nat
  BY <1>1
<1>3. /\ SubSeq(p, 1, n) \in Paths
      /\ Len(SubSeq(p, 1, n)) = IF 1 <= n THEN n - 1 + 1 ELSE 0
      /\ \A i \in 1..(n - 1 + 1) : SubSeq(p, 1, n)[i] = p[1 + i - 1]
  BY <1>1, <1>2, SubSeqProperties DEF Paths
<1> QED
  BY <1>1, <1>2, <1>3

LEMMA SamePath ==
  ASSUME NEW p \in Paths, NEW q \in Paths, Len(p) = Len(q),
         \A i \in 1..Len(p) : p[i] = q[i]
  PROVE  p = q
BY SeqEqual DEF Paths

(* q is above p: what both of them, and Below, mean by it.                 *)
LEMMA Above ==
  ASSUME NEW p \in Paths, NEW q \in Paths
  PROVE  /\ q \in OnPath(p) <=> Len(q) <= Len(p) /\ \A i \in 1..Len(q) : q[i] = p[i]
         /\ IsPrefix(q, p) <=> q \in OnPath(p)
<1>1. Len(p) \in Nat /\ Len(q) \in Nat
  BY LenProperties DEF Paths
<1>2. ASSUME q \in OnPath(p) PROVE Len(q) <= Len(p) /\ \A i \in 1..Len(q) : q[i] = p[i]
  <2>1. PICK n \in 0..Len(p) : q = SubSeq(p, 1, n)
    BY <1>2 DEF OnPath
  <2> QED
    BY <2>1, Beginning
<1>3. ASSUME Len(q) <= Len(p), \A i \in 1..Len(q) : q[i] = p[i]
      PROVE  q = SubSeq(p, 1, Len(q)) /\ q \in OnPath(p)
  <2>1. Len(q) \in 0..Len(p)
    BY <1>1, <1>3
  <2> DEFINE b == SubSeq(p, 1, Len(q))
  <2>2. b \in Paths /\ Len(b) = Len(q) /\ \A i \in 1..Len(q) : b[i] = p[i]
    BY <2>1, Beginning
  <2>3. q = b
    <3> HIDE DEF b
    <3> QED
      BY <1>3, <2>2, SamePath
  <2> QED
    BY <2>1, <2>3 DEF OnPath
<1>4. SubSeq(q, 1, Len(q)) = q
  BY SubSeqFull DEF Paths
<1>5. ASSUME IsPrefix(q, p) PROVE q \in OnPath(p)
  <2>1. Len(q) \in 0..Len(p) /\ q = SubSeq(p, 1, Len(q))
    BY <1>1, <1>4, <1>5 DEF IsPrefix
  <2> QED
    BY <2>1 DEF OnPath
<1>6. ASSUME q \in OnPath(p) PROVE IsPrefix(q, p)
  BY <1>2, <1>3, <1>4, <1>6 DEF IsPrefix
<1> QED
  BY <1>2, <1>3, <1>5, <1>6

(* An order, in which the nodes above a node are in line.                  *)
LEMMA PathOrder ==
  ASSUME NEW p \in Paths
  PROVE  /\ OnPath(p) \subseteq Paths
         /\ p \in OnPath(p) /\ Root \in OnPath(p) /\ Root \in Paths /\ Len(Root) = 0
         /\ \A q \in OnPath(p) :
              /\ OnPath(q) \subseteq OnPath(p) /\ Len(q) \in 0..Len(p)
              /\ Len(q) = Len(p) => q = p
              /\ p \in OnPath(q) => p = q
              /\ \A r \in OnPath(p) : Len(q) <= Len(r) => q \in OnPath(r)
<1>1. \A q \in Paths : Len(q) \in Nat
  BY LenProperties DEF Paths
<1>2. OnPath(p) \subseteq Paths
  BY Beginning DEF OnPath
<1>3. Root \in Paths /\ Len(Root) = 0
  BY EmptySeq DEF Root, Paths
<1>4. p \in OnPath(p) /\ Root \in OnPath(p)
  BY <1>1, <1>3, Above
<1>5. ASSUME NEW q \in OnPath(p)
      PROVE  /\ OnPath(q) \subseteq OnPath(p) /\ Len(q) \in 0..Len(p)
             /\ Len(q) = Len(p) => q = p
             /\ p \in OnPath(q) => p = q
             /\ \A r \in OnPath(p) : Len(q) <= Len(r) => q \in OnPath(r)
  <2>1. q \in Paths /\ Len(q) <= Len(p) /\ \A i \in 1..Len(q) : q[i] = p[i]
    BY <1>2, Above
  <2>2. Len(q) = Len(p) => q = p
    BY <2>1, SamePath
  <2>3. ASSUME NEW r \in OnPath(q) PROVE r \in OnPath(p)
    <3>1. r \in Paths
      BY <2>1, Beginning DEF OnPath
    <3>2. Len(r) <= Len(q) /\ \A i \in 1..Len(r) : r[i] = q[i]
      BY <2>1, <3>1, Above
    <3> QED
      BY <1>1, <2>1, <3>1, <3>2, Above
  <2>4. p \in OnPath(q) => p = q
    BY <1>1, <2>1, <2>2, Above
  <2>5. ASSUME NEW r \in OnPath(p), Len(q) <= Len(r) PROVE q \in OnPath(r)
    <3>1. r \in Paths /\ \A i \in 1..Len(r) : r[i] = p[i]
      BY <1>2, Above
    <3> QED
      BY <1>1, <2>1, <2>5, <3>1, Above
  <2> QED
    BY <1>1, <2>1, <2>2, <2>3, <2>4, <2>5
<1> QED
  BY <1>2, <1>3, <1>4, <1>5

(* A child, its father and its sibling.                                    *)
LEMMA ChildFacts ==
  ASSUME NEW p \in Paths, NEW s \in Sides
  PROVE  /\ Child(p, s) \in Paths /\ Child(p, s) # Root /\ Len(Child(p, s)) = Len(p) + 1
         /\ Father(Child(p, s)) = p /\ Last(Child(p, s)) = s
         /\ Sibling(Child(p, s)) = Child(p, 1 - s)
         /\ OnPath(Child(p, s)) = OnPath(p) \cup {Child(p, s)}
         /\ \A q \in Paths, u \in Sides : Child(p, s) = Child(q, u) => p = q /\ s = u
         /\ \A i \in 1..Len(p) : Child(p, s)[i] = p[i]
         /\ Child(p, s)[Len(p) + 1] = s
<1> DEFINE c == Child(p, s)
<1>1. /\ c \in Paths /\ c # Root /\ Len(c) = Len(p) + 1 /\ c[Len(p) + 1] = s
      /\ \A i \in 1..Len(p) : c[i] = p[i]
  BY AppendProperties DEF Child, Paths, Root
<1>2. Len(p) \in Nat
  BY LenProperties DEF Paths
<1>3. Len(c) - 1 = Len(p) /\ Len(p) \in 0..Len(c)
  BY <1>1, <1>2
<1>4. SubSeq(c, 1, Len(p)) = p
  <2> DEFINE b == SubSeq(c, 1, Len(p))
  <2>1. b \in Paths /\ Len(b) = Len(p) /\ \A i \in 1..Len(p) : b[i] = c[i]
    BY <1>1, <1>3, Beginning
  <2> HIDE DEF b, c
  <2>2. b = p
    BY <1>1, <2>1, SamePath
  <2> QED
    BY <2>2 DEF b
<1>5. Father(c) = p /\ Last(c) = s
  BY <1>1, <1>3, <1>4 DEF Father, Front, Last
<1>6. Sibling(c) = Child(p, 1 - s)
  BY <1>5 DEF Sibling, Child, Father
<1>7. p \in OnPath(c)
  BY <1>3, <1>4 DEF OnPath
<1>8. OnPath(p) \cup {c} \subseteq OnPath(c)
  BY <1>1, <1>7, PathOrder
<1>9. ASSUME NEW q \in OnPath(c), q # c PROVE q \in OnPath(p)
  <2>1. Len(q) \in 0..Len(c) /\ Len(q) # Len(c)
    BY <1>1, <1>9, PathOrder
  <2>2. Len(q) <= Len(p)
    BY <1>2, <1>3, <2>1
  <2> QED
    BY <1>1, <1>7, <2>2, PathOrder
<1>10. ASSUME NEW q \in Paths, NEW u \in Sides, c = Child(q, u) PROVE p = q /\ s = u
  BY <1>10, AppendInjective DEF Child, Paths
<1> HIDE DEF c
<1>11. OnPath(c) = OnPath(p) \cup {c}
  BY <1>8, <1>9
<1> QED
  BY <1>1, <1>5, <1>6, <1>10, <1>11 DEF c

(* Every node but the root is a child.                                     *)
LEMMA IsChild ==
  ASSUME NEW p \in Paths, p # Root
  PROVE  Father(p) \in Paths /\ Last(p) \in Sides /\ p = Child(Father(p), Last(p))
<1>1. PICK f \in Paths, s \in Sides : p = Child(f, s)
  BY SequenceEmptyOrAppend DEF Paths, Child, Root
<1> QED
  BY <1>1, ChildFacts

(* The way down from q to a node below it starts with a child of q.        *)
LEMMA WayDown ==
  ASSUME NEW p \in Paths, NEW q \in OnPath(p), q # p
  PROVE  /\ Len(q) < Len(p) /\ q \in Paths /\ p[Len(q) + 1] \in Sides
         /\ Child(q, p[Len(q) + 1]) \in OnPath(p)
         /\ Child(q, p[Len(q) + 1]) = SubSeq(p, 1, Len(q) + 1)
<1>1. q \in Paths /\ Len(q) \in 0..Len(p) /\ Len(q) # Len(p) /\ Len(p) \in Nat
  BY PathOrder, LenProperties DEF Paths
<1>2. Len(q) < Len(p) /\ Len(q) + 1 \in 1..Len(p) /\ Len(q) + 1 \in 0..Len(p)
  BY <1>1
<1>3. p[Len(q) + 1] \in Sides
  BY <1>2, ElementOfSeq DEF Paths
<1>4. \A i \in 1..Len(q) : q[i] = p[i]
  BY <1>1, Above
<1> DEFINE c == Child(q, p[Len(q) + 1])
<1>5. /\ c \in Paths /\ Len(c) = Len(q) + 1 /\ c[Len(q) + 1] = p[Len(q) + 1]
      /\ \A i \in 1..Len(q) : c[i] = q[i]
  BY <1>1, <1>3, ChildFacts
<1> HIDE DEF c
<1>6. \A i \in 1..Len(c) : c[i] = p[i]
  BY <1>1, <1>4, <1>5
<1>7. c \in OnPath(p)
  BY <1>2, <1>5, <1>6, Above
<1>8. c = SubSeq(p, 1, Len(q) + 1)
  <2>1. /\ SubSeq(p, 1, Len(q) + 1) \in Paths /\ Len(SubSeq(p, 1, Len(q) + 1)) = Len(q) + 1
        /\ \A i \in 1..(Len(q) + 1) : SubSeq(p, 1, Len(q) + 1)[i] = p[i]
    BY <1>2, Beginning
  <2> QED
    BY <1>5, <1>6, <2>1, SamePath
<1> QED
  BY <1>1, <1>2, <1>3, <1>7, <1>8 DEF c

(* The beginnings of a path and of one that agrees with it are the same.   *)
LEMMA SameBeginning ==
  ASSUME NEW p \in Paths, NEW q \in Paths, NEW n \in 0..Len(p), n \in 0..Len(q),
         \A i \in 1..n : q[i] = p[i]
  PROVE  SubSeq(q, 1, n) = SubSeq(p, 1, n)
<1> DEFINE a == SubSeq(p, 1, n)
           b == SubSeq(q, 1, n)
<1>1. a \in Paths /\ Len(a) = n /\ \A i \in 1..n : a[i] = p[i]
  BY Beginning
<1>2. b \in Paths /\ Len(b) = n /\ \A i \in 1..n : b[i] = q[i]
  BY Beginning
<1> HIDE DEF a, b
<1>3. b = a
  BY <1>1, <1>2, SamePath
<1> QED
  BY <1>3 DEF a, b

-----------------------------------------------------------------------------
(* Trees.                                                                  *)
LEMMA BelowFacts ==
  ASSUME NEW T, Shaped(T), NEW p \in DOMAIN T
  PROVE  /\ p \in Paths /\ OnPath(p) \subseteq DOMAIN T /\ Root \in DOMAIN T
         /\ Below(T, p) = {q \in DOMAIN T : p \in OnPath(q)}
         /\ p \in Below(T, p)
         /\ \A q \in Below(T, p) : Below(T, q) \subseteq Below(T, p)
         /\ \A q \in Below(T, p) : q # p => Child(p, q[Len(p) + 1]) \in DOMAIN T
<1>1. \A q \in DOMAIN T : q \in Paths /\ OnPath(q) \subseteq DOMAIN T
  BY DEF Shaped
<1>2. Below(T, p) = {q \in DOMAIN T : p \in OnPath(q)}
  BY <1>1, Above DEF Below
<1>3. p \in OnPath(p) /\ Root \in OnPath(p)
  BY <1>1, PathOrder
<1>4. ASSUME NEW q \in Below(T, p) PROVE Below(T, q) \subseteq Below(T, p)
  <2>1. \A r \in DOMAIN T : q \in OnPath(r) => p \in OnPath(r)
    BY <1>1, <1>2, PathOrder
  <2>2. Below(T, q) = {r \in DOMAIN T : q \in OnPath(r)}
    BY <1>1, <1>2, Above DEF Below
  <2> QED
    BY <1>2, <2>1, <2>2
<1>5. ASSUME NEW q \in Below(T, p), q # p PROVE Child(p, q[Len(p) + 1]) \in DOMAIN T
  <2>1. q \in Paths /\ p \in OnPath(q) /\ OnPath(q) \subseteq DOMAIN T
    BY <1>1, <1>2
  <2> QED
    BY <1>5, <2>1, WayDown
<1> QED
  BY <1>1, <1>2, <1>3, <1>4, <1>5

(* The deepest of a set of nodes whose paths are bounded, or the root.     *)
LEMMA DeepestIs ==
  ASSUME NEW nodes \in SUBSET Paths, NEW n \in Nat, \A r \in nodes : Len(r) <= n
  PROVE  /\ Deepest(nodes) \in nodes \cup {Root}
         /\ \A r \in nodes : Len(r) <= Len(Deepest(nodes))
<1> DEFINE Bounds == {k \in Nat : \A r \in nodes : Len(r) <= k}
<1>1. \A r \in nodes : Len(r) \in Nat
  BY LenProperties DEF Paths
<1>2. Root \in Paths /\ Len(Root) = 0
  BY EmptySeq DEF Root, Paths
<1>3. PICK k \in Bounds : \A j \in Bounds : k <= j
  <2>1. n \in Bounds /\ Bounds \in SUBSET Nat
    OBVIOUS
  <2> HIDE DEF Bounds
  <2> QED
    BY <2>1, LeastNatural
<1>4. k \in Nat /\ \A r \in nodes : Len(r) <= k
  OBVIOUS
<1>5. \E q \in nodes \cup {Root} : \A r \in nodes : Len(r) <= Len(q)
  <2>1. CASE k = 0
    BY <1>2, <1>4, <2>1
  <2>2. CASE k # 0
    <3>1. k - 1 \in Nat /\ ~(k <= k - 1)
      BY <1>4, <2>2
    <3>2. k - 1 \notin Bounds
      BY <1>3, <3>1
    <3>3. PICK q \in nodes : ~(Len(q) <= k - 1)
      BY <3>1, <3>2
    <3>4. Len(q) = k
      BY <1>1, <1>4, <3>3
    <3> QED
      BY <1>4, <3>4
  <2> QED
    BY <2>1, <2>2
<1> QED
  BY <1>5 DEF Deepest

(* pharusPruning: below the node it finds there is no leaf that is not     *)
(* below the node refuted.                                                 *)
LEMMA PruningFacts ==
  ASSUME NEW T, Shaped(T), NEW p \in DOMAIN T
  PROVE  /\ Pruning(T, p) \in OnPath(p) /\ Pruning(T, p) \in DOMAIN T
         /\ Pruning(T, p) = Root \/ Sibling(Pruning(T, p)) \in DOMAIN T
         /\ \A l \in Leaves(T) \cap Below(T, Pruning(T, p)) : p \in OnPath(l)
<1> DEFINE alive == {q \in OnPath(p) \ {Root} : Sibling(q) \in DOMAIN T}
           q == Pruning(T, p)
<1>1. p \in Paths /\ OnPath(p) \subseteq DOMAIN T /\ OnPath(p) \subseteq Paths
      /\ Len(p) \in Nat /\ Root \in OnPath(p)
  BY BelowFacts, PathOrder, LenProperties DEF Paths
<1>2. alive \in SUBSET Paths /\ \A r \in alive : Len(r) <= Len(p)
  BY <1>1, PathOrder
<1>3. q \in alive \cup {Root} /\ \A r \in alive : Len(r) <= Len(q)
  <2> HIDE DEF alive
  <2>1. /\ Deepest(alive) \in alive \cup {Root}
        /\ \A r \in alive : Len(r) <= Len(Deepest(alive))
    BY <1>1, <1>2, DeepestIs
  <2> QED
    BY <2>1 DEF Pruning, alive
<1>4. q \in OnPath(p) /\ q \in DOMAIN T /\ (q = Root \/ Sibling(q) \in DOMAIN T)
  BY <1>1, <1>3
<1> HIDE DEF q
<1>5. ASSUME NEW l \in Leaves(T) \cap Below(T, q), p \notin OnPath(l) PROVE FALSE
  <2>1. l \in DOMAIN T /\ l \in Paths /\ q \in OnPath(l) /\ T[l].variable = End
        /\ OnPath(l) \subseteq DOMAIN T
    BY <1>4, <1>5, BelowFacts DEF Leaves
  <2>2. l \notin OnPath(p)
    <3>1. l \in OnPath(p) => p \in Below(T, l)
      BY <2>1, BelowFacts
    <3>2. Below(T, l) = {l}
      BY <2>1 DEF Shaped
    <3> QED
      BY <1>5, <2>1, <3>1, <3>2, PathOrder
  <2> DEFINE Off == {n \in Nat : n <= Len(p) /\ SubSeq(p, 1, n) \notin OnPath(l)}
  <2>3. SubSeq(p, 1, Len(p)) = p
    BY <1>1, SubSeqFull DEF Paths
  <2>4. PICK n \in Off : \A k \in Off : n <= k
    <3>1. Len(p) <= Len(p) /\ SubSeq(p, 1, Len(p)) \notin OnPath(l)
      <4>1. p \notin OnPath(l)
        BY <1>5
      <4>2. Len(p) <= Len(p)
        BY <1>1
      <4> QED
        BY <2>3, <4>1, <4>2
    <3>2. Len(p) \in Off /\ Off \in SUBSET Nat
      BY <1>1, <3>1
    <3> HIDE DEF Off
    <3> QED
      BY <3>2, LeastNatural
  <2>5. n \in Nat /\ n <= Len(p) /\ SubSeq(p, 1, n) \notin OnPath(l)
    OBVIOUS
  <2>6. n # 0
    <3>1. SubSeq(p, 1, 0) = Root
      BY SubSeqEmpty DEF Root
    <3>2. Root \in OnPath(l)
      BY <2>1, PathOrder
    <3> QED
      BY <2>5, <3>1, <3>2
  <2>7. n - 1 \in Nat /\ ~(n <= n - 1) /\ n - 1 <= Len(p) /\ n - 1 \in 0..Len(p) /\ n \in 0..Len(p)
    BY <1>1, <2>5, <2>6
  <2>8. PICK r : r = SubSeq(p, 1, n - 1)
    OBVIOUS
  <2>9. r \in OnPath(l) /\ r \in OnPath(p) /\ Len(r) = n - 1 /\ r \in Paths
    <3>1. n - 1 \notin Off
      BY <2>4, <2>7
    <3> QED
      BY <1>1, <2>7, <2>8, <3>1, Beginning DEF OnPath
  <2>10. r # p /\ r # l
    BY <2>2, <2>9, <1>5
  <2>11. Len(r) + 1 = n
    BY <2>5, <2>9
  <2>12. /\ p[n] \in Sides /\ Child(r, p[n]) \in OnPath(p)
         /\ Child(r, p[n]) = SubSeq(p, 1, n)
    BY <1>1, <2>9, <2>10, <2>11, WayDown
  <2>13. l[n] \in Sides /\ Child(r, l[n]) \in OnPath(l)
    BY <2>1, <2>9, <2>10, <2>11, WayDown
  <2>14. l[n] = 1 - p[n]
    <3>1. l[n] # p[n]
      <4>1. ASSUME l[n] = p[n] PROVE Child(r, p[n]) \in OnPath(l)
        BY <2>13, <4>1
      <4> QED
        BY <2>5, <2>12, <4>1
    <3>2. \A s, u \in Sides : u = s \/ u = 1 - s
      BY SideFacts
    <3> QED
      BY <2>12, <2>13, <3>1, <3>2
  <2> DEFINE c == Child(r, p[n])
  <2>15. /\ Sibling(c) = Child(r, 1 - p[n]) /\ c # Root /\ Len(c) = n
    BY <2>9, <2>11, <2>12, ChildFacts
  <2>16. Sibling(c) \in DOMAIN T
    BY <2>1, <2>13, <2>14, <2>15
  <2>17. n <= Len(q)
    BY <1>3, <2>12, <2>15, <2>16
  <2>18. c \in OnPath(q)
    <3>1. c \in OnPath(p) /\ q \in OnPath(p) /\ Len(c) <= Len(q)
      BY <1>4, <2>12, <2>15, <2>17
    <3> HIDE DEF c
    <3> QED
      BY <1>1, <3>1, PathOrder
  <2>19. c \in OnPath(l)
    BY <2>1, <2>18, PathOrder
  <2> QED
    BY <2>5, <2>12, <2>19
<1> QED
  BY <1>4, <1>5 DEF q

-----------------------------------------------------------------------------
(* Models.                                                                 *)
LEMMA WithinFacts ==
  ASSUME NEW T, NEW p \in Paths
  PROVE  /\ WithinTree(T, Root) = Models
         /\ \A q \in OnPath(p) : WithinTree(T, p) \subseteq WithinTree(T, q)
         /\ \A s \in Sides : WithinTree(T, Child(p, s)) =
                               {m \in WithinTree(T, p) : m[T[p].variable] = s}
<1>1. Len(p) \in Nat /\ Len(Root) = 0
  BY LenProperties, EmptySeq DEF Paths, Root
<1>2. WithinTree(T, Root) = Models
  BY <1>1 DEF WithinTree
<1>3. ASSUME NEW q \in OnPath(p) PROVE WithinTree(T, p) \subseteq WithinTree(T, q)
  <2>1. PICK k \in 0..Len(p) : q = SubSeq(p, 1, k)
    BY DEF OnPath
  <2>2. q \in Paths /\ Len(q) = k /\ \A i \in 1..k : q[i] = p[i]
    BY <2>1, Beginning
  <2>3. ASSUME NEW n \in 1..k PROVE SubSeq(q, 1, n - 1) = SubSeq(p, 1, n - 1)
    <3>1. n - 1 \in 0..Len(p) /\ n - 1 \in 0..Len(q) /\ \A i \in 1..(n - 1) : i \in 1..k
      BY <1>1, <2>2
    <3> QED
      BY <2>2, <3>1, SameBeginning
  <2>4. ASSUME NEW n \in 1..k PROVE n \in 1..Len(p)
    BY <1>1
  <2> QED
    BY <2>2, <2>3, <2>4 DEF WithinTree
<1>4. ASSUME NEW s \in Sides
      PROVE  WithinTree(T, Child(p, s)) = {m \in WithinTree(T, p) : m[T[p].variable] = s}
  <2> DEFINE c == Child(p, s)
  <2>1. /\ c \in Paths /\ Len(c) = Len(p) + 1 /\ c[Len(p) + 1] = s
        /\ \A i \in 1..Len(p) : c[i] = p[i]
    BY ChildFacts
  <2>2. \A n \in 1..(Len(p) + 1) : SubSeq(c, 1, n - 1) = SubSeq(p, 1, n - 1)
    <3> HIDE DEF c
    <3>1. ASSUME NEW n \in 1..(Len(p) + 1) PROVE SubSeq(c, 1, n - 1) = SubSeq(p, 1, n - 1)
      <4>1. n - 1 \in 0..Len(p) /\ n - 1 \in 0..Len(c)
        BY <1>1, <2>1
      <4> QED
        BY <2>1, <4>1, SameBeginning
    <3> QED
      BY <3>1
  <2>3. SubSeq(c, 1, Len(p)) = p
    <3>1. Len(p) + 1 \in 1..(Len(p) + 1) /\ Len(p) + 1 - 1 = Len(p)
      BY <1>1
    <3>2. SubSeq(p, 1, Len(p)) = p
      BY SubSeqFull DEF Paths
    <3> QED
      BY <2>2, <3>1, <3>2
  <2> HIDE DEF c
  <2>4. 1..Len(c) = (1..Len(p)) \cup {Len(p) + 1} /\ Len(p) + 1 - 1 = Len(p)
    BY <1>1, <2>1
  <2>5. \A m : (\A n \in 1..Len(c) : m[T[SubSeq(c, 1, n - 1)].variable] = c[n])
               <=> /\ \A n \in 1..Len(p) : m[T[SubSeq(p, 1, n - 1)].variable] = p[n]
                   /\ m[T[p].variable] = s
    <3> SUFFICES ASSUME NEW m
                 PROVE  (\A n \in 1..Len(c) : m[T[SubSeq(c, 1, n - 1)].variable] = c[n])
                        <=> /\ \A n \in 1..Len(p) : m[T[SubSeq(p, 1, n - 1)].variable] = p[n]
                            /\ m[T[p].variable] = s
      OBVIOUS
    <3> DEFINE P(n) == m[T[SubSeq(c, 1, n - 1)].variable] = c[n]
    <3>1. (\A n \in 1..Len(c) : P(n)) <=> (\A n \in 1..Len(p) : P(n)) /\ P(Len(p) + 1)
      <4> HIDE DEF P
      <4> QED
        BY <2>4
    <3>2. P(Len(p) + 1) <=> m[T[p].variable] = s
      <4>1. SubSeq(c, 1, Len(p) + 1 - 1) = p
        BY <2>3, <2>4
      <4>2. c[Len(p) + 1] = s
        BY <2>1
      <4>3. m[T[SubSeq(c, 1, Len(p) + 1 - 1)].variable] = m[T[p].variable]
        BY <4>1
      <4> QED
        BY <4>2, <4>3 DEF P
    <3>3. ASSUME NEW n \in 1..Len(p)
          PROVE  P(n) <=> m[T[SubSeq(p, 1, n - 1)].variable] = p[n]
      <4>1. SubSeq(c, 1, n - 1) = SubSeq(p, 1, n - 1) /\ c[n] = p[n]
        BY <1>1, <2>1, <2>2
      <4> QED
        BY <4>1
    <3> QED
      BY <3>1, <3>2, <3>3
  <2>6. WithinTree(T, c) = {m \in WithinTree(T, p) : m[T[p].variable] = s}
    BY <2>5 DEF WithinTree
  <2> QED
    BY <2>6 DEF c
<1> QED
  BY <1>2, <1>3, <1>4

(* What is within a node depends on the variables above it.                *)
LEMMA WithinSame ==
  ASSUME NEW T, NEW U, NEW p \in Paths,
         \A q \in OnPath(p) : q # p => T[q].variable = U[q].variable
  PROVE  WithinTree(T, p) = WithinTree(U, p)
<1>1. ASSUME NEW n \in 1..Len(p)
      PROVE  T[SubSeq(p, 1, n - 1)].variable = U[SubSeq(p, 1, n - 1)].variable
  <2>1. Len(p) \in Nat
    BY LenProperties DEF Paths
  <2>2. n - 1 \in 0..Len(p) /\ n - 1 # Len(p)
    BY <2>1
  <2>3. SubSeq(p, 1, n - 1) \in OnPath(p) /\ Len(SubSeq(p, 1, n - 1)) = n - 1
    BY <2>2, Beginning DEF OnPath
  <2> QED
    BY <2>2, <2>3
<1> QED
  BY <1>1 DEF WithinTree

-----------------------------------------------------------------------------
(* The operations of the manager on a tree.                                *)
LEMMA TeamFacts ==
  ASSUME NEW T, Shaped(T), NEW p
  PROVE  /\ Team(T, p) = {t \in Threads : \E q \in Below(T, p) : t \in T[q].workers}
         /\ IsFiniteSet(Team(T, p))
<1>1. \A q \in Below(T, p) : q \in DOMAIN T /\ T[q].workers \subseteq Threads
  BY DEF Below, Shaped, Nodes
<1>2. Team(T, p) = {t \in Threads : \E q \in Below(T, p) : t \in T[q].workers}
  BY <1>1 DEF Team
<1>3. Team(T, p) \in SUBSET Threads
  BY <1>2
<1> QED
  BY <1>2, <1>3, FiniteAssumption, FS_Subset

(* A thread on a list is where the manager has it, which is on its path.   *)
LEMMA TeamPlaces ==
  ASSUME NEW T, NEW A, Sound(T, A), NEW p \in DOMAIN T
  PROVE  /\ Team(T, p) = {t \in Threads : A[t] \in Below(T, p) /\ t \in T[A[t]].workers}
         /\ \A t \in Team(T, p) : A[t] \in DOMAIN T /\ t \in T[A[t]].workers /\ A[t] # Null
<1>1. Team(T, p) = {t \in Threads : \E q \in Below(T, p) : t \in T[q].workers}
  BY TeamFacts DEF Sound
<1>2. \A q \in Below(T, p) : q \in DOMAIN T /\ \A t \in T[q].workers : A[t] = q
  BY DEF Sound, Listed, Below
<1>3. Team(T, p) = {t \in Threads : A[t] \in Below(T, p) /\ t \in T[A[t]].workers}
  BY <1>1, <1>2
<1>4. \A q \in DOMAIN T : q # Null
  BY NamesAssumption DEF Sound, Shaped, Paths
<1> QED
  BY <1>2, <1>3, <1>4

(* Operations that keep the nodes and their variables.                     *)
LEMMA SameTree ==
  ASSUME NEW T, Shaped(T), NEW U \in [DOMAIN T -> Nodes],
         \A p \in DOMAIN T : U[p].variable = T[p].variable
  PROVE  /\ Shaped(U) /\ DOMAIN U = DOMAIN T /\ Leaves(U) = Leaves(T)
         /\ \A p : Below(U, p) = Below(T, p)
         /\ \A p \in DOMAIN T : HasChild(T, p) => HasChild(U, p)
         /\ \A p \in DOMAIN T : WithinTree(U, p) = WithinTree(T, p)
         /\ Covered(T) => Covered(U)
         /\ Rooted(T) => Rooted(U)
         /\ (Counted(T) /\ \A p \in DOMAIN T : U[p].nbSubproblems = T[p].nbSubproblems) => Counted(U)
<1>1. DOMAIN U = DOMAIN T
  OBVIOUS
<1>2. Leaves(U) = Leaves(T) /\ \A p : Below(U, p) = Below(T, p)
  BY <1>1 DEF Leaves, Below
<1>3. Shaped(U)
  BY <1>1, <1>2 DEF Shaped, HasChild
<1>4. ASSUME NEW p \in DOMAIN T PROVE WithinTree(U, p) = WithinTree(T, p)
  <2>1. p \in Paths /\ OnPath(p) \subseteq DOMAIN T
    BY DEF Shaped
  <2> QED
    BY <2>1, WithinSame
<1>5. Covered(T) => Covered(U)
  BY <1>2, <1>4 DEF Covered, Leaves
<1> QED
  BY <1>1, <1>2, <1>3, <1>4, <1>5 DEF HasChild, Rooted, Counted

LEMMA AddWorkerFacts ==
  ASSUME NEW T, NEW A \in [Threads -> Paths \cup {Null, Freed}], Sound(T, A),
         NEW p \in DOMAIN T, NEW t \in Threads,
         \A q \in DOMAIN T : t \notin T[q].workers,
         NEW W, W = AddWorker(T, p, t), NEW B, B = [A EXCEPT ![t] = p]
  PROVE  /\ W \in [DOMAIN T -> Nodes] /\ Sound(W, B)
         /\ \A q \in DOMAIN T : W[q].variable = T[q].variable
         /\ W[p].workers = T[p].workers \cup {t}
         /\ \A q \in DOMAIN T : q # p => W[q].workers = T[q].workers
<1> DEFINE U == AddWorker(T, p, t)
<1>1. Shaped(T) /\ Counted(T) /\ Staffed(T) /\ Listed(T, A)
  BY DEF Sound
<1>2. ASSUME NEW q \in DOMAIN T
      PROVE  /\ T[q] \in Nodes
             /\ U[q] = IF q \in OnPath(p)
                       THEN [T[q] EXCEPT !.nbWorkers = @ + 1,
                                         !.workers = IF q = p THEN @ \cup {t} ELSE @]
                       ELSE T[q]
  BY <1>1 DEF AddWorker, Shaped
<1>3. ASSUME NEW q \in DOMAIN T
      PROVE  /\ U[q] \in Nodes
             /\ U[q].variable = T[q].variable /\ U[q].nbSubproblems = T[q].nbSubproblems
             /\ U[q].nbWorkers = IF q \in OnPath(p) THEN T[q].nbWorkers + 1 ELSE T[q].nbWorkers
             /\ q \in OnPath(p) =>
                  U[q].workers = IF q = p THEN T[q].workers \cup {t} ELSE T[q].workers
             /\ q \notin OnPath(p) => U[q].workers = T[q].workers
  <2> HIDE DEF U
  <2>1. CASE q \notin OnPath(p)
    BY <1>2, <2>1 DEF Nodes
  <2>2. CASE q \in OnPath(p)
    <3> DEFINE new == IF q = p THEN T[q].workers \cup {t} ELSE T[q].workers
    <3>1. T[q] \in Nodes /\ U[q] = [T[q] EXCEPT !.nbWorkers = @ + 1, !.workers = new]
      BY <1>2, <2>2
    <3>2. new \in SUBSET Threads
      BY <1>2 DEF Nodes
    <3>3. U[q] \in Nodes /\ U[q].workers = new
      <4> HIDE DEF new
      <4>1. U[q] = [variable |-> T[q].variable, nbSubproblems |-> T[q].nbSubproblems,
                    nbWorkers |-> T[q].nbWorkers + 1, workers |-> new]
        BY <3>1 DEF Nodes
      <4>2. /\ T[q].variable \in Vars \cup {End} /\ T[q].nbSubproblems \in Int
            /\ T[q].nbWorkers + 1 \in Int
        BY <3>1 DEF Nodes
      <4> QED
        BY <3>2, <4>1, <4>2 DEF Nodes
    <3>4. /\ U[q].variable = T[q].variable /\ U[q].nbSubproblems = T[q].nbSubproblems
          /\ U[q].nbWorkers = T[q].nbWorkers + 1
      BY <3>1 DEF Nodes
    <3> QED
      BY <2>2, <3>3, <3>4
  <2> QED
    BY <2>1, <2>2
<1>4. p \in OnPath(p) /\ p \in Paths
  BY <1>1, PathOrder DEF Shaped
<1>5. \A q \in DOMAIN T : U[q].workers = IF q = p THEN T[q].workers \cup {t} ELSE T[q].workers
  BY <1>3, <1>4
<1>6. U \in [DOMAIN T -> Nodes]
  BY <1>3 DEF AddWorker
<1> HIDE DEF U
<1>7. /\ Shaped(U) /\ Counted(U) /\ DOMAIN U = DOMAIN T
      /\ \A q : Below(U, q) = Below(T, q)
  BY <1>1, <1>3, <1>6, SameTree
<1>8. Listed(U, [A EXCEPT ![t] = p])
  <2> SUFFICES ASSUME NEW q \in DOMAIN T, NEW u \in U[q].workers
               PROVE  [A EXCEPT ![t] = p][u] = q
    BY <1>7 DEF Listed
  <2>1. u \in Threads
    BY <1>3 DEF Nodes
  <2>2. CASE u \in T[q].workers
    <3>1. A[u] = q /\ u # t
      BY <1>1, <2>2 DEF Listed
    <3> QED
      BY <2>1, <3>1
  <2>3. CASE u \notin T[q].workers
    <3>1. u = t /\ q = p
      BY <1>5, <2>3
    <3> QED
      BY <3>1
  <2> QED
    BY <2>2, <2>3
<1>9. ASSUME NEW r \in DOMAIN T PROVE U[r].nbWorkers = Cardinality(Team(U, r))
  <2>1. Below(T, r) = {q \in DOMAIN T : r \in OnPath(q)}
    BY <1>1, BelowFacts
  <2>2. /\ Team(T, r) = {u \in Threads : \E q \in Below(T, r) : u \in T[q].workers}
        /\ Team(U, r) = {u \in Threads : \E q \in Below(T, r) : u \in U[q].workers}
        /\ IsFiniteSet(Team(T, r))
    BY <1>1, <1>7, TeamFacts
  <2>3. T[r].nbWorkers = Cardinality(Team(T, r))
    BY <1>1 DEF Staffed
  <2>4. CASE r \in OnPath(p)
    <3>1. p \in Below(T, r)
      BY <2>1, <2>4
    <3>2. Team(U, r) = Team(T, r) \cup {t}
      BY <1>5, <2>1, <2>2, <3>1
    <3>3. t \notin Team(T, r)
      BY <2>1, <2>2
    <3> QED
      <4>1. Cardinality(Team(U, r)) = Cardinality(Team(T, r)) + 1
        BY <2>2, <3>2, <3>3, FS_AddElement
      <4> QED
        BY <1>3, <2>3, <2>4, <4>1
  <2>5. CASE r \notin OnPath(p)
    <3>1. p \notin Below(T, r)
      BY <2>1, <2>5
    <3>2. Team(U, r) = Team(T, r)
      BY <1>5, <2>1, <2>2, <3>1
    <3> QED
      BY <1>3, <2>3, <2>5, <3>2
  <2> QED
    BY <2>4, <2>5
<1>10. Sound(U, [A EXCEPT ![t] = p])
  BY <1>7, <1>8, <1>9 DEF Sound, Staffed
<1> QED
  BY <1>3, <1>5, <1>6, <1>10 DEF U

LEMMA DelWorkersFacts ==
  ASSUME NEW T, NEW A, Sound(T, A), NEW team \in SUBSET Threads,
         \A t \in team : A[t] \in DOMAIN T /\ t \in T[A[t]].workers
  PROVE  LET U == DelWorkers(T, A, team) IN
         /\ U \in [DOMAIN T -> Nodes] /\ Sound(U, A)
         /\ \A q \in DOMAIN T :
              U[q].variable = T[q].variable /\ U[q].workers = T[q].workers \ team
<1> DEFINE U == DelWorkers(T, A, team)
           left(q) == Cardinality({t \in team : q \in OnPath(A[t])})
<1>1. Shaped(T) /\ Counted(T) /\ Staffed(T) /\ Listed(T, A)
  BY DEF Sound
<1>2. IsFiniteSet(team)
  BY FiniteAssumption, FS_Subset
<1>3. ASSUME NEW q PROVE left(q) \in Nat
  <2>1. {t \in team : q \in OnPath(A[t])} \in SUBSET team
    OBVIOUS
  <2> QED
    BY <1>2, <2>1, FS_Subset, FS_CardinalityType
<1>4. ASSUME NEW q \in DOMAIN T
      PROVE  /\ T[q] \in Nodes
             /\ U[q] = [T[q] EXCEPT !.nbWorkers = @ - left(q),
                                    !.workers = @ \ {t \in team : A[t] = q}]
  BY <1>1 DEF DelWorkers, Shaped
<1>5. ASSUME NEW q \in DOMAIN T
      PROVE  /\ U[q] \in Nodes
             /\ U[q].variable = T[q].variable /\ U[q].nbSubproblems = T[q].nbSubproblems
             /\ U[q].nbWorkers = T[q].nbWorkers - left(q)
             /\ U[q].workers = T[q].workers \ {t \in team : A[t] = q}
  <2> DEFINE here == {t \in team : A[t] = q}
  <2>1. T[q] \in Nodes
    BY <1>4
  <2>2. U[q] = [T[q] EXCEPT !.nbWorkers = @ - left(q), !.workers = @ \ here]
    BY <1>4
  <2> HIDE DEF left, U, here
  <2>3. T[q].workers \ here \in SUBSET Threads
    BY <2>1 DEF Nodes
  <2>4. U[q] \in Nodes /\ U[q].workers = T[q].workers \ here
    <3>1. U[q] = [variable |-> T[q].variable, nbSubproblems |-> T[q].nbSubproblems,
                  nbWorkers |-> T[q].nbWorkers - left(q), workers |-> T[q].workers \ here]
      BY <2>1, <2>2 DEF Nodes
    <3>2. left(q) \in Nat
      BY <1>3
    <3>3. /\ T[q].variable \in Vars \cup {End} /\ T[q].nbSubproblems \in Int
          /\ T[q].nbWorkers - left(q) \in Int
      BY <2>1, <3>2 DEF Nodes
    <3> QED
      BY <2>3, <3>1, <3>3 DEF Nodes
  <2>5. /\ U[q].variable = T[q].variable /\ U[q].nbSubproblems = T[q].nbSubproblems
        /\ U[q].nbWorkers = T[q].nbWorkers - left(q)
    BY <2>1, <2>2 DEF Nodes
  <2> QED
    BY <2>4, <2>5 DEF here
<1>6. \A q \in DOMAIN T : U[q].workers = T[q].workers \ team
  <2>1. \A q \in DOMAIN T : \A t \in T[q].workers : A[t] = q
    BY <1>1 DEF Listed
  <2> HIDE DEF U
  <2>2. ASSUME NEW q \in DOMAIN T PROVE U[q].workers = T[q].workers \ team
    <3>1. U[q].workers = T[q].workers \ {t \in team : A[t] = q}
      BY <1>5
    <3>2. T[q].workers \ {t \in team : A[t] = q} = T[q].workers \ team
      BY <2>1
    <3> QED
      BY <3>1, <3>2
  <2> QED
    BY <2>2
<1>7. U \in [DOMAIN T -> Nodes]
  BY <1>5 DEF DelWorkers
<1> HIDE DEF U
<1>8. /\ Shaped(U) /\ Counted(U) /\ DOMAIN U = DOMAIN T
      /\ \A q : Below(U, q) = Below(T, q)
  BY <1>1, <1>5, <1>7, SameTree
<1>9. Listed(U, A)
  BY <1>1, <1>6, <1>8 DEF Listed
<1>10. ASSUME NEW r \in DOMAIN T PROVE U[r].nbWorkers = Cardinality(Team(U, r))
  <2>1. Below(T, r) = {q \in DOMAIN T : r \in OnPath(q)}
    BY <1>1, BelowFacts
  <2>2. /\ Team(T, r) = {u \in Threads : \E q \in Below(T, r) : u \in T[q].workers}
        /\ Team(U, r) = {u \in Threads : \E q \in Below(T, r) : u \in U[q].workers}
        /\ IsFiniteSet(Team(T, r))
    BY <1>1, <1>8, TeamFacts
  <2>3. T[r].nbWorkers = Cardinality(Team(T, r))
    BY <1>1 DEF Staffed
  <2>4. Team(U, r) = Team(T, r) \ team
    BY <1>6, <2>1, <2>2
  <2>5. Team(T, r) \cap team = {t \in team : r \in OnPath(A[t])}
    <3>1. Team(T, r) = {t \in Threads : A[t] \in Below(T, r) /\ t \in T[A[t]].workers}
      BY TeamPlaces
    <3> QED
      BY <2>1, <3>1
  <2>6. Cardinality(Team(U, r)) = Cardinality(Team(T, r)) - left(r)
    BY <2>2, <2>4, <2>5, FS_Difference
  <2> HIDE DEF left
  <2> QED
    BY <1>5, <2>3, <2>6
<1>11. Sound(U, A)
  BY <1>8, <1>9, <1>10 DEF Sound, Staffed
<1> QED
  BY <1>5, <1>6, <1>7, <1>11 DEF U

LEMMA DelWorkerFacts ==
  ASSUME NEW T, NEW A, Sound(T, A), NEW t \in Threads
  PROVE  LET U == DelWorker(T, A, t) IN
         /\ U \in [DOMAIN T -> Nodes] /\ Sound(U, A)
         /\ \A q \in DOMAIN T :
              U[q].variable = T[q].variable /\ U[q].workers = T[q].workers \ {t}
<1>1. CASE A[t] \in DOMAIN T /\ t \in T[A[t]].workers
  <2>1. {t} \in SUBSET Threads /\ \A u \in {t} : A[u] \in DOMAIN T /\ u \in T[A[u]].workers
    BY <1>1
  <2>2. DelWorker(T, A, t) = DelWorkers(T, A, {t})
    BY <1>1 DEF DelWorker
  <2> QED
    BY <2>1, <2>2, DelWorkersFacts
<1>2. CASE ~(A[t] \in DOMAIN T /\ t \in T[A[t]].workers)
  <2>1. DelWorker(T, A, t) = T
    BY <1>2 DEF DelWorker
  <2>2. \A q \in DOMAIN T : t \notin T[q].workers
    BY <1>2 DEF Sound, Listed
  <2> QED
    BY <2>1, <2>2 DEF Sound, Shaped
<1> QED
  BY <1>1, <1>2

(* The root is cut: there is no leaf left, and no model if none was lost.  *)
LEMMA DeleteRootFacts ==
  ASSUME NEW T, NEW A, Sound(T, A), Rooted(T), Team(T, Root) = {}
  PROVE  LET U == DeleteNode(T, Root) IN
         /\ Sound(U, A) /\ Rooted(U) /\ DOMAIN U = {Root}
         /\ U[Root].workers = T[Root].workers /\ U[Root].variable = T[Root].variable
         /\ (Covered(T) /\ \A l \in Leaves(T) : WithinTree(T, l) = {}) => Covered(U)
<1> DEFINE U == DeleteNode(T, Root)
<1>1. Shaped(T) /\ Staffed(T) /\ Listed(T, A) /\ Root \in DOMAIN T /\ T[Root].variable # End
  BY DEF Sound, Rooted
<1>2. T[Root] \in Nodes /\ Root \in Paths /\ Len(Root) <= MaxDepth
  BY <1>1 DEF Shaped
<1>3. U = [p \in {Root} |-> [T[Root] EXCEPT !.nbSubproblems = 0]]
  BY DEF DeleteNode
<1>4. /\ DOMAIN U = {Root} /\ U[Root] \in Nodes
      /\ U[Root].variable = T[Root].variable /\ U[Root].nbSubproblems = 0
      /\ U[Root].workers = T[Root].workers /\ U[Root].nbWorkers = T[Root].nbWorkers
  BY <1>2, <1>3 DEF Nodes
<1>5. U \in [DOMAIN U -> Nodes]
  <2> SUFFICES U = [p \in {Root} |-> U[p]]
    BY <1>4
  <2> QED
    BY <1>3
<1> HIDE DEF U
<1>6. Leaves(U) = {} /\ Rooted(U)
  BY <1>1, <1>4 DEF Leaves, Rooted
<1>7. OnPath(Root) \subseteq {Root}
  <2>1. \A q \in OnPath(Root) : Len(q) = Len(Root) => q = Root
    BY <1>2, PathOrder
  <2>2. \A q \in OnPath(Root) : Len(q) \in 0..Len(Root) /\ Len(Root) = 0
    BY <1>2, PathOrder
  <2> QED
    BY <2>1, <2>2
<1>8. Shaped(U)
  <2>1. IsFiniteSet(DOMAIN U)
    BY <1>4, FS_Singleton
  <2>2. \A p \in DOMAIN U : OnPath(p) \subseteq DOMAIN U
    BY <1>4, <1>7
  <2>3. \A p \in DOMAIN U : U[p].variable # End /\ p \in Paths /\ Len(p) <= MaxDepth
    BY <1>1, <1>2, <1>4
  <2> QED
    BY <1>4, <1>5, <2>1, <2>2, <2>3 DEF Shaped
<1>9. Counted(U)
  BY <1>4, <1>6, FS_EmptySet DEF Counted
<1>10. Listed(U, A)
  BY <1>1, <1>4 DEF Listed
<1>11. Staffed(U)
  <2>1. T[Root].nbWorkers = 0
    BY <1>1, FS_EmptySet DEF Staffed
  <2>2. Team(U, Root) = {}
    <3>1. Below(U, Root) \subseteq {Root} /\ Root \in Below(T, Root)
      BY <1>1, <1>4, BelowFacts DEF Below
    <3>2. U[Root].workers \subseteq Team(T, Root)
      BY <1>4, <3>1 DEF Team
    <3> QED
      BY <3>1, <3>2 DEF Team
  <2> QED
    BY <1>4, <2>1, <2>2, FS_EmptySet DEF Staffed
<1>12. ASSUME Covered(T), \A l \in Leaves(T) : WithinTree(T, l) = {} PROVE Covered(U)
  BY <1>12 DEF Covered
<1> QED
  BY <1>4, <1>6, <1>8, <1>9, <1>10, <1>11, <1>12 DEF Sound, U

(* Another node is cut, with what is below it.  Its sibling is alive, so   *)
(* that its father does not become a leaf by that.                         *)
LEMMA DeleteBelowFacts ==
  ASSUME NEW T, NEW A, Sound(T, A), NEW q \in DOMAIN T, q # Root, Sibling(q) \in DOMAIN T,
         Team(T, q) = {}
  PROVE  LET U == DeleteNode(T, q) IN
         /\ Sound(U, A) /\ DOMAIN U = DOMAIN T \ Below(T, q)
         /\ \A r \in DOMAIN U : U[r].variable = T[r].variable /\ U[r].workers = T[r].workers
         /\ Sibling(q) \in DOMAIN U /\ Root \in DOMAIN U
         /\ (Covered(T) /\ \A l \in Leaves(T) \cap Below(T, q) : WithinTree(T, l) = {})
              => Covered(U)
<1> DEFINE U == DeleteNode(T, q)
           D == DOMAIN T \ Below(T, q)
           lost == Leaves(T) \cap Below(T, q)
           n == Cardinality(lost)
<1>1. Shaped(T) /\ Counted(T) /\ Staffed(T) /\ Listed(T, A)
  BY DEF Sound
<1>2. IsFiniteSet(lost) /\ n \in Nat
  <2>1. lost \in SUBSET DOMAIN T /\ IsFiniteSet(DOMAIN T)
    BY <1>1 DEF Leaves, Shaped
  <2> QED
    BY <2>1, FS_Subset, FS_CardinalityType
<1>3. U = [r \in D |-> IF r \in OnPath(q) THEN [T[r] EXCEPT !.nbSubproblems = @ - n] ELSE T[r]]
  BY DEF DeleteNode
<1>4. DOMAIN U = D
  BY <1>3
<1>5. ASSUME NEW r \in D
      PROVE  /\ U[r] \in Nodes
             /\ U[r].variable = T[r].variable /\ U[r].workers = T[r].workers
             /\ U[r].nbWorkers = T[r].nbWorkers
             /\ U[r].nbSubproblems =
                  IF r \in OnPath(q) THEN T[r].nbSubproblems - n ELSE T[r].nbSubproblems
  <2>1. T[r] \in Nodes
    BY <1>1 DEF Shaped
  <2>2. U[r] = IF r \in OnPath(q) THEN [T[r] EXCEPT !.nbSubproblems = @ - n] ELSE T[r]
    BY <1>3
  <2> HIDE DEF n, U
  <2> QED
    BY <1>2, <2>1, <2>2 DEF Nodes
<1>6. U \in [DOMAIN U -> Nodes]
  <2>1. U = [r \in D |-> U[r]]
    BY <1>3
  <2> HIDE DEF U, D
  <2> QED
    BY <1>4, <1>5, <2>1
<1> HIDE DEF U, n
<1>7. /\ q \in Paths /\ \A r \in DOMAIN T : r \in Paths /\ OnPath(r) \subseteq DOMAIN T
      /\ \A r \in DOMAIN T : Below(T, r) = {x \in DOMAIN T : r \in OnPath(x)}
  BY <1>1, BelowFacts
<1>8. Father(q) \in Paths /\ Last(q) \in Sides /\ q = Child(Father(q), Last(q))
  BY <1>7, IsChild
<1>9. Sibling(q) \in D
  <2>1. /\ Sibling(q) = Child(Father(q), 1 - Last(q)) /\ 1 - Last(q) \in Sides
        /\ 1 - Last(q) # Last(q)
    BY <1>8, ChildFacts, SideFacts
  <2>2. Len(Sibling(q)) = Len(q) /\ Sibling(q) # q /\ Sibling(q) \in Paths
    BY <1>8, <2>1, ChildFacts
  <2>3. q \notin OnPath(Sibling(q))
    BY <2>2, PathOrder
  <2> QED
    BY <1>7, <2>3
<1>10. Root \in D
  <2>1. q \notin OnPath(Root)
    BY <1>7, PathOrder
  <2> QED
    BY <1>1, <1>7, <2>1, BelowFacts
<1>11. \A r \in D : OnPath(r) \subseteq D
  BY <1>7, PathOrder
<1>12. \A r \in D : Below(U, r) = Below(T, r) \ Below(T, q)
  BY <1>4 DEF Below
<1>13. Leaves(U) = Leaves(T) \ Below(T, q)
  BY <1>4, <1>5 DEF Leaves
<1>14. Shaped(U)
  <2>1. IsFiniteSet(D) /\ \A r \in D : r \in Paths /\ Len(r) <= MaxDepth
    BY <1>1, FS_Difference DEF Shaped
  <2>2. ASSUME NEW r \in D, U[r].variable = End PROVE Below(U, r) = {r}
    <3>1. Below(T, r) = {r}
      BY <1>1, <1>5, <2>2 DEF Shaped
    <3> QED
      BY <1>12, <3>1
  <2>3. ASSUME NEW r \in D, U[r].variable # End PROVE HasChild(U, r)
    <3>1. DOMAIN T # {Root}
      OBVIOUS
    <3>2. PICK s \in Sides : Child(r, s) \in DOMAIN T
      BY <1>1, <1>5, <2>3, <3>1 DEF Shaped, HasChild
    <3>3. CASE Child(r, s) \in D
      BY <1>4, <3>3 DEF HasChild
    <3>4. CASE Child(r, s) \notin D
      <4>1. q \in OnPath(Child(r, s)) /\ q \notin OnPath(r) /\ r \in Paths
        BY <1>7, <3>2, <3>4
      <4>2. q = Child(r, s)
        BY <4>1, ChildFacts
      <4>3. Sibling(q) = Child(r, 1 - s) /\ 1 - s \in Sides
        BY <4>1, <4>2, ChildFacts, SideFacts
      <4> QED
        BY <1>4, <1>9, <4>3 DEF HasChild
    <3> QED
      BY <3>3, <3>4
  <2> QED
    BY <1>4, <1>6, <1>11, <2>1, <2>2, <2>3 DEF Shaped
<1>15. ASSUME NEW r \in D
       PROVE  U[r].nbSubproblems = Cardinality(Leaves(U) \cap Below(U, r))
  <2> DEFINE L == Leaves(T) \cap Below(T, r)
  <2>1. T[r].nbSubproblems = Cardinality(L)
    BY <1>1 DEF Counted
  <2>2. Leaves(U) \cap Below(U, r) = L \ lost
    BY <1>12, <1>13
  <2>3. IsFiniteSet(L)
    <3>1. L \in SUBSET DOMAIN T /\ IsFiniteSet(DOMAIN T)
      BY <1>1 DEF Leaves, Shaped
    <3> QED
      BY <3>1, FS_Subset
  <2>4. Cardinality(L \ lost) = Cardinality(L) - Cardinality(L \cap lost)
    <3> HIDE DEF L, lost
    <3> QED
      BY <2>3, FS_Difference
  <2>5. CASE r \in OnPath(q)
    <3>1. Below(T, q) \subseteq Below(T, r)
      BY <1>7, <2>5, PathOrder
    <3>2. L \cap lost = lost
      BY <3>1
    <3>3. U[r].nbSubproblems = T[r].nbSubproblems - Cardinality(lost)
      BY <1>5, <2>5 DEF n
    <3> HIDE DEF L, lost
    <3> QED
      BY <2>1, <2>2, <2>4, <3>2, <3>3
  <2>6. CASE r \notin OnPath(q)
    <3>1. ASSUME NEW x \in Below(T, r), x \in Below(T, q) PROVE FALSE
      <4>1. x \in Paths /\ r \in OnPath(x) /\ q \in OnPath(x) /\ q \notin OnPath(r)
        BY <1>7, <3>1
      <4>2. Len(r) \in 0..Len(x) /\ Len(q) \in 0..Len(x)
        BY <4>1, PathOrder
      <4>3. Len(q) <= Len(r) \/ Len(r) <= Len(q)
        BY <4>2
      <4> QED
        BY <2>6, <4>1, <4>3, PathOrder
    <3>2. L \ lost = L
      BY <3>1
    <3> HIDE DEF L, lost
    <3> QED
      BY <1>5, <2>1, <2>2, <2>6, <3>2
  <2> QED
    BY <2>5, <2>6
<1>16. ASSUME NEW r \in D PROVE U[r].nbWorkers = Cardinality(Team(U, r))
  <2>1. Team(U, r) = UNION {T[x].workers : x \in Below(T, r) \ Below(T, q)}
    BY <1>4, <1>5, <1>12 DEF Team, Below
  <2>2. \A x \in Below(T, q) : T[x].workers = {}
    BY DEF Team
  <2>3. Team(U, r) = Team(T, r)
    BY <2>1, <2>2 DEF Team
  <2> QED
    BY <1>1, <1>5, <2>3 DEF Staffed
<1>17. Sound(U, A)
  BY <1>1, <1>4, <1>5, <1>14, <1>15, <1>16 DEF Sound, Counted, Staffed, Listed
<1>18. ASSUME Covered(T), \A l \in lost : WithinTree(T, l) = {} PROVE Covered(U)
  <2> SUFFICES ASSUME NEW m \in Models PROVE \E p \in Leaves(U) : m \in WithinTree(U, p)
    BY DEF Covered
  <2>1. PICK p \in Leaves(T) : m \in WithinTree(T, p)
    BY <1>18 DEF Covered
  <2>2. p \in Leaves(U) /\ p \in D /\ p \in Paths
    BY <1>7, <1>13, <1>18, <2>1 DEF Leaves
  <2>3. \A x \in OnPath(p) : T[x].variable = U[x].variable
    BY <1>5, <1>11, <2>2
  <2>4. WithinTree(T, p) = WithinTree(U, p)
    BY <2>2, <2>3, WithinSame
  <2> QED
    BY <2>1, <2>2, <2>4
<1> QED
  BY <1>4, <1>5, <1>9, <1>10, <1>17, <1>18 DEF U

(* A leaf is extended: its two children are the leaves in its place.       *)
LEMMA ExtendFacts ==
  ASSUME NEW T, NEW A, Sound(T, A), NEW p \in Leaves(T), NEW v \in Vars, Len(p) < MaxDepth
  PROVE  LET U == ExtendNode(T, p, v) IN
         /\ Sound(U, A) /\ DOMAIN T \subseteq DOMAIN U
         /\ \A r \in DOMAIN T :
              /\ U[r].variable = IF r = p THEN v ELSE T[r].variable
              /\ U[r].workers = T[r].workers
              /\ HasChild(T, r) => HasChild(U, r)
         /\ \A r \in DOMAIN U \ DOMAIN T : U[r].workers = {}
         /\ (Covered(T) /\ Models \subseteq [Vars -> Sides]) => Covered(U)
<1> DEFINE U == ExtendNode(T, p, v)
           new == {Child(p, s) : s \in Sides}
           D == DOMAIN T \cup new
<1>1. Shaped(T) /\ Counted(T) /\ Staffed(T) /\ Listed(T, A)
  BY DEF Sound
<1>2. /\ p \in DOMAIN T /\ T[p].variable = End /\ Below(T, p) = {p} /\ p \in Paths
      /\ Len(p) \in Nat /\ MaxDepth \in Nat
  BY <1>1, BoundAssumption, LenProperties DEF Leaves, Shaped, Paths
<1>3. /\ \A r \in DOMAIN T : r \in Paths /\ OnPath(r) \subseteq DOMAIN T
      /\ \A r \in DOMAIN T : Below(T, r) = {x \in DOMAIN T : r \in OnPath(x)}
  BY <1>1, BelowFacts
<1>4. ASSUME NEW s \in Sides
      PROVE  /\ Child(p, s) \in Paths /\ Child(p, s) \notin DOMAIN T /\ Child(p, s) # p
             /\ OnPath(Child(p, s)) = OnPath(p) \cup {Child(p, s)}
             /\ Len(Child(p, s)) = Len(p) + 1
  <2>1. /\ Child(p, s) \in Paths /\ OnPath(Child(p, s)) = OnPath(p) \cup {Child(p, s)}
        /\ Len(Child(p, s)) = Len(p) + 1
    BY <1>2, ChildFacts
  <2>2. p \in OnPath(Child(p, s)) /\ Child(p, s) # p
    BY <1>2, <2>1, PathOrder
  <2> QED
    BY <1>2, <1>3, <2>1, <2>2
<1>5. U = [r \in D |-> IF r \notin DOMAIN T THEN Leaf
                       ELSE [T[r] EXCEPT !.variable = IF r = p THEN v ELSE @,
                                         !.nbSubproblems = IF r \in OnPath(p) THEN @ + 1 ELSE @]]
  BY DEF ExtendNode
<1>6. DOMAIN U = D
  BY <1>5
<1>7. ASSUME NEW r \in DOMAIN T
      PROVE  /\ U[r] \in Nodes /\ U[r].variable = IF r = p THEN v ELSE T[r].variable
             /\ U[r].workers = T[r].workers /\ U[r].nbWorkers = T[r].nbWorkers
             /\ U[r].nbSubproblems =
                  IF r \in OnPath(p) THEN T[r].nbSubproblems + 1 ELSE T[r].nbSubproblems
  <2> DEFINE var == IF r = p THEN v ELSE T[r].variable
             count == IF r \in OnPath(p) THEN T[r].nbSubproblems + 1 ELSE T[r].nbSubproblems
  <2>1. T[r] \in Nodes
    BY <1>1 DEF Shaped
  <2>2. U[r] = [T[r] EXCEPT !.variable = var, !.nbSubproblems = count]
    BY <1>5
  <2>3. var \in Vars \cup {End} /\ count \in Int
    BY <2>1 DEF Nodes
  <2> HIDE DEF U, var, count
  <2>4. U[r] = [variable |-> var, nbSubproblems |-> count, nbWorkers |-> T[r].nbWorkers,
                workers |-> T[r].workers]
    BY <2>1, <2>2 DEF Nodes
  <2>5. U[r] \in Nodes /\ U[r].variable = var /\ U[r].nbSubproblems = count
        /\ U[r].workers = T[r].workers /\ U[r].nbWorkers = T[r].nbWorkers
    BY <2>1, <2>3, <2>4 DEF Nodes
  <2> QED
    BY <2>5 DEF var, count
<1>8. ASSUME NEW s \in Sides
      PROVE  /\ U[Child(p, s)] = Leaf /\ Leaf \in Nodes /\ Leaf.variable = End
             /\ Leaf.workers = {} /\ Leaf.nbSubproblems = 1 /\ Leaf.nbWorkers = 0
  <2>1. Child(p, s) \in D /\ Child(p, s) \notin DOMAIN T
    BY <1>4
  <2>2. U[Child(p, s)] = Leaf
    <3> HIDE DEF D
    <3> QED
      BY <1>5, <2>1
  <2>3. Leaf = [variable |-> End, nbSubproblems |-> 1, nbWorkers |-> 0, workers |-> {}]
    BY DEF Leaf, Node
  <2>4. Leaf \in Nodes /\ Leaf.variable = End /\ Leaf.workers = {}
        /\ Leaf.nbSubproblems = 1 /\ Leaf.nbWorkers = 0
    BY <2>3 DEF Nodes
  <2> QED
    BY <2>2, <2>4
<1>9. U \in [DOMAIN U -> Nodes]
  <2>1. U = [r \in D |-> U[r]]
    BY <1>5
  <2>2. \A r \in D : U[r] \in Nodes
    BY <1>7, <1>8
  <2> HIDE DEF U, D
  <2> QED
    BY <1>6, <2>1, <2>2
<1> HIDE DEF U
<1>10. \A r \in D : r \in Paths /\ Len(r) <= MaxDepth /\ OnPath(r) \subseteq D
  <2>1. ASSUME NEW r \in DOMAIN T PROVE r \in Paths /\ Len(r) <= MaxDepth /\ OnPath(r) \subseteq D
    BY <1>1, <1>3 DEF Shaped
  <2>2. ASSUME NEW s \in Sides
        PROVE  /\ Child(p, s) \in Paths /\ Len(Child(p, s)) <= MaxDepth
               /\ OnPath(Child(p, s)) \subseteq D
    BY <1>2, <1>3, <1>4
  <2> QED
    BY <2>1, <2>2
<1>11. \A r \in D : Below(U, r) = {x \in D : r \in OnPath(x)}
  BY <1>6, <1>10, Above DEF Below
<1>12. ASSUME NEW r \in DOMAIN T
       PROVE  Below(U, r) = IF r \in OnPath(p) THEN Below(T, r) \cup new ELSE Below(T, r)
  <2>1. \A s \in Sides : r \in OnPath(Child(p, s)) <=> r \in OnPath(p)
    BY <1>4
  <2>2. Below(U, r) = {x \in D : r \in OnPath(x)}
    BY <1>11
  <2>3. Below(T, r) = {x \in DOMAIN T : r \in OnPath(x)}
    BY <1>3
  <2>4. CASE r \in OnPath(p)
    <3>1. \A x \in new : r \in OnPath(x)
      BY <2>1, <2>4
    <3> HIDE DEF new
    <3> QED
      BY <2>2, <2>3, <2>4, <3>1
  <2>5. CASE r \notin OnPath(p)
    <3>1. \A x \in new : r \notin OnPath(x)
      BY <2>1, <2>5
    <3> HIDE DEF new
    <3> QED
      BY <2>2, <2>3, <2>5, <3>1
  <2> QED
    BY <2>4, <2>5
<1>13. ASSUME NEW s \in Sides PROVE Below(U, Child(p, s)) = {Child(p, s)}
  <2>1. Child(p, s) \in OnPath(Child(p, s)) /\ \A x \in DOMAIN T : Child(p, s) \notin OnPath(x)
    BY <1>3, <1>4, PathOrder
  <2>2. ASSUME NEW u \in Sides, Child(p, s) \in OnPath(Child(p, u)) PROVE Child(p, u) = Child(p, s)
    BY <1>4, <2>2, PathOrder
  <2> QED
    BY <1>11, <2>1, <2>2
<1>14. Leaves(U) = (Leaves(T) \ {p}) \cup new
  <2>1. End \notin Vars
    BY NamesAssumption
  <2>2. ASSUME NEW r \in D PROVE r \in Leaves(U) <=> r \in (Leaves(T) \ {p}) \cup new
    <3>1. CASE r \in DOMAIN T
      <4>1. r \in Leaves(U) <=> U[r].variable = End
        BY <1>6 DEF Leaves
      <4>2. r \in Leaves(T) <=> T[r].variable = End
        BY <3>1 DEF Leaves
      <4>3. r \notin new
        BY <1>4, <3>1
      <4> QED
        BY <1>7, <2>1, <3>1, <4>1, <4>2, <4>3
    <3>2. CASE r \in new
      BY <1>6, <1>8, <3>2 DEF Leaves
    <3> QED
      BY <3>1, <3>2
  <2> QED
    BY <1>6, <2>2 DEF Leaves
<1>15. Shaped(U)
  <2>1. IsFiniteSet(D)
    <3>1. new = {Child(p, 0)} \cup {Child(p, 1)}
      BY SideFacts
    <3>2. IsFiniteSet(DOMAIN T)
      BY <1>1 DEF Shaped
    <3> HIDE DEF new
    <3> QED
      BY <3>1, <3>2, FS_Singleton, FS_Union
  <2>2. ASSUME NEW r \in D, U[r].variable = End PROVE Below(U, r) = {r}
    <3>1. CASE r \in DOMAIN T
      <4>1. r \in Leaves(U) /\ r \notin new
        BY <1>4, <1>6, <2>2, <3>1 DEF Leaves
      <4>2. r \in Leaves(T) /\ r # p
        BY <1>14, <4>1
      <4>3. Below(T, r) = {r}
        BY <1>1, <4>2 DEF Shaped, Leaves
      <4>4. r \notin OnPath(p)
        BY <1>2, <1>3, <4>2, <4>3, <3>1
      <4> QED
        BY <1>12, <3>1, <4>3, <4>4
    <3>2. CASE r \in new
      BY <1>13, <3>2
    <3> QED
      BY <3>1, <3>2
  <2>3. ASSUME NEW r \in D, U[r].variable # End PROVE HasChild(U, r)
    <3>1. r \in DOMAIN T
      BY <1>8, <2>3
    <3>2. HasChild(U, p)
      BY <1>6, SideFacts DEF HasChild
    <3>3. HasChild(T, r) => HasChild(U, r)
      BY <1>6 DEF HasChild
    <3>4. CASE r # p
      <4>1. T[r].variable # End /\ DOMAIN T # {Root}
        BY <1>2, <1>7, <2>3, <3>1, <3>4
      <4> QED
        BY <1>1, <3>1, <3>3, <4>1 DEF Shaped
    <3> QED
      BY <3>2, <3>4
  <2> QED
    BY <1>6, <1>9, <1>10, <2>1, <2>2, <2>3 DEF Shaped
<1>16. ASSUME NEW r \in D
       PROVE  U[r].nbSubproblems = Cardinality(Leaves(U) \cap Below(U, r))
  <2>1. CASE r \in new
    <3>1. Leaves(U) \cap Below(U, r) = {r} /\ U[r].nbSubproblems = 1
      BY <1>8, <1>13, <1>14, <2>1
    <3> QED
      BY <3>1, FS_Singleton
  <2>2. CASE r \in DOMAIN T /\ r \in OnPath(p)
    <3> DEFINE L == Leaves(T) \cap Below(T, r)
    <3>1. T[r].nbSubproblems = Cardinality(L)
      BY <1>1, <2>2 DEF Counted
    <3>2. IsFiniteSet(L) /\ p \in L
      <4>1. L \in SUBSET DOMAIN T /\ IsFiniteSet(DOMAIN T)
        BY <1>1 DEF Leaves, Shaped
      <4> QED
        BY <1>2, <1>3, <2>2, <4>1, FS_Subset
    <3>3. Leaves(U) \cap Below(U, r) = ((L \ {p}) \cup {Child(p, 0)}) \cup {Child(p, 1)}
      <4>1. new = {Child(p, 0)} \cup {Child(p, 1)}
        BY SideFacts
      <4>2. Leaves(U) \cap Below(U, r) = ((Leaves(T) \ {p}) \cup new) \cap (Below(T, r) \cup new)
        BY <1>12, <1>14, <2>2
      <4>3. \A x \in new : x \notin Leaves(T)
        BY <1>4 DEF Leaves
      <4> HIDE DEF new
      <4> QED
        BY <4>1, <4>2, <4>3
    <3>4. /\ Child(p, 0) \notin L \ {p} /\ Child(p, 1) \notin L \ {p}
          /\ Child(p, 0) # Child(p, 1)
      <4>1. 0 \in Sides /\ 1 \in Sides
        BY SideFacts
      <4>2. Child(p, 0) # Child(p, 1)
        BY <1>2, <4>1, ChildFacts
      <4>3. Child(p, 0) \notin DOMAIN T /\ Child(p, 1) \notin DOMAIN T
        BY <1>4, <4>1
      <4> QED
        BY <4>2, <4>3 DEF Leaves
    <3> HIDE DEF L
    <3>5. PICK L0 : L0 = L \ {p}
      OBVIOUS
    <3>6. IsFiniteSet(L0) /\ Cardinality(L0) = Cardinality(L) - 1
      BY <3>2, <3>5, FS_RemoveElement
    <3>7. PICK L1 : L1 = L0 \cup {Child(p, 0)}
      OBVIOUS
    <3>8. IsFiniteSet(L1) /\ Cardinality(L1) = Cardinality(L0) + 1 /\ Child(p, 1) \notin L1
      BY <3>4, <3>5, <3>6, <3>7, FS_AddElement
    <3>9. Cardinality(L1 \cup {Child(p, 1)}) = Cardinality(L1) + 1
      BY <3>8, FS_AddElement
    <3>10. Cardinality(Leaves(U) \cap Below(U, r)) = Cardinality(L1) + 1
      BY <3>3, <3>5, <3>7, <3>9
    <3>11. Cardinality(L) \in Nat
      BY <3>2, FS_CardinalityType
    <3>12. U[r].nbSubproblems = T[r].nbSubproblems + 1
      BY <1>7, <2>2
    <3> QED
      BY <3>1, <3>6, <3>8, <3>10, <3>11, <3>12
  <2>3. CASE r \in DOMAIN T /\ r \notin OnPath(p)
    <3>1. p \notin Below(T, r) /\ Below(U, r) = Below(T, r)
      BY <1>3, <1>12, <2>3
    <3>2. \A x \in new : x \notin Below(T, r)
      BY <1>4 DEF Below
    <3>3. Leaves(U) \cap Below(U, r) = Leaves(T) \cap Below(T, r)
      BY <1>14, <3>1, <3>2
    <3> QED
      BY <1>1, <1>7, <2>3, <3>3 DEF Counted
  <2> QED
    BY <2>1, <2>2, <2>3
<1>17. ASSUME NEW r \in D PROVE U[r].nbWorkers = Cardinality(Team(U, r))
  <2>1. \A x \in new : U[x].workers = {} /\ x \notin DOMAIN T
    BY <1>4, <1>8
  <2>2. CASE r \in new
    <3>1. Team(U, r) = {}
      BY <1>13, <2>1, <2>2 DEF Team
    <3> QED
      BY <1>8, <2>2, <3>1, FS_EmptySet
  <2>3. CASE r \in DOMAIN T
    <3>1. Team(U, r) = Team(T, r)
      <4>1. \A x \in Below(T, r) : U[x].workers = T[x].workers
        BY <1>7 DEF Below
      <4>2. Below(U, r) = Below(T, r) \/ Below(U, r) = Below(T, r) \cup new
        BY <1>12, <2>3
      <4>3. UNION {U[x].workers : x \in Below(T, r)} = Team(T, r)
        BY <4>1 DEF Team
      <4>4. UNION {U[x].workers : x \in Below(T, r) \cup new} = Team(T, r)
        <5> HIDE DEF new
        <5> QED
          BY <2>1, <4>1 DEF Team
      <4> QED
        BY <4>2, <4>3, <4>4 DEF Team
    <3> QED
      BY <1>1, <1>7, <2>3, <3>1 DEF Staffed
  <2> QED
    BY <2>2, <2>3
<1>18. Listed(U, A)
  <2>1. \A x \in new : U[x].workers = {}
    BY <1>8
  <2> QED
    BY <1>1, <1>6, <1>7, <2>1 DEF Listed
<1>19. Sound(U, A)
  BY <1>6, <1>15, <1>16, <1>17, <1>18 DEF Sound, Counted, Staffed
<1>20. ASSUME Covered(T), Models \subseteq [Vars -> Sides] PROVE Covered(U)
  <2> SUFFICES ASSUME NEW m \in Models PROVE \E l \in Leaves(U) : m \in WithinTree(U, l)
    BY DEF Covered
  <2>1. PICK l \in Leaves(T) : m \in WithinTree(T, l)
    BY <1>20 DEF Covered
  <2>2. l \in DOMAIN T /\ l \in Paths /\ OnPath(l) \subseteq DOMAIN T
    BY <1>3, <2>1 DEF Leaves
  <2>3. p \in OnPath(l) => l = p
    BY <1>2, <1>3, <2>2
  <2>4. WithinTree(U, l) = WithinTree(T, l)
    <3>1. \A x \in OnPath(l) : x # l => U[x].variable = T[x].variable
      BY <1>7, <2>2, <2>3
    <3> QED
      BY <2>2, <3>1, WithinSame
  <2>5. CASE l # p
    BY <1>14, <2>1, <2>4, <2>5
  <2>6. CASE l = p
    <3>1. m[v] \in Sides
      BY <1>20
    <3>2. WithinTree(U, Child(p, m[v])) = {x \in WithinTree(U, p) : x[U[p].variable] = m[v]}
      BY <1>2, <3>1, WithinFacts
    <3>3. m \in WithinTree(U, Child(p, m[v]))
      BY <1>2, <1>7, <2>1, <2>4, <2>6, <3>2
    <3>4. Child(p, m[v]) \in Leaves(U)
      BY <1>14, <3>1
    <3> QED
      BY <3>3, <3>4
  <2> QED
    BY <2>5, <2>6
<1>21. /\ DOMAIN T \subseteq DOMAIN U
       /\ \A r \in DOMAIN T : HasChild(T, r) => HasChild(U, r)
       /\ \A r \in DOMAIN U \ DOMAIN T : U[r].workers = {}
  <2>1. \A r \in DOMAIN U \ DOMAIN T : r \in new
    BY <1>6
  <2> QED
    BY <1>6, <1>8, <2>1 DEF HasChild
<1> QED
  BY <1>7, <1>19, <1>20, <1>21 DEF U

(* pharusRemoveAllWorkersOfNode and deleteNode, one after the other, as    *)
(* all the handlers chain them.                                            *)
Removed(T, A, q) == DeleteNode(DelWorkers(T, A, Team(T, q)), q)

LEMMA RemovedFacts ==
  ASSUME NEW T, NEW A \in [Threads -> Paths \cup {Null, Freed}], Sound(T, A), Rooted(T),
         NEW q \in DOMAIN T, q = Root \/ Sibling(q) \in DOMAIN T
  PROVE  LET U == Removed(T, A, q)  B == Forget(T, A, q) IN
         /\ B \in [Threads -> Paths \cup {Null, Freed}] /\ Sound(U, B) /\ Rooted(U)
         /\ \A r \in DOMAIN U : r \in DOMAIN T /\ U[r].workers \subseteq T[r].workers
         /\ q # Root => Sibling(q) \in DOMAIN U
         /\ Pointing(T, A) => Pointing(U, B)
         /\ \A t \in Threads : B[t] # Null => A[t] # Null
         /\ \A t \in Threads :
              B[t] # Null /\ A[t] \in DOMAIN T /\ t \in T[A[t]].workers
                => B[t] = A[t] /\ A[t] \in DOMAIN U /\ t \in U[A[t]].workers
         /\ (Covered(T) /\ \A l \in Leaves(T) \cap Below(T, q) : WithinTree(T, l) = {})
              => Covered(U)
<1> DEFINE U == Removed(T, A, q)
           B == Forget(T, A, q)
<1>1. PICK team : team = Team(T, q)
  OBVIOUS
<1>2. PICK V : V = DelWorkers(T, A, team)
  OBVIOUS
<1>3. Shaped(T) /\ Listed(T, A)
  BY DEF Sound
<1>4. /\ team \in SUBSET Threads
      /\ team = {t \in Threads : A[t] \in Below(T, q) /\ t \in T[A[t]].workers}
      /\ \A t \in team : A[t] \in DOMAIN T /\ t \in T[A[t]].workers
  BY <1>1, TeamPlaces
<1>5. /\ V \in [DOMAIN T -> Nodes] /\ Sound(V, A)
      /\ \A r \in DOMAIN T : V[r].variable = T[r].variable /\ V[r].workers = T[r].workers \ team
  BY <1>2, <1>4, DelWorkersFacts
<1>6. /\ Shaped(V) /\ DOMAIN V = DOMAIN T /\ Leaves(V) = Leaves(T) /\ Rooted(V)
      /\ \A r : Below(V, r) = Below(T, r)
      /\ \A r \in DOMAIN T : WithinTree(V, r) = WithinTree(T, r)
      /\ Covered(T) => Covered(V)
  BY <1>3, <1>5, SameTree
<1>7. Team(V, q) = {}
  <2>1. Team(V, q) = UNION {T[r].workers \ team : r \in Below(T, q)}
    BY <1>5, <1>6 DEF Team, Below
  <2>2. team = UNION {T[r].workers : r \in Below(T, q)}
    BY <1>1 DEF Team
  <2> QED
    BY <2>1, <2>2
<1>8. /\ U = DeleteNode(V, q)
      /\ B = [t \in Threads |-> IF t \in team THEN Null
                               ELSE IF q # Root /\ A[t] \in Below(T, q) THEN Freed ELSE A[t]]
  BY <1>1, <1>2 DEF Removed, Forget
<1> HIDE DEF U, B
<1>9. B \in [Threads -> Paths \cup {Null, Freed}]
  BY <1>8
<1>10. \A l \in Leaves(T) \cap Below(T, q) : l \in DOMAIN T
  BY DEF Leaves
<1>11. /\ Sound(U, A) /\ Rooted(U) /\ DOMAIN U \subseteq DOMAIN T
       /\ \A r \in DOMAIN U : U[r].workers = T[r].workers \ team
       /\ q # Root => Sibling(q) \in DOMAIN U
       /\ \A r \in DOMAIN T : r \in DOMAIN U \/ r \in Below(T, q)
       /\ q = Root => DOMAIN U = {Root}
       /\ (Covered(T) /\ \A l \in Leaves(T) \cap Below(T, q) : WithinTree(T, l) = {})
            => Covered(U)
  <2>1. CASE q = Root
    <3>1. Below(T, q) = DOMAIN T
      <4>1. \A r \in DOMAIN T : q \in OnPath(r)
        BY <1>3, <2>1, PathOrder DEF Shaped
      <4>2. Below(T, q) = {r \in DOMAIN T : q \in OnPath(r)}
        BY <1>3, BelowFacts
      <4> QED
        BY <4>1, <4>2
    <3>2. /\ Sound(U, A) /\ Rooted(U) /\ DOMAIN U = {Root} /\ U[Root].workers = V[Root].workers
          /\ (Covered(V) /\ \A l \in Leaves(V) : WithinTree(V, l) = {}) => Covered(U)
      BY <1>5, <1>6, <1>7, <1>8, <2>1, DeleteRootFacts
    <3>3. \A l \in Leaves(T) : l \in Below(T, q)
      BY <3>1 DEF Leaves
    <3>4. U[Root].workers = T[Root].workers \ team
      BY <1>5, <2>1, <3>2
    <3> QED
      BY <1>6, <1>10, <2>1, <3>1, <3>2, <3>3, <3>4
  <2>2. CASE q # Root
    <3>1. /\ Sound(U, A) /\ DOMAIN U = DOMAIN V \ Below(V, q)
          /\ \A r \in DOMAIN U : U[r].variable = V[r].variable /\ U[r].workers = V[r].workers
          /\ Sibling(q) \in DOMAIN U /\ Root \in DOMAIN U
          /\ (Covered(V) /\ \A l \in Leaves(V) \cap Below(V, q) : WithinTree(V, l) = {})
               => Covered(U)
      <4>1. q \in DOMAIN V /\ q # Root /\ Sibling(q) \in DOMAIN V /\ Sound(V, A) /\ Team(V, q) = {}
        BY <1>5, <1>6, <1>7, <2>2
      <4> QED
        BY <1>8, <4>1, DeleteBelowFacts
    <3>2. Rooted(U)
      BY <1>6, <3>1 DEF Rooted
    <3> QED
      BY <1>5, <1>6, <1>10, <2>2, <3>1, <3>2
  <2> QED
    BY <2>1, <2>2
<1>12. Sound(U, B)
  <2>1. ASSUME NEW r \in DOMAIN U, NEW t \in U[r].workers PROVE B[t] = r
    <3>1. A[t] = r /\ t \in T[r].workers /\ t \notin team
      BY <1>11, <2>1 DEF Sound, Listed
    <3>2. t \in Threads
      BY <1>11 DEF Sound, Shaped, Nodes
    <3>3. A[t] \notin Below(T, q)
      BY <1>4, <3>1, <3>2
    <3> QED
      BY <1>8, <3>1, <3>2, <3>3
  <2> QED
    BY <1>11, <2>1 DEF Sound, Listed
<1>13. ASSUME NEW t \in Threads, B[t] # Null, A[t] \in DOMAIN T, t \in T[A[t]].workers
       PROVE  B[t] = A[t] /\ A[t] \in DOMAIN U /\ t \in U[A[t]].workers
  <2>1. t \notin team
    BY <1>8, <1>13
  <2>2. A[t] \notin Below(T, q)
    BY <1>4, <1>13, <2>1
  <2>3. B[t] = A[t]
    BY <1>8, <2>1, <2>2
  <2> QED
    BY <1>11, <1>13, <2>1, <2>2, <2>3
<1>14. ASSUME NEW t \in Threads, A[t] = Null PROVE B[t] = Null
  <2>1. \A r \in Below(T, q) : r \in DOMAIN T /\ r \in Paths
    BY <1>3 DEF Below, Shaped
  <2>2. A[t] \notin Below(T, q)
    BY <1>14, <2>1, NamesAssumption DEF Paths
  <2> QED
    BY <1>8, <1>14, <2>2
<1>15. ASSUME Pointing(T, A) PROVE Pointing(U, B)
  <2>1. CASE q = Root
    BY <1>11, <2>1 DEF Pointing
  <2>2. CASE q # Root
    <3>1. DOMAIN T # {Root}
      BY <2>2
    <3>2. ASSUME NEW t \in Threads PROVE B[t] \in {Null, Freed} \cup DOMAIN U
      <4>1. A[t] \in {Null, Freed} \cup DOMAIN T
        BY <1>15, <3>1 DEF Pointing
      <4> QED
        BY <1>8, <1>11, <2>2, <4>1
    <3> QED
      BY <3>2 DEF Pointing
  <2> QED
    BY <2>1, <2>2
<1> QED
  BY <1>9, <1>11, <1>12, <1>13, <1>14, <1>15 DEF U, B

-----------------------------------------------------------------------------
(* Now the steps.                                                          *)
LEMMA RunBegins ==
  ASSUME NEW A
  PROVE  Sound(<<>>, A)
<1>1. DOMAIN <<>> = {} /\ IsFiniteSet({})
  <2>1. <<>> \in Seq(Nodes) /\ Len(<<>>) = 0
    BY EmptySeq
  <2>2. DOMAIN <<>> = 1..0
    BY <2>1, LenProperties
  <2> QED
    BY <2>2, FS_EmptySet
<1>2. <<>> \in [DOMAIN <<>> -> Nodes]
  BY <1>1
<1> QED
  BY <1>1, <1>2 DEF Sound, Shaped, Counted, Staffed, Listed

LEMMA InitIInv == Init => IInv
<1> SUFFICES ASSUME Init PROVE IInv
  OBVIOUS
<1>1. Sound(tree, at)
  BY RunBegins DEF Init
<1>2. Types
  BY DEF Init, Types
<1>3. Started /\ Working /\ Walking /\ Pointing(tree, at)
  BY DEF Init, Started, Working, Walking, Pointing
<1> QED
  BY <1>1, <1>2, <1>3 DEF IInv

(* Models stays; so does what is said of it.                               *)
LEMMA SameModels ==
  ASSUME Models' = Models, Covered(tree')
  PROVE  Covered(tree)'
BY DEF Covered, WithinTree, Leaves

(* A thread that asks, works or walks does so in a tree.                   *)
LEMMA Asking ==
  ASSUME IInv
  PROVE  /\ \A t \in Threads : pc[t] # "init" => Rooted(tree) /\ Covered(tree)
         /\ walker # Null => Rooted(tree) /\ Covered(tree) /\ walker \in Threads
BY DEF IInv, Types, Started, Walking

(* The handlers that cut: subproblemUNSAT, and the deletion of a father.   *)
LEMMA CutKeeps ==
  ASSUME IInv, Rooted(tree), Covered(tree), NEW p \in DOMAIN tree,
         \A l \in Leaves(tree) : p \in OnPath(l) => WithinTree(tree, l) = {},
         Cut(p), Models' = Models
  PROVE  /\ at' \in [Threads -> Paths \cup {Null, Freed}] /\ Sound(tree', at')
         /\ Rooted(tree') /\ Covered(tree') /\ fate' = fate
         /\ Pointing(tree', at') /\ \A t \in Threads : at'[t] # Null => at[t] # Null
         /\ \A t \in Threads :
              at'[t] # Null /\ at[t] \in DOMAIN tree /\ t \in tree[at[t]].workers
                => at'[t] = at[t] /\ at[t] \in DOMAIN tree' /\ t \in tree'[at[t]].workers
<1>1. /\ Sound(tree, at) /\ Shaped(tree) /\ at \in [Threads -> Paths \cup {Null, Freed}]
      /\ Pointing(tree, at)
  BY DEF IInv, Sound, Types
<1>2. PICK q : q = Pruning(tree, p)
  OBVIOUS
<1>3. /\ q \in DOMAIN tree /\ (q = Root \/ Sibling(q) \in DOMAIN tree)
      /\ \A l \in Leaves(tree) \cap Below(tree, q) : p \in OnPath(l)
  BY <1>1, <1>2, PruningFacts
<1>4. Known(Team(tree, q)) = Team(tree, q)
  BY <1>1, <1>3, TeamPlaces DEF Known
<1>5. tree' = Removed(tree, at, q) /\ at' = Forget(tree, at, q) /\ fate' = fate
  BY <1>2, <1>4 DEF Cut, Removed, Forget
<1>6. \A l \in Leaves(tree) \cap Below(tree, q) : WithinTree(tree, l) = {}
  BY <1>3
<1> QED
  BY <1>1, <1>3, <1>5, <1>6, RemovedFacts

LEMMA OtherSolutionKeeps == IInv /\ OtherSolution => IInv'
<1> SUFFICES ASSUME IInv, OtherSolution PROVE IInv'
  OBVIOUS
<1>1. UNCHANGED <<Models, tree, at, pc, walker, place, fate>> /\ solved' = TRUE
  BY DEF OtherSolution, treeVars, walkVars
<1>2. Types'
  BY <1>1 DEF IInv, Types
<1>3. Sound(tree, at)' /\ Working' /\ Walking' /\ Pointing(tree, at)'
  BY <1>1 DEF IInv, Working, Walking
<1>4. Started'
  <2>1. Covered(tree) => Covered(tree)'
    BY <1>1, SameModels
  <2> QED
    BY <1>1, <2>1 DEF IInv, Started
<1> QED
  BY <1>2, <1>3, <1>4 DEF IInv

LEMMA InitializationKeeps ==
  ASSUME IInv, NEW t \in Threads, Initialization(t)
  PROVE  IInv'
<1>1. /\ UNCHANGED <<Models, at, walker, place, solved, fate>>
      /\ walker = Null /\ fate = "none" /\ pc' = [pc EXCEPT ![t] = "ask"] /\ pc[t] = "init"
  BY DEF Initialization, Free, Alive, EndInitialization, GoTo, walkVars
<1>2. Types' /\ Walking'
  BY <1>1 DEF IInv, Types, Walking
<1>3. CASE tree # <<>>
  <2>1. tree' = tree /\ Rooted(tree) /\ Covered(tree)
    BY <1>3 DEF Initialization, IInv, Started
  <2>2. Covered(tree)'
    BY <1>1, <2>1, SameModels
  <2>3. Started' /\ Sound(tree, at)'
    BY <1>1, <2>1, <2>2 DEF IInv, Started
  <2>4. Working' /\ Pointing(tree, at)'
    BY <1>1, <2>1 DEF IInv, Working, Types
  <2> QED
    BY <1>2, <2>3, <2>4 DEF IInv
<1>4. CASE tree = <<>>
  <2> DEFINE R == [p \in {Root} |-> Leaf]
  <2>1. PICK v \in Vars : tree' = ExtendNode(R, Root, v)
    BY <1>4 DEF Initialization
  <2>2. Root \in Paths /\ Len(Root) = 0 /\ OnPath(Root) = {Root}
    <3>1. Root \in Paths /\ Len(Root) = 0
      BY EmptySeq DEF Root, Paths
    <3>2. \A q \in OnPath(Root) : Len(q) \in 0..Len(Root) /\ (Len(q) = Len(Root) => q = Root)
      BY <3>1, PathOrder
    <3>3. Root \in OnPath(Root)
      BY <3>1, PathOrder
    <3> QED
      BY <3>1, <3>2, <3>3
  <2>3. Leaf = [variable |-> End, nbSubproblems |-> 1, nbWorkers |-> 0, workers |-> {}]
    BY DEF Leaf, Node
  <2>4. /\ Leaf \in Nodes /\ Leaf.variable = End /\ Leaf.workers = {}
        /\ Leaf.nbSubproblems = 1 /\ Leaf.nbWorkers = 0
    BY <2>3 DEF Nodes
  <2>5. DOMAIN R = {Root} /\ R[Root] = Leaf
    OBVIOUS
  <2>6. R \in [DOMAIN R -> Nodes]
    BY <2>4
  <2> HIDE DEF R
  <2>7. Below(R, Root) = {Root}
    BY <2>2, <2>5, Above DEF Below
  <2>8. Leaves(R) = {Root}
    BY <2>4, <2>5 DEF Leaves
  <2>9. Team(R, Root) = {}
    BY <2>4, <2>5, <2>7 DEF Team
  <2>10. Shaped(R)
    <3>1. IsFiniteSet(DOMAIN R) /\ Len(Root) <= MaxDepth /\ Len(Root) < MaxDepth
      <4>1. 0 <= MaxDepth /\ 0 < MaxDepth
        BY BoundAssumption
      <4> QED
        BY <2>2, <2>5, <4>1, FS_Singleton
    <3> QED
      BY <2>2, <2>5, <2>6, <2>7, <3>1 DEF Shaped
  <2>11. Counted(R)
    <3>1. Cardinality({Root}) = 1
      BY FS_Singleton
    <3>2. Leaves(R) \cap Below(R, Root) = {Root}
      BY <2>7, <2>8
    <3> QED
      BY <2>4, <2>5, <3>1, <3>2 DEF Counted
  <2>12. Staffed(R) /\ Listed(R, at)
    BY <2>4, <2>5, <2>9, FS_EmptySet DEF Staffed, Listed
  <2>13. Covered(R)
    BY <2>2, <2>8, WithinFacts DEF Covered
  <2>14. /\ Sound(tree', at) /\ Covered(tree') /\ Root \in DOMAIN tree'
         /\ tree'[Root].variable = v
    <3>1. Sound(R, at) /\ Root \in Leaves(R) /\ Len(Root) < MaxDepth /\ Root \in DOMAIN R
      BY <2>2, <2>5, <2>8, <2>10, <2>11, <2>12, BoundAssumption DEF Sound
    <3>2. Models \subseteq [Vars -> Sides]
      BY DEF IInv, Types
    <3> QED
      BY <2>1, <2>13, <3>1, <3>2, ExtendFacts
  <2>15. Rooted(tree') /\ Sound(tree, at)'
    BY <1>1, <2>14, NamesAssumption DEF Rooted
  <2>16. Started'
    BY <1>1, <2>14, <2>15, SameModels DEF Started
  <2>17. DOMAIN tree = {}
    <3>1. <<>> \in Seq(Nodes) /\ Len(<<>>) = 0
      BY EmptySeq
    <3>2. DOMAIN <<>> = 1..0
      BY <3>1, LenProperties
    <3> QED
      BY <1>4, <3>2
  <2>18. Working'
    <3>1. \A u \in Threads : pc[u] = "init" \/ Rooted(tree)
      BY DEF IInv, Started
    <3> QED
      BY <1>1, <2>17, <3>1 DEF Working, IInv, Types, Rooted
  <2>19. Pointing(tree, at)'
    <3>1. \A u \in Threads : at[u] \in {Null, Freed}
      BY <2>17 DEF IInv, Pointing
    <3> QED
      BY <1>1, <3>1 DEF Pointing
  <2> QED
    BY <1>2, <2>15, <2>16, <2>18, <2>19 DEF IInv
<1> QED
  BY <1>3, <1>4

LEMMA FromRootKeeps ==
  ASSUME IInv, NEW t \in Threads, FromRoot(t)
  PROVE  IInv'
<1>1. CASE fate' = "freed"
  <2>1. UNCHANGED <<Models, at, tree, pc, walker, place, solved>>
    BY <1>1 DEF FromRoot, Free, Alive, walkVars
  <2>2. Types' /\ Sound(tree, at)' /\ Working' /\ Walking' /\ Pointing(tree, at)'
    BY <1>1, <2>1 DEF IInv, Types, Working, Walking
  <2>3. Started'
    BY <2>1, SameModels DEF IInv, Started
  <2> QED
    BY <2>2, <2>3 DEF IInv
<1>2. CASE fate' # "freed"
  <2>1. /\ UNCHANGED <<Models, at, fate>> /\ tree' = DelWorker(tree, at, t)
        /\ walker = Null /\ fate = "none" /\ pc[t] = "ask"
        /\ \/ pc' = [pc EXCEPT ![t] = "stopped"] /\ solved' = TRUE /\ UNCHANGED <<walker, place>>
           \/ walker' = t /\ place' = Root /\ ~IsUnsat /\ UNCHANGED <<pc, solved>>
    BY <1>2 DEF FromRoot, Free, Alive, GoTo, walkVars
  <2>2. Sound(tree, at) /\ Shaped(tree) /\ Rooted(tree) /\ Covered(tree)
    BY <2>1, Asking DEF IInv, Sound
  <2>3. /\ tree' \in [DOMAIN tree -> Nodes] /\ Sound(tree', at)
        /\ \A q \in DOMAIN tree : /\ tree'[q].variable = tree[q].variable
                                  /\ tree'[q].workers = tree[q].workers \ {t}
    BY <2>1, <2>2, DelWorkerFacts
  <2>4. /\ Rooted(tree') /\ Covered(tree') /\ DOMAIN tree' = DOMAIN tree
        /\ \A p \in DOMAIN tree : HasChild(tree, p) => HasChild(tree', p)
    BY <2>2, <2>3, SameTree
  <2>5. Sound(tree, at)' /\ Started'
    BY <2>1, <2>3, <2>4, SameModels DEF Started
  <2>6. Types' /\ Pointing(tree, at)'
    BY <2>1, <2>4 DEF IInv, Types, Pointing
  <2>7. Working'
    <3> SUFFICES ASSUME NEW u \in Threads, pc'[u] = "work", at[u] # Null
                 PROVE  at[u] \in DOMAIN tree' /\ u \in tree'[at[u]].workers
      BY <2>1 DEF Working
    <3>1. pc[u] = "work" /\ u # t
      BY <2>1 DEF IInv, Types
    <3>2. at[u] \in DOMAIN tree /\ u \in tree[at[u]].workers
      BY <3>1 DEF IInv, Working
    <3> QED
      BY <2>3, <2>4, <3>1, <3>2
  <2>8. Walking'
    <3> SUFFICES ASSUME walker' # Null
                 PROVE  /\ pc'[walker'] = "ask"
                        /\ \A p \in DOMAIN tree' : walker' \notin tree'[p].workers
                        /\ place' \in DOMAIN tree' /\ tree'[place'].variable # End
                        /\ HasChild(tree', place')
      BY DEF Walking, HasChild
    <3>1. walker' = t /\ place' = Root /\ ~IsUnsat /\ pc' = pc
      BY <2>1
    <3>2. HasChild(tree, Root)
      <4>1. Root \in DOMAIN tree /\ tree[Root].variable # End
        BY <2>2 DEF Rooted
      <4>2. Cardinality(Leaves(tree) \cap Below(tree, Root)) # 0
        BY <2>2, <3>1, <4>1 DEF IsUnsat, Sound, Counted
      <4>3. PICK l : l \in Leaves(tree)
        BY <4>2, FS_EmptySet
      <4>4. l \in DOMAIN tree /\ l # Root
        BY <4>1, <4>3 DEF Leaves
      <4> QED
        BY <2>2, <4>1, <4>4 DEF Shaped
    <3> QED
      BY <2>1, <2>3, <2>4, <3>1, <3>2 DEF Rooted
  <2> QED
    BY <2>5, <2>6, <2>7, <2>8 DEF IInv
<1> QED
  BY <1>1, <1>2

LEMMA IndeterminateKeeps ==
  ASSUME IInv, NEW t \in Threads, Indeterminate(t)
  PROVE  IInv'
<1>1. /\ UNCHANGED <<Models, at, walker, place, solved, fate>>
      /\ walker = Null /\ fate = "none" /\ pc[t] = "work"
      /\ pc' \in {pc, [pc EXCEPT ![t] = "ask"]}
      /\ \/ tree' = tree
         \/ /\ at[t] # Null /\ tree[at[t]].variable = End /\ Len(at[t]) < MaxDepth
            /\ \E v \in BestVariable(at[t]) : tree' = ExtendNode(tree, at[t], v)
  BY DEF Indeterminate, Free, Alive, EndSubproblem, StayOrLeave, GoTo, walkVars
<1>2. Sound(tree, at) /\ Rooted(tree) /\ Covered(tree)
  BY <1>1, Asking DEF IInv
<1>3. Types' /\ Walking'
  BY <1>1 DEF IInv, Types, Walking
<1>4. /\ Sound(tree', at) /\ Rooted(tree') /\ Covered(tree') /\ DOMAIN tree \subseteq DOMAIN tree'
      /\ \A q \in DOMAIN tree : tree'[q].workers = tree[q].workers
  <2>1. CASE tree' = tree
    BY <1>2, <2>1
  <2>2. CASE tree' # tree
    <3>1. /\ at[t] # Null /\ tree[at[t]].variable = End /\ Len(at[t]) < MaxDepth
          /\ \E v \in BestVariable(at[t]) : tree' = ExtendNode(tree, at[t], v)
      BY <1>1, <2>2
    <3>2. PICK v \in Vars : tree' = ExtendNode(tree, at[t], v)
      BY <3>1 DEF BestVariable, TopOfHeap, MostUsed
    <3>3. at[t] \in Leaves(tree) /\ at[t] # Root
      BY <1>1, <1>2, <3>1 DEF IInv, Working, Leaves, Rooted
    <3>4. Models \subseteq [Vars -> Sides]
      BY DEF IInv, Types
    <3> QED
      BY <1>2, <3>1, <3>2, <3>3, <3>4, ExtendFacts DEF Rooted
  <2> QED
    BY <2>1, <2>2
<1>5. Sound(tree, at)' /\ Started'
  BY <1>1, <1>4, SameModels DEF Started
<1>6. Working'
  <2> SUFFICES ASSUME NEW u \in Threads, pc'[u] = "work", at[u] # Null
               PROVE  at[u] \in DOMAIN tree' /\ u \in tree'[at[u]].workers
    BY <1>1 DEF Working
  <2>1. pc[u] = "work"
    BY <1>1 DEF IInv, Types
  <2> QED
    BY <1>4, <2>1 DEF IInv, Working
<1>7. Pointing(tree, at)'
  <2>1. DOMAIN tree = {Root} => tree' = tree
    BY <1>1, <1>2 DEF IInv, Working, Rooted
  <2> QED
    BY <1>1, <1>4, <2>1 DEF IInv, Pointing
<1> QED
  BY <1>3, <1>5, <1>6, <1>7 DEF IInv

(* What AddWorker does to a tree, said of the walker.                      *)
Joined(T, U, q) ==
  /\ \A r \in DOMAIN T : U[r].variable = T[r].variable
  /\ U[q].workers = T[q].workers \cup {walker}
  /\ \A r \in DOMAIN T : r # q => U[r].workers = T[r].workers

LEMMA LeafTaken ==
  ASSUME walker \in Threads,
         NEW T, NEW A \in [Threads -> Paths \cup {Null, Freed}], Sound(T, A), NEW q \in DOMAIN T,
         \A r \in DOMAIN T : walker \notin T[r].workers,
         tree' = AddWorker(T, q, walker), at' = [A EXCEPT ![walker] = q]
  PROVE  /\ tree' \in [DOMAIN T -> Nodes] /\ Sound(tree', at')
         /\ Joined(T, tree', q)
<1>1. PICK w \in Threads : w = walker
  OBVIOUS
<1>2. PICK W : W = tree'
  OBVIOUS
<1>3. PICK B : B = at'
  OBVIOUS
<1>4. W = AddWorker(T, q, w) /\ B = [A EXCEPT ![w] = q] /\ \A r \in DOMAIN T : w \notin T[r].workers
  BY <1>1, <1>2, <1>3
<1>5. W \in [DOMAIN T -> Nodes]
  BY <1>4, AddWorkerFacts
<1>6. Sound(W, B)
  BY <1>4, AddWorkerFacts
<1>7. \A r \in DOMAIN T : W[r].variable = T[r].variable
  BY <1>4, AddWorkerFacts
<1>8. W[q].workers = T[q].workers \cup {w}
  BY <1>4, AddWorkerFacts
<1>9. \A r \in DOMAIN T : r # q => W[r].workers = T[r].workers
  BY <1>4, AddWorkerFacts
<1> QED
  BY <1>1, <1>2, <1>3, <1>5, <1>6, <1>7, <1>8, <1>9 DEF Joined

(* The walker goes on in tree T, with the threads at A: it takes a leaf,   *)
(* or stands on a node that has children.                                  *)
LEMMA GoKeeps ==
  ASSUME IInv, Alive, walker # Null, Models' = Models, UNCHANGED <<solved, fate>>,
         NEW T, NEW A \in [Threads -> Paths \cup {Null, Freed}], Sound(T, A), Rooted(T), Covered(T),
         Pointing(T, A), NEW side, Child(place, side) \in DOMAIN T, side \in Sides, place \in Paths,
         \A p \in DOMAIN T : walker \notin T[p].workers,
         \A t \in Threads : pc[t] = "work" /\ A[t] # Null =>
           A[t] \in DOMAIN T /\ t \in T[A[t]].workers,
         Go(T, A, side)
  PROVE  IInv'
<1>1. PICK q : q = Child(place, side)
  OBVIOUS
<1>2. q \in DOMAIN T /\ q # Root /\ q \in Paths /\ q # Null
  BY <1>1, ChildFacts, NamesAssumption DEF Paths
<1>3. walker \in Threads /\ pc[walker] = "ask" /\ fate = "none"
  BY DEF IInv, Types, Walking, Alive
<1>4. \A t \in Threads : A[t] \in {Null, Freed} \cup DOMAIN T
  BY <1>2 DEF Pointing
<1>5. CASE T[q].variable = End
  <2>1. /\ tree' = AddWorker(T, q, walker) /\ at' = [A EXCEPT ![walker] = q]
        /\ pc' = [pc EXCEPT ![walker] = "work"] /\ walker' = Null
    BY <1>1, <1>5 DEF Go, GoTo, EndWalk
  <2>2. /\ tree' \in [DOMAIN T -> Nodes] /\ Sound(tree', at')
        /\ \A r \in DOMAIN T : tree'[r].variable = T[r].variable
        /\ tree'[q].workers = T[q].workers \cup {walker}
        /\ \A r \in DOMAIN T : r # q => tree'[r].workers = T[r].workers
    <3>1. q \in DOMAIN T
      BY <1>2
    <3>2. tree' \in [DOMAIN T -> Nodes] /\ Sound(tree', at')
      BY <1>3, <2>1, <3>1, LeafTaken
    <3>3. Joined(T, tree', q)
      BY <1>3, <2>1, <3>1, LeafTaken
    <3> QED
      BY <3>2, <3>3 DEF Joined
  <2>3. Rooted(tree') /\ Covered(tree') /\ DOMAIN tree' = DOMAIN T
    BY <2>2, SameTree DEF Sound
  <2>4. Types'
    BY <1>2, <1>3, <2>1 DEF IInv, Types
  <2>5. Sound(tree, at)' /\ Started'
    BY <2>2, <2>3, SameModels DEF Started
  <2>6. Walking'
    BY <2>1 DEF Walking
  <2>7. Working'
    <3> SUFFICES ASSUME NEW t \in Threads, pc'[t] = "work", at'[t] # Null
                 PROVE  at'[t] \in DOMAIN tree' /\ t \in tree'[at'[t]].workers
      BY DEF Working
    <3>1. CASE t = walker
      BY <1>2, <2>1, <2>2, <2>3, <3>1
    <3>2. CASE t # walker
      <4>1. pc[t] = "work" /\ at'[t] = A[t]
        BY <2>1, <3>2 DEF IInv, Types
      <4> QED
        BY <2>2, <2>3, <4>1
    <3> QED
      BY <3>1, <3>2
  <2>8. Pointing(tree', at')
    BY <1>2, <1>3, <1>4, <2>1, <2>3 DEF Pointing
  <2> QED
    BY <2>4, <2>5, <2>6, <2>7, <2>8 DEF IInv
<1>6. CASE T[q].variable # End
  <2>1. tree' = T /\ at' = A /\ place' = q /\ UNCHANGED <<pc, walker>>
    BY <1>1, <1>6 DEF Go
  <2>2. Types'
    BY <2>1 DEF IInv, Types
  <2>3. Sound(tree, at)' /\ Started'
    BY <2>1, SameModels DEF Started
  <2>4. Working'
    BY <2>1 DEF Working
  <2>5. HasChild(T, q)
    <3>1. DOMAIN T # {Root}
      BY <1>2
    <3> QED
      BY <1>2, <1>6, <3>1 DEF Sound, Shaped
  <2>6. Walking'
    <3> SUFFICES /\ pc'[walker'] = "ask" /\ \A p \in DOMAIN tree' : walker' \notin tree'[p].workers
                 /\ place' \in DOMAIN tree' /\ tree'[place'].variable # End
                 /\ HasChild(tree', place')
      BY DEF Walking, HasChild
    <3> QED
      BY <1>2, <1>3, <1>6, <2>1, <2>5
  <2>7. Pointing(tree, at)'
    BY <2>1
  <2> QED
    BY <2>2, <2>3, <2>4, <2>6, <2>7 DEF IInv
<1> QED
  BY <1>5, <1>6

LEMMA GoDownKeeps ==
  ASSUME IInv, NEW side \in Sides, GoDown(side)
  PROVE  IInv'
<1>1. /\ Alive /\ walker # Null /\ Models' = Models /\ UNCHANGED <<solved, fate>>
      /\ Child(place, side) \in DOMAIN tree /\ Go(tree, at, side)
  BY DEF GoDown, Children
<1>2. Sound(tree, at) /\ Rooted(tree) /\ Covered(tree) /\ at \in [Threads -> Paths \cup {Null, Freed}]
  BY <1>1, Asking DEF IInv, Types
<1>3. place \in Paths /\ \A p \in DOMAIN tree : walker \notin tree[p].workers
  BY <1>1, <1>2 DEF IInv, Walking, Sound, Shaped
<1>4. /\ Pointing(tree, at)
      /\ \A t \in Threads : pc[t] = "work" /\ at[t] # Null =>
           at[t] \in DOMAIN tree /\ t \in tree[at[t]].workers
  BY DEF IInv, Working
<1> QED
  BY <1>1, <1>2, <1>3, <1>4, GoKeeps

LEMMA AlreadyAssignedKeeps ==
  ASSUME IInv, NEW side \in Sides, AlreadyAssigned(side)
  PROVE  IInv'
<1>1. PICK other : other = Child(place, 1 - side)
  OBVIOUS
<1>2. Alive /\ walker # Null /\ Children(place) = Sides /\ MayBeAssigned(place, side)
      /\ UNCHANGED <<Models, solved>>
  BY DEF AlreadyAssigned
<1>3. Sound(tree, at) /\ Shaped(tree) /\ Rooted(tree) /\ Covered(tree)
      /\ at \in [Threads -> Paths \cup {Null, Freed}] /\ Pointing(tree, at)
  BY <1>2, Asking DEF IInv, Types, Sound
<1>4. place \in DOMAIN tree /\ place \in Paths /\ \A p \in DOMAIN tree : walker \notin tree[p].workers
  BY <1>2, <1>3 DEF IInv, Walking, Shaped
<1>5. 1 - side \in Sides /\ 1 - (1 - side) = side
  BY SideFacts
<1>6. other \in DOMAIN tree /\ Child(place, side) \in DOMAIN tree
  BY <1>1, <1>2, <1>5 DEF Children
<1>7. other # Root /\ Sibling(other) = Child(place, side)
  BY <1>1, <1>4, <1>5, ChildFacts
<1>8. Known(Team(tree, other)) = Team(tree, other)
  BY <1>3, <1>6, TeamPlaces DEF Known
<1>9. Go(Removed(tree, at, other), Forget(tree, at, other), side) /\ fate' = fate
  BY <1>1, <1>8 DEF AlreadyAssigned, Removed, Forget
<1>10. PICK U, B : U = Removed(tree, at, other) /\ B = Forget(tree, at, other)
  OBVIOUS
<1>11. /\ B \in [Threads -> Paths \cup {Null, Freed}] /\ Sound(U, B) /\ Rooted(U)
       /\ \A r \in DOMAIN U : r \in DOMAIN tree /\ U[r].workers \subseteq tree[r].workers
       /\ Child(place, side) \in DOMAIN U /\ Pointing(U, B)
       /\ \A t \in Threads : B[t] # Null => at[t] # Null
       /\ \A t \in Threads :
            B[t] # Null /\ at[t] \in DOMAIN tree /\ t \in tree[at[t]].workers
              => B[t] = at[t] /\ at[t] \in DOMAIN U /\ t \in U[at[t]].workers
       /\ (Covered(tree) /\ \A l \in Leaves(tree) \cap Below(tree, other) : WithinTree(tree, l) = {})
            => Covered(U)
  BY <1>3, <1>6, <1>7, <1>10, RemovedFacts
<1>12. ASSUME NEW l \in Leaves(tree) \cap Below(tree, other) PROVE WithinTree(tree, l) = {}
  <2>1. l \in Paths /\ other \in OnPath(l)
    BY <1>3, <1>6, BelowFacts DEF Leaves, Shaped
  <2>2. WithinTree(tree, other) = {m \in WithinTree(tree, place) : m[tree[place].variable] = 1 - side}
    BY <1>1, <1>4, <1>5, WithinFacts
  <2>3. WithinTree(tree, other) = {}
    BY <1>2, <2>2 DEF MayBeAssigned, WithinChild, Within, WithinTree
  <2> QED
    BY <2>1, <2>3, WithinFacts
<1>13. \A t \in Threads : pc[t] = "work" /\ B[t] # Null => B[t] \in DOMAIN U /\ t \in U[B[t]].workers
  <2> SUFFICES ASSUME NEW t \in Threads, pc[t] = "work", B[t] # Null
               PROVE  B[t] \in DOMAIN U /\ t \in U[B[t]].workers
    OBVIOUS
  <2>1. at[t] # Null
    BY <1>11
  <2>2. at[t] \in DOMAIN tree /\ t \in tree[at[t]].workers
    BY <2>1 DEF IInv, Working
  <2> QED
    BY <1>11, <2>2
<1>14. \A p \in DOMAIN U : walker \notin U[p].workers
  BY <1>4, <1>11
<1> QED
  BY <1>2, <1>3, <1>4, <1>9, <1>10, <1>11, <1>12, <1>13, <1>14, GoKeeps

LEMMA DecisionSATKeeps ==
  ASSUME IInv, NEW side \in Sides, DecisionSAT(side)
  PROVE  IInv'
<1>1. UNCHANGED <<Models, tree, at, pc, walker, place, solved>> /\ fate' = "satisfied"
  BY DEF DecisionSAT, treeVars, walkVars
<1>2. Types' /\ Sound(tree, at)' /\ Working' /\ Walking' /\ Pointing(tree, at)'
  BY <1>1 DEF IInv, Types, Working, Walking
<1>3. Started'
  BY <1>1, SameModels DEF IInv, Started
<1> QED
  BY <1>2, <1>3 DEF IInv

(* After a cut nobody walks, and who goes on working does so where it was. *)
LEMMA AfterCut ==
  ASSUME IInv, NEW p \in DOMAIN tree, Rooted(tree), Covered(tree), Alive,
         \A l \in Leaves(tree) : p \in OnPath(l) => WithinTree(tree, l) = {},
         Cut(p), UNCHANGED <<Models, solved>>, walker' = Null,
         pc' \in [Threads -> {"init", "ask", "work", "stopped"}],
         \A t \in Threads : pc'[t] = "work" => pc[t] = "work"
  PROVE  IInv'
<1>1. /\ at' \in [Threads -> Paths \cup {Null, Freed}] /\ Sound(tree', at')
      /\ Rooted(tree') /\ Covered(tree') /\ fate' = fate
      /\ Pointing(tree', at') /\ \A t \in Threads : at'[t] # Null => at[t] # Null
      /\ \A t \in Threads :
           at'[t] # Null /\ at[t] \in DOMAIN tree /\ t \in tree[at[t]].workers
             => at'[t] = at[t] /\ at[t] \in DOMAIN tree' /\ t \in tree'[at[t]].workers
  BY CutKeeps
<1>2. Types' /\ Walking' /\ Pointing(tree, at)'
  BY <1>1 DEF IInv, Types, Walking
<1>3. Sound(tree, at)' /\ Started'
  BY <1>1, SameModels DEF Started
<1>4. Working'
  <2> SUFFICES ASSUME NEW t \in Threads, pc'[t] = "work", at'[t] # Null
               PROVE  at'[t] \in DOMAIN tree' /\ t \in tree'[at'[t]].workers
    BY DEF Working
  <2>1. pc[t] = "work" /\ at[t] # Null
    BY <1>1
  <2>2. at[t] \in DOMAIN tree /\ t \in tree[at[t]].workers
    BY <2>1 DEF IInv, Working
  <2> QED
    BY <1>1, <2>2
<1> QED
  BY <1>2, <1>3, <1>4 DEF IInv

LEMMA DeleteFatherKeeps == IInv /\ DeleteFather => IInv'
<1> SUFFICES ASSUME IInv, DeleteFather PROVE IInv'
  OBVIOUS
<1>1. /\ Alive /\ walker # Null /\ Cut(place) /\ walker' = Null /\ UNCHANGED <<Models, pc, solved>>
      /\ \A side \in Children(place) :
           \/ WithinChild(place, side) = {}
           \/ WithinChild(place, 1 - (1 - side)) = {}
  BY DEF DeleteFather, EndWalk, MayConflict, MayBeAssigned
<1>2. Shaped(tree) /\ Rooted(tree) /\ Covered(tree)
  BY <1>1, Asking DEF IInv, Sound
<1>3. place \in DOMAIN tree /\ place \in Paths /\ tree[place].variable # End
  BY <1>1, <1>2 DEF IInv, Walking, Shaped
<1>4. ASSUME NEW l \in Leaves(tree), place \in OnPath(l) PROVE WithinTree(tree, l) = {}
  <2>1. l \in DOMAIN tree /\ l \in Paths /\ l # place /\ OnPath(l) \subseteq DOMAIN tree
    BY <1>2, <1>3 DEF Leaves, Shaped
  <2>2. PICK s \in Sides : Child(place, s) \in OnPath(l)
    BY <1>4, <2>1, WayDown
  <2>3. s \in Children(place)
    BY <2>1, <2>2 DEF Children
  <2>4. WithinChild(place, s) = {}
    BY <1>1, <2>3, SideFacts
  <2>5. WithinTree(tree, Child(place, s)) = {}
    BY <1>3, <2>4, WithinFacts DEF WithinChild, Within, WithinTree
  <2> QED
    BY <2>1, <2>2, <2>5, WithinFacts
<1>5. pc' \in [Threads -> {"init", "ask", "work", "stopped"}]
  BY <1>1 DEF IInv, Types
<1> QED
  BY <1>1, <1>2, <1>3, <1>4, <1>5, AfterCut


(* The literal of a conflict that is final is that of the variable of a    *)
(* node on the path of the thread.  The node found for it is that one, or  *)
(* a deeper one of the same variable; nothing is lost with either.         *)
LEMMA NodeToCutFacts ==
  ASSUME NEW p \in DOMAIN tree, Shaped(tree), NEW n \in Refutable(p),
         NEW q, q = NodeToCut(p, tree[SubSeq(p, 1, n - 1)].variable, p[n])
  PROVE  /\ \/ Repeated(p, tree[SubSeq(p, 1, n - 1)].variable)
            \/ q = SubSeq(p, 1, n) /\ q \in DOMAIN tree
         /\ \A l \in Leaves(tree) : q \in OnPath(l) => WithinTree(tree, l) = {}
<1>1. p \in Paths /\ OnPath(p) \subseteq DOMAIN tree /\ Len(p) \in Nat
  BY LenProperties DEF Shaped, Paths
<1>2. n \in 1..Len(p) /\ Within(SubSeq(p, 1, n)) = {}
  BY DEF Refutable
<1>3. n - 1 \in 0..Len(p) /\ n \in 0..Len(p) /\ n \in Nat
  BY <1>1, <1>2
<1>4. PICK f0 : f0 = SubSeq(p, 1, n - 1)
  OBVIOUS
<1>5. PICK c : c = SubSeq(p, 1, n)
  OBVIOUS
<1>6. PICK v : v = tree[f0].variable
  OBVIOUS
<1>7. PICK f : f = FatherToCut(p, v)
  OBVIOUS
<1>8. q = Child(f, p[n])
  BY <1>4, <1>6, <1>7 DEF NodeToCut
<1>9. /\ f0 \in Paths /\ Len(f0) = n - 1 /\ c \in Paths /\ Len(c) = n
      /\ c \in OnPath(p) /\ f0 \in OnPath(p)
  BY <1>1, <1>3, <1>4, <1>5, Beginning DEF OnPath
<1>10. p[n] \in Sides
  BY <1>1, <1>2, ElementOfSeq DEF Paths
<1>11. Child(f0, p[n]) = c
  <2>1. f0 # p /\ Len(f0) + 1 = n
    BY <1>1, <1>2, <1>3, <1>9
  <2> QED
    BY <1>1, <1>5, <1>9, <2>1, WayDown
<1>12. f \in OnPath(p) /\ f \in Paths /\ tree[f].variable = v /\ n - 1 <= Len(f)
  <2> DEFINE nodes == {x \in OnPath(p) : tree[x].variable = v}
  <2>1. f0 \in nodes
    BY <1>6, <1>9
  <2>2. nodes \in SUBSET Paths /\ \A x \in nodes : Len(x) <= Len(p)
    BY <1>1, PathOrder
  <2>3. f = Deepest(nodes)
    BY <1>7 DEF FatherToCut
  <2> HIDE DEF nodes
  <2>4. f \in nodes \cup {Root} /\ \A x \in nodes : Len(x) <= Len(f)
    BY <1>1, <2>2, <2>3, DeepestIs
  <2>5. f \in nodes
    <3>1. CASE f = Root
      <4>1. Len(f0) <= Len(f) /\ Len(f) = 0
        BY <1>1, <2>1, <2>4, <3>1, PathOrder
      <4>2. Len(f0) = 0 /\ Len(f0) \in Nat
        BY <1>3, <1>9, <4>1
      <4>3. f0 = Root
        BY <1>9, <4>1, <4>2, <3>1, <1>1, PathOrder, SamePath
      <4> QED
        BY <2>1, <3>1, <4>3
    <3> QED
      BY <2>4, <3>1
  <2> QED
    BY <1>1, <1>9, <2>1, <2>4, <2>5, PathOrder DEF nodes
<1>13. WithinTree(tree, c) = {}
  BY <1>2, <1>5 DEF Within, WithinTree
<1>14. f # f0 => c \in OnPath(f)
  <2> SUFFICES ASSUME f # f0 PROVE c \in OnPath(f)
    OBVIOUS
  <2>1. Len(f) # n - 1
    <3> SUFFICES ASSUME Len(f) = Len(f0) PROVE FALSE
      BY <1>9
    <3>1. f \in OnPath(f0) /\ Len(f0) \in Nat
      BY <1>1, <1>3, <1>9, <1>12, PathOrder
    <3>2. f = f0
      BY <1>9, <3>1, PathOrder
    <3> QED
      BY <3>2
  <2>2. Len(f) \in Nat
    BY <1>12, LenProperties DEF Paths
  <2>3. Len(c) <= Len(f)
    BY <1>3, <1>9, <1>12, <2>1, <2>2
  <2> QED
    BY <1>1, <1>9, <1>12, <2>3, PathOrder
<1>15. WithinTree(tree, q) = {}
  <2>1. CASE f = f0
    BY <1>8, <1>11, <1>13, <2>1
  <2>2. CASE f # f0
    <3>1. WithinTree(tree, f) = {}
      BY <1>12, <1>13, <1>14, <2>2, WithinFacts
    <3> QED
      BY <1>8, <1>10, <1>12, <3>1, WithinFacts
  <2> QED
    BY <2>1, <2>2
<1>16. ASSUME NEW l \in Leaves(tree), q \in OnPath(l) PROVE WithinTree(tree, l) = {}
  <2>1. l \in Paths
    BY DEF Leaves, Shaped
  <2> QED
    BY <1>15, <1>16, <2>1, WithinFacts
<1>17. Repeated(p, v) \/ (q = c /\ q \in DOMAIN tree)
  <2>1. CASE f = f0
    BY <1>1, <1>8, <1>9, <1>11, <2>1
  <2>2. CASE f # f0
    BY <1>6, <1>9, <1>12, <2>2 DEF Repeated
  <2> QED
    BY <2>1, <2>2
<1> QED
  BY <1>4, <1>5, <1>6, <1>16, <1>17

LEMMA SubproblemUNSATKeeps ==
  ASSUME IInv, NEW t \in Threads, SubproblemUNSAT(t)
  PROVE  IInv'
<1>1. /\ UNCHANGED <<Models, walker, place, solved>> /\ Alive
      /\ walker = Null /\ fate = "none" /\ pc[t] = "work" /\ pc' = [pc EXCEPT ![t] = "ask"]
      /\ \/ UNCHANGED <<tree, at, fate>>
         \/ /\ at[t] # Null
            /\ \E n \in Refutable(at[t]) :
                 LET q == NodeToCut(at[t], tree[SubSeq(at[t], 1, n - 1)].variable, at[t][n])
                 IN IF q \in DOMAIN tree THEN Cut(q)
                    ELSE fate' = "null" /\ UNCHANGED <<tree, at>>
  BY DEF SubproblemUNSAT, Free, Alive, EndSubproblem, GoTo, walkVars, treeVars
<1>2. Sound(tree, at) /\ Shaped(tree) /\ Rooted(tree) /\ Covered(tree)
  BY <1>1, Asking DEF IInv, Sound
<1>3. /\ pc' \in [Threads -> {"init", "ask", "work", "stopped"}]
      /\ \A u \in Threads : pc'[u] = "work" => pc[u] = "work"
  BY <1>1 DEF IInv, Types
<1>4. ASSUME UNCHANGED <<tree, at>>, fate' \in {"none", "null"}
      PROVE  IInv'
  <2>1. Types' /\ Sound(tree, at)' /\ Walking' /\ Pointing(tree, at)'
    BY <1>1, <1>2, <1>3, <1>4 DEF IInv, Types, Walking
  <2>2. Started'
    BY <1>2, <1>4, <1>1, SameModels DEF Started, Rooted
  <2>3. Working'
    BY <1>3, <1>4 DEF IInv, Working
  <2> QED
    BY <2>1, <2>2, <2>3 DEF IInv
<1>5. CASE UNCHANGED <<tree, at, fate>>
  BY <1>1, <1>4, <1>5
<1>6. CASE ~UNCHANGED <<tree, at, fate>>
  <2>1. PICK p : p = at[t]
    OBVIOUS
  <2>2. PICK n \in Refutable(p) :
          LET q == NodeToCut(p, tree[SubSeq(p, 1, n - 1)].variable, p[n])
          IN IF q \in DOMAIN tree THEN Cut(q)
             ELSE fate' = "null" /\ UNCHANGED <<tree, at>>
    BY <1>1, <1>6, <2>1
  <2>3. PICK q : q = NodeToCut(p, tree[SubSeq(p, 1, n - 1)].variable, p[n])
    OBVIOUS
  <2>4. p \in DOMAIN tree
    BY <1>1, <1>6, <2>1 DEF IInv, Working
  <2>5. \A l \in Leaves(tree) : q \in OnPath(l) => WithinTree(tree, l) = {}
    BY <1>2, <2>3, <2>4, NodeToCutFacts
  <2>6. CASE q \in DOMAIN tree
    <3>1. Cut(q) /\ UNCHANGED <<Models, solved>> /\ walker' = Null
      BY <1>1, <2>2, <2>3, <2>6
    <3> QED
      BY <1>1, <1>2, <1>3, <2>5, <2>6, <3>1, AfterCut
  <2>7. CASE q \notin DOMAIN tree
    <3>1. fate' = "null" /\ UNCHANGED <<tree, at>>
      BY <2>2, <2>3, <2>7
    <3> QED
      BY <1>4, <3>1
  <2> QED
    BY <2>6, <2>7
<1> QED
  BY <1>5, <1>6

LEMMA NextIInv ==
  ASSUME IInv, [Next]_vars
  PROVE  IInv'
<1>1. CASE Next
  <2>1. ASSUME NEW t \in Threads, Initialization(t) PROVE IInv'
    BY <2>1, InitializationKeeps
  <2>2. ASSUME NEW t \in Threads, FromRoot(t) PROVE IInv'
    BY <2>2, FromRootKeeps
  <2>3. ASSUME NEW t \in Threads, Indeterminate(t) PROVE IInv'
    BY <2>3, IndeterminateKeeps
  <2>4. ASSUME NEW t \in Threads, SubproblemUNSAT(t) PROVE IInv'
    BY <2>4, SubproblemUNSATKeeps
  <2>5. CASE OtherSolution
    BY <2>5, OtherSolutionKeeps
  <2>6. CASE DeleteFather
    BY <2>6, DeleteFatherKeeps
  <2>7. ASSUME NEW side \in Sides, GoDown(side) PROVE IInv'
    BY <2>7, GoDownKeeps
  <2>8. ASSUME NEW side \in Sides, AlreadyAssigned(side) PROVE IInv'
    BY <2>8, AlreadyAssignedKeeps
  <2>9. ASSUME NEW side \in Sides, DecisionSAT(side) PROVE IInv'
    BY <2>9, DecisionSATKeeps
  <2> QED
    BY <1>1, <2>1, <2>2, <2>3, <2>4, <2>5, <2>6, <2>7, <2>8, <2>9 DEF Next, Walk
<1>2. CASE UNCHANGED vars
  <2>1. UNCHANGED <<Models, tree, at, pc, walker, place, solved, fate>>
    BY <1>2 DEF vars, treeVars, walkVars
  <2>2. Types' /\ Sound(tree, at)' /\ Working' /\ Walking' /\ Pointing(tree, at)'
    BY <2>1 DEF IInv, Types, Working, Walking
  <2>3. Started'
    BY <2>1 DEF IInv, Started, Covered, WithinTree, Leaves, Rooted
  <2> QED
    BY <2>2, <2>3 DEF IInv
<1> QED
  BY <1>1, <1>2

THEOREM InductiveInvariant == Spec => []IInv
BY InitIInv, NextIInv, PTL DEF Spec

-----------------------------------------------------------------------------
(* Whatever the threads refute, extend and prune, for any formula and any  *)
(* number of threads, every model is below a leaf of the tree that         *)
(* treeUNSAT reads its verdict from.                                       *)
THEOREM NoModelLostHolds == Spec => []NoModelLost
<1>1. IInv => NoModelLost
  <2> SUFFICES ASSUME IInv, tree # <<>>
               PROVE  \A m \in Models : \E p \in Leaves(tree) : m \in Within(p)
    BY DEF NoModelLost
  <2>1. Covered(tree)
    BY DEF IInv, Started
  <2> QED
    BY <2>1 DEF Covered, WithinTree, Within
<1> QED
  BY <1>1, InductiveInvariant, PTL

(* treeUNSAT: a formula whose tree counts no subproblem has no model.      *)
THEOREM VerdictIsRight == Spec => [](tree # <<>> /\ IsUnsat => Models = {})
<1>1. IInv /\ tree # <<>> /\ IsUnsat => Models = {}
  <2> SUFFICES ASSUME IInv, tree # <<>>, IsUnsat PROVE Models = {}
    OBVIOUS
  <2>1. Rooted(tree) /\ Covered(tree) /\ Shaped(tree) /\ Counted(tree)
    BY DEF IInv, Started, Sound
  <2>2. PICK S : S = Leaves(tree) \cap Below(tree, Root)
    OBVIOUS
  <2>3. IsFiniteSet(S)
    <3>1. S \subseteq DOMAIN tree
      BY <2>2 DEF Leaves
    <3> QED
      BY <2>1, <3>1, FS_Subset DEF Shaped
  <2>4. Cardinality(S) = 0
    BY <2>1, <2>2 DEF IsUnsat, Counted, Rooted
  <2>5. S = {}
    BY <2>3, <2>4, FS_EmptySet
  <2>6. Leaves(tree) = {}
    <3>1. \A l \in DOMAIN tree : Root \in OnPath(l)
      BY <2>1, PathOrder DEF Shaped
    <3>2. \A l \in DOMAIN tree : l \in Below(tree, Root)
      BY <2>1, <3>1, BelowFacts DEF Rooted
    <3> QED
      BY <2>2, <2>5, <3>2 DEF Leaves
  <2> QED
    BY <2>1, <2>6 DEF Covered
<1> QED
  BY <1>1, InductiveInvariant, PTL

(* pharusGetNodeToCut gives the manager the node that a thread has refuted *)
(* for whatever the conflict is final, unless the path of this thread has  *)
(* the variable of the conflict twice.                                     *)
THEOREM NodeToCutIsFoundHolds == Spec => []NodeToCutIsFound
<1>1. IInv => NodeToCutIsFound
  <2> SUFFICES ASSUME IInv, NEW t \in Threads, pc[t] = "work", at[t] # Null, NEW n \in Refutable(at[t])
               PROVE  LET v    == tree[SubSeq(at[t], 1, n - 1)].variable
                          node == NodeToCut(at[t], v, at[t][n])
                      IN Repeated(at[t], v) \/ (node = SubSeq(at[t], 1, n) /\ node \in DOMAIN tree)
    BY DEF NodeToCutIsFound
  <2>1. at[t] \in DOMAIN tree /\ Shaped(tree)
    BY DEF IInv, Working, Sound
  <2> QED
    BY <2>1, NodeToCutFacts
<1> QED
  BY <1>1, InductiveInvariant, PTL

(* The counters nbSubproblems and nbWorkers are exact in every node, the   *)
(* lists of workers agree with nodesAccordingToWorkers so that the message *)
(* "bug" is never sent and no answer of a search is looked up in a node    *)
(* that was freed, and who walks down always finds a child.                *)
THEOREM TreeIsSoundHolds == Spec => []TreeIsSound
<1>1. IInv => TreeIsSound
  <2> SUFFICES ASSUME IInv PROVE TypeOK /\ CountersExact /\ WorkersAreKnown /\ SomeChildIsAlive
    BY DEF TreeIsSound
  <2>1. Types /\ Shaped(tree) /\ Counted(tree) /\ Staffed(tree) /\ Listed(tree, at)
    BY DEF IInv, Sound
  <2>2. ASSUME NEW p \in DOMAIN tree
        PROVE  /\ p \in UNION {[1..n -> Sides] : n \in 0..MaxDepth}
               /\ tree[p].variable \in Vars \cup {End}
               /\ tree[p].nbSubproblems \in Nat
               /\ tree[p].nbWorkers \in 0..Cardinality(Threads)
               /\ tree[p].workers \subseteq Threads
               /\ {t \in Threads : t \in Team(tree, p)} = Team(tree, p)
    <3>1. p \in Paths /\ Len(p) <= MaxDepth /\ tree[p] \in Nodes
      BY <2>1 DEF Shaped
    <3>2. Len(p) \in 0..MaxDepth /\ p \in [1..Len(p) -> Sides]
      BY <3>1, BoundAssumption, LenProperties DEF Paths
    <3>3. tree[p].nbSubproblems \in Nat
      <4>1. PICK S : S = Leaves(tree) \cap Below(tree, p)
        OBVIOUS
      <4>2. IsFiniteSet(S)
        <5>1. S \subseteq DOMAIN tree
          BY <4>1 DEF Leaves
        <5> QED
          BY <2>1, <5>1, FS_Subset DEF Shaped
      <4>3. Cardinality(S) \in Nat
        BY <4>2, FS_CardinalityType
      <4> QED
        BY <2>1, <4>1, <4>3 DEF Counted
    <3>4. Team(tree, p) \subseteq Threads
      BY <2>1, TeamFacts
    <3>5. tree[p].nbWorkers \in 0..Cardinality(Threads)
      <4>1. PICK S : S = Team(tree, p)
        OBVIOUS
      <4>2. IsFiniteSet(Threads) /\ S \subseteq Threads
        BY <3>4, <4>1, FiniteAssumption
      <4>3. IsFiniteSet(S) /\ Cardinality(S) <= Cardinality(Threads)
        BY <4>2, FS_Subset
      <4>4. Cardinality(S) \in Nat /\ Cardinality(Threads) \in Nat
        BY <4>2, <4>3, FS_CardinalityType
      <4>5. tree[p].nbWorkers = Cardinality(S)
        BY <2>1, <4>1 DEF Staffed
      <4> QED
        BY <4>3, <4>4, <4>5
    <3> QED
      BY <3>1, <3>2, <3>3, <3>4, <3>5 DEF Nodes
  <2>3. TypeOK
    <3>1. walker # Null => pc[walker] = "ask" /\ place \in DOMAIN tree
      BY DEF IInv, Walking
    <3> QED
      BY <2>1, <2>2, <3>1 DEF TypeOK, Types
  <2>4. CountersExact
    BY <2>1, <2>2 DEF CountersExact, Counted, Staffed
  <2>5. WorkersAreKnown
    BY <2>1 DEF IInv, WorkersAreKnown, Types, Listed, Working, Pointing
  <2>6. SomeChildIsAlive
    BY DEF IInv, SomeChildIsAlive, Walking, HasChild, Children
  <2> QED
    BY <2>3, <2>4, <2>5, <2>6
<1> QED
  BY <1>1, InductiveInvariant, PTL
=============================================================================
