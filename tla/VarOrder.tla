------------------------------- MODULE VarOrder -------------------------------
(***************************************************************************)
(* The order of decisions of a solver: the binary heap of mtl/Heap.h, kept *)
(* by Solver.cc from the activities of the variables.                      *)
(*                                                                         *)
(* A heap is the sequence of its variables, with the place of each: the    *)
(* root is at 1 (0 in the code), the children of i at 2i and 2i+1, and     *)
(* place 0 (-1 in the code) means that a variable is not in the heap.      *)
(* Activities, doubles in the code, are integers; scaling rounds down.     *)
(*                                                                         *)
(* The names differ from those of SearchEnd and Collective, because        *)
(* WorkerProofs is about all three.                                        *)
(***************************************************************************)
EXTENDS Integers, Sequences, FiniteSets, SequencesExt, FiniteSetsExt

CONSTANTS
  NbVars,
  Huge,        \* 1e100: the activity above which all are scaled down by it
  Growth,      \* 1 / var_decay
  Eliminated,  \* which variables preprocessing may have eliminated
  MaxImplied,  \* bound: variables assigned by propagation at a time
  MaxAssumed,  \* bound: levels of assumptions
  MaxBumps     \* bound: how often activities are bumped

ASSUME SizesAssumption ==
  /\ NbVars \in Nat /\ Huge \in Nat \ {0} /\ Growth \in Nat \ {0}
  /\ MaxImplied \in Nat /\ MaxAssumed \in Nat /\ MaxBumps \in Nat
ASSUME EliminatedAssumption == Eliminated \subseteq SUBSET (1..NbVars)

Vars == 1..NbVars

VARIABLES
  order,        \* order_heap: [heap, indices]
  activity, varInc,
  decision,     \* the variables a decision may be made on
  trail, lim,   \* the variables assigned, and where each level begins
  mode,         \* what the solver does
  bumps         \* how many there were

orderVars == <<order, activity, varInc, decision, trail, lim, mode, bumps>>

-----------------------------------------------------------------------------
(* Heap.h.  lt(x, y) puts the most active variable first.                  *)
Swap(h, i, j) ==
  [heap    |-> [h.heap EXCEPT ![i] = h.heap[j], ![j] = h.heap[i]],
   indices |-> [h.indices EXCEPT ![h.heap[i]] = j, ![h.heap[j]] = i]]
InHeap(h, n) == h.indices[n] # 0

(* Faulty: the left one.                                                   *)
LeftChild(h, act, i) == 2 * i
MostActiveChild(h, act, i) ==
  IF 2 * i + 1 <= Len(h.heap) /\ act[h.heap[2 * i + 1]] > act[h.heap[2 * i]]
  THEN 2 * i + 1 ELSE 2 * i

(* A step up past the less active, down past the more active child.        *)
Up(h, act, n) ==
  LET i == h.indices[n] IN
  IF i > 1 /\ act[n] > act[h.heap[i \div 2]] THEN Swap(h, i, i \div 2) ELSE h
Down(h, act, n) ==
  LET i == h.indices[n]  child == MostActiveChild(h, act, i) IN
  IF 2 * i <= Len(h.heap) /\ act[h.heap[child]] > act[n] THEN Swap(h, i, child) ELSE h

(* No variable takes more steps than the heap is long.                     *)
PercolateUp(h, act, n) ==
  LET up[k \in 0..Len(h.heap)] == IF k = 0 THEN h ELSE Up(up[k - 1], act, n)
  IN up[Len(h.heap)]
PercolateDown(h, act, n) ==
  LET down[k \in 0..Len(h.heap)] == IF k = 0 THEN h ELSE Down(down[k - 1], act, n)
  IN down[Len(h.heap)]

Insert(h, act, n) ==
  PercolateUp([heap |-> Append(h.heap, n), indices |-> [h.indices EXCEPT ![n] = Len(h.heap) + 1]],
              act, n)

(* The last one takes the place of the root, and is moved down.            *)
RemoveMin(h, act) ==
  LET x == h.heap[1]  last == Last(h.heap)
      g == [heap    |-> Front([h.heap EXCEPT ![1] = last]),
            indices |-> [h.indices EXCEPT ![last] = 1, ![x] = 0]]
  IN IF Len(g.heap) > 1 THEN PercolateDown(g, act, last) ELSE g

(* Those in the lower half have no children; the others, from the last to  *)
(* the root, are moved down.                                               *)
Build(ns, act) ==
  LET half == Len(ns) \div 2
      built[k \in 0..half] ==
        IF k = 0
        THEN [heap    |-> ns,
              indices |-> [v \in Vars |-> IF v \in ToSet(ns) THEN CHOOSE i \in DOMAIN ns : ns[i] = v ELSE 0]]
        ELSE PercolateDown(built[k - 1], act, built[k - 1].heap[half + 1 - k])
  IN built[half]

(* The variables of a set from the first to the last.                      *)
Ascending(S) ==
  [i \in 1..Cardinality(S) |-> CHOOSE x \in S : Cardinality({y \in S : y <= x}) = i]

-----------------------------------------------------------------------------
(* What preprocessing leaves: no decision is made on what it eliminated,   *)
(* and eliminate has rebuilt the heap.                                     *)
OrderInit ==
  /\ decision \in {Vars \ E : E \in Eliminated}
  /\ activity = [v \in Vars |-> 0]
  /\ varInc = 1
  /\ order = Build(Ascending(decision), activity)
  /\ trail = <<>> /\ lim = <<>>
  /\ mode = "search"
  /\ bumps = 0

Level == Len(lim)
Unassigned == decision \ ToSet(trail)
(* The trail up to the end of a level.                                     *)
UpTo(l) == IF l < Level THEN SubSeq(trail, 1, lim[l + 1]) ELSE trail

InsertVarOrder(h, v) == IF ~InHeap(h, v) /\ v \in decision THEN Insert(h, activity, v) ELSE h

(* Faulty: the oldest variable of the levels left is forgotten.            *)
UndoneButOne(l) == Reverse(SubSeq(trail, Len(UpTo(l)) + 2, Len(trail)))
(* Newest first.                                                           *)
Undone(l) == Reverse(SubSeq(trail, Len(UpTo(l)) + 1, Len(trail)))

PutBack(vs) ==
  LET back[k \in 0..Len(vs)] == IF k = 0 THEN order ELSE InsertVarOrder(back[k - 1], vs[k])
  IN back[Len(vs)]

CancelUntil(l) ==
  /\ order' = PutBack(Undone(l))
  /\ lim' = SubSeq(lim, 1, Min({l, Level}))

-----------------------------------------------------------------------------
(* uncheckedEnqueue of what is implied.                                    *)
Propagate ==
  /\ mode = "search" /\ Len(trail) - Level < MaxImplied
  /\ \E v \in Unassigned : trail' = Append(trail, v)
  /\ UNCHANGED <<order, activity, varInc, decision, lim, mode, bumps>>

(* An assumption, or a decision on the way down the tree of subproblems:   *)
(* the heap is not asked.                                                  *)
Assume ==
  /\ mode = "search" /\ Level < MaxAssumed
  /\ \E v \in Unassigned : trail' = Append(trail, v)
  /\ lim' = Append(lim, Len(trail))
  /\ UNCHANGED <<order, activity, varInc, decision, mode, bumps>>

(* A random decision takes any variable of the heap, if it is unassigned,  *)
(* and leaves it there.                                                    *)
DecideRandomly ==
  /\ mode = "search"
  /\ \E v \in ToSet(order.heap) \cap Unassigned : trail' = Append(trail, v)
  /\ lim' = Append(lim, Len(trail))
  /\ UNCHANGED <<order, activity, varInc, decision, mode, bumps>>

(* Otherwise variables are taken off the heap until one is unassigned and  *)
(* may be decided on: pickBranchLit.                                       *)
Picks(v) == v \in Unassigned
Decide ==
  /\ mode = "search" /\ order.heap # <<>>
  /\ order' = RemoveMin(order, activity)
  /\ LET next == order.heap[1] IN
     IF Picks(next)
     THEN trail' = Append(trail, next) /\ lim' = Append(lim, Len(trail))
     ELSE UNCHANGED <<trail, lim>>
  /\ UNCHANGED <<activity, varInc, decision, mode, bumps>>

(* The heap is empty: lit_Undef, and the search takes it for a model.      *)
Model ==
  /\ mode = "search" /\ order.heap = <<>>
  /\ mode' = "model"
  /\ UNCHANGED <<order, activity, varInc, decision, trail, lim, bumps>>

-----------------------------------------------------------------------------
Conflict ==
  /\ mode = "search" /\ Level > 0 /\ bumps < MaxBumps
  /\ mode' = "analyze"
  /\ UNCHANGED <<order, activity, varInc, decision, trail, lim, bumps>>

(* All activities are scaled at once.                                      *)
Rescaled(act) == [v \in Vars |-> act[v] \div Huge]

(* varBumpActivity of a variable of the conflict: those of level 0 are not *)
(* bumped, others may be twice.  var_inc stays positive when it is scaled. *)
Bump ==
  /\ mode \in {"analyze", "bumped"} /\ bumps < MaxBumps
  /\ \E v \in ToSet(trail) \ ToSet(UpTo(0)) :
       LET act == [activity EXCEPT ![v] = @ + varInc] IN
       /\ IF act[v] > Huge
          THEN activity' = Rescaled(act) /\ varInc' = Max({1, varInc \div Huge})
          ELSE activity' = act /\ UNCHANGED varInc
       /\ order' = IF InHeap(order, v) THEN PercolateUp(order, activity', v) ELSE order
  /\ bumps' = bumps + 1
  /\ mode' = "bumped"
  /\ UNCHANGED <<decision, trail, lim>>

(* The search goes back to a lower level and assigns a variable of the     *)
(* last one there; varDecayActivity.                                       *)
Backjump ==
  /\ mode = "bumped"
  /\ \E l \in 0..(Level - 1) :
       /\ CancelUntil(l)
       /\ \E v \in ToSet(trail) \ ToSet(UpTo(Level - 1)) : trail' = Append(UpTo(l), v)
  /\ varInc' = varInc * Growth
  /\ mode' = "search"
  /\ UNCHANGED <<activity, decision, bumps>>

(* A restart, to level 0 or to that of the assumptions.                    *)
Restart ==
  /\ mode = "search"
  /\ \E l \in 0..(Level - 1) : CancelUntil(l) /\ trail' = UpTo(l)
  /\ UNCHANGED <<activity, varInc, decision, mode, bumps>>

(* rebuildOrderHeap, at the end of simplify.                               *)
RebuildOrderHeap ==
  /\ mode = "search" /\ Level = 0
  /\ order' = Build(Ascending(Unassigned), activity)
  /\ UNCHANGED <<activity, varInc, decision, trail, lim, mode, bumps>>

OrderNext ==
  \/ Propagate \/ Assume \/ DecideRandomly \/ Decide \/ Model
  \/ Conflict \/ Bump \/ Backjump \/ Restart \/ RebuildOrderHeap

OrderSpec == OrderInit /\ [][OrderNext]_orderVars

-----------------------------------------------------------------------------
(* Whatever is bumped, scaled, taken and put back: the indices are those   *)
(* of the heap, without repetition, and no variable is more active than    *)
(* the one above it.                                                       *)
HeapIsSound ==
  /\ \A v \in Vars :
       /\ InHeap(order, v) => order.indices[v] \in 1..Len(order.heap)
       /\ \A i \in 1..Len(order.heap) : order.indices[v] = i <=> order.heap[i] = v
  /\ \A i \in 2..Len(order.heap) :
       activity[order.heap[i]] <= activity[order.heap[i \div 2]]

(* A variable that may be decided on and is not assigned is in the heap: a *)
(* solver that runs out of decisions has assigned them all.                *)
NobodyForgotten == \A v \in Unassigned : InHeap(order, v)

(* The order heap is a heap of everything pickBranchLit may need.          *)
OrderIsSound == HeapIsSound /\ NobodyForgotten

(* A decision that is not random is on a most active variable.             *)
BestIsPicked ==
  [][order'.heap # order.heap /\ Len(lim') > Level =>
       \A v \in Unassigned : activity[v] <= activity[Last(trail')]]_orderVars
=============================================================================
