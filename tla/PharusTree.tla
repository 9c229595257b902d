----------------------------- MODULE PharusTree -----------------------------
(***************************************************************************)
(* The tree of subproblems in the mode Ampharos: AmpharosManager and Tree  *)
(* of the manager, and the conversation of a solver thread with it         *)
(* (com/AmpharosManager.cc).  A leaf stands for the formula under the      *)
(* cube of literals on its path: left is the positive literal of a node's  *)
(* variable, right the negative one.  Threads take a leaf each, extend it, *)
(* and cut what they refute; the tree without leaves means UNSAT.          *)
(*                                                                         *)
(* The manager is blocked in its conversation with the thread that walks   *)
(* down, so that nothing interleaves with a walk but searches, which do    *)
(* not touch the tree.  A search is what it may find: it refutes only what *)
(* has no model, and the formula is the set Models of its models.  The     *)
(* unit literals sent up and down the tree are disabled in the code        *)
(* (receiveULs returns false at once, pharusSendULs is commented out).     *)
(***************************************************************************)
EXTENDS Integers, FiniteSets, SequencesExt

CONSTANTS
  Threads,      \* the solver threads of all workers
  Vars,         \* the variables of the formula
  End, Null,    \* END_SUBPROBLEM, and the pointer NULL
  Freed,        \* a pointer to a node that was deleted
  MaxDepth      \* bound: the longest path of the tree

Left == 0
Right == 1
Sides == {Left, Right}
Root == <<>>

ASSUME NamesAssumption ==
  End \notin Vars /\ Null \notin Threads \cup Seq(Sides) /\ Freed \notin {Null} \cup Seq(Sides)
ASSUME BoundAssumption == MaxDepth \in Nat \ {0}
ASSUME FiniteAssumption == IsFiniteSet(Threads) /\ IsFiniteSet(Vars)

VARIABLES
  Models,   \* the models of the formula, which never changes
  tree,     \* tree[p]: the node at the end of path p, for the paths in use
  at,       \* nodesAccordingToWorkers: a path, Null or Freed
  pc,       \* where a thread stands between two searches
  walker,   \* the thread in pharusTransmission, or Null
  place,    \* its currentNode
  solved,   \* solutionOk
  fate      \* how a process of the run ended before its time, if one did

treeVars == <<tree, at>>
walkVars == <<walker, place>>
vars == <<Models, treeVars, pc, walkVars, solved, fate>>

Node(variable, count, load, team) ==
  [variable |-> variable, nbSubproblems |-> count, nbWorkers |-> load, workers |-> team]
Leaf == Node(End, 1, 0, {})

Father(p) == Front(p)
Sibling(p) == Append(Front(p), 1 - Last(p))
Child(p, side) == Append(p, side)
OnPath(p) == {SubSeq(p, 1, n) : n \in 0..Len(p)}
Below(T, p) == {q \in DOMAIN T : IsPrefix(p, q)}
(* The first node of a set on the way up to the root, if not the root.     *)
Deepest(nodes) ==
  CHOOSE q \in nodes \cup {Root} : \A r \in nodes : Len(r) <= Len(q)
Leaves(T) == {p \in DOMAIN T : T[p].variable = End}

Init ==
  /\ Models \in SUBSET [Vars -> Sides]
  /\ tree = <<>>
  /\ at = [t \in Threads |-> Null]
  /\ pc = [t \in Threads |-> "init"]
  /\ walker = Null /\ place = Root
  /\ solved = FALSE
  /\ fate = "none"

-----------------------------------------------------------------------------
(* What the path of a node says of its variables, and the models below it. *)
SideOnPath(p, v) ==
  {p[n] : n \in {n \in 1..Len(p) : tree[SubSeq(p, 1, n - 1)].variable = v}}
Within(p) ==
  {m \in Models : \A n \in 1..Len(p) : m[tree[SubSeq(p, 1, n - 1)].variable] = p[n]}
WithinChild(p, side) == {m \in Within(p) : m[tree[p].variable] = side}

Decided(p) == SideOnPath(p, tree[p].variable) # {}

(* The search may find that a variable is implied, or that its two values  *)
(* are refuted, whenever that is true.                                     *)
MayBeAssigned(p, side) ==
  /\ WithinChild(p, 1 - side) = {}
  /\ SideOnPath(p, tree[p].variable) \subseteq {side}
MayConflict(p, side) == ~Decided(p) /\ WithinChild(p, side) = {}

(* getBestVariable for the node at p: the top of the VSIDS heap, which may *)
(* have a value on the path, or, with the other heuristics, a variable     *)
(* without one that propagates or is promoted most.                        *)
TopOfHeap == Vars
MostUsed(p) == {v \in Vars : SideOnPath(p, v) = {}}
BestVariable(p) == TopOfHeap \cup MostUsed(p)

-----------------------------------------------------------------------------
(* addWorker and delWorker                                                 *)
AddWorker(T, p, t) ==
  [q \in DOMAIN T |->
     IF q \notin OnPath(p) THEN T[q]
     ELSE [T[q] EXCEPT !.nbWorkers = @ + 1,
                       !.workers = IF q = p THEN @ \cup {t} ELSE @]]
DelWorkers(T, where, team) ==
  [q \in DOMAIN T |->
     [T[q] EXCEPT
        !.nbWorkers = @ - Cardinality({t \in team : q \in OnPath(where[t])}),
        !.workers = @ \ {t \in team : where[t] = q}]]
DelWorker(T, where, t) ==
  IF where[t] \in DOMAIN T /\ t \in T[where[t]].workers
  THEN DelWorkers(T, where, {t}) ELSE T

(* extendNode                                                              *)
ExtendNode(T, p, variable) ==
  [q \in DOMAIN T \cup {Child(p, side) : side \in Sides} |->
     IF q \notin DOMAIN T THEN Leaf
     ELSE [T[q] EXCEPT
             !.variable = IF q = p THEN variable ELSE @,
             !.nbSubproblems = IF q \in OnPath(p) THEN @ + 1 ELSE @]]

(* deleteNode: the root only lets go of its children.                      *)
(* Faulty: the nodes above keep their count. *)
DeleteSilently(T, p) ==
  IF p = Root THEN [q \in {Root} |-> [T[Root] EXCEPT !.nbSubproblems = 0]]
  ELSE [q \in DOMAIN T \ Below(T, p) |-> T[q]]
DeleteNode(T, p) ==
  IF p = Root THEN [q \in {Root} |-> [T[Root] EXCEPT !.nbSubproblems = 0]]
  ELSE [q \in DOMAIN T \ Below(T, p) |->
          IF q \in OnPath(p)
          THEN [T[q] EXCEPT !.nbSubproblems =
                              @ - Cardinality(Leaves(T) \cap Below(T, p))]
          ELSE T[q]]

(* pharusPruning: up to the last node whose brother is alive.              *)
(* Faulty: the father of a dead child stays. *)
NoPruning(T, p) == p
Pruning(T, p) == Deepest({q \in OnPath(p) \ {Root} : Sibling(q) \in DOMAIN T})

Known(team) == {t \in team : at[t] # Null}
Team(T, p) == UNION {T[q].workers : q \in Below(T, p)}

(* The pointers after pharusRemoveAllWorkersOfNode, which resets those of  *)
(* the threads on the lists only, and deleteNode, which frees all nodes    *)
(* below p, but none if p is the root.                                     *)
Forget(T, where, p) ==
  [t \in Threads |-> IF t \in Team(T, p) THEN Null
                     ELSE IF p # Root /\ where[t] \in Below(T, p) THEN Freed ELSE where[t]]

(* pharusPruning, pharusRemoveAllWorkersOfNode and deleteNode, as all the  *)
(* handlers chain them.                                                    *)
Cut(p) ==
  LET q    == Pruning(tree, p)
      team == Team(tree, q)
  IN IF Known(team) # team
     THEN fate' = "bug" /\ UNCHANGED treeVars
     ELSE /\ tree' = DeleteNode(DelWorkers(tree, at, team), q)
          /\ at' = Forget(tree, at, q)
          /\ UNCHANGED fate

Alive == fate = "none"
Free == Alive /\ walker = Null
GoTo(t, label) == pc' = [pc EXCEPT ![t] = label]

IsUnsat == tree[Root].nbSubproblems = 0

-----------------------------------------------------------------------------
(* The thread's side of its conversations with the manager: initialization *)
(* and subproblemUNSAT are over when the manager has listened, and after   *)
(* subproblemINDETERMINATE a thread stays on a subproblem that is still    *)
(* there until it has spent its conflicts on it.                           *)
EndInitialization(t) == pc[t] = "init" /\ GoTo(t, "ask")
EndSubproblem(t) == pc[t] = "work" /\ GoTo(t, "ask")
StayOrLeave(t) == pc[t] = "work" /\ (GoTo(t, "ask") \/ UNCHANGED pc)

(* pharusInitialization: the first thread to come creates the tree.        *)
Initialization(t) ==
  /\ Free
  /\ EndInitialization(t)
  /\ \/ /\ tree = <<>>
        /\ \E v \in Vars : tree' = ExtendNode([p \in {Root} |-> Leaf], Root, v)
     \/ tree # <<>> /\ UNCHANGED tree
  /\ UNCHANGED <<Models, at, walkVars, solved, fate>>

(* pharusTransmissionFromRoot, up to the first move of the thread.  The    *)
(* thread leaves the list of its node, and its pointer stays until it is   *)
(* given another node: once that one is cut, the next delWorker reads what *)
(* the allocator has left there, lists the thread is not on, or nothing    *)
(* that the process may read.                                              *)
FromRoot(t) ==
  /\ Free /\ pc[t] = "ask"
  /\ \/ /\ at[t] = Freed
        /\ fate' = "freed"
        /\ UNCHANGED <<tree, pc, walkVars, solved>>
     \/ /\ tree' = DelWorker(tree, at, t)
        /\ IF solved \/ IsUnsat
           THEN /\ GoTo(t, "stopped")
                /\ solved' = TRUE
                /\ UNCHANGED walkVars
           ELSE /\ walker' = t /\ place' = Root
                /\ UNCHANGED <<pc, solved>>
        /\ UNCHANGED fate
  /\ UNCHANGED <<Models, at>>

(* A worker reports a solution it has found by itself.                     *)
OtherSolution ==
  /\ Free /\ ~solved
  /\ solved' = TRUE
  /\ UNCHANGED <<Models, treeVars, pc, walkVars, fate>>

-----------------------------------------------------------------------------
(* The thread that walks has received the children of its node.  If there  *)
(* were none it would go away without a message, and the walk stay here.   *)
Children(p) == {side \in Sides : Child(p, side) \in DOMAIN tree}

EndWalk == walker' = Null /\ place' = Root

(* Nothing is left below the node: PHARUS_TRANSMISSION_DELETE_FATHER.      *)
DeleteFather ==
  /\ Alive /\ walker # Null
  /\ Children(place) # {}
  /\ \A side \in Children(place) :
       MayConflict(place, side) \/ (Children(place) # Sides /\ MayBeAssigned(place, 1 - side))
  /\ Cut(place)
  /\ EndWalk
  /\ UNCHANGED <<Models, pc, solved>>

(* PHARUS_TRANSMISSION_GO_LEFT or _GO_RIGHT, with the tree and the         *)
(* pointers as the messages before it have left them.                      *)
Go(T, where, side) ==
  LET q == Child(place, side)
  IN IF T[q].variable = End
     THEN /\ tree' = AddWorker(T, q, walker)
          /\ at' = [where EXCEPT ![walker] = q]
          /\ GoTo(walker, "work")
          /\ EndWalk
     ELSE /\ tree' = T /\ at' = where
          /\ place' = q
          /\ UNCHANGED <<pc, walker>>

(* The decision of the variable succeeds, or the only child left agrees    *)
(* with its value.                                                         *)
GoDown(side) ==
  /\ Alive /\ walker # Null
  /\ side \in Children(place)
  /\ IF Children(place) = Sides THEN ~Decided(place)
     ELSE SideOnPath(place, tree[place].variable) \subseteq {side}
  /\ Go(tree, at, side)
  /\ UNCHANGED <<Models, solved, fate>>

(* PHARUS_TRANSMISSION_ALREADY_ASSIGNED: the other child is cut first.     *)
AlreadyAssigned(side) ==
  LET other == Child(place, 1 - side)
      team  == Team(tree, other)
  IN /\ Alive /\ walker # Null
     /\ Children(place) = Sides
     /\ MayBeAssigned(place, side)
     /\ IF Known(team) # team
        THEN fate' = "bug" /\ UNCHANGED <<treeVars, pc, walkVars>>
        ELSE /\ Go(DeleteNode(DelWorkers(tree, at, team), other), Forget(tree, at, other), side)
             /\ UNCHANGED fate
     /\ UNCHANGED <<Models, solved>>

(* A decision leaves no variable without a value: the process ends.        *)
DecisionSAT(side) ==
  /\ Alive /\ walker # Null
  /\ side \in Children(place) /\ ~Decided(place)
  /\ Cardinality(WithinChild(place, side)) = 1
  /\ fate' = "satisfied"
  /\ UNCHANGED <<Models, treeVars, pc, walkVars, solved>>

-----------------------------------------------------------------------------
(* The time given to the subproblem is over.  The thread leaves a node that *)
(* is gone and a leaf it extends; whether a leaf is extended is a matter   *)
(* of how often threads asked for it.                                      *)
Indeterminate(t) ==
  /\ Free
  /\ \/ at[t] = Null /\ UNCHANGED tree /\ EndSubproblem(t)
     \/ at[t] # Null /\ UNCHANGED tree /\ StayOrLeave(t)
     \/ /\ EndSubproblem(t)
        /\ at[t] # Null /\ tree[at[t]].variable = End
        /\ Len(at[t]) < MaxDepth
        /\ \E v \in BestVariable(at[t]) : tree' = ExtendNode(tree, at[t], v)
  /\ UNCHANGED <<Models, at, walkVars, solved, fate>>

(* pharusGetNodeToCut: the literal refuted is that of variable v.          *)
FatherToCut(p, v) == Deepest({q \in OnPath(p) : tree[q].variable = v})
(* Faulty: the other child. *)
OtherNodeToCut(p, v, side) == Child(FatherToCut(p, v), 1 - side)
NodeToCut(p, v, side) == Child(FatherToCut(p, v), side)

(* The assumptions a conflict may be final for: the first of its variable, *)
(* and the subproblem has no model up to it.                               *)
Refutable(p) ==
  {n \in 1..Len(p) :
     /\ Within(SubSeq(p, 1, n)) = {}
     /\ SideOnPath(SubSeq(p, 1, n - 1), tree[SubSeq(p, 1, n - 1)].variable) = {}}

(* pharusSubproblemUNSAT.  Cutting a node that is not there is the end of  *)
(* the manager.                                                            *)
SubproblemUNSAT(t) ==
  /\ Free
  /\ EndSubproblem(t)
  /\ \/ at[t] = Null /\ UNCHANGED <<treeVars, fate>>
     \/ /\ at[t] # Null
        /\ \E n \in Refutable(at[t]) :
             LET q == NodeToCut(at[t], tree[SubSeq(at[t], 1, n - 1)].variable, at[t][n])
             IN IF q \in DOMAIN tree THEN Cut(q)
                ELSE fate' = "null" /\ UNCHANGED treeVars
  /\ UNCHANGED <<Models, walkVars, solved>>

-----------------------------------------------------------------------------
Walk ==
  \/ DeleteFather
  \/ \E side \in Sides : GoDown(side) \/ AlreadyAssigned(side) \/ DecisionSAT(side)

Next ==
  \/ \E t \in Threads :
       Initialization(t) \/ FromRoot(t) \/ Indeterminate(t) \/ SubproblemUNSAT(t)
  \/ OtherSolution
  \/ Walk

Spec == Init /\ [][Next]_vars
-----------------------------------------------------------------------------
TypeOK ==
  /\ Models \subseteq [Vars -> Sides]
  /\ \A p \in DOMAIN tree :
       /\ p \in UNION {[1..n -> Sides] : n \in 0..MaxDepth}
       /\ tree[p].variable \in Vars \cup {End}
       /\ tree[p].nbSubproblems \in Nat /\ tree[p].nbWorkers \in 0..Cardinality(Threads)
       /\ tree[p].workers \subseteq Threads
  /\ pc \in [Threads -> {"init", "ask", "work", "stopped"}]
  /\ walker \in Threads \cup {Null}
  /\ walker # Null => pc[walker] = "ask" /\ place \in DOMAIN tree
  /\ solved \in BOOLEAN
  /\ fate \in {"none", "bug", "null", "freed", "satisfied"}

(* Whatever is refuted, pruned or extended, and in whatever order, every   *)
(* model of the formula lies below a leaf that is still in the tree: the   *)
(* verdict UNSAT of treeUNSAT is right.                                    *)
NoModelLost ==
  tree # <<>> => \A m \in Models : \E p \in Leaves(tree) : m \in Within(p)

(* nbSubproblems, which decides that verdict, counts the leaves below a    *)
(* node, and nbWorkers the threads on nodes below it.                      *)
CountersExact ==
  \A p \in DOMAIN tree :
    /\ tree[p].nbSubproblems = Cardinality(Leaves(tree) \cap Below(tree, p))
    /\ tree[p].nbWorkers = Cardinality({t \in Threads : t \in Team(tree, p)})

(* A thread is on the list of the node it works on and of no other, and    *)
(* whoever works on a node that was cut is told so (the message "bug"): an *)
(* answer is never looked up in a node that was freed.  The pointer of a   *)
(* thread between two subproblems may be to such a node (see FromRoot);    *)
(* it is to one of the tree otherwise, until the root is cut.              *)
WorkersAreKnown ==
  /\ fate # "bug"
  /\ \A p \in DOMAIN tree : \A t \in tree[p].workers : at[t] = p
  /\ \A t \in Threads :
       pc[t] = "work" /\ at[t] # Null => at[t] \in DOMAIN tree /\ t \in tree[at[t]].workers
  /\ \A t \in Threads : at[t] \in {Null, Freed} \cup DOMAIN tree \/ DOMAIN tree = {Root}

(* A thread on its way down always finds a child that is alive; if not it  *)
(* would go away and leave the manager waiting for it                      *)
(* (com/AmpharosManager.cc: "Tree Left And Right both UNSAT Impossible").  *)
SomeChildIsAlive == walker # Null /\ Alive => Children(place) # {}

(* What the handlers of the manager, and of the threads, rely on: all of   *)
(* the above.                                                              *)
TreeIsSound == TypeOK /\ CountersExact /\ WorkersAreKnown /\ SomeChildIsAlive

(* pharusGetNodeToCut finds the node whose subproblem the conflict of a    *)
(* thread refutes, whatever was extended and cut while it searched, unless *)
(* the variable of that conflict is twice on the way from the root down to *)
(* the node of the thread, that node included.                             *)
Repeated(p, v) == \E q, r \in OnPath(p) : q # r /\ tree[q].variable = v /\ tree[r].variable = v
NodeToCutIsFound ==
  \A t \in Threads : pc[t] = "work" /\ at[t] # Null =>
    \A n \in Refutable(at[t]) :
      LET v    == tree[SubSeq(at[t], 1, n - 1)].variable
          node == NodeToCut(at[t], v, at[t][n])
      IN Repeated(at[t], v) \/ (node = SubSeq(at[t], 1, n) /\ node \in DOMAIN tree)

(* "We find the good node according to the assertif literal"               *)
(* (AmpharosManager.cc): there is a node to cut.                           *)
NodeToCutExists == fate # "null"
=============================================================================
