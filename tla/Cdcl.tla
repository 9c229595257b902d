-------------------------------- MODULE Cdcl --------------------------------
(***************************************************************************)
(* The search of one solver thread: Solver::search of core/Solver.cc with  *)
(* the overrides of parallel/ParallelSolver.cc, which import units and     *)
(* clauses of others at decision level 0, and with the decisions a thread  *)
(* makes on its way down the tree of subproblems (com/AmpharosManager.cc). *)
(*                                                                         *)
(* A literal is a variable or its negative; a clause is the set of its     *)
(* literals, the list it is on (clauses, learnts or unaryWatchedClauses)   *)
(* and the literals it watches: two, or one while an imported clause is in *)
(* the "purgatory".  A call of propagate is a run of steps, one per clause *)
(* it visits, in any order; heuristics (which variable, which polarity,    *)
(* when to restart, which clauses to forget) are choices.  Blockers and    *)
(* the order of a clause's literals are abstracted: a satisfied clause may *)
(* keep its watches or move them.  The list permanentLearnts is part of    *)
(* learnts: what sets it apart is only that reduceDB spares it.            *)
(***************************************************************************)
EXTENDS Integers, Sequences, FiniteSets, SequencesExt

CONSTANTS
  Vars,          \* variables, positive integers
  Formulas,      \* the formulas, sets of clauses, one of which is solved
  Shareable,     \* the clauses that siblings may have learnt
  Ampharos,      \* whether the thread is given subproblems
  MaxConflicts,  \* bound: conflicts of a behaviour
  MaxImports,    \* bound: units and clauses imported
  MaxCube,       \* bound: literals of a subproblem
  AlphaAt        \* the conflict alphaAdjustSolver comes at (100000)

ASSUME VarsAssumption == Vars \subseteq Nat \ {0} /\ IsFiniteSet(Vars)
ASSUME BoundsAssumption ==
  /\ MaxConflicts \in Nat /\ MaxImports \in Nat
  /\ MaxCube \in Nat /\ AlphaAt \in Nat
ASSUME OptionAssumption == Ampharos \in BOOLEAN

Lits == Vars \cup {-v : v \in Vars}
Var(l) == IF l < 0 THEN -l ELSE l

(* A formula as addClause_ leaves it: no units, no tautologies.            *)
ASSUME FormulasAssumption ==
  \A S \in Formulas \cup {Shareable} : \A c \in S :
    c \subseteq Lits /\ \A l \in c : -l \notin c
ASSUME NoUnitAssumption == \A S \in Formulas : \A c \in S : Cardinality(c) > 1

(* The variables of a formula are those that occur in it.                  *)
VarsOf(S) == {Var(l) : l \in UNION S}
LitsOf(S) == VarsOf(S) \cup {-v : v \in VarsOf(S)}

VARIABLES
  formula,      \* the formula that is solved, which never changes
  db,           \* the clauses of the solver, see Clause
  trail, qhead, \* the assignments in order, the next one to propagate
  level,        \* decisionLevel(): trail_lim.size()
  assumptions,  \* the subproblem, a sequence of literals
  decision,     \* the variables a decision may be made on
  pc,           \* what the thread is at
  conflict,     \* the final conflict: its first literal, and all of them
  tree,         \* the initialization of Ampharos is over
  conflicts, imports   \* how many there were

vars == <<formula, db, trail, qhead, level, assumptions, decision, pc,
          conflict, tree, conflicts, imports>>

Lists == {"clauses", "learnts", "imported"}
Clause(lits, list, watch) == [lits |-> lits, list |-> list, watch |-> watch]
Ref(c) == [lits |-> c.lits, list |-> c.list]
NoReason == [lits |-> {}, list |-> "none"]
Entry(lit, lvl, reason) == [lit |-> lit, level |-> lvl, reason |-> reason]
NoConflict == [first |-> 0, lits |-> {}]

(* Two literals of a clause that is sorted, for it to watch.               *)
FirstTwo(lits) ==
  CHOOSE W \in SUBSET lits :
    /\ Cardinality(W) = 2
    /\ \A l \in W, k \in lits \ W : Var(l) < Var(k)

Init ==
  /\ formula \in Formulas
  /\ db = {Clause(c, "clauses", FirstTwo(c)) : c \in formula}
  /\ trail = <<>> /\ qhead = 1 /\ level = 0
  /\ assumptions = <<>>
  /\ decision = VarsOf(formula)
  /\ pc = "top"
  /\ conflict = NoConflict
  /\ tree = FALSE
  /\ conflicts = 0 /\ imports = 0

-----------------------------------------------------------------------------
Trues == {trail[i].lit : i \in 1..Len(trail)}
Falses == {-l : l \in Trues}
Unassigned(l) == l \notin Trues \cup Falses

(* Where the variable of l was assigned.                                   *)
Position(l) == CHOOSE i \in 1..Len(trail) : Var(trail[i].lit) = Var(l)
Level(l) == trail[Position(l)].level

(* cancelUntil, as what it leaves of the trail: trail_lim has the length   *)
(* that the trail had when the next level was opened.                      *)
TrailLim(lvl) == Cardinality({i \in 1..Len(trail) : trail[i].level <= lvl})
UpTo(lvl) == SubSeq(trail, 1, TrailLim(lvl))
CancelUntil(lvl) ==
  IF lvl < level
  THEN /\ trail' = UpTo(lvl) /\ qhead' = Len(UpTo(lvl)) + 1 /\ level' = lvl
  ELSE UNCHANGED <<trail, qhead, level>>

(* uncheckedEnqueue.  Reasons of level 0 are not looked at again.          *)
Enqueue(lit, reason) ==
  trail' = Append(trail, Entry(lit, level, IF level = 0 THEN NoReason ELSE reason))

-----------------------------------------------------------------------------
(* propagate: the literal at the head of the queue makes one false.        *)
Pending == qhead <= Len(trail)
FalseLit == -trail[qhead].lit
Watching(c) == FalseLit \in c.watch
Satisfied(c) == c.lits \cap Trues # {}
OneWatched(c) == Cardinality(c.watch) = 1

Rewatch(c, W) == (db \ {c}) \cup {[c EXCEPT !.watch = W]}

Propagating == Pending /\ (pc = "propagate" \/ (pc = "walk" /\ level > 0))

(* Binary clauses are visited first and clauses of the purgatory last.     *)
Kind(c) == IF OneWatched(c) THEN 3 ELSE IF Cardinality(c.lits) = 2 THEN 1 ELSE 2
ToDo(c) == Propagating /\ Watching(c) /\ ~Satisfied(c)
Visited(c) == ToDo(c) /\ \A d \in db : ToDo(d) => Kind(c) <= Kind(d)

(* Another literal that is not false is found to watch.                    *)
MoveWatch(c) ==
  /\ Propagating /\ Watching(c) /\ c.watch \cap Trues = {}
  /\ ~Satisfied(c) => Visited(c)
  /\ \E l \in c.lits \ (c.watch \cup Falses) :
       db' = Rewatch(c, (c.watch \ {FalseLit}) \cup {l})
  /\ UNCHANGED <<formula, trail, qhead, level, assumptions, decision, pc,
                 conflict, tree, conflicts, imports>>

(* All literals but the other watched one are false.                       *)
Imply(c) ==
  /\ Visited(c) /\ ~OneWatched(c)
  /\ \E l \in c.watch : Unassigned(l) /\ c.lits \ Falses = {l} /\ Enqueue(l, Ref(c))
  /\ UNCHANGED <<formula, db, qhead, level, assumptions, decision, pc,
                 conflict, tree, conflicts, imports>>

(* Nothing is left to do for the literal at the head.                      *)
Propagated ==
  /\ Propagating
  /\ \A c \in db : ~ToDo(c)
  /\ qhead' = qhead + 1
  /\ UNCHANGED <<formula, db, trail, level, assumptions, decision, pc,
                 conflict, tree, conflicts, imports>>

(* All literals of c are false.  A clause in the purgatory is promoted: it *)
(* watches its two literals of the highest levels from now on.             *)
Falsified(c) == Visited(c) /\ c.lits \subseteq Falses

Highest(lits) == {l \in lits : \A k \in lits : Level(k) <= Level(l)}
PromotedWatches(c) == {c.watch \cup {l} : l \in Highest(c.lits \ c.watch)}
Promote(c) ==
  IF OneWatched(c) THEN {Rewatch(c, W) : W \in PromotedWatches(c)} ELSE {db}

-----------------------------------------------------------------------------
(* analyze                                                                 *)
Upper(lits) == {l \in lits : Level(l) > 0}
Current(lits) == {l \in lits : Level(l) = level}

(* From the last literal of the trail back, a literal of the resolvent is  *)
(* replaced by its reason while another one of the level is left.          *)
Resolved(lits, e) ==
  IF -e.lit \in lits /\ Cardinality(Current(lits)) > 1
  THEN (lits \ {-e.lit}) \cup Upper(e.reason.lits \ {e.lit})
  ELSE lits
FirstUIP(confl) ==
  LET Resolvent[i \in 0..Len(trail)] ==
        IF i = Len(trail) THEN Upper(confl)
        ELSE Resolved(Resolvent[i + 1], trail[i + 1])
  IN Resolvent[0]

(* litRedundant: the literals other clauses imply from the rest of lits.   *)
Redundant(lits) ==
  LET rest == lits \ Current(lits)
      Follows[i \in 1..Len(trail)] ==
        /\ trail[i].reason # NoReason
        /\ \A l \in Upper(trail[i].reason.lits \ {trail[i].lit}) :
             l \in rest \/ Follows[Position(l)]
  IN {l \in rest : Follows[Position(l)]}

(* minimisationWithBinaryResolution                                        *)
BinaryRedundant(lits) ==
  {l \in lits \ Current(lits) :
     \E c \in db : c.lits = Current(lits) \cup {-l}}

(* Faulty: what the subproblem assumes is left out.                        *)
LearntUnderAssumptions(confl) ==
  LET uip == FirstUIP(confl)
  IN {l \in uip : Level(l) > Len(assumptions)} \cup Current(uip)
Learnt(confl) ==
  LET uip == FirstUIP(confl)
      min == uip \ Redundant(uip)
  IN min \ BinaryRedundant(min)

BacktrackLevel(lits) ==
  LET rest == lits \ Current(lits)
  IN IF rest = {} THEN 0 ELSE Level(CHOOSE l \in Highest(rest) : TRUE)

AnyWatch(learnt, uip) == learnt \ {uip}   \* Faulty
SecondWatch(learnt, uip) == Highest(learnt \ {uip})

(* The learnt clause after the backjump: asserted at once.  If the thread  *)
(* was told to leave the search in the meantime, cancelUntil(0) follows,   *)
(* and a unit stays on the trail without having been propagated.           *)
Learn(learnt, clauses, leaves) ==
  LET bt   == BacktrackLevel(learnt)
      kept == UpTo(IF leaves THEN 0 ELSE bt)
      unit == Cardinality(learnt) = 1
      uip  == CHOOSE l \in Current(learnt) : TRUE
      new  == [lits |-> learnt, list |-> "learnts"]
  IN
  /\ level' = IF leaves THEN 0 ELSE bt
  /\ qhead' = Len(kept) + 1
  /\ trail' = IF unit THEN Append(kept, Entry(uip, 0, NoReason))
              ELSE IF leaves THEN kept
              ELSE Append(kept, Entry(uip, bt, new))
  /\ IF unit THEN db' = clauses
     ELSE \E l \in SecondWatch(learnt, uip) :
            db' = clauses \cup {Clause(learnt, "learnts", {uip, l})}

(* A conflict of the search.  Leaving it, because the initialization of    *)
(* Ampharos is over, is the way to the tree.                               *)
Conflict(c) ==
  /\ pc = "propagate" /\ Falsified(c)
  /\ level > 0 /\ conflicts < MaxConflicts
  /\ conflicts' = conflicts + 1
  /\ \E clauses \in Promote(c), leaves \in {FALSE, Ampharos /\ ~tree} :
       /\ Learn(Learnt(c.lits), clauses, leaves)
       /\ pc' = IF leaves THEN "walk" ELSE "top"
       /\ tree' = (tree \/ leaves)
  /\ UNCHANGED <<formula, assumptions, decision, conflict, imports>>

FixedByNow == Trues   \* Faulty: before it backtracks
Fixed == {trail[i].lit : i \in {j \in 1..Len(trail) : trail[j].level = 0}}

(* The conflict alphaAdjustSolver comes at, in the threads that have the   *)
(* option alpha (every other one), is not analyzed.  Decisions are         *)
(* made from now on only on variables of clauses that are not satisfied,    *)
(* and the learnt clauses may be dropped.                                  *)
AlphaAdjust(c) ==
  /\ pc = "propagate" /\ Falsified(c)
  /\ level > 0 /\ conflicts + 1 = AlphaAt /\ conflicts < MaxConflicts
  /\ conflicts' = conflicts + 1
  /\ CancelUntil(0)
  /\ \E clauses \in Promote(c), reinit \in BOOLEAN :
       db' = {d \in clauses : reinit => d.list # "learnts"}
  /\ decision' = VarsOf({d.lits : d \in {d \in db :
                             d.list = "clauses" /\ d.lits \cap Fixed = {}}})
  /\ pc' = "top"
  /\ UNCHANGED <<formula, assumptions, conflict, tree, imports>>

(* A conflict without a decision: the formula has no model.                *)
ConflictAtRoot(c) ==
  /\ pc = "propagate" /\ Falsified(c)
  /\ level = 0
  /\ pc' = "UNSAT"
  /\ UNCHANGED <<formula, db, trail, qhead, level, assumptions, decision,
                 conflict, tree, conflicts, imports>>

-----------------------------------------------------------------------------
(* The head of the loop of search: at level 0 what others have learnt is   *)
(* imported, without a look at what its literals are worth but for units.  *)
Models(S) ==
  LET assignments == {P \cup {-v : v \in VarsOf(S) \ P} : P \in SUBSET VarsOf(S)}
  IN {m \in assignments : \A c \in S : c \cap m # {}}
ModelsOf == [S \in Formulas |-> Models(S)]
Implied(lits) == lits \subseteq LitsOf(formula) /\ \A m \in ModelsOf[formula] : lits \cap m # {}

ImportUnit(l) ==
  /\ pc = "top" /\ level = 0
  /\ imports < MaxImports /\ imports' = imports + 1
  /\ {l} \in Shareable /\ Implied({l})
  /\ Unassigned(l) /\ Enqueue(l, NoReason)
  /\ UNCHANGED <<formula, db, qhead, level, assumptions, decision, pc,
                 conflict, tree, conflicts>>

(* Any literals may come first in a clause of another thread.              *)
ImportClause(lits) ==
  /\ pc = "top" /\ level = 0
  /\ imports < MaxImports /\ imports' = imports + 1
  /\ Cardinality(lits) > 1 /\ Implied(lits)
  /\ \A c \in db : c.list = "imported" => c.lits # lits
  /\ \E l \in lits :
       db' = db \cup {Clause(lits, "imported",
                             IF Cardinality(lits) = 2 THEN lits ELSE {l})}
  /\ UNCHANGED <<formula, trail, qhead, level, assumptions, decision, pc,
                 conflict, tree, conflicts>>

StartPropagation ==
  /\ pc = "top"
  /\ pc' = "propagate"
  /\ UNCHANGED <<formula, db, trail, qhead, level, assumptions, decision,
                 conflict, tree, conflicts, imports>>

-----------------------------------------------------------------------------
(* Nothing is left to propagate, and there is no conflict.                 *)
Quiet == pc = "propagate" /\ ~Pending

(* A restart keeps the levels of the assumptions.  It is where the time    *)
(* given to a subproblem ends, and the thread may be given another.        *)
Restart ==
  /\ Quiet /\ level >= Len(assumptions)
  /\ \/ level > Len(assumptions) /\ CancelUntil(Len(assumptions)) /\ pc' = "top"
     \/ tree /\ CancelUntil(0) /\ pc' = "walk"
  /\ assumptions' = IF pc' = "walk" THEN <<>> ELSE assumptions
  /\ UNCHANGED <<formula, db, decision, conflict, tree, conflicts, imports>>

(* simplify: clauses that are satisfied for good are removed.              *)
Simplify ==
  /\ Quiet /\ level = 0
  /\ \E c \in db : Satisfied(c)
  /\ db' = {c \in db : ~Satisfied(c)}
  /\ UNCHANGED <<formula, trail, qhead, level, assumptions, decision, pc,
                 conflict, tree, conflicts, imports>>

(* reduceDB: any clauses of others or learnt that are not short may be     *)
(* forgotten, unless they are the reason of an assignment.                 *)
NeverLocked(c) == FALSE   \* Faulty
Locked(c) == \E i \in 1..Len(trail) : trail[i].reason = Ref(c)
Deletable(c) == c.list # "clauses" /\ Cardinality(c.lits) > 2 /\ ~Locked(c)
ReduceDB ==
  /\ Quiet
  /\ \E c \in db : Deletable(c) /\ db' = db \ {c}
  /\ UNCHANGED <<formula, trail, qhead, level, assumptions, decision, pc,
                 conflict, tree, conflicts, imports>>

Decide(l) ==
  /\ level' = level + 1
  /\ trail' = Append(trail, Entry(l, level + 1, NoReason))

(* The next assumption: a level of its own even if it holds already.       *)
Assume ==
  /\ Quiet /\ level < Len(assumptions)
  /\ LET p == assumptions[level + 1]
     IN \/ p \in Trues /\ level' = level + 1 /\ UNCHANGED trail
        \/ Unassigned(p) /\ Decide(p)
  /\ UNCHANGED <<formula, db, qhead, assumptions, decision, pc, conflict,
                 tree, conflicts, imports>>

(* analyzeFinal: the decisions that the true literal q depends on.         *)
Traced(d, e) ==
  IF e.lit \notin d.seen \/ e.level = 0 THEN d
  ELSE IF e.reason = NoReason THEN [seen |-> d.seen, out |-> d.out \cup {-e.lit}]
  ELSE [seen |-> d.seen \cup {-l : l \in Upper(e.reason.lits \ {e.lit})}, out |-> d.out]
FinalConflict(q) ==
  LET Dep[i \in 0..Len(trail)] ==
        IF i = Len(trail) THEN [seen |-> {q}, out |-> {q}]
        ELSE Traced(Dep[i + 1], trail[i + 1])
  IN Dep[0].out

(* The next assumption is false: the subproblem is UNSAT.  The conflict is *)
(* added to the problem's clauses (it cannot be a unit that is not known). *)
Refute ==
  /\ Quiet /\ level < Len(assumptions)
  /\ LET q == -assumptions[level + 1]
         lits == FinalConflict(q)
     IN /\ q \in Trues
        /\ conflict' = [first |-> q, lits |-> lits]
        /\ db' = IF Level(q) = 0 \/ \E l \in lits : -l \in lits THEN db
                 ELSE db \cup {Clause(lits, "clauses", FirstTwo(lits))}
  /\ CancelUntil(0)
  /\ pc' = "refuted"
  /\ UNCHANGED <<formula, assumptions, decision, tree, conflicts, imports>>

(* pickBranchLit                                                           *)
PickBranchLit ==
  /\ Quiet /\ level >= Len(assumptions)
  /\ \E v \in decision : \E l \in {v, -v} : Unassigned(v) /\ Decide(l)
  /\ UNCHANGED <<formula, db, qhead, assumptions, decision, pc, conflict,
                 tree, conflicts, imports>>

ModelFound ==
  /\ Quiet /\ level >= Len(assumptions)
  /\ \A v \in decision : ~Unassigned(v)
  /\ pc' = "SAT"
  /\ UNCHANGED <<formula, db, trail, qhead, level, assumptions, decision,
                 conflict, tree, conflicts, imports>>

-----------------------------------------------------------------------------
(* The manager is told of the refuted subproblem and asked for another.    *)
AskSubproblem ==
  /\ pc = "refuted"
  /\ pc' = "walk"
  /\ assumptions' = <<>> /\ conflict' = NoConflict
  /\ UNCHANGED <<formula, db, trail, qhead, level, decision, tree, conflicts,
                 imports>>

(* On the way down the tree (AmpharosManager, ParallelSolver.h) a variable *)
(* with a value is followed, one without is decided and propagated.        *)
WalkAssigned ==
  /\ pc = "walk" /\ (Pending => level = 0) /\ Len(assumptions) < MaxCube
  /\ \E l \in Trues : assumptions' = Append(assumptions, l)
  /\ UNCHANGED <<formula, db, trail, qhead, level, decision, pc, conflict,
                 tree, conflicts, imports>>

WalkDecide ==
  /\ pc = "walk" /\ (Pending => level = 0) /\ Len(assumptions) < MaxCube
  /\ \E l \in LitsOf(formula) :
       /\ Unassigned(l) /\ Decide(l)
       /\ assumptions' = Append(assumptions, l)
  /\ UNCHANGED <<formula, db, qhead, decision, pc, conflict, tree,
                 conflicts, imports>>

(* DECISION_PROPAGATES_CONFLICT: the decision is taken back.               *)
WalkConflict(c) ==
  /\ pc = "walk" /\ Falsified(c) /\ level > 0
  /\ CancelUntil(level - 1)
  /\ assumptions' = Front(assumptions)
  /\ db' \in Promote(c)
  /\ UNCHANGED <<formula, decision, pc, conflict, tree, conflicts, imports>>

(* At a leaf: restart, and loadSubproblem.                                 *)
WalkEnds ==
  /\ pc = "walk" /\ (Pending => level = 0) /\ Len(assumptions) > 0
  /\ CancelUntil(0)
  /\ pc' = "top"
  /\ UNCHANGED <<formula, db, assumptions, decision, conflict, tree,
                 conflicts, imports>>

-----------------------------------------------------------------------------
Propagate ==
  \/ \E c \in db : MoveWatch(c) \/ Imply(c)
  \/ Propagated

Search ==
  \/ \E c \in db : Conflict(c) \/ ConflictAtRoot(c) \/ AlphaAdjust(c)
  \/ \E l \in Lits : ImportUnit(l)
  \/ \E lits \in Shareable : ImportClause(lits)
  \/ StartPropagation \/ Restart \/ Simplify \/ ReduceDB
  \/ Assume \/ Refute \/ PickBranchLit \/ ModelFound

Walk ==
  \/ AskSubproblem \/ WalkAssigned \/ WalkDecide \/ WalkEnds
  \/ \E c \in db : WalkConflict(c)

Next == Propagate \/ Search \/ Walk

Spec == Init /\ [][Next]_vars

-----------------------------------------------------------------------------
TypeOK ==
  /\ formula \in Formulas
  /\ \A c \in db :
       /\ c.lits \subseteq Lits /\ Cardinality(c.lits) > 1
       /\ c.list \in Lists
       /\ c.watch \subseteq c.lits /\ Cardinality(c.watch) \in 1..2
       /\ OneWatched(c) => c.list = "imported"
  /\ Len(trail) <= Cardinality(Vars) /\ qhead \in 1..(Len(trail) + 1)
  /\ \A i, j \in 1..Len(trail) : Var(trail[i].lit) = Var(trail[j].lit) => i = j
  /\ \A i \in 1..Len(trail) : trail[i].lit \in Lits /\ trail[i].level \in 0..level
  /\ assumptions \in Seq(Lits) /\ Len(assumptions) <= MaxCube
  /\ decision \subseteq Vars
  /\ pc \in {"top", "propagate", "walk", "refuted", "SAT", "UNSAT"}
  /\ conflict.lits \subseteq Lits
  /\ tree \in BOOLEAN /\ conflicts \in 0..MaxConflicts /\ imports \in 0..MaxImports

(* What is known for good follows from the formula: every clause, whoever  *)
(* learnt it and whatever subproblem it was learnt under, and every        *)
(* literal of level 0.  Subproblems enter as decisions, so analyze leaves  *)
(* in a learnt clause what it owes them.                                   *)
Entailed ==
  /\ \A c \in db : Implied(c.lits)
  /\ \A l \in Fixed : Implied({l})

(* analyze and analyzeFinal walk from a literal to its reason: the clause  *)
(* has not been freed by reduceDB or simplify, its other literals were     *)
(* false before it, and one of them is of the same level, so that every    *)
(* walk back ends at the decision of the level.                            *)
ReasonsHold ==
  \A i \in 1..Len(trail) :
    LET e == trail[i]
        others == e.reason.lits \ {e.lit}
    IN e.reason # NoReason =>
         /\ \E c \in db : Ref(c) = e.reason
         /\ e.lit \in e.reason.lits
         /\ others \subseteq {-trail[j].lit : j \in 1..(i - 1)}
         /\ pc # "walk" => \E l \in others : Level(l) = e.level

(* A watched literal is false for good.  Clauses of others are attached    *)
(* whatever their literals are worth, and a unit learnt in the conflict    *)
(* that ends the initialization of Ampharos is skipped by the restart      *)
(* after the walk down the tree: propagation never visits such a clause.   *)
Dull(c) == \E l \in c.watch : -l \in Fixed

(* When the thread decides, no propagation is missed: a clause with a      *)
(* false watched literal is satisfied, but for the dull ones.              *)
NoUnitMissed ==
  Quiet => \A c \in db :
    \/ OneWatched(c) \/ Dull(c) \/ Satisfied(c)
    \/ c.watch \cap Falses = {}

(* What analyze returns, with both its minimizations, follows from the     *)
(* formula, has one literal of the current level, so that it is asserting  *)
(* after the backjump, and is not subsumed by a clause that propagates:    *)
(* every conflict teaches something, which is why a search without         *)
(* forgetting ends.                                                        *)
LearntIsNew ==
  \A c \in db :
    pc = "propagate" /\ level > 0 /\ Falsified(c) =>
      LET learnt == Learnt(c.lits)
      IN /\ Cardinality(Current(learnt)) = 1
         /\ learnt \subseteq Falses
         /\ Implied(learnt)
         /\ \A d \in db : d.lits \subseteq learnt => OneWatched(d) \/ Dull(d)

(* What a thread learns is true, for every subproblem, and worth it.       *)
LearningIsSound == TypeOK /\ Entailed /\ LearntIsNew

(* The answers of a thread: a trail without a conflict satisfies the       *)
(* formula and the subproblem, although decisions are not made on every    *)
(* variable; UNSAT is only answered for a formula without a model; and a   *)
(* subproblem is refuted up to the assumption that the final conflict      *)
(* names, which is where the manager cuts the tree.                        *)
VerdictIsRight ==
  /\ pc = "SAT" => /\ \A c \in formula : c \cap Trues # {}
                   /\ ToSet(assumptions) \subseteq Trues
  /\ pc = "UNSAT" => ModelsOf[formula] = {}
  /\ pc = "refuted" =>
       /\ Implied(conflict.lits)
       /\ \E i \in 1..Len(assumptions) :
            /\ conflict.first = -assumptions[i]
            /\ conflict.lits \subseteq {-assumptions[j] : j \in 1..i}
                                       \cup {conflict.first}

(* MultiSolvers.cc asserts, at line 383, that every variable of a model has *)
(* a value.                                                                *)
ModelIsTotal == pc = "SAT" => \A v \in VarsOf(formula) : ~Unassigned(v)
=============================================================================
