----------------------------- MODULE Elimination -----------------------------
(***************************************************************************)
(* What a worker does with the formula before its threads start: it loads  *)
(* the clauses (MultiSolvers::addClause_), simplifies them by subsumption  *)
(* and by elimination of variables (SimpSolver::eliminate), solves what is *)
(* left, and extends the model it finds to the variables eliminated        *)
(* (SimpSolver::extendModel).                                              *)
(*                                                                         *)
(* A literal is a variable or its negative, a clause the set of its        *)
(* literals, a reference to a clause (CRef) its rank of allocation, which  *)
(* is also its rank in every occurrence list.  The record "db" holds the   *)
(* clauses and the indexes kept beside them.  The procedures run one after *)
(* the other, cut at the points where propagate is called: its steps, in   *)
(* any order, come before any other (see Settled).                         *)
(***************************************************************************)
EXTENDS Integers, Sequences, FiniteSets, SequencesExt, FiniteSetsExt

CONSTANTS
  MaxVar,     \* the variables are 1..MaxVar
  Formulas,   \* sequences of clauses: the files a worker may be given
  Options,    \* the sets of options a run may have: -asymm, -rcheck
  Grow,       \* option -grow
  ClauseLim   \* option -cl-lim, -1 for none

ASSUME VarsAssumption == MaxVar \in Nat
ASSUME OptionsAssumption ==
  /\ Options \subseteq SUBSET {"asymm", "rcheck"}
  /\ Grow \in Int /\ ClauseLim \in Nat \cup {-1}

Vars == 1..MaxVar
Lits == Vars \cup {-v : v \in Vars}
Var(l) == IF l < 0 THEN -l ELSE l
VarsOf(c) == {Var(l) : l \in c}
Tautology(c) == \E l \in c : -l \in c

(* The elements of a set of numbers, smallest first.                       *)
Ascending(S) ==
  [i \in 1..Cardinality(S) |->
     CHOOSE x \in S : Cardinality({y \in S : y <= x}) = i]

ASSUME FormulasAssumption ==
  \A f \in Formulas : f \in Seq(SUBSET Lits)

VARIABLES
  formula, \* the clauses of the file
  options, \* use_asymm and use_rcheck, when on
  loaded,  \* how many of them were given to addClause_
  db,      \* the clauses and their indexes, see EmptyDatabase
  trail,   \* the assignments of level 0
  ok,      \* okay()
  elimclauses, \* what extendModel reads, a sequence of <<literal, others>>
  bwdsub,  \* bwdsub_assigns
  scan,    \* the clause backwardSubsumptionCheck is at, what it still visits
  cross,   \* the variable taken from elim_heap, and the clauses asymmVar or
           \* the pairs of clauses eliminateVar has still to visit
  pc,      \* the procedure that runs
  model    \* the literals that are true in the model

input == <<formula, options>>
vars == <<input, loaded, db, trail, ok, elimclauses, bwdsub, scan, cross, pc,
          model>>

TmpUnit == 0       \* bwdsub_tmpunit: the clause of the last literal scanned
NoCross == [v |-> 0, todo |-> <<>>]
NoScan == [cr |-> -1, todo |-> {}]

-----------------------------------------------------------------------------
(* Values at level 0, and unit propagation.                                *)

Assigned == ToSet(trail)
IsTrue(l) == l \in Assigned
IsFalse(l) == -l \in Assigned
Known == 1..db.nvars
Unassigned == {v \in Known : {v, -v} \cap Assigned = {}}

Open(c) == {l \in c : ~IsFalse(l)}
Satisfied(c) == \E l \in c : IsTrue(l)
(* Clauses propagate has something to do with.                             *)
Pending == {cr \in db.live : ~Satisfied(db.lits[cr])
                             /\ Cardinality(Open(db.lits[cr])) <= 1}
Settled == Pending = {}

LiveClauses == {db.lits[cr] : cr \in db.live}

(* A conflict found by unit propagation after the assignments a: a round   *)
(* for each variable propagates all there is.                              *)
OpenUnder(b, c) == {l \in c : -l \notin b}
WithUnits(b) ==
  b \cup UNION {OpenUnder(b, c) : c \in {d \in LiveClauses :
                                          Cardinality(OpenUnder(b, d)) = 1}}
Refuted(a) ==
  LET Closed[i \in 0..MaxVar] ==
        IF i = 0 THEN Assigned \cup a ELSE WithUnits(Closed[i - 1])
  IN \E c \in LiveClauses : OpenUnder(Closed[MaxVar], c) = {}
Refutes(c) == Refuted({-l : l \in c})

-----------------------------------------------------------------------------
(* The indexes.                                                            *)

(* OccLists::lookup: the removed clauses leave a list when it is read.     *)
Lookup(d, v) ==
  IF v \notin d.dirty THEN d
  ELSE [d EXCEPT !.occurs[v] = @ \cap d.live, !.dirty = @ \ {v}]

(* updateElimHeap, for a set of variables: that of asymmVar is frozen.     *)
UpdateHeap(d, vs) ==
  [d EXCEPT !.heap = @ \cup ((vs \cap Unassigned)
                                \ (d.eliminated \cup {cross.v}))]

(* removeClause, for a set of clauses.                                     *)
AllRemoved(d, crs) ==
  LET vs == UNION {VarsOf(d.lits[cr]) : cr \in crs} IN
  UpdateHeap(
    [d EXCEPT !.live = @ \ crs,
              !.nocc = [l \in Lits |->
                          @[l] - Cardinality({cr \in crs : l \in d.lits[cr]})],
              !.dirty = @ \cup vs],
    vs)
Removed(d, cr) == AllRemoved(d, {cr})

(* The part of addClause_ that comes after the simplifications.            *)
Added(d, c) ==
  LET cr == Len(d.lits) + 1 IN
  [d EXCEPT !.lits = Append(@, c),
            !.live = @ \cup {cr},
            !.queue = Append(@, cr),
            !.occurs = [v \in Vars |-> IF v \in VarsOf(c) THEN @[v] \cup {cr}
                                                          ELSE @[v]],
            !.nocc = [l \in Lits |-> IF l \in c THEN @[l] + 1 ELSE @[l]],
            !.touched = @ \cup VarsOf(c)]

(* A strengthened clause that stays in the list of the literal it lost.    *)
StrengthenedListed(d, cr, l) ==
  LET q == [d EXCEPT !.queue = Append(@, cr)] IN
  IF Cardinality(d.lits[cr]) = 2
  THEN [Removed(q, cr) EXCEPT !.lits[cr] = @ \ {l}]
  ELSE UpdateHeap([q EXCEPT !.lits[cr] = @ \ {l}, !.nocc[l] = @ - 1],
                  {Var(l)})

(* A strengthened clause that is not checked against the others again.     *)
StrengthenedUnqueued(d, cr, l) ==
  IF Cardinality(d.lits[cr]) = 2
  THEN [Removed(d, cr) EXCEPT !.lits[cr] = @ \ {l}]
  ELSE UpdateHeap([d EXCEPT !.lits[cr] = @ \ {l},
                            !.occurs[Var(l)] = @ \ {cr},
                            !.nocc[l] = @ - 1], {Var(l)})

(* strengthenClause: l leaves the clause; one of two literals is removed.  *)
Strengthened(d, cr, l) ==
  LET q == [d EXCEPT !.queue = Append(@, cr)] IN
  IF Cardinality(d.lits[cr]) = 2
  THEN [Removed(q, cr) EXCEPT !.lits[cr] = @ \ {l}]
  ELSE UpdateHeap([q EXCEPT !.lits[cr] = @ \ {l},
                            !.occurs[Var(l)] = @ \ {cr},
                            !.nocc[l] = @ - 1], {Var(l)})

(* Two literals may differ by their sign.                                  *)
SubsumesTwice(c, other) ==
  LET flipped == {l \in c : -l \in other /\ l \notin other} IN
  IF c \subseteq other THEN {0}
  ELSE IF c \ flipped \subseteq other THEN flipped ELSE {}

(* Clause::subsumes: the literals of c whose complement other may lose,    *)
(* none but 0 when c subsumes it, none at all otherwise.                   *)
Subsumes(c, other) ==
  LET flipped == {l \in c : -l \in other /\ l \notin other} IN
  IF c \subseteq other THEN {0}
  ELSE IF Cardinality(flipped) = 1 /\ c \ flipped \subseteq other
       THEN flipped ELSE {}

-----------------------------------------------------------------------------
EmptyDatabase ==
  [nvars |-> 0,                     \* nVars(): the variables are 1..nvars
   lits |-> <<>>,                   \* the literals of the clauses allocated
   live |-> {},                     \* the clauses that are not removed
   occurs |-> [v \in Vars |-> {}],  \* the clauses of each variable
   dirty |-> {},                    \* variables with removed ones in occurs
   nocc |-> [l \in Lits |-> 0],     \* n_occ: occurrences of each literal
   touched |-> {},                  \* variables of clauses that were added
   queue |-> <<>>,                  \* subsumption_queue
   heap |-> {},                     \* elim_heap
   eliminated |-> {}]

Init ==
  /\ formula \in Formulas
  /\ options \in Options
  /\ loaded = 0
  /\ db = EmptyDatabase
  /\ trail = <<>>
  /\ ok = TRUE
  /\ elimclauses = <<>>
  /\ bwdsub = 0
  /\ scan = NoScan
  /\ cross = NoCross
  /\ pc = "load"
  /\ model = {}

(* A unit or a conflict found by propagate.                                *)
Propagate ==
  /\ ok
  /\ \E cr \in Pending :
       LET open == Open(db.lits[cr]) IN
       \/ /\ open = {}
          /\ ok' = FALSE
          /\ UNCHANGED trail
       \/ \E l \in open :
          /\ trail' = Append(trail, l)
          /\ UNCHANGED ok
  /\ UNCHANGED <<input, loaded, db, elimclauses, bwdsub, scan, cross, pc,
                 model>>

(* addClause_ of Solver, SimpSolver and MultiSolvers, on an index d; with  *)
(* -rcheck a clause that propagation shows to be implied is not added.     *)
AddClause(d, c) ==
  LET kept == Open(c) IN
  IF Satisfied(c) \/ Tautology(c)
  THEN db' = d /\ UNCHANGED <<trail, ok>>
  ELSE CASE kept = {} -> ok' = FALSE /\ db' = d /\ UNCHANGED trail
         [] Cardinality(kept) = 1 ->
              /\ \E l \in kept : trail' = Append(trail, l)
              /\ db' = d /\ UNCHANGED ok
         [] OTHER -> /\ db' = IF "rcheck" \in options /\ Refutes(kept)
                              THEN d ELSE Added(d, kept)
                     /\ UNCHANGED <<trail, ok>>

(* readClause: the variables up to the largest of the clause are created,  *)
(* each of them in elim_heap.                                              *)
NewVars(d, c) ==
  LET n == Max(VarsOf(c) \cup {d.nvars}) IN
  [d EXCEPT !.nvars = n, !.heap = @ \cup (d.nvars + 1)..n]

(* readClause and addClause_, for the next clause of the file.             *)
Load ==
  /\ ok /\ Settled /\ pc = "load"
  /\ loaded < Len(formula)
  /\ loaded' = loaded + 1
  /\ LET c == formula[loaded + 1] IN AddClause(NewVars(db, c), c)
  /\ UNCHANGED <<input, elimclauses, bwdsub, scan, cross, pc, model>>

(* The variables stay touched.                                             *)
GatheredAgain(d) ==
  LET Queue[v \in 0..MaxVar] ==
        IF v = 0 THEN d.queue
        ELSE IF v \notin d.touched THEN Queue[v - 1]
        ELSE Queue[v - 1]
               \o Ascending((d.occurs[v] \cap d.live) \ ToSet(Queue[v - 1]))
  IN [d EXCEPT !.queue = Queue[MaxVar]]

(* gatherTouchedClauses: the queue gets the clauses of touched variables.  *)
Gathered(d) ==
  LET occ == [v \in Vars |-> IF v \in d.touched \cap d.dirty
                             THEN d.occurs[v] \cap d.live ELSE d.occurs[v]]
      Queue[v \in 0..MaxVar] ==
        IF v = 0 THEN d.queue
        ELSE IF v \notin d.touched THEN Queue[v - 1]
        ELSE Queue[v - 1] \o Ascending(occ[v] \ ToSet(Queue[v - 1]))
  IN [d EXCEPT !.occurs = occ, !.dirty = @ \ d.touched, !.touched = {},
               !.queue = Queue[MaxVar]]

(* The head of the loop of eliminate.                                      *)
Gather ==
  /\ ok /\ Settled
  /\ pc = "loop" \/ (pc = "load" /\ loaded = Len(formula))
  /\ db.touched # {} \/ bwdsub < Len(trail) \/ db.heap # {}
  /\ db' = Gathered(db)
  /\ pc' = "subsume"
  /\ UNCHANGED <<input, loaded, trail, ok, elimclauses, bwdsub, scan,
                 cross, model>>

-----------------------------------------------------------------------------
(* backwardSubsumptionCheck.                                               *)

(* The clause under cr: that of bwdsub_tmpunit is the last literal taken.  *)
LitsOf(cr) == IF cr = TmpUnit THEN {trail[bwdsub]} ELSE db.lits[cr]

TakeAssignment ==
  /\ ok /\ Settled /\ pc = "subsume" /\ scan = NoScan
  /\ db.queue = <<>> /\ bwdsub < Len(trail)
  /\ bwdsub' = bwdsub + 1
  /\ db' = [db EXCEPT !.queue = <<TmpUnit>>]
  /\ UNCHANGED <<input, loaded, trail, ok, elimclauses, scan, cross, pc,
                 model>>

(* A removed clause is passed over; the others visit the shortest list of  *)
(* their variables, as it was before it is cleaned.                        *)
TakeClause ==
  /\ ok /\ Settled /\ pc = "subsume" /\ scan = NoScan
  /\ db.queue # <<>>
  /\ LET cr == Head(db.queue)
         rest == [db EXCEPT !.queue = Tail(@)]
         size(v) == Cardinality(db.occurs[v])
     IN IF cr # TmpUnit /\ cr \notin db.live
        THEN db' = rest /\ UNCHANGED scan
        ELSE \E best \in VarsOf(LitsOf(cr)) :
               /\ \A v \in VarsOf(LitsOf(cr)) : size(best) <= size(v)
               /\ db' = Lookup(rest, best)
               /\ scan' = [cr |-> cr, todo |-> db'.occurs[best]]
  /\ UNCHANGED <<input, loaded, trail, ok, elimclauses, bwdsub, cross, pc,
                 model>>

(* The clauses of the list still to visit that the clause subsumes or      *)
(* strengthens; none once the clause itself is removed.                    *)
Hits ==
  IF scan.cr # TmpUnit /\ scan.cr \notin db.live THEN {}
  ELSE {cs \in (scan.todo \ {scan.cr}) \cap db.live :
          Subsumes(LitsOf(scan.cr), db.lits[cs]) # {}}

(* The first of them is subsumed, and removed.                             *)
Subsume ==
  /\ ok /\ Settled /\ pc = "subsume" /\ Hits # {}
  /\ LET cs == Min(Hits) IN
     /\ 0 \in Subsumes(LitsOf(scan.cr), db.lits[cs])
     /\ db' = Removed(db, cs)
     /\ scan' = [scan EXCEPT !.todo = {x \in @ : x > cs}]
  /\ UNCHANGED <<input, loaded, trail, ok, elimclauses, bwdsub, cross, pc,
                 model>>

(* strengthenClause, called: one literal left is enqueued.                 *)
StrengthenClause(cr, l) ==
  LET left == db.lits[cr] \ {l} IN
  /\ db' = Strengthened(db, cr, l)
  /\ IF Cardinality(left) > 1 \/ Satisfied(left)
     THEN UNCHANGED <<trail, ok>>
     ELSE IF Open(left) = {}
     THEN ok' = FALSE /\ UNCHANGED trail
     ELSE /\ \E p \in left : trail' = Append(trail, p)
          /\ UNCHANGED ok

(* The first of them loses a literal.                                      *)
Strengthen ==
  /\ ok /\ Settled /\ pc = "subsume" /\ Hits # {}
  /\ LET cs == Min(Hits) IN
     \E l \in Subsumes(LitsOf(scan.cr), db.lits[cs]) \ {0} :
       /\ StrengthenClause(cs, -l)
       /\ scan' = [scan EXCEPT !.todo = {x \in @ : x > cs}]
  /\ UNCHANGED <<input, loaded, elimclauses, bwdsub, cross, pc, model>>

ScanDone ==
  /\ ok /\ Settled /\ pc = "subsume" /\ scan # NoScan /\ Hits = {}
  /\ scan' = NoScan
  /\ UNCHANGED <<input, loaded, db, trail, ok, elimclauses, bwdsub, cross,
                 pc, model>>

(* Nothing left to check: back to the elimination of variables, or to that *)
(* of the variable asymmVar was called for.                                *)
SubsumeDone ==
  /\ ok /\ Settled /\ pc = "subsume" /\ scan = NoScan
  /\ db.queue = <<>> /\ bwdsub = Len(trail)
  /\ pc' = IF cross = NoCross THEN "eliminate" ELSE "variable"
  /\ UNCHANGED <<input, loaded, db, trail, ok, elimclauses, bwdsub, scan,
                 cross, model>>

-----------------------------------------------------------------------------
(* The loop over elim_heap, and eliminateVar.                              *)

Cost(v) == db.nocc[v] * db.nocc[-v]      \* ElimLt::cost

(* merge: the resolvent of two clauses on v, a tautology or not.           *)
Resolvent(c1, c2, v) == (c1 \cup c2) \ {v, -v}

PosOf(v) == Ascending({cr \in db.occurs[v] \cap db.live : v \in db.lits[cr]})
NegOf(v) == Ascending({cr \in db.occurs[v] \cap db.live : v \notin db.lits[cr]})

(* The pairs in the order of the two nested loops.                         *)
Pairs(v) ==
  LET p == PosOf(v)
      n == NegOf(v)
  IN [i \in 1..(Len(p) * Len(n)) |->
        <<p[1 + ((i - 1) \div Len(n))], n[1 + ((i - 1) % Len(n))]>>]

Merges(v) ==
  {i \in DOMAIN Pairs(v) :
     ~Tautology(Resolvent(db.lits[Pairs(v)[i][1]],
                          db.lits[Pairs(v)[i][2]], v))}

Affordable(v) ==
  /\ Cardinality(Merges(v)) <= Len(PosOf(v)) + Len(NegOf(v)) + Grow
  /\ ClauseLim # -1 =>
       \A i \in Merges(v) :
         Cardinality(Resolvent(db.lits[Pairs(v)[i][1]],
                               db.lits[Pairs(v)[i][2]], v)) <= ClauseLim

(* mkElimClause: the clauses of the rarer side, then the default value.    *)
Stored(v, l, crs) == [i \in DOMAIN crs |-> <<l, db.lits[crs[i]] \ {l}>>]
StoredForOtherSide(v) ==   \* the default value of the other side
  IF Len(PosOf(v)) > Len(NegOf(v))
  THEN Append(Stored(v, -v, NegOf(v)), <<-v, {}>>)
  ELSE Append(Stored(v, v, PosOf(v)), <<v, {}>>)
StoredFor(v) ==
  IF Len(PosOf(v)) > Len(NegOf(v))
  THEN Append(Stored(v, -v, NegOf(v)), <<v, {}>>)
  ELSE Append(Stored(v, v, PosOf(v)), <<-v, {}>>)

(* eliminateVar, for a variable that has no value, on an index d.          *)
EliminateVar(d, v) ==
  IF v \in Unassigned /\ Affordable(v)
  THEN /\ db' = [Lookup(d, v) EXCEPT !.eliminated = @ \cup {v}]
       /\ elimclauses' = elimclauses \o StoredFor(v)
       /\ cross' = [v |-> v, todo |-> Pairs(v)]
       /\ pc' = "resolve"
  ELSE /\ db' = IF v \in Unassigned THEN Lookup(d, v) ELSE d
       /\ cross' = NoCross
       /\ pc' = "eliminate"
       /\ UNCHANGED elimclauses

(* removeMin; a variable that is eliminated or assigned is passed over.    *)
TakeVar ==
  /\ ok /\ Settled /\ pc = "eliminate"
  /\ \E v \in db.heap :
       /\ \A w \in db.heap : Cost(v) <= Cost(w)
       /\ LET d == [db EXCEPT !.heap = @ \ {v}] IN
          IF v \in db.eliminated \/ v \notin Unassigned
          THEN db' = d /\ UNCHANGED <<elimclauses, cross, pc>>
          ELSE IF "asymm" \in options
          THEN /\ db' = Lookup(d, v)
               /\ cross' = [v |-> v, todo |-> Ascending(db'.occurs[v])]
               /\ pc' = "asymm"
               /\ UNCHANGED elimclauses
          ELSE EliminateVar(d, v)
  /\ UNCHANGED <<input, loaded, trail, ok, bwdsub, scan, model>>

(* asymm: the clause loses the variable (or a literal that is false, if    *)
(* that comes last) when its other literals alone are implied.  Its place  *)
(* in the list asymmVar goes through is taken by the next clause, which is *)
(* then passed over.                                                       *)
Asymm ==
  /\ ok /\ Settled /\ pc = "asymm" /\ cross.todo # <<>>
  /\ LET cr == Head(cross.todo)
         rest == Tail(cross.todo)
         mine == {l \in db.lits[cr] : Var(l) = cross.v \/ IsFalse(l)}
     IN IF /\ cr \in db.live /\ ~Satisfied(db.lits[cr])
           /\ Refutes(db.lits[cr] \ mine)
        THEN \E l \in mine :
               /\ StrengthenClause(cr, l)
               /\ cross' = [cross EXCEPT !.todo =
                              IF cr \in db'.occurs[cross.v] \/ rest = <<>>
                              THEN rest ELSE Tail(rest)]
        ELSE /\ cross' = [cross EXCEPT !.todo = rest]
             /\ UNCHANGED <<db, trail, ok>>
  /\ UNCHANGED <<input, loaded, elimclauses, bwdsub, scan, pc, model>>

AsymmDone ==
  /\ ok /\ Settled /\ pc = "asymm" /\ cross.todo = <<>>
  /\ pc' = "subsume"
  /\ UNCHANGED <<input, loaded, db, trail, ok, elimclauses, bwdsub, scan, cross,
                 model>>

(* The variable may have a value by then.                                  *)
Eliminate ==
  /\ ok /\ Settled /\ pc = "variable"
  /\ EliminateVar(db, cross.v)
  /\ UNCHANGED <<input, loaded, trail, ok, bwdsub, scan, model>>

(* One resolvent, merged again from the clauses as they are.               *)
Resolve ==
  /\ ok /\ Settled /\ pc = "resolve"
  /\ cross.todo # <<>>
  /\ LET p == Head(cross.todo) IN
     AddClause(db, Resolvent(db.lits[p[1]], db.lits[p[2]], cross.v))
  /\ cross' = [cross EXCEPT !.todo = Tail(@)]
  /\ UNCHANGED <<input, loaded, elimclauses, bwdsub, scan, pc, model>>

(* The clauses of the variable leave, and so does its occurrence list.     *)
DropVar ==
  /\ ok /\ Settled /\ pc = "resolve"
  /\ cross.todo = <<>>
  /\ db' = [AllRemoved(db, db.occurs[cross.v]) EXCEPT !.occurs[cross.v] = {}]
  /\ cross' = NoCross
  /\ pc' = "subsume"
  /\ UNCHANGED <<input, loaded, trail, ok, elimclauses, bwdsub, scan,
                 model>>

HeapEmpty ==
  /\ ok /\ Settled /\ pc = "eliminate"
  /\ db.heap = {}
  /\ pc' = "loop"
  /\ UNCHANGED <<input, loaded, db, trail, ok, elimclauses, bwdsub, scan,
                 cross, model>>

(* The loop ends; with turn_off_elim the indexes are freed.                *)
Cleanup ==
  /\ ok /\ Settled
  /\ pc = "loop" \/ (pc = "load" /\ loaded = Len(formula))
  /\ db.touched = {} /\ bwdsub = Len(trail) /\ db.heap = {}
  /\ db' = [EmptyDatabase EXCEPT !.lits = db.lits, !.live = db.live,
                                 !.nvars = db.nvars,
                                 !.eliminated = db.eliminated]
  /\ pc' = "solve"
  /\ UNCHANGED <<input, loaded, trail, ok, elimclauses, bwdsub, scan,
                 cross, model>>

-----------------------------------------------------------------------------
(* What the threads solve: the live clauses, with the assignments.         *)

SetsOfLits(vs) == {{IF v \in pos THEN v ELSE -v : v \in vs} : pos \in SUBSET vs}
Models(a, cs) == \A c \in cs : a \cap c # {}

Solutions ==
  {b \in SetsOfLits(Known \ (db.eliminated \cap Unassigned)) :
     Models(b, LiveClauses) /\ Assigned \subseteq b}

(* alphaAdjustSolver, once some literals were fixed at level 0: only the   *)
(* variables of clauses that are not satisfied are decided from then on,   *)
(* the others have a value when a clause that was learnt gives them one.   *)
Undecided(fixed) ==
  {v \in Known : /\ {v, -v} \cap fixed = {}
                 /\ \A c \in LiveClauses : v \in VarsOf(c) => c \cap fixed # {}}

(* The search: a model, without values for some variables that are not     *)
(* decided (for none before alphaAdjustSolver is called), or no model.     *)
Solve ==
  /\ ok /\ pc = "solve"
  /\ \/ \E b \in Solutions :
          \E fixed \in SUBSET {l \in b : \A s \in Solutions : l \in s} :
            /\ Assigned \subseteq fixed
            /\ \E vs \in SUBSET Undecided(fixed) :
                 model' = {l \in b : Var(l) \notin vs}
            /\ pc' = "extend"
            /\ UNCHANGED ok
     \/ /\ Solutions = {}
        /\ ok' = FALSE
        /\ UNCHANGED <<model, pc>>
  /\ UNCHANGED <<input, loaded, db, trail, elimclauses, bwdsub, scan, cross>>

(* extendModel, for the last clause stored: its first literal is set when  *)
(* the others are all false (one without a value is not).                  *)
Extend ==
  /\ pc = "extend" /\ elimclauses # <<>>
  /\ LET e == Last(elimclauses) IN
     model' = IF \A l \in e[2] : -l \in model
              THEN (model \ {-e[1]}) \cup {e[1]} ELSE model
  /\ elimclauses' = Front(elimclauses)
  /\ UNCHANGED <<input, loaded, db, trail, ok, bwdsub, scan, cross, pc>>

Answered == ~ok \/ (pc = "extend" /\ elimclauses = <<>>)
Finished == Answered /\ UNCHANGED vars

Next ==
  \/ Propagate \/ Load \/ Gather
  \/ TakeAssignment \/ TakeClause \/ Subsume \/ Strengthen \/ ScanDone
  \/ SubsumeDone \/ TakeVar \/ Asymm \/ AsymmDone \/ Eliminate \/ Resolve
  \/ DropVar \/ HeapEmpty \/ Cleanup
  \/ Solve \/ Extend \/ Finished

(* The worker runs one procedure after the other and never waits: weak     *)
(* fairness of Next, which is enabled until the answer.                    *)
Fairness == []<>Answered \/ []<><<Next>>_vars

Spec == Init /\ [][Next]_vars /\ Fairness

-----------------------------------------------------------------------------
(* Types of the state, indexes included.                                    *)
TypeOK ==
  LET crefs == DOMAIN db.lits IN
  /\ \A cr \in crefs : db.lits[cr] \subseteq Lits
  /\ db.live \subseteq crefs
  /\ \A v \in Vars : db.occurs[v] \subseteq crefs
  /\ \A l \in Lits : db.nocc[l] \in Nat
  /\ ToSet(db.queue) \subseteq crefs \cup {TmpUnit}
  /\ db.dirty \cup db.touched \cup db.heap \cup db.eliminated \subseteq Vars
  /\ loaded \in 0..Len(formula) /\ bwdsub \in 0..Len(trail)
  /\ Assigned \subseteq Lits /\ ok \in BOOLEAN
  /\ \A l \in Assigned : -l \notin Assigned
  /\ scan.cr \in -1..Len(db.lits) /\ scan.todo \subseteq crefs
  /\ pc \in {"load", "loop", "subsume", "eliminate", "asymm", "variable",
             "resolve", "solve", "extend"}
  /\ model \subseteq Lits

Over(a, vs) == {l \in a : Var(l) \in vs}

(* Preprocessing keeps the models: at every step the clauses that are left *)
(* and the assignments have, on the variables not yet eliminated, the      *)
(* models of the clauses loaded; and the formula is found contradictory    *)
(* only when it is.                                                        *)
SameModels ==
  LET file == ToSet(SubSeq(formula, 1, loaded))
      all == SetsOfLits(Known)
      kept == Known \ db.eliminated
      origin == {a \in all : Models(a, file)}
  IN IF ok
     THEN {Over(a, kept) : a \in origin} =
          {Over(a, kept) : a \in {b \in all : Models(b, LiveClauses)
                                              /\ Assigned \subseteq b}}
     ELSE origin = {}

(* The model that is printed, extended to the variables eliminated, has at *)
(* most one value for each variable, one for each variable eliminated, and *)
(* satisfies the clauses that were solved; and no clause of the file has   *)
(* all its literals false.  A model with a value for every variable        *)
(* satisfies then every clause of the file; alphaAdjustSolver may leave    *)
(* some without, and extendModel passes over what is stored with them.     *)
ModelOfTheFile ==
  ok /\ Answered =>
    /\ \A l \in model : Var(l) \in Known /\ -l \notin model
    /\ Known \ VarsOf(model) \subseteq Unassigned \ db.eliminated
    /\ Models(model, LiveClauses)
    /\ \A c \in ToSet(formula) : \E l \in c : -l \notin model

(* The occurrence lists (once cleaned) and the counts that rank variables  *)
(* are those of the clauses, through lazy removals and strengthenings.     *)
IndexesExact ==
  /\ TypeOK
  /\ pc \notin {"solve", "extend"} =>
       /\ \A v \in Vars :
            LET with == {cr \in db.live : v \in VarsOf(db.lits[cr])} IN
            /\ db.occurs[v] \cap db.live = with
            /\ v \notin db.dirty => db.occurs[v] = with
       /\ \A l \in Lits :
            db.nocc[l] = Cardinality({cr \in db.live : l \in db.lits[cr]})

(* When nothing is touched, and in what the threads get, the clauses are   *)
(* closed under what backwardSubsumptionCheck looks for: none is subsumed  *)
(* or strengthened by another or by an assignment, and none has a variable *)
(* that was eliminated.                                                    *)
FullySimplified ==
  ok /\ pc \in {"eliminate", "loop", "solve"} /\ db.touched = {} =>
    \A c1 \in db.live :
      /\ VarsOf(db.lits[c1]) \subseteq Unassigned \ db.eliminated
      /\ \A c2 \in db.live \ {c1} :
           Subsumes(db.lits[c1], db.lits[c2]) = {}

(* The three loops of eliminate feed each other (a clause that is removed  *)
(* puts its variables back in elim_heap, a resolvent touches variables),   *)
(* and yet they end, and the worker answers.                               *)
Terminates == <>Answered
=============================================================================
