---------------------------- MODULE ClauseMemory ----------------------------
(***************************************************************************)
(* The memory of a solver's clauses (ClauseAllocator): a region where      *)
(* clauses are only appended and marked removed, everything that refers to *)
(* them by their place in it, watcher lists that are cleaned late, and the *)
(* garbage collector that moves the clauses to a new region.               *)
(*                                                                         *)
(* A reference (CRef) is the rank of a clause in the region.  "id" tells   *)
(* clauses apart when they move; the code has no such thing.  The search   *)
(* is as much of Solver::search as gives clauses the watches, the reasons  *)
(* and the levels of a run.  The blockers of watchers, which save visits,  *)
(* the activities and the minimization of learnt clauses are left out.     *)
(***************************************************************************)
EXTENDS Integers, Sequences, FiniteSets, SequencesExt, FiniteSetsExt

CONSTANTS
  MaxVar,      \* the variables are 1..MaxVar
  Formulas,    \* sequences of clauses: what the thread starts with
  Shared,      \* clauses the other threads may have learnt
  CoLBDBounds, \* what alphaAdjustSolver sets coLBDBound to
  LimitLBD,    \* limitLBDsearch: a learnt clause as good is sent at once
  DirectReuse, \* option reusedClauses (dontExportDirectReusedClauses)
  Alpha,       \* option alpha: some conflict calls alphaAdjustSolver
  GarbageNum, GarbageDen,  \* option -gc-frac, as a fraction
  MaxAlloc     \* bound on the clauses learnt and imported

ASSUME FractionAssumption ==
  GarbageNum \in Nat /\ GarbageDen \in Nat \ {0} /\ Alpha \in BOOLEAN /\ DirectReuse \in BOOLEAN

Vars == 1..MaxVar
Lits == Vars \cup {-v : v \in Vars}
Var(l) == IF l < 0 THEN -l ELSE l
Kinds == {"bin", "long", "unary"}   \* watchesBin, watches, unaryWatches
(* The lists of clauses; the last is for what is twice on permanentLearnts.*)
Lists == {"clauses", "learnts", "permanentLearnts", "unaryWatchedClauses",
          "permanentTwice"}

(* The elements of a set of numbers, smallest first.                       *)
Ascending(S) ==
  [i \in 1..Cardinality(S) |->
     CHOOSE x \in S : Cardinality({y \in S : y <= x}) = i]

VARIABLES
  formula,  \* the clauses the thread started with, as sets
  mem,      \* the region and all that refers to it, see Empty
  qhead, level,
  confl,    \* the clause that is false, 0 for none
  chanseok, \* coLBDBound under the Chanseok strategy, 0 without it
  adjusted, \* alphaAdjustSolver was called
  simplified, \* simpDB_assigns
  news,     \* there was a conflict since the last restart (lbdQueue)
  pc

vars == <<formula, mem, qhead, level, confl, chanseok, adjusted, simplified,
          news, pc>>

Empty ==
  [ca |-> <<>>,        \* the clauses of the region
   wasted |-> 0,       \* wasted_, in words
   watches |-> [k \in Kinds |-> [p \in Lits |-> {}]],
   dirty |-> [k \in Kinds |-> {}],
   lists |-> [l \in Lists |-> {}],
   trail |-> <<>>,     \* literals, with their level and reason (0: none)
   positive |-> {},    \* variables that were true when last unassigned
   last |-> 0,         \* lastLearntClause, 0 for none
   born |-> 0]         \* the clauses allocated so far

-----------------------------------------------------------------------------
(* The region.                                                             *)

Words(c) == 2 + Len(c.lits) + c.extra
Size(m) == FoldLeft(LAMBDA n, c : n + Words(c), 0, m.ca)

Clause(id, lits, learnt, imported, lbd) ==
  [id |-> id, lits |-> lits, learnt |-> learnt, lbd |-> lbd, removed |-> FALSE,
   extra |-> IF imported THEN 3 ELSE IF learnt THEN 1 ELSE 0,
   exported |-> IF imported THEN 1 ELSE 0,
   sent |-> 0,   \* history: how often it was sent to the others
   one |-> imported /\ Len(lits) > 2]

(* ClauseAllocator::free, which counts one extra word where there are three.*)
FreedWords(c) == 2 + Len(c.lits) + (IF c.extra > 0 THEN 1 ELSE 0)

Kind(c) == IF c.one THEN "unary" ELSE IF Len(c.lits) = 2 THEN "bin" ELSE "long"
WatchedBy(c) == IF c.one THEN {-c.lits[1]} ELSE {-c.lits[1], -c.lits[2]}

(* attachClause and attachClausePurgatory.                                 *)
Attached(m, cr) ==
  LET c == m.ca[cr] IN
  [m EXCEPT !.watches[Kind(c)] =
     [p \in Lits |-> IF p \in WatchedBy(c) THEN @[p] \cup {cr} ELSE @[p]]]

(* alloc, the push on a list, and the attachment.                          *)
Added(m, lits, learnt, imported, lbd, list) ==
  LET cr == Len(m.ca) + 1 IN
  Attached([m EXCEPT !.ca = Append(@, Clause(m.born + 1, lits, learnt, imported, lbd)),
                     !.born = @ + 1,
                     !.lists[list] = @ \cup {cr}], cr)

(* Faulty: the second literal of a binary clause is forgotten.             *)
LockedByFirst(m, cr) ==
  \E i \in DOMAIN m.trail :
    m.trail[i].reason = cr /\ m.trail[i].lit = m.ca[cr].lits[1]
(* locked: the clause is the reason of its first literal, or of one of two.*)
Locked(m, cr) ==
  LET c == m.ca[cr] IN
  \E i \in DOMAIN m.trail :
    /\ m.trail[i].reason = cr
    /\ m.trail[i].lit \in {c.lits[1]} \cup (IF Len(c.lits) = 2 THEN {c.lits[2]} ELSE {})

Forget(m, v) ==
  [m EXCEPT !.trail = [i \in DOMAIN @ |->
     IF Var(@[i].lit) = v THEN [@[i] EXCEPT !.reason = 0] ELSE @[i]]]

(* removeClause, with the lazy detachClause or detachClausePurgatory: the  *)
(* watchers stay until their list is cleaned.                              *)
Removed(m, cr, inPurgatory) ==
  LET c == m.ca[cr]
      kind == IF inPurgatory THEN "unary" ELSE IF Len(c.lits) = 2 THEN "bin" ELSE "long"
      ps == IF inPurgatory THEN {-c.lits[1]} ELSE {-c.lits[1], -c.lits[2]}
      kept == IF Locked(m, cr) THEN Forget(m, Var(c.lits[1])) ELSE m
  IN [kept EXCEPT !.dirty[kind] = @ \cup ps,
                  !.ca[cr].removed = TRUE,
                  !.wasted = @ + FreedWords(c)]

(* cleanAll of the three watcher lists.                                    *)
Cleaned(m) ==
  [m EXCEPT !.watches = [k \in Kinds |-> [p \in Lits |->
               IF p \in m.dirty[k] THEN {cr \in @[k][p] : ~m.ca[cr].removed}
                                   ELSE @[k][p]]],
            !.dirty = [k \in Kinds |-> {}]]

(* Faulty: the mark is not copied.                                         *)
RelocatedUnmarked(c) ==
  [c EXCEPT !.extra = IF c.extra > 1 THEN 3 ELSE IF c.learnt THEN 1 ELSE 0,
            !.one = c.learnt /\ @,
            !.removed = FALSE]
(* reloc: what the copy of a clause keeps.                                 *)
Relocated(c) ==
  [c EXCEPT !.extra = IF c.extra > 1 THEN 3 ELSE IF c.learnt THEN 1 ELSE 0,
            !.one = c.learnt /\ @,
            !.lbd = IF c.learnt THEN @ ELSE 0,
            !.exported = IF c.learnt THEN @ ELSE 0]

(* garbageCollect and relocAll: the clauses something refers to move, and  *)
(* what refers to them follows, except lastLearntClause.  A reason counts only if its clause moves  *)
(* for its watchers or is locked.                                          *)
Collected(m) ==
  LET w == Cleaned(m)
      watched == UNION {w.watches[k][p] : k \in Kinds, p \in Lits}
      reasons == {m.trail[i].reason : i \in DOMAIN m.trail} \ {0}
      kept == watched \cup {cr \in reasons : cr \in watched \/ Locked(m, cr)}
                      \cup UNION {m.lists[l] : l \in Lists}
      order == Ascending(kept)
      to == [cr \in 0..Len(m.ca) |->
               IF cr \in kept THEN Cardinality({x \in kept : x <= cr}) ELSE cr]
      moved(S) == {to[cr] : cr \in S}
  IN [ca |-> [i \in 1..Len(order) |-> Relocated(m.ca[order[i]])],
      wasted |-> 0,
      watches |-> [k \in Kinds |-> [p \in Lits |-> moved(w.watches[k][p])]],
      dirty |-> w.dirty,
      lists |-> [l \in Lists |-> moved(m.lists[l])],
      trail |-> [i \in DOMAIN m.trail |->
                   [m.trail[i] EXCEPT !.reason = to[@]]],
      positive |-> m.positive,
      last |-> m.last,
      born |-> m.born]

CheckGarbage(m) ==
  IF m.wasted * GarbageDen > Size(m) * GarbageNum THEN Collected(m) ELSE m

-----------------------------------------------------------------------------
(* Values, and propagation.                                                *)

Trues(m) == {m.trail[i].lit : i \in DOMAIN m.trail}
IsTrue(m, l) == l \in Trues(m)
IsFalse(m, l) == -l \in Trues(m)
Unassigned(m, l) == ~IsTrue(m, l) /\ ~IsFalse(m, l)
Level(m, l) ==
  m.trail[CHOOSE i \in DOMAIN m.trail : Var(m.trail[i].lit) = Var(l)].level

Enqueued(m, l, lvl, cr) ==
  [m EXCEPT !.trail = Append(@, [lit |-> l, level |-> lvl, reason |-> cr])]

Swapped(lits, i, j) == [lits EXCEPT ![i] = lits[j], ![j] = lits[i]]

(* Where a clause finds another literal to watch, from position k on.      *)
Others(m, lits, k) == {i \in k..Len(lits) : ~IsFalse(m, lits[i])}

(* The watcher of a clause goes from the list of p to that of another.     *)
Moved(m, kind, cr, p, lits) ==
  [m EXCEPT !.ca[cr].lits = lits,
            !.watches[kind] =
               [q \in Lits |-> IF q = p THEN @[q] \ {cr}
                               ELSE IF q = -lits[IF kind = "unary" THEN 1 ELSE 2]
                               THEN @[q] \cup {cr} ELSE @[q]]]

(* A visit on behalf of p gives s, a memory and a conflict, its next value.*)
VisitBin(s, cr, p) ==
  LET c == s.m.ca[cr].lits
      imp == IF c[1] = -p THEN c[2] ELSE c[1]
  IN CASE s.confl # 0 \/ IsTrue(s.m, imp) -> s
       [] IsFalse(s.m, imp) -> [s EXCEPT !.confl = cr]
       [] OTHER -> [s EXCEPT !.m = Enqueued(@, imp, level, cr)]

VisitLong(s, cr, p) ==
  LET old == s.m.ca[cr].lits
      c == IF old[1] = -p THEN Swapped(old, 1, 2) ELSE old
      others == Others(s.m, c, 3)
      turned == [s.m EXCEPT !.ca[cr].lits = c]
  IN CASE s.confl # 0 \/ IsTrue(s.m, c[1]) -> s
       [] s.confl = 0 /\ ~IsTrue(s.m, c[1]) /\ others # {} ->
            [s EXCEPT !.m = Moved(@, "long", cr, p, Swapped(c, 2, Min(others)))]
       [] s.confl = 0 /\ others = {} /\ IsFalse(s.m, c[1]) ->
            [m |-> turned, confl |-> cr]
       [] OTHER -> [s EXCEPT !.m = Enqueued(turned, c[1], level, cr)]

(* A clause of the purgatory that is false is promoted: it watches its two *)
(* literals of the highest levels from then on.                            *)
Promoted(m, cr) ==
  LET c == m.ca[cr].lits
      highest == CHOOSE k \in 2..Len(c) : \A i \in 2..Len(c) :
                   \/ Level(m, c[i]) < Level(m, c[k])
                   \/ Level(m, c[i]) = Level(m, c[k]) /\ k <= i
      detached == [m EXCEPT !.watches["unary"][-c[1]] = @ \ {cr}]
  IN Attached([detached EXCEPT !.ca[cr].lits = Swapped(c, 2, highest),
                               !.ca[cr].one = FALSE,
                               !.ca[cr].exported = 2], cr)

VisitUnary(s, cr, p) ==
  LET c == s.m.ca[cr].lits
      others == Others(s.m, c, 2)
  IN CASE s.confl # 0 -> s
       [] s.confl = 0 /\ others # {} ->
            [s EXCEPT !.m = Moved(@, "unary", cr, p, Swapped(c, 1, Min(others)))]
       [] OTHER -> [m |-> Promoted(s.m, cr), confl |-> cr]

(* propagate, for one literal: binary clauses, the others, the purgatory.  *)
Propagated(m, p) ==
  LET visit(s, kind, Op(_, _, _)) ==
        FoldLeft(LAMBDA t, cr : Op(t, cr, p), s, Ascending(s.m.watches[kind][p]))
      bin == visit([m |-> m, confl |-> 0], "bin", VisitBin)
      long == visit(bin, "long", VisitLong)
  IN visit(long, "unary", VisitUnary)

(* cancelUntil, with phase saving.                                         *)
UpTo(m, lvl) ==
  LET undone == {l \in Trues(m) : Level(m, l) > lvl} IN
  [m EXCEPT !.trail = SelectSeq(@, LAMBDA e : e.level <= lvl),
            !.positive = (@ \ {Var(l) : l \in undone}) \cup (undone \cap Vars)]

-----------------------------------------------------------------------------
Init ==
  /\ \E f \in Formulas :
       /\ formula = {ToSet(f[i]) : i \in DOMAIN f}
       /\ mem = FoldLeft(LAMBDA m, c : Added(m, c, FALSE, FALSE, 0, "clauses"),
                         Empty, f)
  /\ qhead = 0 /\ level = 0 /\ confl = 0 /\ simplified = 0
  /\ chanseok = 0 /\ adjusted = FALSE /\ news = FALSE
  /\ pc = "top"

Propagate ==
  /\ pc = "propagate" /\ confl = 0 /\ qhead < Len(mem.trail)
  /\ LET s == Propagated(Cleaned(mem), mem.trail[qhead + 1].lit) IN
     mem' = s.m /\ confl' = s.confl
  /\ qhead' = qhead + 1
  /\ UNCHANGED <<formula, level, chanseok, adjusted, simplified, news, pc>>

PropagationEnds ==
  /\ pc = "propagate" /\ confl = 0 /\ qhead = Len(mem.trail)
  /\ mem' = Cleaned(mem)
  /\ pc' = "decide"
  /\ UNCHANGED <<formula, qhead, level, confl, chanseok, adjusted, simplified,
                 news>>

-----------------------------------------------------------------------------
(* What is sent to the other threads.                                      *)

Sent(m, cr) == [m EXCEPT !.ca[cr].sent = @ + 1]

(* parallelExportClauseDuringSearch: a learnt clause good enough.          *)
ExportLearnt(m, cr) ==
  IF m.ca[cr].lbd <= LimitLBD THEN [Sent(m, cr) EXCEPT !.ca[cr].exported = 2]
                              ELSE m

(* Faulty: nobody asks where the clause is from.                           *)
ProbationOfAll(m, cr, after, enough) ==
  LET c == m.ca[cr]
      direct == DirectReuse /\ cr = m.last
      seen == [m EXCEPT !.ca[cr].exported = IF direct THEN 2 ELSE @ + 1]
  IN CASE ~c.learnt \/ c.exported = 2 \/ ~(direct \/ after) -> m
       [] c.learnt /\ c.exported = 1 /\ ~direct /\ after
            /\ (enough \/ c.lbd = 2) -> Sent(seen, cr)
       [] OTHER -> seen
(* parallelImportClauseDuringConflictAnalysis: a learnt clause is sent when*)
(* it was seen in two conflicts after the first ones (firstSharing) and is *)
(* good by goodlimitlbd and goodlimitsize.  A clause from another thread   *)
(* only passes the mark; one just learnt passes it at once by DirectReuse. *)
Probation(m, cr, after, enough) ==
  LET c == m.ca[cr]
      direct == DirectReuse /\ cr = m.last
      seen == [m EXCEPT !.ca[cr].exported = IF direct THEN 2 ELSE @ + 1]
  IN CASE ~c.learnt \/ c.exported = 2 \/ ~(direct \/ after) -> m
       [] c.learnt /\ c.exported = 1 /\ ~direct /\ after /\ c.extra # 3
            /\ (enough \/ c.lbd = 2) -> Sent(seen, cr)
       [] OTHER -> seen

-----------------------------------------------------------------------------
(* analyze.                                                                *)

Current(m, lits) == {l \in lits : Level(m, l) = level}
NbLevels(m, lits) == Cardinality({Level(m, l) : l \in lits})

(* Resolution back along the trail until one literal of the level is left; *)
(* the clauses it looks at.                                                *)
Analysis(m) ==
  LET false == {l \in ToSet(m.ca[confl].lits) : Level(m, l) > 0}
      resolve(s, e) ==
        IF -e.lit \in s.lits /\ Cardinality(Current(m, s.lits)) > 1
        THEN [lits |-> (s.lits \ {-e.lit}) \cup
                         {l \in ToSet(m.ca[e.reason].lits) \ {e.lit} : Level(m, l) > 0},
              seen |-> s.seen \cup {e.reason}]
        ELSE s
  IN FoldLeft(resolve, [lits |-> false, seen |-> {confl}], Reverse(m.trail))

(* The dynamic LBD of one of them; Chanseok keeps a good clause for ever.  *)
(* It stays on unaryWatchedClauses if it was there, and is put a second    *)
(* time on permanentLearnts if alphaAdjustSolver had moved it there.       *)
Improved(m, cr) ==
  LET c == m.ca[cr]
      n == NbLevels(m, ToSet(c.lits))
  IN CASE ~c.learnt \/ c.lbd <= 2 \/ n + 1 >= c.lbd -> m
       [] c.learnt /\ c.lbd > 2 /\ n + 1 < c.lbd /\ n <= chanseok ->
            [m EXCEPT !.ca[cr].learnt = FALSE,
                      !.lists["learnts"] = @ \ {cr},
                      !.lists["permanentLearnts"] = @ \cup {cr},
                      !.lists["permanentTwice"] =
                         @ \cup (m.lists["permanentLearnts"] \cap {cr})]
       [] OTHER -> [m EXCEPT !.ca[cr].lbd = n]

(* The clause analyze returns: the literal that will be asserted in front, *)
(* then one of the highest level among the others, the one to go back to.  *)
Asserting(m, lits) ==
  LET uip == CHOOSE l \in Current(m, lits) : TRUE
      rest == lits \ {uip}
      bt == Max({Level(m, l) : l \in rest} \cup {0})
      second == CHOOSE l \in rest : Level(m, l) = bt
  IN [lits |-> IF rest = {} THEN <<uip>>
               ELSE <<uip, second>> \o Ascending(rest \ {second}),
      btlevel |-> bt, lbd |-> NbLevels(m, lits)]

(* A conflict: the learnt clause is asserted after the backjump.           *)
Learn ==
  /\ confl # 0 /\ level > 0
  /\ LET a == Analysis(mem)
         onTrial == {cr \in a.seen : mem.ca[cr].learnt /\ mem.ca[cr].exported = 1}
     IN \E after \in BOOLEAN, good \in SUBSET onTrial :
     LET m == FoldLeft(LAMBDA n, cr : Improved(Probation(n, cr, after, cr \in good), cr),
                       mem, Ascending(a.seen))
         learnt == Asserting(mem, a.lits)
         uip == learnt.lits[1]
         bt == learnt.btlevel
         permanent == learnt.lbd <= chanseok
         back == UpTo(m, bt)
         added == Added(back, learnt.lits, ~permanent, FALSE,
                        IF permanent THEN 0 ELSE learnt.lbd,
                        IF permanent THEN "permanentLearnts" ELSE "learnts")
         cr == Len(added.ca)
     IN /\ Len(learnt.lits) > 1 => mem.born < MaxAlloc + Cardinality(formula)
        /\ mem' = IF Len(learnt.lits) = 1 THEN Enqueued(back, uip, 0, 0)
                  ELSE [Enqueued(ExportLearnt(added, cr), uip, bt, cr)
                          EXCEPT !.last = cr]
        /\ qhead' = Len(back.trail)
        /\ level' = bt
  /\ confl' = 0 /\ news' = TRUE
  /\ UNCHANGED <<formula, chanseok, adjusted, simplified, pc>>

(* The conflict at which alphaAdjustSolver comes is dropped.  It may turn  *)
(* the Chanseok strategy on, and then drop the clauses that are not kept.  *)
AlphaAdjust ==
  /\ Alpha /\ ~adjusted /\ confl # 0 /\ level > 0
  /\ adjusted' = TRUE
  /\ LET back == UpTo(mem, 0)
         good(bound) == {cr \in mem.lists["learnts"] : mem.ca[cr].lbd <= bound}
         kept(bound) == [back EXCEPT !.lists["permanentLearnts"] = @ \cup good(bound),
                                     !.lists["learnts"] = @ \ good(bound)]
         emptied(m) == [FoldSet(LAMBDA cr, n : Removed(n, cr, FALSE), m,
                                m.lists["learnts"]) EXCEPT !.lists["learnts"] = {}]
     IN /\ \/ mem' = back /\ chanseok' = chanseok
           \/ \E bound \in CoLBDBounds :
                /\ chanseok' = bound
                /\ mem' \in {kept(bound), CheckGarbage(emptied(kept(bound)))}
        /\ qhead' = Len(back.trail)
  /\ level' = 0 /\ confl' = 0 /\ pc' = "top" /\ news' = FALSE
  /\ UNCHANGED <<formula, simplified>>

-----------------------------------------------------------------------------
(* The head of search: clauses of other threads, that is, clauses that     *)
(* follow from the formula, in any order of their literals, each once.     *)
Models(cs) ==
  {a \in {pos \cup {-v : v \in Vars \ pos} : pos \in SUBSET Vars} :
     \A c \in cs : a \cap c # {}}
ModelsOf == [f \in {{ToSet(s[i]) : i \in DOMAIN s} : s \in Formulas} |-> Models(f)]

Import ==
  /\ pc = "top" /\ mem.born < MaxAlloc + Cardinality(formula)
  /\ \E lits \in Shared :
       /\ \A a \in ModelsOf[formula] : a \cap ToSet(lits) # {}
       /\ \A cr \in mem.lists["unaryWatchedClauses"] :
            ToSet(mem.ca[cr].lits) # ToSet(lits)
       /\ mem' = Added(mem, lits, TRUE, TRUE, Len(lits), "unaryWatchedClauses")
  /\ UNCHANGED <<formula, qhead, level, confl, chanseok, adjusted, simplified,
                 news, pc>>

StartSearch ==
  /\ pc = "top"
  /\ pc' = "propagate"
  /\ UNCHANGED <<formula, mem, qhead, level, confl, chanseok, adjusted,
                 simplified, news>>

Restart ==
  /\ pc = "decide" /\ news /\ news' = FALSE
  /\ mem' = UpTo(mem, 0)
  /\ qhead' = Len(mem'.trail) /\ level' = 0
  /\ pc' = "top"
  /\ UNCHANGED <<formula, confl, chanseok, adjusted, simplified>>

(* Faulty: what is removed by another list's turn is left where it is.     *)
RemoveSatisfiedOnce(m, list) ==
  LET satisfied == {cr \in m.lists[list] : ~m.ca[cr].removed /\
                      \E l \in ToSet(m.ca[cr].lits) : IsTrue(m, l)}
  IN [FoldLeft(LAMBDA n, cr : Removed(n, cr, n.ca[cr].one), m, Ascending(satisfied))
        EXCEPT !.lists[list] = @ \ satisfied]
(* removeSatisfied, on one list.                                           *)
RemoveSatisfied(m, list) ==
  LET satisfied == {cr \in m.lists[list] :
                      \E l \in ToSet(m.ca[cr].lits) : IsTrue(m, l)}
  IN [FoldLeft(LAMBDA n, cr : Removed(n, cr, n.ca[cr].one), m, Ascending(satisfied))
        EXCEPT !.lists[list] = @ \ satisfied]

Simplify ==
  /\ pc = "decide" /\ level = 0 /\ simplified # Len(mem.trail)
  /\ mem' = CheckGarbage(FoldLeft(RemoveSatisfied, mem,
              <<"learnts", "permanentLearnts", "permanentTwice",
                "unaryWatchedClauses", "clauses">>))
  /\ simplified' = Len(mem.trail)
  /\ pc' = "reduce"
  /\ UNCHANGED <<formula, qhead, level, confl, chanseok, adjusted, news>>

(* What reduceDB may remove from a list.  Which of them it does remove is  *)
(* decided by activities and by the sizes of the lists; none is no change. *)
Removable(list) ==
  {cr \in mem.lists[list] : mem.ca[cr].lbd > 2 /\ Len(mem.ca[cr].lits) > 2
                            /\ ~Locked(mem, cr)}

ReduceDB ==
  /\ pc \in {"decide", "reduce"} /\ mem.lists["learnts"] # {}
  /\ \E S \in SUBSET Removable("learnts"),
        T \in SUBSET Removable("unaryWatchedClauses") :
       /\ S \cup T # {}
       /\ LET m1 == FoldLeft(LAMBDA n, cr : Removed(n, cr, FALSE), mem, Ascending(S))
              m2 == FoldLeft(LAMBDA n, cr : Removed(n, cr, n.ca[cr].one), m1, Ascending(T))
          IN mem' = CheckGarbage(
                      [m2 EXCEPT !.lists["learnts"] = @ \ S,
                                 !.lists["unaryWatchedClauses"] = @ \ T])
  /\ pc' = "choose"
  /\ UNCHANGED <<formula, qhead, level, confl, chanseok, adjusted, simplified,
                 news>>

(* Any variable, negative at first and then as it was.                     *)
Decide ==
  /\ pc \in {"decide", "reduce", "choose"}
  /\ \E v \in {Var(l) : l \in UNION formula} :
       /\ Unassigned(mem, v)
       /\ mem' = [Enqueued(mem, IF v \in mem.positive THEN v ELSE -v, level + 1, 0)
                     EXCEPT !.last = 0]
  /\ level' = level + 1
  /\ pc' = "propagate"
  /\ UNCHANGED <<formula, qhead, confl, chanseok, adjusted, simplified, news>>

Next ==
  \/ StartSearch \/ Import \/ Propagate \/ PropagationEnds
  \/ Learn \/ AlphaAdjust \/ Restart \/ Simplify \/ ReduceDB \/ Decide

Spec == Init /\ [][Next]_vars

-----------------------------------------------------------------------------
CRefs == DOMAIN mem.ca

(* Every reference a run may follow leads to a clause, and a reason to one *)
(* that has implied the literal, even when it was removed since.  No       *)
(* clause was copied twice.  lastLearntClause, which is not relocated, is  *)
(* the clause learnt last whenever a conflict is analyzed.                 *)
ReferencesResolve ==
  /\ \A i, j \in CRefs : mem.ca[i].id = mem.ca[j].id => i = j
  /\ confl \in {0} \cup CRefs
  /\ confl # 0 /\ level > 0 /\ mem.last # 0 =>
       mem.last \in CRefs /\ mem.ca[mem.last].id = mem.born
  /\ \A k \in Kinds, p \in Lits : mem.watches[k][p] \subseteq CRefs
  /\ \A l \in Lists : mem.lists[l] \subseteq CRefs
  /\ \A i \in DOMAIN mem.trail :
       LET e == mem.trail[i] IN
       e.reason # 0 =>
         /\ e.reason \in CRefs
         /\ e.lit \in ToSet(mem.ca[e.reason].lits)
         /\ \A l \in ToSet(mem.ca[e.reason].lits) \ {e.lit} :
              \E j \in 1..(i - 1) : mem.trail[j].lit = -l

(* Watchers: a clause is in the lists of the literals it has in front, by  *)
(* its size and by whether it is in the purgatory, and in no other; one    *)
(* that was removed only in lists known to be dirty.                       *)
WatchersExact ==
  \A cr \in CRefs, k \in Kinds, p \in Lits :
    LET c == mem.ca[cr] IN
    IF c.removed THEN cr \in mem.watches[k][p] => p \in mem.dirty[k]
    ELSE cr \in mem.watches[k][p] <=> (k = Kind(c) /\ p \in WatchedBy(c))

(* Whoever follows a reference, or a watcher, finds the clause it means.   *)
ReferencesExact == ReferencesResolve /\ WatchersExact

(* What can be seen of a memory, whatever the places of the clauses.       *)
Ids(m, S) == {m.ca[cr].id : cr \in S}
View(m) ==
  [watches |-> [k \in Kinds |-> [p \in Lits |->
                  Ids(m, {cr \in m.watches[k][p] : ~m.ca[cr].removed})]],
   lists |-> [l \in Lists |-> Ids(m, m.lists[l])],
   trail |-> [i \in DOMAIN m.trail |->
                IF m.trail[i].reason = 0 THEN 0
                ELSE m.ca[m.trail[i].reason].id],
   lits |-> {<<m.ca[cr].id, m.ca[cr].lits>> :
               cr \in {x \in DOMAIN m.ca : ~m.ca[x].removed}}]

(* A collection at any time would change nothing that can be seen.         *)
CollectionIsInvisible == View(Collected(mem)) = View(mem)

(* Every clause that was not removed is on one list, once; the exceptions  *)
(* are clauses that Chanseok keeps: one from another thread stays on two,  *)
(* one that alphaAdjustSolver had moved is on permanentLearnts twice.  Of  *)
(* clauses that were removed only one from another thread is on a list.    *)
OnOneList ==
  \A cr \in CRefs :
    LET on == {l \in Lists : cr \in mem.lists[l]} IN
    IF mem.ca[cr].removed
    THEN on \subseteq {"permanentLearnts"} /\ (on # {} => mem.ca[cr].extra = 3)
    ELSE \/ Cardinality(on) = 1
         \/ /\ on = {"permanentLearnts", "unaryWatchedClauses"}
            /\ mem.ca[cr].extra = 3
         \/ /\ on = {"permanentLearnts", "permanentTwice"}
            /\ adjusted /\ ~mem.ca[cr].learnt

(* No clause is sent twice to the other threads, whether it was sent when  *)
(* it was learnt or after its probation, and none is sent back: promotion, *)
(* the Chanseok strategy and relocation keep the marks that say so.        *)
SharedOnce ==
  \A cr \in CRefs :
    mem.ca[cr].sent <= (IF mem.ca[cr].extra = 3 THEN 0 ELSE 1)

(* What the comment of removeClause asks for: no reason is a clause that   *)
(* was removed.                                                            *)
NoReasonRemoved ==
  \A i \in DOMAIN mem.trail :
    mem.trail[i].reason # 0 => ~mem.ca[mem.trail[i].reason].removed
=============================================================================
