# D-Syrup in TLA+

D-Syrup is a distributed SAT solver. A *manager* process and one *worker*
process per machine talk over MPI; a worker runs several *solver threads*, each
a CDCL solver derived from Glucose/Syrup, which share learnt clauses and units
in memory and, through the communication threads of their worker, with the
other workers. In the mode *concurrent* every thread works on the whole
formula; in the mode *Ampharos* the manager keeps a tree of subproblems and
gives each thread a leaf.

This directory holds TLA+ models of the parts of D-Syrup where order,
interleaving or a hidden invariant decides whether the answer is right, the
TLC configurations that check them on small instances, and theorems that TLAPS
proves for every instance. Paths below are relative to `src/`; `syrup/` stands
for `Solvers/SAT/GlucoseSyrup/syrup/`.

    tlc -config MCClauses.cfg MCClauses    # one run
    tlapm ClauseExchangeProofs.tla         # the proofs of one module

`PROJECT.json` lists the runs, the lines of code each definition stands for,
the hazards, and for every property a small change of the model (written in the
modules next to the definition it replaces, and called *Faulty* there) under
which TLC finds the property violated.

## 1. Inventory

### Components

| component | code | state | operations |
|---|---|---|---|
| Clause exchange between threads | `syrup/parallel/ClausesBuffer.*`, `SharedCompanion.cc` | a ring of words, two ends, a cursor per thread | push (local, remote), get, discard old records |
| Search of a thread | `syrup/core/Solver.cc`, `syrup/parallel/ParallelSolver.*`, the walk in `syrup/com/AmpharosManager.*` | clause lists, watches, trail, assumptions, decision variables | propagate, analyze, learn, backjump, restart, import, reduceDB, simplify, decide, refute, walk |
| End of the search of a worker | `ParallelSolver::solve_`, `SharedCompanion::solutionFound`, `setAllEndSearch`, `start` of `syrup/com/ComMPIFully.cc`, `ComMPIPartially.cc` | `endSearch` per thread, the winner | reset, end a phase or a subproblem, claim a solution, tell all, poll, join |
| End of a run | `Manager/Main/Manager.cc`, `Manager/ConcurrentManager`, `Manager/AmpharosManager`, `syrup/com/ComMPI*.cc`, `syrup/parallel/MultiSolvers.cc` | messages, verdict, counts of what is still in flight | report, stop, answer, announce, count, drain, print, kill |
| Tree of subproblems | `Manager/AmpharosManager/AmpharosManager.*`, `Tree.h`, `syrup/com/AmpharosManager.*` | the tree, its counters, the node of each thread | transmit a leaf, prune, extend, cut |
| Units between threads and workers | `SharedCompanion.cc`, `syrup/com/ComMPI*.cc` | a list with one cursor per thread, messages | send, receive |
| Collective exchange of clauses | `syrup/com/ComMPIPartially.cc` | buffers of a round | gather, distribute, end |
| Memory of clauses | `syrup/core/SolverTypes.h`, `syrup/mtl/Alloc.h`, `relocAll` and the lists of `Solver.cc` | a region of words, references into it, lists, watchers cleaned late | allocate, attach, detach, free, relocate |
| Order of decisions | `syrup/mtl/Heap.h`, `insertVarOrder`, `varBumpActivity`, `pickBranchLit` | a heap, activities | insert, remove, bump, rescale, pick, rebuild |
| Preprocessing | `syrup/simp/SimpSolver.*`, `MultiSolvers.cc` | occurrence lists, counts, queue, heap, `elimclauses` | load, subsume, strengthen, eliminate, extend a model |
| Encoding of clauses in messages | `syrup/com/ComEncoding.h` | none | encode, decode |
| Construction of solvers | `MultiSolvers.cc`, `SolverConfiguration.*` | the solvers of a worker | clone, configure |
| Set-up of a run | `Manager/Main/Main.cc`, `Parser.*`, `InfoSystem.*`, `Assignment.*` | options | parse, spawn, send options |
| Others | `syrup/mtl`, `syrup/utils`, `Barrier.h`, `ComSubsum.*`, `ComMPInoCom.*`, mains and scripts | | |

### How they interact

* Solver threads call `SharedCompanion` (shared memory, several mutexes): they
  push what they learn, and at decision level 0 pull the units and clauses of
  others. A communication thread per kind of message pushes what comes from the
  network into the same structures.
* The main thread of a worker polls `endSearch` of each thread and the messages
  of the manager; `endSearch` is the only link between the end of a run and the
  solver threads.
* The manager is one loop over messages. A thread in the mode Ampharos holds a
  conversation with it: message by message it walks down the tree while the
  manager does nothing else.
* Before the threads start, the first solver of a worker simplifies the formula;
  the others are copies of it, and the model of the winner goes back through
  the clauses that solver kept.
* A thread gives its final conflict to the manager, which cuts the tree. An
  empty tree is a verdict, as is a solution of a worker.

### What is hard

* *Interleavings.* `endSearch` is read and written by a thread, its winner and
  the main thread, check and write in two steps. Tree nodes are extended and cut
  while others work on them.
* *Ordering of messages.* `STOP_AND_KILL` races with a report of a solution, and
  with the cancelling of the receive that waits for it. Messages of the search
  are still in flight when it ends, and must be received before `MPI_Finalize`.
* *Everyone waits for everyone.* Three barriers at the manager and one round of
  collective communications.
* *Queues and counters at their limits.* The ring is reused at every position;
  a record leaves only when an exact counter is 0; an unsigned counter must not
  wrap.
* *References that go stale.* Clauses are named by their place in a region and
  move; watcher and occurrence lists are cleaned late; the indexes of the
  preprocessing are each repaired at a place of their own.
* *Invariants of the search.* Watches, reasons and levels have to survive
  deletions, imports at level 0, promotions out of the purgatory, assumptions,
  and a walk that decides without searching.

Nothing is persisted and a lost process is not replaced; there is no crash
recovery to model. What a run does when a process dies is said under section 7.

### What makes each part correct

* Exchange: no clause of a sibling is lost, imports are in order and never of
  one's own clauses, counters are exact, the FIFO drains.
* Search: what is learnt follows from the formula, whatever was assumed; answers
  are right; no propagation is missed; no clause in use is freed.
* Memory: a reference leads to the clause it meant, before and after a
  collection; a clause is on one list, and watched where it should be.
* Order: the heap has every variable that may have to be decided on.
* Preprocessing: it keeps the models, its indexes are exact, it ends, and no
  clause of the file is false in the model that is printed.
* Units: none is lost between workers, and every thread gets it.
* Collective rounds: workers are in the same call, a clause arrives once.
* End of a worker's search: nobody leaves without a reason, the winner stays
  the winner, everybody leaves.
* End of a run: one verdict, printed once by who gave it; nothing in flight at
  the end; everybody ends.
* Tree: no model is lost by pruning, cutting or extending; the counters that
  decide the verdict are exact; the manager follows no pointer to a node that
  was freed.

## 2. Modules

| module | models | size |
|---|---|---|
| `ClauseExchange` | what the exchange promises: a sequence of records with counters and cursors | abstract |
| `ClausesBuffer` | the ring, word by word; implements `ClauseExchange` | detailed |
| `SearchEnd` | every read and write of `endSearch` | detailed |
| `Verdict` | what the end of a run promises | abstract |
| `Shutdown` | the protocol of the end of a run; implements `Verdict` | detailed |
| `PharusTree` | the tree and the conversations about it | detailed |
| `Cdcl` | the search of one thread | detailed |
| `Elimination` | loading, preprocessing and extension of the model | detailed |
| `ClauseMemory` | references to clauses, lists and watchers through the life of a solver | detailed |
| `VarOrder` | the heap of variables and the activities | detailed |
| `Units` | units between threads and workers | detailed |
| `Collective` | rounds of `collectifClause` | detailed |
| `ClauseExchangeProofs`, `ClausesBufferProofs`, `WorkerProofs`, `ShutdownProofs`, `PharusTreeProofs`, `UnitsProofs`, `CdclProofs`, `EliminationProofs` | nothing more: the theorems about these modules (`WorkerProofs`: about `SearchEnd`, `Collective` and `VarOrder`) and their proofs (section 5) | |
| `MCClauses` | `ClauseExchange` and `Collective`, one or the other in a behaviour | instance |
| `MCWorker` | `SearchEnd` and `VarOrder`, in the same way | instance |
| `MCShutdown`, `MCPharusTree`, `MCCdcl`, `MCElimination`, `MCClauseMemory`, `MCUnits` | the other instances TLC checks | instance |

The modules meet at narrow interfaces, and each one leaves free what another
models. `SearchEnd` and `Shutdown` let a search find anything at any time;
`Shutdown` has one step for all the threads of a worker stopping, which is
`SearchEnd`; `PharusTree` lets a thread refute exactly what has no model, which
`Cdcl` checks for the final conflicts it gives (`VerdictIsRight`); `Elimination` lets
the search give any model that `Cdcl` may, values missing or not; `Cdcl` imports
whatever follows from the formula, which `Cdcl` itself checks of what it exports
(`LearningIsSound`). `Cdcl` starts where `Elimination` ends: with clauses of two
literals or more. `Cdcl` keeps clauses as values and chooses any variable;
`ClauseMemory` and `VarOrder` are the layers below, the places of clauses in memory and the
heap the variable comes from. `Shutdown` counts the units and clauses that are
in flight when the run ends; `Units` and `Collective` say what they are for.

### ClauseExchange and ClausesBuffer

A record of the FIFO is a clause, its origin and `nbSeen`, the number of imports
it still waits for. `ClauseExchange` keeps every record ever accepted in `log`;
the first `base` have left. `cur[t]` is the record the cursor of thread `t`
stands on, `got[t]` a history of its imports. `Push` is `pushClause` and
`pushClauseHightLevel` when they accept; a refused push changes nothing.
`ImportNone` and `ImportNext` are `getClause`. With `-removeolder` a push makes
records leave first.

`ClausesBuffer` has the words: `elems`, `first`, `last`, `queuesize`,
`lastOfThread` as in the class, arithmetic modulo the size of the ring, the loop
of `removeLastClause` and the moving of the cursors. A call is one step, since
all calls hold `mutexSharedClauseCompanion`. Literals are the number of their
clause, so that a word read at a wrong place is seen. `Exchange` maps the ring
to the records and `ImplementsExchange` checks it. `Trail` and `Words` are the
places and the count of words that the loop of `removeLastClause` goes through,
`Drop` the removals by which a push makes room.

### SearchEnd

One step per read or write of `endSearch`: a thread starts a pass of the loop
in `solve_`, resets its word, asks for a subproblem, searches, sees the word,
claims its solution, tells the others, dispatches on the word (read once more
for each branch) and leaves or continues. The main thread polls the words one
after the other. The two branches *probleme* of `solve_`, which call `exit(0)`,
are the places `problem531` and `problem552`.

### Verdict and Shutdown

A worker is a record with a program counter for its main thread and one for its
communication thread; messages to and from the manager are a queue per worker
and direction, the messages of the search are counts of what is in flight. MPI keeps
the order between two processes, which the queues do; nothing orders different
senders. `mode` chooses `ComMPIFully` or `ComMPIPartially`, and which manager.
The MPI standard lets a cancelled receive succeed instead of being cancelled, and the worker
never looks at which of the two happened (`ComMPIFully.cc:52`, `ComMPIPartially.cc:65`): so `CancelManager` and
`CancelUnit` have two outcomes, and the history `lost` says what a worker received without knowing. A worker that lost its
order to stop takes the answer to its report for it, and waits for ever for another. `Verdict` has only what a user
sees.

### PharusTree

`tree` is a function from paths to nodes; a path is a sequence of sides, left
the positive literal. `at[t]` is the node the manager has for a thread: `Null`, a path, or `Freed` once
that node was deleted behind the pointer. Cutting a node clears the pointers of the threads on its list; a thread that asks
for another subproblem leaves the list and keeps the pointer (`FromRoot`), so that a cut before it gets
the next node, its own walk's by `DELETE_FATHER` too, frees what it points to. Its next transmission uses
that node (`AmpharosManager.cc:162-163`), which may do anything: the process is followed no further (fate `freed`). The
manager is in one conversation at a time, so that a walk interleaves with
searches only, which do not touch the tree; `walker` and `place` are that
conversation. The formula is its set of models, every set of which is tried:
a search refutes only what has no model, and may choose any prefix of its
assumptions for which that is so.

### Cdcl

A literal is a signed integer, a clause a set of literals with the list it is
on and the literals it watches: two, or one in the purgatory
(`unaryWatchedClauses`, where imported clauses start). Propagation takes the
trail in order and visits the clauses that watch a falsified literal, binary
clauses first, then those with two watches, then the purgatory, in any order
within each. `Learnt` is `analyze` with its two minimizations, `FinalConflict`
is `analyzeFinal`. Restarts, deletions by `reduceDB`, `simplify` and imports
come whenever the code's conditions on levels allow it; which variable is
decided and with which polarity is free, which covers the configurations of
`SolverConfiguration` as far as they order decisions, restarts and deletions. In the mode Ampharos, subproblems are decided
one assumption per level after a walk (`WalkDecide`, `WalkConflict`) has
propagated, without a search, what lies above the leaf.

### Elimination

A clause is a set of literals, a reference its rank of allocation. The record
`db` has the clauses, `occurs`, `n_occ`, `touched`, the subsumption queue,
`elim_heap` and `eliminated`, each updated where the code updates it: a list that
has lost a clause stays dirty until it is looked up. `pc` is the procedure that runs: `Load` is
`addClause_` of `MultiSolvers`, `Gather` is `gatherTouchedClauses`, the actions from
`TakeAssignment` to `SubsumeDone` are `backwardSubsumptionCheck`, `TakeVar` to
`HeapEmpty` the loop of `eliminate` with `asymmVar` and `eliminateVar`, `Solve` the
search and `Extend` is `extendModel`. `Solve` gives any model of what is left (`Solutions`), without the values of any variables that
`alphaAdjustSolver` may have taken out of the decisions: those that have no value at level 0 and whose clauses
are all satisfied there (`Undecided`). So `extendModel` may meet a stored clause with a literal that has no value, and skips it.
`Propagate` is one clause becoming unit; while one is left no other action is enabled (`Settled`),
as in the code nothing happens inside `propagate`. The heap's choice of the
next variable is the one of `ElimLt`. Two facts the model shows: no
resolvent is ever a unit or empty, and no literal that is enqueued is false, because clauses
are closed under backward subsumption when a variable is eliminated; and `asymmVar`
walks along a list from which a clause it strengthens to nothing disappears, so
that the next one is skipped.

### ClauseMemory

The region is a sequence of clauses in the order of allocation, `wasted` counts
the words of those removed, as the code does (two words too few for a clause
that was imported). Watchers are sets of references for each literal and kind;
`dirty` lists may have removed clauses. `Collected` is `garbageCollect`: every list is
cleaned and every reference relocated in the order of `relocAll`, a clause at its first visit;
`CheckGarbage` decides by the fraction of words. `Learn`, `Import`, promotion inside
`Propagate`, `ReduceDB`, `Simplify`, `AlphaAdjust` and `Restart` do to the memory
what the search does. Literals of a clause are ordered, since the first two are
watched and `locked` looks at the first. `ExportLearnt` and `Probation` are the two
ways a learnt clause goes to the other threads; `sent` counts them. `chanseok` is
`coLBDBound` while the Chanseok strategy is on, and `permanentTwice` the clauses that are
on `permanentLearnts` a second time.

### VarOrder

`order` is the heap with the place of each variable, as in `Heap.h`, with
`PercolateUp` and `PercolateDown` as recursive functions of `Up` and `Down`, one step of the loops; a variable
takes at most as many as the heap is long, and steps after the last change nothing. Activities are small integers: `Huge`
stands for 1e100, and scaling rounds down, so that, as for doubles that vanish, different activities become equal.
`Propagate`, `Assume`, `DecideRandomly` assign variables that stay in the heap;
`Decide` takes them out; `Backjump` and `Restart` put them back; `Conflict` and `Bump` raise activities.

### Units

`unitLit`, `isUnary` (the variables on it) and the cursor of each thread are one
list per worker; `holder` is the thread that sends with the mutex held. A message is sent
to one worker at a time, in the order of the loops of `sendUL`, and waits
when `Room` messages are under way. `Listen` receives and adds in two steps.

### Collective

`calls` is the number of collective operations a worker has entered, modulo 3,
`given` what it gave to the last two: a worker leaves an operation when all have
entered it. `ends`, `sizes` and `blocks` are the three operations of a round. The threads of
a worker add to `toSend` at any time; the round copies it, empties it and sends
the copy. `PastEnds` is what the code reads one place behind `allPos`.

## 3. Runs

| run | question | bounds | distinct states |
|---|---|---|---|
| `MCClauses` | does the FIFO of a worker keep what it promises, and drain? Are the calls of a round between workers matched, and do clauses arrive once? | FIFO: 3 threads, 1 other worker, 4 clauses, no `-removeolder`; rounds: 3 workers, 2 clauses of the first and 1 of each other, 2 of them may find a solution | 212 525 |
| `ClausesBuffer` | does the ring implement the FIFO, at every position, with records that are discarded? | 2 threads, 1 worker, 16 words, records of 5 and 6 words, 5 clauses, `-removeolder` | 762 661 |
| `MCWorker` | who leaves a search, why, and does everybody leave? Is the heap a heap of all that is needed? | search: 2 threads, Ampharos, a manager that may stop them; heap: 4 variables, 3 bumps, one of assumption and propagation at a time | 2 217 846 |
| `Shutdown` | does the run end with one verdict, nothing in flight, and nobody waiting but for what `MPI_Cancel` lost? | 2 workers, one unit and one clause each, two combinations of manager and communication | 549 937 |
| `PharusTree` | does the tree keep every model, whatever is refuted, in any order? | 3 threads, 2 variables, every formula over them, depth 2 | 823 710 |
| `Cdcl` | are the answers right, whatever is decided, forgotten, imported and assumed? | 4 formulas of 3 to 5 variables, 2 conflicts, 1 import, subproblems of 2 literals | 1 275 957 |
| `Elimination` | are models kept, indexes exact, and is the answer a model of the file? | all 4 845 files of 4 clauses of 2 or 3 literals over 3 variables, and 9 larger ones; with and without `-asymm`; `-cl-lim 2` | 785 779 |
| `ClauseMemory` | does every reference survive deletions, promotions and collections, and is a clause sent once? | 5 formulas over 4 variables, 2 clauses learnt or imported, both strategies | 364 257 |
| `Units` | does a unit reach everybody? | 2 workers with 2 and 1 threads, 2 variables, one message under way | 297 506 |
| `ClauseExchangeMissed` | see section 6 | as the FIFO of `MCClauses` | violated |
| `SearchEndLost` | see section 6 | as the search of `MCWorker` | violated |
| `PharusTreeNoNode` | see section 6 | as `PharusTree` | violated |

`MCClauses` and `MCWorker` each check two modules that share nothing: a behaviour is one of the first or one of the
second, chosen in the initial state, while the variables of the other keep their initial values. The states are the
sum of those of the two, not their product. `ThreadsGoOn`, `RoundsGoOn` and `SearchStops` are
`ExchangeGoesOn`, `EveryRoundEnds` and `StopsUnlessLost` of those modules, for the behaviours of theirs.

Why the bounds are enough for the cases that matter:

* FIFO (`ClauseExchange`): with three threads an importer, an origin and a third thread
  that lags behind are three different ones, and counters start at 2. Four clauses let
  a record whose counter is 0 wait in the middle behind one that is still due.
* `ClausesBuffer`: 16 words hold two or three records, so that the third to
  fifth wrap at different positions; with two sizes a new record may need one or
  more old ones discarded. A real ring has 100 000 words a thread and works the same
  way: no operation looks at more than the distance between two positions.
* Search (`SearchEnd`): two threads race for the solution while the main thread stops
  both; a third would be a second loser. With the manager there are three
  writers of a word.
* `Shutdown`: two workers are the winner and the other. One message of each
  kind is in flight or is not, and each may be what a cancelled receive takes. Each worker's threads are one process, because
  how they end is `SearchEnd`. `ComMPIFully` with `ConcurrentManager` does what
  `AmpharosManager` does when the tree gives no verdict, and is left out of the
  passing run.
* `PharusTree`: three threads may be one at a node, one below it and one that
  cuts it from elsewhere. With two variables and depth 2 a path may repeat a
  variable or not. A third thread is needed for a node that is not found (section 6). `Symmetry` exchanges threads, and variables; no operator
  chooses among them by name, and the run has no liveness property.
* `Cdcl`: `Ternary` teaches a clause of literals of three levels, for which the
  order of the watches matters; `Hidden` has an implied clause that leaves the
  purgatory when it is in conflict; `Split` an implied clause that the walk does not see, so that
  a subproblem is refuted by a real final conflict; `NoModel` is answered UNSAT.
  Two conflicts are enough for a learnt clause to be used, deleted, or imported
  again. A subproblem of two literals has a first and a later assumption. TLC
  tries every order of propagation, every decision and every restart.

* `Elimination`: three variables are the pivot of a resolution and two others, four clauses
  give each sign of the pivot two. The larger files have what four clauses
  cannot: units among the clauses, six clauses with the pivot (more resolvents than `-grow`
  allows), resolvents longer than `-cl-lim`, and a contradiction that
  elimination does not find.
* `ClauseMemory`: a collection needs two fifths of the words wasted (the code: one fifth
  of many more). The formulas make an implied clause of another thread leave the purgatory,
  a learnt unit satisfy clauses that are reasons, clauses of three levels be learnt and be
  false at one level later, and a learnt clause be used by two conflicts more;
  with the two strategies and `alphaAdjustSolver` every list is moved to and from.
* `Units`: three threads on two workers are two that share a list and one that does not; with
  one message under way a send may wait.
* Rounds (`Collective`): the first, an inner and the last rank, of which the code treats the last
  differently. The first worker has two clauses, so that one may come while a round carries the other: it does
  not overtake it. Workers are at most one call apart, so calls are told
  apart modulo 3.
* Heap (`VarOrder`): four variables are three levels of the heap; `Huge` is reached
  after two bumps.

`MaxBumps`, `MaxAlloc`, `MaxImplied`, `MaxAssumed`, `MaxPush`, `MaxULs`, `MaxClauses`, `MaxDepth`, `MaxConflicts`, `MaxImports` and
`MaxCube` are bounds of the models, not of the code. `AlphaAt` is the conflict at which
`alphaAdjustSolver` comes, 100 000 in the code (`Solver.cc:1526`).

Deadlock is checked in `ClausesBuffer`, which never stops, and in `Elimination`, whose `Finished` stutters. In the
others a behaviour may end: a run is over, or a bound is reached.

A property that is a conjunction (`RingIsSound`, `TreeIsSound`, `LearningIsSound`,
`ReferencesExact`, `IndexesExact`, `OrderIsSound`, `ThreadsGoOn`, `AllSentIsReceived`,
`EverybodyEnds`) has its parts, the type invariant among them, as named
definitions. `SearchEnd`, `Shutdown`, `Units` and `Collective` also define a `TypeOK`
(`CollectiveTypeOK`) which is in no run; it holds when it is added.

What each property says, and which code it is about, is written above it.

## 4. Fairness

* `ClauseExchange`, `ClausesBuffer`: `WF` of the imports of each thread. A thread
  imports at every restart for as long as it searches
  (`parallelImportClauses`). Pushes are not fair. In `MCClauses` and `MCWorker` the fairness of a module
  is that of its behaviours.
* `SearchEnd`: `WF` of each thread and of the main thread. They are threads of the
  operating system, or poll. What a search finds (`Find`) and whether the
  manager stops the worker are not fair: a search may be long.
* `Shutdown`: `WF` of the main thread and the communication thread of each
  worker, of the manager, and of the collective operation. MPI delivers what was sent, and
  each of these loops tests for messages without blocking others. Searches and
  exports are not fair, nor is a cancelled receive bound to be cancelled.
* `Elimination`: one thread which runs one procedure after the other and waits for
  nobody: it goes on until the answer.
* `Units`: `WF` of each thread's return to level 0 (every restart), of the sending
  thread, and of the listener of each worker. Each variable is sent at
  most once by a worker to another, so that a mutex that is free again and again is
  not needed more often than weak fairness gives it. Learning is not fair.
* `Collective`: `WF` of the thread of each worker that runs the rounds. Nobody has to find
  a solution or to send a clause.
* `PharusTree`, `Cdcl`, `ClauseMemory` and `VarOrder` have safety properties only. Termination of a search
  rests on restart and deletion policies which are abstracted to choices;
  `LearntIsNew` (in `LearningIsSound`) is the part of the argument that the models can check.

## 5. Proofs

A run checks a small instance; the theorems below hold for every value of the constants
that satisfies the `ASSUME`s of the module, which TLC evaluates in the module's run. In the table, "for"
is the property of a run that the theorem states; where there is none the theorem says more than a run checks.

| module | theorem | for | for any |
|---|---|---|---|
| `ClauseExchangeProofs` | `TypeCorrect`, `CountersAreExact`, `HeadIsAlwaysAwaited`, `LocalClausesAreNotLost`, `RemoteClausesMissOneThread` | `TypeOK`, `CounterExact`, `HeadIsAwaited`, `NoLocalClauseLost`, none | threads (at least two), other workers, bound, `-removeolder` or not |
| | `ImportsAreInOrder` | the action property `ImportsInOrder` | |
| `ClausesBufferProofs` | `RingIsSoundHolds` | `RingIsSound` | size of the ring, sizes of clauses that fit in it, threads (at least two), workers, bound, `-removeolder` or not |
| | `ImplementsExchangeHolds` | the refinement `ImplementsExchange` | the same |
| `WorkerProofs` | `LeavesForAReasonHolds`, `WinnerIsDoneHolds`, `TypeCorrect` | `LeavesForAReason`, `WinnerIsDone`, none | number of threads, with or without subproblems, alone or with a manager |
| `ShutdownProofs` | `NoMixedMessagesHolds`, `AllSentIsReceivedHolds`, `ManagerOutlivesWorkersHolds`, `TypeCorrect` | `NoMixedMessages`, `AllSentIsReceived`, `ManagerOutlivesWorkers`, none | workers, bound on the exports, combination of manager and communication |
| | `ImplementsVerdictHolds` | the refinement `ImplementsVerdict` | the same |
| `PharusTreeProofs` | `NoModelLostHolds`, `TreeIsSoundHolds`, `NodeToCutIsFoundHolds`, `VerdictIsRight` | `NoModelLost`, `TreeIsSound`, `NodeToCutIsFound`, none | formula, number of variables and of threads, depth |
| `UnitsProofs` | `NoUnitLostHolds`, `TypeCorrect`, `LevelZeroIsSound`, `FixedIsSharedHolds` | `NoUnitLost`, none, none, none | number of workers, of threads of each, of variables, formula, room for messages |
| `WorkerProofs` | `CallsMatchHolds`, `ClausesArriveOnceHolds` | `CallsMatch`, `ClausesArriveOnce` | number of workers, sizes of clauses, bound, words behind the array |
| | `OrderIsAlwaysSound` | `OrderIsSound` | number of variables, eliminated ones, `Huge`, growth of the activities, bounds |
| | `TheBestIsAlwaysPicked` | the action property `BestIsPicked` | the same |
| `CdclProofs` | `LearningIsAlwaysSound`, `ReasonsAlwaysHold`, `NoUnitIsEverMissed`, `VerdictIsAlwaysRight` | `LearningIsSound`, `ReasonsHold`, `NoUnitMissed`, `VerdictIsRight` | variables, formulas without units and tautologies, clauses of others, bounds, with or without subproblems |
| `EliminationProofs` | `IndexesStayExact` | `IndexesExact` | variables, formula (units, repeated and trivial clauses, empty ones among them), options, `-grow` and `-cl-lim` |
| | `ModelsAreKept`, `ModelIsOfTheFile` | `SameModels`, `ModelOfTheFile` | the same, without `-rcheck`, with which `SameModels` does not hold (section 6) |

Every proof has the same shape: an inductive invariant `IInv` (`InStep` for `Collective`, `OrderInv` for `VarOrder`, `Types` and `Meaning` for
`Elimination`), one lemma per action that it is kept, `Spec => []IInv` by temporal logic, and the property
from `IInv`. Most were checked by TLC on the run's instance, or a smaller one, before they
were proved. What each adds to its properties, and why:

**ClauseExchange.** `IInv` is the conjunction of `TypeOK`, `CounterExact`,
`HeadIsAwaited`, `NoLocalClauseLost` and two facts about the history, that what
a thread has imported lies behind its cursor and is foreign to it. None of the
main conjuncts is inductive alone. `CounterExact` counts the threads that wait
for a record, and a thread that is moved on by a removal stops waiting without
decrementing anything: that is only right because the records removed are
awaited by nobody, or, for a clause from the network, by the one thread its
counter does not count. `HeadIsAwaited` gives the reason: a record whose counter
is 0 at the head leaves in the step that made it 0, so that no counter is decremented
at 0. `NoLocalClauseLost` follows from the exactness of the counters of the
records that leave. `CountsExactAfterRead` is the moment between the
decrement and the removal. `ImportsAreInOrder` is an action property from the same invariant;
`RemoteClausesMissOneThread` says of every instance what the run `ClauseExchangeMissed` shows on one, that exactly one thread misses each
clause from the network that has left (`RemoteClauseMissedByOne`). It needs its own strengthening, which follows the thread that a
removed record has not been imported by. The assumption that there is more than one
thread is what `pushClauseHightLevel` asserts.

**ClausesBuffer.** Positions are compared by their distance, the number of words from one to the
other the way `last` and `first` go; everything modulo the size of the ring is in a dozen lemmas about
distances. `Laid` says of the positions before the records that each record ends where the
next one begins and that they do not come round to the first of them again; so no two records share
a word (`Apart`), and the words a push writes belong to none (`Untouched`). `View` is the four variables that
`removeLastClause` works on, as a function of how many records have left and of the
record each cursor stands on; `RemoveFacts` says that it takes a view to the view of
fewer records. `IInv` is that the ring is laid out, that each live record holds its
origin and its literals (`Stored`), and that the variables are a view. It is stronger than
`RingIsSound` in `Stored`, without which a thread could not tell its own records, and in the way cursors and
records share one numbering. Room is found because an empty ring takes any clause that fits, which is
`SizeAssumption`: a ring has 100000 words per thread. `ImplementsExchangeHolds` takes the counters from the
words of the live records and the cursors from the view. With it, what `ClauseExchangeProofs` proves of the records
holds of the words.

**SearchEnd.** The two properties say who may have left; they are kept only if
the order to leave is nowhere without a reason: not in a word, not in the
hands of a thread that is telling the others or of the main thread
(`OrdersHaveAReason`). And only the first thread with a solution tells others, and
its word says so only after it has left (`OneWinner`).

**Shutdown.** `IInv` says for each worker what its two channels hold, as a
function of where it and the manager are (`ToManager`, `ToWorker`), and that the counters of the manager
are the cardinalities of the sets of workers it has heard (`ManagerCounts`). The number
a worker is told to expect is a sum over the others, which is stated as the cardinality of
the set of their exports (`Exports`), so that nothing recursive is proved; `ArrivesOnce` bounds what
has arrived and is in flight by the same set, and the two are equal when all have announced.
In `ToWorker` the order to stop that is owed to a worker may also be one that a cancelled receive has taken (`lost`). After it the
worker takes its answer for that order and waits for ever: `NoMixedMessages` allows this
one confusion, of a worker whose order was lost, and says that no other message is ever taken for one it is not, no count
for an answer nor an answer for a count, and that a cancelled unit confuses nobody. `ImplementsVerdictHolds` shows that every step, of all
combinations of the options, is a step of `Verdict` or none, under the mapping the run checks.

**PharusTree.** `Shaped`: with a node the tree has those above it, a leaf has nothing
below it, and an inner node has a child, unless the root was cut. `Counted` and `Staffed` are the exact
counters, `Listed` and `Working` the two directions between the lists of a node and the pointers of the
manager: who is on a list is pointed to that node, and who *works* on a node that was not cut is on its list. Who works has
no freed pointer, which is why the answer of a thread never meets one; a thread that asks may (`Pointing`), and `FromRoot` is the
only place where it is followed. `Walking`: who walks is on no list and stands on an inner
node with a child, which is why a child is always found and why `Cut` never meets a thread without a node (the fate
"bug" is not reachable). `Covered` is `NoModelLost`. That cutting keeps the shape is the
lemma about `Pruning`: the node cut has a brother or is the root. That it keeps the models is that no leaf below
the node cut has one, which a refutation and the two cases of a walk give. For
`NodeToCutIsFound`, the node found for a final conflict is on the path of the thread and at least as deep
as the one whose variable was refuted; either the path goes on to its child, or
the way down to the thread's node has that very variable twice (`NodeToCutFacts`). The steps are proved for a tree `T` with the
threads at `A`, in terms of paths as sequences. `NamesAssumption` keeps the model values
apart: `End` is no variable, and `Null` is neither a thread nor a path.

**Units.** The lists hold units of the formula only (`UnitsFollow`), no variable twice
(`ListedOnce`); what a thread has fixed is on its worker's list (`FixedIsListed`) and the other way round up to its cursor
(`PassedIsFixed`). `NoUnitLost` needs `SentByOne`: a unit on its way is on the list of some worker, so that
one that comes to a further worker is known to, or on its way to, all the others. `LevelZeroIsSound` says that no
thread fixes a variable both ways, although units of both signs may be learnt at the same
time; the second one to come is dropped.

**Collective.** The invariant names a call that all have entered and nobody is more than one
ahead of; what a worker does after it depends on the values gathered in it, which are the same for
all because nobody overwrites a value that a worker may still gather. To it belongs where the clauses of each worker are
meanwhile. Of those it has sent, another worker has imported all but those in its buffer (`Delivered`), or all but
those in its copy and its buffer (`OnTheirWay`); which of the two depends on the call and on where the two
workers stand. After the call that shares sizes, the values are the words of the copies, so the positions in `allPos` are those of
the copies too, and a block that is read up to the start of the next one is read whole
(`ReadWhole`). If no worker has anything to share, the copies are empty, and the next
round may overwrite them. The clauses of the last worker are left out, as in the property (section 6).
TLC checks the invariant on all states of the run.

**VarOrder.** The lemmas say what each operation of `Heap.h` makes of a heap. A heap is `Sound` when its indices are those of its places, and
`OrderedFrom` a place when nothing below it is more active than what is above; `IsHeap` is both from the root. While a variable moves up
everything else is ordered, and what is below it is not more active than what is above it (`ButUp`); `ButDown` is the same for one that moves
down. A step keeps this, and either nothing is left to do or the variable is nearer to the root (the end), which bounds the steps
(`PercolateUpFacts`, `PercolateDownFacts`). `BuildFacts` lowers the place from which all is ordered one by one. `RootIsMostActive` goes up from
any place to the root. `OrderInv` is `IsHeap`, that nobody is forgotten, the types, and `LevelsInOrder`: the levels are parts of the
trail, so that what `cancelUntil` puts back is all that it takes off. For a bump it is needed that scaling keeps the order: `GrownFacts` leaves
only the bumped variable out of place, and `OrderIsKept` says that this is so after the scaling, which makes different activities
equal but never swaps two. `TheBestIsAlwaysPicked` is `RootIsMostActive` with `NobodyForgotten`: what may be decided on is in the heap, hence
not more active than the root.

**Cdcl.** `IInv` is stated of a trail, the clauses and so on as parameters, so that one lemma says of
the trail after a backjump, an assignment or a new level, and of the clauses after one moved its
watches, was added or was removed, how each part survives, whatever the action. Its parts, and why each is needed:

* `TrailOK`: no variable is assigned twice, levels only grow along the trail, and an assignment without
  a reason opens its level. Without the last, resolution might meet a decision before one literal of
  the level is left.
* `ReasonsOK`: a reason is a clause that is there, its other literals were false before, and one of them at the same
  level. The last is what makes every resolution step of `analyze` end in the current level, and it does
  *not* hold while a thread walks down the tree: a clause that the walk finds with all its literals but one false on earlier
  levels propagates on a later one. So it is required outside the walk only, which suffices because
  conflicts in the walk are not analyzed, and the walk ends in a restart.
* `EntailedBy`: clauses and the assignments of level 0 follow from the formula. The resolvents of `FirstUIP` are followed
  one by one (`ResolvedIsNoGood`): each follows from the formula, is false, and keeps a literal of the current level. That
  minimization is sound is an induction along the trail: a literal is redundant if the others of its reason are.
* `WatchesOK`, behind `NoUnitMissed`: when a literal that a clause watches was made false by the assignment at `p` and that was
  propagated, a literal of the clause is true at a level not above that of `p`. The level is what
  a later backjump needs: it must not take back the true literal alone. `SecondWatch` and
  `PromotedWatches` establish it for learnt clauses. There are
  three exceptions, each from the code: clauses in the purgatory, which watch one literal; clauses
  that were attached without a look at their literals (`DullAt`); and one assignment of level 0, `s`, which was enqueued by
  the conflict that ends the initialization of Ampharos and whose propagation `restart` skips (`SkipOK`). In
  the walk only what level 0 owes is kept.
* `CubeOK`: outside the walk the first levels are those of the assumptions, which makes a final conflict a clause over
  assumptions.
* `FormulaOK`: a clause of the formula is still among the clauses and its variables may be decided on, or it is
  satisfied at level 0. It is what an answer SAT rests on after `simplify` and `alphaAdjustSolver` have
  removed clauses and variables.

`VerdictIsRight` is itself part of `IInv`; the other three properties follow from it.

**Elimination.** `Types` is the half of the invariant about the database, and inductive alone. Occurrence lists are exact but for
variables that are `dirty`, whose lists may also have clauses that were removed, and none that was not; counters are cardinalities of sets of
clauses, so each removal and each strengthening has to change exactly those of the literals concerned. For that a clause has
two literals or more and is no tautology: a strengthened clause of one literal becomes an
assignment, and a resolvent is merged only if it is no tautology. `Types` also says what a procedure
keeps across its steps: a pair of clauses still to be resolved is one of live clauses of the variable, although each resolvent that is
added may propagate.

`Meaning` is the half about models, `File` being the clauses loaded so far:

* `Implied`: a model of the file is one of the clauses left and has the assignments made. Each step is shown to take away no
  model: what subsumption removes is implied by what stays, a strengthened clause by two, a resolvent by two.
* `Chain`: the converse, through the eliminated variables. A model of the clauses left *over the variables left*
  (`Remaining`) becomes one in which no clause of the file is false (`Unfalsified`) when the stored clauses are applied to it, the last one
  first (`Extends`). The sets of literals it speaks of are `Loose`: at least one literal of each variable, and both where the search left the variable
  without a value. A stored clause with such a literal counts as satisfied and is skipped, as by `extendModel`, so that a partial model
  goes the way of a total one. `Extends` says it of a chain of sets of assignments, one for each stored clause, so that
  no recursion is needed: what a variable adds is put at the end of the chain (`ExtendsJoin`), and
  `extendModel` takes it off (`ExtendsByLast`).
* `Resolving` and `InBlock`: in the middle of an elimination the clauses of the variable are stored (`Block`) and still there. Each pair of them is still
  to be visited, or its resolvent is a tautology, satisfied, or contains a clause that is there (`Covered`). Resolvents may be units, and
  propagating one may give a value to the variable that is being eliminated; `Forced` says that such a value comes from a clause of the
  variable whose other literals are false. Without it a value could contradict what was stored.
  When the last pair was visited the clauses are removed, and any model of the rest gets a value for the variable from what was
  stored: if clauses of both signs needed it, their resolvent would be false.
* `Apart`: no clause left has an eliminated variable, the variable that is looked at is not one, and the search starts when
  propagation has ended.
* `Extending`: what is left to apply turns the model that is printed into one that falsifies no clause of the file. `Possible` are the literals that the
  model extended so far does not make false, over the variables reached; `SearchedModel` starts it and
  `PossibleApplied` says that an `Extend` does to it what the chain says. `ModelOK` is the part of `ModelOfTheFile` about the clauses that were solved.

`SameModels` is `Implied` with `Chain` projected to the variables that are kept; `ModelOfTheFile` is `Extending` when nothing is left to
apply. It says that the model has at most one value for each variable, one for each variable that was eliminated, that it satisfies the
clauses that were solved and makes no clause of the file false: hence satisfies the file, if it has a value for each
variable.

Induction over data is out of the provers' reach as a rule with a predicate; `SetInduction`
states it of a set of natural numbers, which can be cited for any formula. It is proved, with `LeastNatural`,
where it is used. With it, functions that the models define by recursion are shown
to exist and to satisfy their equations (`ResolutionIs`, `FollowsLocally`, `TraceIs`, `WordsFacts`, `StartsFacts`, `Recursion`), which the definition alone does not say.

What stays with TLC:

* all liveness (`ThreadsGoOn`, `RoundsGoOn`, `SearchStops`, `EverybodyEnds`, `Terminates`, `EveryUnitArrives`): the prover has no rules for fairness and `ENABLED`;
* `FullySimplified` of `Elimination`: that nothing is left to simplify is about the order of the queue and of the scans, not about what a step keeps; see the plan;
* `ClauseMemory`: folds over references, whose value for every sequence is an induction on the
  library's definition of the fold.

## 6. What the runs found

Three runs end with a counterexample to what a comment says.

* `SearchEndLost` (`NotTouchedAfterSolution`): `solve_` tests `endSearch` and then resets it; the order to leave
  that comes in between is lost, although the comment there (`ParallelSolver.cc:476`) says that
  the word is not touched when there is a solution. `SearchStops` shows that this is the only
  way a worker with a solution does not stop.
* `ClauseExchangeMissed` (`SeenByAllThreads`): "This clause have to be seen by all threads", says
  `ClausesBuffer.cc:209` of a clause from the network. Its counter starts at the number of threads less one, as for a
  clause of one of them. When all threads but one have imported it, it leaves, and the cursor of the last is moved past
  it. That it is exactly one that misses it is the theorem `RemoteClausesMissOneThread`. The answers
  stay right, as an import is never needed for them.
* `PharusTreeNoNode` (`NodeToCutExists`): "We find the good node according to the assertif literal"
  (`AmpharosManager.cc:349`). With `-tree-heuristic 0` the variable by which a leaf is extended may be one of the path
  to it. Three threads share the leaf on the left of x. One gives up and extends it, by x again. The conflict
  of the second is on x: the deepest node of that variable is now the extended leaf itself, so its left child is
  cut in place of it. The same conflict of the third finds that child gone, and `pharusPruning` takes a null pointer.
  `NodeToCutIsFound` shows that the right node is found whenever the variable of the conflict is not twice on the way to
  the node of the thread.

The following properties do not hold of the code. They are defined in the
modules and in no run; to see a counterexample, add the property to the run's `.cfg`, with the
constants named here.

* `RoomIsMadeBeforeEmpty` (`ClausesBuffer`): with `-removeolder`, `removeLastClause` goes on past
  the oldest record over those that nobody awaits, and may empty the FIFO; the
  assertion `queuesize > 0` after it fails (`ClausesBuffer.cc:205` and `:240`). A
  build without assertions goes on correctly, which the run checks.
* `StopIsReceived` (`Shutdown`): "we have to ensure that the message STOP_AND_KILL is received", says
  `ComMPI.cc:79`. If the cancelled receive had taken it, the worker takes the next message, the answer to its report, for it;
  the `assert(msg = STOP_AND_KILL)` after it assigns and says nothing. The worker then waits for an answer that
  has come. `NoMixedMessages` and `EverybodyEnds` say what else, in that case, still holds and that this is
  all that goes wrong.
* `TreeVerdictEndsEverybody` (`Shutdown`, `Modes <- CollectiveTree`): with `ComMPIPartially` and `AmpharosManager`, when the tree
  gives the verdict nobody ends the collective round, and everybody waits.
* `ModelIsTotal` (`Cdcl`): `alphaAdjustSolver` takes variables out of the decisions whose
  clauses are satisfied at level 0; the model has no value for them, and
  `MultiSolvers.cc:383` asserts that it does, as does `syrup/parallel/Main.cc:219`. `VerdictIsRight` shows that the
  partial model satisfies the formula all the same.
* `SameModels` (`Elimination`, `Options <- Rcheck`): with `-rcheck` a clause that the
  others imply is not added. A resolvent is implied by the two clauses it comes from, which
  are still there and are removed after it, so none is added, and the elimination of a
  variable forgets what its clauses said of the others; an
  unsatisfiable file may be answered with a model (`SimpSolver.cc:220`, `:605`).
* `NoReasonRemoved` (`ClauseMemory`): `removeClause` clears the reason of the first literal only,
  under the comment "Don't leave pointers to free'd memory!" (`Solver.cc:534`); a
  binary clause may have implied its second. `ReferencesExact` shows
  that the reference leads to the dead clause and nowhere else, also after a collection.
* `ClausesOfAllArrive` (`Collective`): the end of the block of the last worker is read one place
  behind `allPos` (`ComMPIPartially.cc:200`). Its clauses are imported only if
  what lies there happens to be their end.
* `EveryUnitArrives` (`Units`, `Room = 0`): `sendUL` sends while it holds the mutex the
  listener needs. If MPI did not buffer these messages, two workers that send to
  each other would wait for ever.

Facts the models show that have no property of their own:

* A thread that asks for a subproblem has left the list of its node and keeps its pointer. When that node is cut meanwhile, by
  another thread or by its own walk, its next transmission uses freed memory
  (`AmpharosManager.cc:162-163`): the fate `freed` of `PharusTree`. `WorkersAreKnown` shows that the answer of a
  thread that works never meets such a pointer.
* `SearchEnd` reaches `problem552`: `endSearch` is read once per branch at
  `ParallelSolver.cc:530-552`, and may become final between two reads, after
  which none of the branches applies and the process exits.
* A decision that satisfies everything during a walk ends the process
  (`syrup/com/AmpharosManager.h:97`, "TO DO"): the fate `satisfied` of `PharusTree`.
* A unit that is learnt in the conflict that ends the initialization of Ampharos is
  enqueued and not propagated; the walk propagates it at level 1, and the
  restart after it skips it. Propagations of that unit are missed from then on
  (`Dull` in `Cdcl`), which costs time and, as `VerdictIsRight` checks, no answer.
  The assertion `Solver.cc:1205` relies on there being no such unit; the
  formulas of the run do not reach it.
* A clause of another thread that the Chanseok strategy keeps is on two lists
  (`Solver.cc:794`). One that `alphaAdjustSolver` had moved to `permanentLearnts`
  (`Solver.cc:1426`, without `nolearnt()`) is pushed on it again there; `removeSatisfied`
  then frees it twice, which counts its words as wasted twice. These are the only
  exceptions `OnOneList` needs.
* Units of opposite sign of one variable: the second is dropped without a word
  (the TODO at `ParallelSolver.cc:369`), which loses a proof that the formula
  has no model, never an answer.
* The model that `extendModel` starts from may be partial, and it skips stored clauses with a literal that has no
  value. `ModelOfTheFile` shows that no clause of the file is false all the same. But the model that is printed
  may not have a value for every variable, and there may be none to give. Take (v or u), (not v or a), (x or not u)
  and (not x or b), of which v and x are eliminated, and let the search fix a and b at level 0: nothing is left that
  needs u, and it may have no value. `extendModel` gives v and x their default values, false, and skips the two clauses with
  u, which no value of u satisfies both. That the
  model satisfies the file is thus only so when it is total.

## 7. What is abstracted, and what is not modelled

* *In the models.* Statistics, verbosity, and the sizes and scores by which clauses
  are selected for exchange or deletion; these are choices. In `Cdcl`:
  blockers and the order of watch lists and of the literals of a clause;
  `permanentLearnts` is part of `learnts`; `litRedundant` is its definition (a
  walk back along reasons that ends in the clause) without its early abort on
  abstract levels, and in any order; random descents. A call of
  `ClausesBuffer` is a step, as it is made under the lock of `SharedCompanion`. In `Shutdown`, sends do not
  block, as MPI implementations do for messages of one or two integers, though the
  standard allows otherwise; `SharedCompanion.cc:117` sends while it holds a lock.
* *In `Elimination`*: the file is given to each worker, and all are taken to preprocess it
  in the same way; `solvers[0]->addClause` returns false unnoticed, as in the code.
  `asynch_interrupt`, `-sub-lim` and the limit of 4 800 000 clauses above which
  `MultiSolvers` does not preprocess are left out; `substitute` is called by nobody.
* *In `ClauseMemory`*: blockers, activities, the minimization of learnt clauses,
  `canBeDel` and the numbers that start `reduceDB`, `firstSharing` and the limits that decide
  which clauses on probation are sent (choices), the option `-plingeling`, random phases.
* *In `VarOrder`*: `update`, `increase` and `recuperate` of the heap, and activities
  as doubles.
* *In `Units` and `Collective`*: the import of all that is there is one action.
  In `Collective` each worker keeps the imported clauses of each other apart: in which order
  it takes the blocks is left out. The fixed sizes of the buffers are not modelled (`sendClause` does not look at them, and
  the round only warns), nor that clauses of 400
  literals or more are not sent.
* *A process that dies* is not modelled: the manager waits for the report of
  every worker (`Manager.cc:118`) and there is no time limit.
* *Exchange of units along the tree* is switched off in the code.
* *Encoding* of clauses in messages: not yet.
* *Set-up*, *construction of solvers*, *containers*, *options*, *mains* and
  *scripts*: sequential code before the search, or library code.

## 8. Plan

Done: all the modules of section 2 and the proofs of section 5. The
rest of the code is sequential set-up, conversions and library code (section 7). Left are proofs:

1. `Elimination`: `FullySimplified`, whose invariant has to say of each pair of clauses which of the touched variables, the queue or the scan
   still brings them together.
2. `ClauseMemory`: `OnOneList`, in so far as it does not rest on the relocation, which is a fold.
