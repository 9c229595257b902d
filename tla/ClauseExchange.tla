--------------------------- MODULE ClauseExchange ---------------------------
(***************************************************************************)
(* What the clause exchange of one worker promises, record by record.      *)
(*                                                                         *)
(* The solver threads of a worker share learnt clauses through one FIFO    *)
(* (parallel/ClausesBuffer.cc).  A record of the FIFO is a clause, its     *)
(* origin and the number of imports it still waits for; every thread has a *)
(* cursor.  This module keeps the FIFO as the sequence of all the records  *)
(* ever accepted, of which the first base have been removed, and abstracts *)
(* the array of 32-bit words they are stored in.  ClausesBuffer.tla        *)
(* is that array, and implements this specification.                       *)
(***************************************************************************)
EXTENDS Integers, Sequences, FiniteSets

CONSTANTS
  Threads,              \* the solver threads of this worker
  Workers,              \* the other workers, whose clauses MPI brings
  WhenFullRemoveOlder,  \* option -removeolder (its default is FALSE)
  MaxPush               \* bound: how many clauses are accepted in a behaviour

(* pushClauseHightLevel asserts nbThreads > 1.                             *)
ASSUME ThreadsAssumption == IsFiniteSet(Threads) /\ Cardinality(Threads) > 1
ASSUME WorkersAssumption == Threads \cap Workers = {}
ASSUME OptionAssumption == WhenFullRemoveOlder \in BOOLEAN
ASSUME BoundAssumption == MaxPush \in Nat

VARIABLES
  log,     \* log[i]: origin of the i-th clause accepted by the FIFO
  unseen,  \* unseen[i]: the nbSeen word of record i; 0 once it is removed
  base,    \* how many records have left the FIFO
  cur,     \* cur[t]: the record lastOfThread[t] stands on: t is past it
  got      \* history: got[t] is the set of clauses t has imported

vars == <<log, unseen, base, cur, got>>

Origins == Threads \cup Workers

TypeOK ==
  /\ log \in Seq(Origins)
  /\ unseen \in Seq(Int)
  /\ Len(unseen) = Len(log)
  /\ base \in 0..Len(log)
  /\ cur \in [Threads -> base..Len(log)]
  /\ got \in [Threads -> SUBSET (1..Len(log))]

Init ==
  /\ log = <<>>
  /\ unseen = <<>>
  /\ base = 0
  /\ cur = [t \in Threads |-> 0]
  /\ got = [t \in Threads |-> {}]

(* removeLastClause never stops before a record nobody waits for.          *)
(* Faulty: one that does. *)
StopAnywhere(counts, b) == TRUE
Stop(counts, b) == b < Len(counts) => counts[b + 1] # 0

(* Records up to b leave the FIFO: the threads still behind are moved on.  *)
(* Faulty: they are left behind. *)
RemoveUpToAlone(counts, cursors, b) ==
  /\ base' = b
  /\ unseen' = [i \in 1..Len(counts) |-> IF i <= b THEN 0 ELSE counts[i]]
  /\ cur' = cursors
RemoveUpTo(counts, cursors, b) ==
  /\ base' = b
  /\ unseen' = [i \in 1..Len(counts) |-> IF i <= b THEN 0 ELSE counts[i]]
  /\ cur' = [t \in Threads |-> IF cursors[t] < b THEN b ELSE cursors[t]]

-----------------------------------------------------------------------------
(* Every accepted clause starts with one import due less than there are    *)
(* threads, whether its origin is one of them or another worker.           *)
(* Faulty: one less, one more. *)
DueOneTooFew == Cardinality(Threads) - 2
DueOneTooMany == Cardinality(Threads)
DueImports == Cardinality(Threads) - 1

(* pushClause and pushClauseHightLevel, when the clause is accepted.  With *)
(* the option, older records leave first.  A refused clause changes        *)
(* nothing.                                                                *)
Push(o) ==
  /\ Len(log) < MaxPush
  /\ log' = Append(log, o)
  /\ \E b \in base..Len(log) :
       /\ b # base => WhenFullRemoveOlder /\ Stop(unseen, b)
       /\ RemoveUpTo(Append(unseen, DueImports), cur, b)
  /\ UNCHANGED got

(* The clauses thread t has not passed and did not produce itself.         *)
(* Faulty: all the clauses it has not passed. *)
ForeignAndOwn(t) == (cur[t] + 1)..Len(log)
Foreign(t) == {i \in (cur[t] + 1)..Len(log) : log[i] # t}

(* getClause returning false: t's own clauses are passed over.             *)
ImportNone(t) ==
  /\ Foreign(t) = {}
  /\ cur' = [cur EXCEPT ![t] = Len(log)]
  /\ UNCHANGED <<log, unseen, base, got>>

(* getClause returning true.  The thread that makes the oldest record's    *)
(* counter 0 removes it, and the records after it nobody waits for.        *)
ImportNext(t) ==
  \E i \in Foreign(t) :
    /\ \A j \in Foreign(t) : i <= j
    /\ got' = [got EXCEPT ![t] = @ \cup {i}]
    /\ LET counts  == [unseen EXCEPT ![i] = @ - 1]
           cursors == [cur EXCEPT ![t] = i]
       IN IF base = i - 1 /\ counts[i] = 0
          THEN \E b \in i..Len(log) :
                 /\ \A k \in (i + 1)..b : counts[k] = 0
                 /\ Stop(counts, b)
                 /\ RemoveUpTo(counts, cursors, b)
          ELSE unseen' = counts /\ cur' = cursors /\ UNCHANGED base
    /\ UNCHANGED log

Import(t) == ImportNone(t) \/ ImportNext(t)

Next ==
  \/ \E o \in Origins : Push(o)
  \/ \E t \in Threads : Import(t)

Spec == Init /\ [][Next]_vars

(* A thread imports at every restart of its search, for as long as it      *)
(* searches (Solver::search calls parallelImportClauses).                  *)
Fairness == \A t \in Threads : WF_vars(Import(t))

FairSpec == Spec /\ Fairness

-----------------------------------------------------------------------------
Local(i) == log[i] \in Threads

Waiting(i) == {t \in Threads : t # log[i] /\ cur[t] < i}

(* The nbSeen word of a live record is exactly the number of threads that  *)
(* have yet to pass it, one less for the clause of another worker.         *)
CounterExact ==
  \A i \in (base + 1)..Len(log) :
    unseen[i] = Cardinality(Waiting(i)) - (IF Local(i) THEN 0 ELSE 1)

(* A counter never falls below zero (the word is unsigned: it would wrap   *)
(* to 2^32 - 1 and the record, and all after it, would never be removed),  *)
(* and somebody still waits for the oldest record: the FIFO is never       *)
(* blocked by a record nobody will read again.                             *)
HeadIsAwaited ==
  /\ \A i \in (base + 1)..Len(log) : unseen[i] >= 0
  /\ Stop(unseen, base)

(* Unless old records are discarded by option, no thread is carried past a *)
(* clause of a sibling thread that it has not imported.                    *)
NoLocalClauseLost ==
  ~WhenFullRemoveOlder =>
    \A t \in Threads : \A i \in 1..cur[t] :
      Local(i) /\ log[i] # t => i \in got[t]

(* "This clause have to be seen by all threads", says ClausesBuffer.cc of  *)
(* the counter of a clause of another worker.                              *)
SeenByAllThreads ==
  ~WhenFullRemoveOlder =>
    \A i \in 1..base : ~Local(i) => \A t \in Threads : i \in got[t]

(* What the code does instead: such a clause leaves the FIFO imported by   *)
(* all threads but one, and the last to come is carried past it.           *)
RemoteClauseMissedByOne ==
  ~WhenFullRemoveOlder =>
    \A i \in 1..base :
      ~Local(i) => Cardinality({t \in Threads : i \notin got[t]}) = 1

(* Every thread imports clauses in the order of the FIFO, never twice and  *)
(* never its own.                                                          *)
ImportsInOrder ==
  [][\A t \in Threads : \A i \in got'[t] \ got[t] :
       log[i] # t /\ \A j \in got[t] : j < i]_vars

(* As long as the threads keep importing, every sibling's clause reaches   *)
(* every thread, and the FIFO empties: again and again, since pushes come  *)
(* to an end (MaxPush).                                                    *)
LocalClausesArrived ==
  \A t \in Threads : \A i \in 1..Len(log) :
    Local(i) /\ log[i] # t => i \in got[t]
ExchangeGoesOn == []<>(LocalClausesArrived /\ base = Len(log))
=============================================================================
