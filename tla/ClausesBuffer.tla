---------------------------- MODULE ClausesBuffer ----------------------------
(***************************************************************************)
(* The FIFO of learnt clauses of one worker, word by word:                 *)
(* parallel/ClausesBuffer.{h,cc}, called under mutexSharedClauseCompanion  *)
(* (SharedCompanion.cc), so that every call is one step.                   *)
(*                                                                         *)
(* elems is a ring of MaxSize words.  A clause of n literals is a record   *)
(* of n + 3 words: n, the number of imports still due, the origin, and the *)
(* literals.  A literal is here the number of the clause, so that a word   *)
(* read out of place shows.                                                *)
(***************************************************************************)
EXTENDS Integers, Sequences, FiniteSets

CONSTANTS
  NbThreads,            \* solver threads, numbered from 0
  NbWorkers,            \* other workers, numbered from 0
  MaxSize,              \* words of the ring: fifoSizeByCore * nbThreads
  Sizes,                \* sizes a shared clause may have
  WhenFullRemoveOlder,  \* option -removeolder
  MaxPush               \* bound: how many clauses are accepted

(* pushClauseHightLevel asserts nbThreads > 1.  A ring has 100000 words per *)
(* thread, a shared clause at most 400.                                    *)
ASSUME CountAssumption ==
  NbThreads \in Nat \ {0, 1} /\ NbWorkers \in Nat /\ MaxPush \in Nat
ASSUME SizeAssumption ==
  /\ MaxSize \in Nat \ {0} /\ Sizes \subseteq Nat \ {0}
  /\ \A size \in Sizes : size + 3 < MaxSize
ASSUME OptionAssumption == WhenFullRemoveOlder \in BOOLEAN

VARIABLES
  elems, first, last, queuesize, lastOfThread,  \* as in the class
  assertOk,  \* every assert so far held (a release build goes on regardless)
  \* history, for the refinement: the accepted clauses, where each one was
  \* stored, how many have left, and what each thread has read
  log, at, base, got

ring == <<elems, first, last, queuesize, lastOfThread>>
history == <<log, at, base, got>>
vars == <<ring, assertOk, history>>

HeaderSize == 3
Threads == 0..(NbThreads - 1)
Index == 0..(MaxSize - 1)

NextIndex(i) == IF i + 1 = MaxSize THEN 0 ELSE i + 1
AddIndex(i, a) == IF i + a >= MaxSize THEN i + a - MaxSize ELSE i + a

(* The record that follows ring position p, field by field.                *)
SizeAfter(p) == elems[NextIndex(p)]
NbSeenAfter(p) == elems[AddIndex(p, 2)]
OriginAfter(p) == elems[AddIndex(p, 3)]
EndAfter(p) == AddIndex(p, SizeAfter(p) + HeaderSize)

(* setNbThreads                                                            *)
Init ==
  /\ elems = [i \in Index |-> 0]
  /\ first = 0
  /\ last = MaxSize - 1
  /\ queuesize = 0
  /\ lastOfThread = [t \in Threads |-> MaxSize - 1]
  /\ assertOk = TRUE
  /\ log = <<>> /\ at = <<>> /\ base = 0
  /\ got = [t \in Threads |-> {}]

(* The threads whose cursor last passes over follow it.                    *)
(* Faulty: they stay. *)
LeaveCursors(cursors, passed, to) == cursors
MoveCursors(cursors, passed, to) ==
  [t \in Threads |-> IF cursors[t] \in passed THEN to ELSE cursors[t]]

(* A position after k records from p, and how many words they have; words  *)
(* are the elems that are read.                                            *)
RecordSize(words, p) == words[NextIndex(p)] + HeaderSize
Trail(words, p) ==
  LET trail[k \in 0..MaxSize] ==
        IF k = 0 THEN p ELSE AddIndex(trail[k - 1], RecordSize(words, trail[k - 1]))
  IN trail
Words(words, p) ==
  LET sum[k \in 0..MaxSize] ==
        IF k = 0 THEN 0 ELSE sum[k - 1] + RecordSize(words, Trail(words, p)[k - 1])
  IN sum

(* removeLastClause as a function of what it changes, q.last, q.queuesize, *)
(* q.cursor and q.removed.  It drops one record, and then those whose      *)
(* counter is 0 (queuesize permitting).                                    *)
RemoveLastClause(words, q) ==
  LET trail   == Trail(words, q.last)
      sum     == Words(words, q.last)
      Ends(k) == q.queuesize <= sum[k] \/ words[AddIndex(trail[k], 2)] # 0
      n == CHOOSE k \in 1..MaxSize : Ends(k) /\ \A j \in 1..(k - 1) : ~Ends(j)
      Passed == {trail[k] : k \in 0..(n - 1)}
  IN [last      |-> trail[n],
      queuesize |-> q.queuesize - sum[n],
      cursor    |-> MoveCursors(q.cursor, Passed, trail[n]),
      removed   |-> q.removed + n]

Queue == [last |-> last, queuesize |-> queuesize,
          cursor |-> lastOfThread, removed |-> base]

Commit(q) ==
  /\ last' = q.last
  /\ queuesize' = q.queuesize
  /\ lastOfThread' = q.cursor
  /\ base' = q.removed

Full(q, size) == q.queuesize + size + HeaderSize >= MaxSize

(* The words a new record is stored as, laid out from first.               *)
(* Faulty: the origin is counted as a reader. *)
RecordDueToAll(size, origin) ==
  <<size, NbThreads, origin>> \o [i \in 1..size |-> Len(log) + 1]
Record(size, origin) ==
  <<size, NbThreads - 1, origin>> \o [i \in 1..size |-> Len(log) + 1]

(* The oldest records are removed one after the other, and those nobody    *)
(* waits for with them.                                                    *)
Drop[k \in 0..MaxSize] ==
  IF k = 0 THEN Queue ELSE RemoveLastClause(elems, Drop[k - 1])

(* pushClause and pushClauseHightLevel for a clause the filter lets in     *)
(* (stat_size_clauses, like the refusal by a full FIFO, changes only       *)
(* statistics).  With -removeolder the oldest records make room, and the   *)
(* code asserts after each removal that something is left.                 *)
PushClause(origin, size) ==
  LET rec == Record(size, origin)
      n == CHOOSE k \in 0..MaxSize :
             ~Full(Drop[k], size) /\ \A j \in 0..(k - 1) : Full(Drop[j], size)
      room == Drop[n]
  IN
  /\ Len(log) < MaxPush
  /\ Full(Queue, size) => WhenFullRemoveOlder
  /\ Commit([room EXCEPT !.queuesize = @ + Len(rec)])
  /\ elems' = [i \in Index |->
                 LET k == 1 + ((i + MaxSize - first) % MaxSize)
                 IN IF k <= Len(rec) THEN rec[k] ELSE elems[i]]
  /\ first' = AddIndex(first, Len(rec))
  /\ assertOk' = (assertOk /\ \A k \in 1..n : Drop[k].queuesize > 0)
  /\ log' = Append(log, origin)
  /\ at' = Append(at, first)
  /\ UNCHANGED got

PushLocal(t, size) == PushClause(t, size)
PushRemote(w, size) == PushClause(-(w + 1), size)
-----------------------------------------------------------------------------
(* A cursor last has overtaken (the "special case" of getClause).          *)
Behind(p) ==
  \/ p < last /\ last < first
  \/ first < p /\ p < last
  \/ last < first /\ first < p

(* Where thread t starts to read, and where it stops: at the end of the    *)
(* FIFO or before a record that is not its own.                            *)
StartOf(t) == IF Behind(lastOfThread[t]) THEN last ELSE lastOfThread[t]
SkipOwn(t) ==
  LET Walk == Trail(elems, StartOf(t))
      Halts(k) == NextIndex(Walk[k]) = first \/ OriginAfter(Walk[k]) # t
  IN Walk[CHOOSE k \in 0..MaxSize : Halts(k) /\ \A j \in 0..(k - 1) : ~Halts(j)]

AtEnd(p) == NextIndex(p) = first

(* getClause returning false; an early exit leaves the cursor alone.       *)
GetNothing(t) ==
  /\ AtEnd(lastOfThread[t]) \/ AtEnd(SkipOwn(t))
  /\ lastOfThread' = [lastOfThread EXCEPT ![t] =
                        IF AtEnd(@) THEN @ ELSE SkipOwn(t)]
  /\ UNCHANGED <<elems, first, last, queuesize, assertOk, history>>

(* getClause returning true.  The literals are the words after the header. *)
GetClause(t) ==
  LET p     == SkipOwn(t)
      due   == NbSeenAfter(p) - 1
      words == [elems EXCEPT ![AddIndex(p, 2)] = due]
      lits  == {elems[AddIndex(p, k)] : k \in 4..(SizeAfter(p) + HeaderSize)}
      after == [Queue EXCEPT !.cursor[t] = EndAfter(p)]
      rest  == RemoveLastClause(words, Queue)
  IN
  /\ ~AtEnd(lastOfThread[t]) /\ ~AtEnd(p)
  /\ elems' = words
  /\ got' = [got EXCEPT ![t] = @ \cup lits]
  /\ Commit(IF last = p /\ due = 0
            THEN [rest EXCEPT !.cursor[t] = rest.last]
            ELSE after)
  /\ UNCHANGED <<first, assertOk, log, at>>

Get(t) == GetNothing(t) \/ GetClause(t)

Next ==
  \/ \E t \in Threads, size \in Sizes : PushLocal(t, size)
  \/ \E w \in 0..(NbWorkers - 1), size \in Sizes : PushRemote(w, size)
  \/ \E t \in Threads : Get(t)

Spec == Init /\ [][Next]_vars
Fairness == \A t \in Threads : WF_vars(Get(t))
FairSpec == Spec /\ Fairness
-----------------------------------------------------------------------------
TypeOK ==
  /\ elems \in [Index -> Int]
  /\ first \in Index /\ last \in Index
  /\ queuesize \in 0..(MaxSize - 1)
  /\ lastOfThread \in [Threads -> Index]
  /\ assertOk \in BOOLEAN

(* The position before the i-th record, and before the one to come.        *)
Before(i) ==
  LET p == IF i <= Len(log) THEN at[i] ELSE first
  IN IF p = 0 THEN MaxSize - 1 ELSE p - 1

Live == (base + 1)..Len(log)

(* The live records tile the ring from last to first: the counts of words, *)
(* the sizes stored in the records and the two ends agree, and the ring is *)
(* never so full that it looks empty.                                      *)
RecordsTileTheRing ==
  /\ last = Before(base + 1)
  /\ \A i \in Live : EndAfter(Before(i)) = Before(i + 1)
  /\ queuesize = (first + MaxSize - NextIndex(last)) % MaxSize

(* Every cursor stands between two live records, or at an end: the special *)
(* case of getClause for a cursor that last has overtaken never applies.   *)
CursorsAreValid ==
  \A t \in Threads :
    /\ \E i \in base..Len(log) : lastOfThread[t] = Before(i + 1)
    /\ ~AtEnd(lastOfThread[t]) => ~Behind(lastOfThread[t])

(* What the words must be for anybody to read them: all of the above.      *)
RingIsSound == TypeOK /\ RecordsTileTheRing /\ CursorsAreValid

(* The ring implements the exchange of records: the counters of the        *)
(* records, and the records the cursors stand on.                          *)
Unseen == [i \in 1..Len(log) |-> IF i <= base THEN 0 ELSE NbSeenAfter(Before(i))]
Cur == [t \in Threads |->
          CHOOSE i \in base..Len(log) : lastOfThread[t] = Before(i + 1)]
Exchange == INSTANCE ClauseExchange WITH
  Threads <- Threads,
  Workers <- {-(w + 1) : w \in 0..(NbWorkers - 1)},
  unseen  <- Unseen,
  cur     <- Cur
ImplementsExchange == Exchange!Spec

(* The assertion that follows removeLastClause in both push functions,     *)
(* assert(queuesize > 0): making room never empties the FIFO.              *)
RoomIsMadeBeforeEmpty == assertOk
=============================================================================
