---------------------------- MODULE ShutdownProofs ----------------------------
(***************************************************************************)
(* The end of a run, for any number of workers and any number of units and *)
(* clauses on their way, in all four combinations of the options: nobody   *)
(* leaves with a unit still due, the manager outlives the workers, one     *)
(* verdict is printed, once, by the one who gave it, and messages of the   *)
(* manager are received where they are meant.  None of it assumes anything *)
(* of what MPI does to a message whose receive is being cancelled.         *)
(***************************************************************************)
EXTENDS Shutdown, FiniteSetTheorems, SequenceTheorems, TLAPS

N == Cardinality(Workers)

-----------------------------------------------------------------------------
(* How far a worker is: it has reported, has had its answer, has announced *)
(* its exports of a kind, has had the number of those due to it.           *)
Before == {"listen", "test", "cancel", "testUnit", "cancelUnit", "join"}
Counting == {"count", "drain", "print", "kill", "done"}

Reported(w) == worker[w].pc \notin Before
Told(w) == worker[w].pc \notin Before \cup {"stop", "answer"}
Announced(w, kind) ==
  \/ kind = "unit" /\ worker[w].stage = "clause"
  \/ worker[w].stage = kind /\ worker[w].pc \in Counting
Counted(w, kind) ==
  \/ kind = "unit" /\ worker[w].stage = "clause"
  \/ worker[w].stage = kind /\ worker[w].pc \in Counting \ {"count"}

(* The workers whose report, or announcement, the manager has handled.     *)
Heard ==
  {w \in Workers : Reported(w) /\ (toManager[w] = <<>> \/ Told(w))}
HeardCount(kind) ==
  {w \in Workers : /\ Announced(w, kind)
                   /\ toManager[w] = <<>> \/ Counted(w, kind)}

(* The manager counts them, and what is due is what they announced.        *)
ManagerCounts ==
  /\ reported = Cardinality(Heard)
  /\ reported > 0 => verdict # None
  /\ \A kind \in Kinds :
       /\ announced[kind] = Cardinality(HeardCount(kind))
       /\ \A w \in Workers :
            dueTo[w][kind] = Cardinality(Exports(HeardCount(kind) \ {w}, kind))

(* A unit or a clause arrives at most once.                                *)
ArrivesOnce ==
  \A kind \in Kinds :
    /\ IsFiniteSet(Exports(Workers, kind))
    /\ \A w \in Workers : worker[w].got[kind] + inFlight[w][kind]
                            <= Cardinality(Exports(Workers \ {w}, kind))

(* Why a worker is where it is.                                            *)
Ended(w) ==
  /\ worker[w].pc # "problem"
  /\ worker[w].pc # "listen" => worker[w].finished
  /\ worker[w].finished => worker[w].found \/ verdict # None
  /\ worker[w].stopped => verdict # None
  /\ worker[w].pc \in {"test", "cancel", "stop"} => ~worker[w].stopped
  /\ worker[w].pc \notin Before \cup {"stop"} => worker[w].stopped

Staged(w) ==
  /\ worker[w].stage = "clause" => Fully /\ worker[w].pc \in Counting \cup {"announce"}
  /\ worker[w].pc \in {"print", "kill", "done"} /\ Fully => worker[w].stage = "clause"
  /\ ~Fully => worker[w].sent["clause"] = 0
  /\ Told(w) => reported = N /\ worker[w].display = (verdict = w)
  /\ ~Told(w) => ~worker[w].display
  /\ \A kind \in Kinds : Counted(w, kind) =>
       announced[kind] = N /\ worker[w].due[kind] = dueTo[w][kind]
  /\ w \in printed <=> worker[w].display /\ worker[w].pc \in {"kill", "done"}
  /\ worker[w].pc = "kill" => worker[w].display

(* What the channels of a worker hold.                                     *)
ToManager(w) ==
  \/ toManager[w] = <<>>
  \/ /\ worker[w].pc \in {"stop", "answer"}
     /\ toManager[w] = <<Message("SOLUTION_FOUND", worker[w].found)>>
  \/ /\ worker[w].pc = "count"
     /\ toManager[w] = <<Message(StopComTag(worker[w].stage),
                                 worker[w].sent[worker[w].stage])>>
  \/ /\ worker[w].pc \in {"kill", "done"} /\ worker[w].display
     /\ toManager[w] = <<Message("JOB_FINISHED", 0)>>

StopMessage == Message("STOP_AND_KILL", 0)
AnswerTo(w) ==
  IF reported # N THEN <<>>
  ELSE IF verdict = w THEN <<Message("PRINT_SOLUTION", 0)>>
  ELSE <<Message("SOLUTION_IND", 0)>>
CountTo(w) ==
  IF announced[worker[w].stage] # N THEN <<>>
  ELSE <<Message("COUNT", dueTo[w][worker[w].stage])>>

(* A worker that was to receive the order to stop while it cancelled its   *)
(* receive takes its answer for that order, and then waits for ever.       *)
ToWorker(w) ==
  LET mayBeLost == "order" \in worker[w].lost
      owed == verdict # None /\ ~worker[w].stopped
  IN /\ worker[w].pc \in Before =>
          \/ toWorker[w] = <<>> /\ (owed => mayBeLost)
          \/ toWorker[w] = <<StopMessage>> /\ owed
     /\ worker[w].pc = "stop" =>
          \/ toWorker[w] = AnswerTo(w) /\ (owed => mayBeLost)
          \/ toWorker[w] = <<StopMessage>> \o AnswerTo(w) /\ owed
     /\ worker[w].pc = "answer" =>
          \/ toWorker[w] = AnswerTo(w)
          \/ toWorker[w] = <<>> /\ mayBeLost /\ reported = N
     /\ worker[w].pc = "count" => toWorker[w] = CountTo(w)
     /\ Told(w) /\ worker[w].pc # "count" => toWorker[w] = <<>>

(* The manager stops listening after the last message.                     *)
LastHeard(w) ==
  ~listening =>
    /\ toManager[w] = <<>>
    /\ worker[w].pc \in Counting
    /\ worker[w].stage = IF Fully THEN "clause" ELSE "unit"
    /\ announced[worker[w].stage] = N
    /\ worker[w].display => worker[w].pc \in {"kill", "done"}

Own(w) ==
  Ended(w) /\ Staged(w) /\ ToManager(w) /\ ToWorker(w) /\ LastHeard(w)

(* The types, with those of the channels' functions.                       *)
Types ==
  /\ mode \in Modes
  /\ worker \in [Workers -> WorkerType]
  /\ inFlight \in [Workers -> Counts]
  /\ toManager = [w \in Workers |-> toManager[w]]
  /\ toWorker = [w \in Workers |-> toWorker[w]]
  /\ listening \in BOOLEAN
  /\ verdict \in Workers \cup {Tree, None}
  /\ reported \in 0..N
  /\ announced \in [Kinds -> 0..N]
  /\ dueTo \in [Workers -> Counts]
  /\ printed \subseteq {verdict} \ {None}

IInv ==
  /\ Types
  /\ ManagerCounts
  /\ ArrivesOnce
  /\ ReceivedBeforePassed
  /\ \A w \in Workers : Own(w)

-----------------------------------------------------------------------------
LEMMA CountOfWorkers == N \in Nat
BY SetAssumption, FS_CardinalityType DEF N

(* Everything starts with nothing sent, heard or printed.                  *)
LEMMA InitIInv == Init => IInv
<1> SUFFICES ASSUME Init PROVE IInv
  OBVIOUS
<1>1. \A w \in Workers :
        /\ worker[w].pc = "listen" /\ ~worker[w].found /\ ~worker[w].finished
        /\ ~worker[w].stopped /\ ~worker[w].display /\ worker[w].stage = "unit"
        /\ worker[w].sent = Zero /\ worker[w].got = Zero
        /\ inFlight[w] = Zero /\ toManager[w] = <<>> /\ toWorker[w] = <<>>
  BY DEF Init
<1>2. Zero \in Counts /\ \A kind \in Kinds : Zero[kind] = 0
  BY DEF Zero, Counts
<1>3. worker \in [Workers -> WorkerType]
  BY <1>2 DEF Init, WorkerType, Kinds
<1>4. Types
  <2>1. 0 \in 0..N
    BY CountOfWorkers
  <2>2. inFlight \in [Workers -> Counts] /\ dueTo \in [Workers -> Counts]
    BY <1>2 DEF Init
  <2>3. announced \in [Kinds -> 0..N] /\ reported \in 0..N
    BY <2>1 DEF Init, Zero
  <2>4. toManager = [w \in Workers |-> toManager[w]] /\ toWorker = [w \in Workers |-> toWorker[w]]
    BY DEF Init
  <2> QED
    BY <1>3, <2>2, <2>3, <2>4 DEF Init, Types
<1>5. /\ Heard = {} /\ \A kind \in Kinds : HeardCount(kind) = {}
      /\ \A S \in SUBSET Workers : \A kind \in Kinds : Exports(S, kind) = {}
  <2>1. \A kind \in Kinds : \A w \in Workers : {w} \X (1..worker[w].sent[kind]) = {}
    BY <1>1, <1>2
  <2>2. ASSUME NEW S \in SUBSET Workers, NEW kind \in Kinds PROVE Exports(S, kind) = {}
    BY <2>1 DEF Exports
  <2>3. Heard = {} /\ \A kind \in Kinds : HeardCount(kind) = {}
    BY <1>1 DEF Heard, HeardCount, Reported, Announced, Counting, Before
  <2> QED
    BY <2>2, <2>3
<1>6. ManagerCounts
  <2>1. \A kind \in Kinds : \A w \in Workers : Exports(HeardCount(kind) \ {w}, kind) = {}
    BY <1>5
  <2>2. /\ reported = 0
        /\ \A kind \in Kinds : announced[kind] = 0 /\ \A w \in Workers : dueTo[w][kind] = 0
    BY <1>2 DEF Init
  <2>3. Cardinality({}) = 0
    BY FS_EmptySet
  <2>4. ASSUME NEW kind \in Kinds
        PROVE  /\ announced[kind] = Cardinality(HeardCount(kind))
               /\ \A w \in Workers :
                    dueTo[w][kind] = Cardinality(Exports(HeardCount(kind) \ {w}, kind))
    BY <1>5, <2>1, <2>2, <2>3, Zenon
  <2>5. reported = Cardinality(Heard) /\ (reported > 0 => verdict # None)
    BY <1>5, <2>2, <2>3
  <2> QED
    BY <2>4, <2>5 DEF ManagerCounts
<1>7. ArrivesOnce
  <2>1. \A kind \in Kinds : \A w \in Workers : Exports(Workers \ {w}, kind) = {}
    BY <1>5
  <2> QED
    BY <1>1, <1>2, <1>5, <2>1, FS_EmptySet DEF ArrivesOnce
<1>8. ReceivedBeforePassed
  BY <1>1 DEF ReceivedBeforePassed
<1>9. ASSUME NEW w \in Workers PROVE Own(w)
  <2>1. worker[w].pc = "listen" /\ ~Told(w) /\ ~Counted(w, "unit") /\ ~Counted(w, "clause")
    BY <1>1 DEF Told, Counted, Before, Counting
  <2>2. Ended(w)
    BY <1>1, <2>1 DEF Ended, Before
  <2>3. Staged(w)
    BY <1>1, <1>2, <2>1 DEF Staged, Init, Kinds
  <2>4. ToManager(w) /\ LastHeard(w)
    BY <1>1 DEF ToManager, LastHeard, Init
  <2>5. ToWorker(w)
    BY <1>1, <2>1 DEF ToWorker, Init
  <2> QED
    BY <2>2, <2>3, <2>4, <2>5 DEF Own
<1> QED
  BY <1>4, <1>6, <1>7, <1>8, <1>9 DEF IInv

-----------------------------------------------------------------------------
(* A step that concerns worker w only.                                     *)
Only(w) ==
  /\ worker' = [worker EXCEPT ![w] = worker'[w]] /\ worker'[w] \in WorkerType
  /\ toManager' = [toManager EXCEPT ![w] = toManager'[w]]
  /\ toWorker' = [toWorker EXCEPT ![w] = toWorker'[w]]
  /\ printed' \subseteq {verdict} \ {None} /\ printed' \ {w} = printed \ {w}
  /\ UNCHANGED <<mode, listening, verdict, reported, announced, dueTo>>

(* It neither sends nor hears a unit, a clause, a report or a count, and   *)
(* what arrives had been on its way.                                       *)
Quiet(w) ==
  /\ worker'[w].sent = worker[w].sent
  /\ Searching(w)' => Searching(w)
  /\ (w \in Heard)' <=> w \in Heard
  /\ \A kind \in Kinds : (w \in HeardCount(kind))' <=> w \in HeardCount(kind)

NothingNew(w) ==
  /\ inFlight' = [inFlight EXCEPT ![w] = inFlight'[w]] /\ inFlight'[w] \in Counts
  /\ \A kind \in Kinds :
       /\ inFlight'[w][kind] <= inFlight[w][kind]
       /\ worker'[w].got[kind] + inFlight'[w][kind]
            <= worker[w].got[kind] + inFlight[w][kind]

(* Nothing is due any more to a worker that has passed a stage.            *)
Passed(w, kind) ==
  \/ worker[w].pc \in {"print", "kill", "done"}
  \/ kind = "unit" /\ worker[w].stage = "clause"
NothingDue(w, kind) ==
  inFlight[w][kind] = 0 /\ \A x \in Workers \ {w} : ~Searching(x)

(* Fewer workers have exported no more.                                    *)
LEMMA ExportsWithin ==
  ASSUME NEW kind, IsFiniteSet(Exports(Workers, kind)), NEW S \in SUBSET Workers
  PROVE  /\ Exports(S, kind) \in SUBSET Exports(Workers, kind)
         /\ IsFiniteSet(Exports(S, kind)) /\ Cardinality(Exports(S, kind)) \in Nat
<1>1. Exports(S, kind) \in SUBSET Exports(Workers, kind)
  BY DEF Exports
<1>2. IsFiniteSet(Exports(S, kind))
  BY <1>1, FS_Subset
<1> QED
  BY <1>1, <1>2, FS_CardinalityType

(* Then the invariant holds for all if it holds for w.                     *)
LEMMA OnlyKeeps ==
  ASSUME IInv, NEW w \in Workers, Only(w), Quiet(w), NothingNew(w), Own(w)',
         \A kind \in Kinds : Passed(w, kind)' => Passed(w, kind) \/ NothingDue(w, kind)
  PROVE  IInv'
<1> USE DEF Only, NothingNew
<1>1. \A x \in Workers \ {w} :
        /\ worker'[x] = worker[x] /\ toManager'[x] = toManager[x]
        /\ toWorker'[x] = toWorker[x] /\ inFlight'[x] = inFlight[x]
        /\ x \in printed' <=> x \in printed
  BY DEF IInv, Types
<1>2. Types'
  BY DEF IInv, Types
<1>3. \A x \in Workers : worker'[x].sent = worker[x].sent
  BY <1>1 DEF Quiet
<1>4. \A S \in SUBSET Workers : \A kind \in Kinds : Exports(S, kind)' = Exports(S, kind)
  <2> SUFFICES ASSUME NEW S \in SUBSET Workers, NEW kind \in Kinds
               PROVE  Exports(S, kind)' = Exports(S, kind)
    OBVIOUS
  <2>1. \A x \in S : worker'[x].sent[kind] = worker[x].sent[kind]
    BY <1>3
  <2> QED
    BY <2>1 DEF Exports
<1>5. Heard' = Heard
  BY <1>1 DEF Heard, Reported, Told, Quiet
<1>6. \A kind \in Kinds : HeardCount(kind)' = HeardCount(kind)
  BY <1>1 DEF HeardCount, Announced, Counted, Quiet
<1>7. ManagerCounts'
  <2>1. \A kind \in Kinds : HeardCount(kind) \subseteq Workers
    BY DEF HeardCount
  <2>2. \A kind \in Kinds : \A x \in Workers :
          Exports(HeardCount(kind) \ {x}, kind)' = Exports(HeardCount(kind) \ {x}, kind)
    BY <1>4, <1>6, <2>1
  <2>3. ManagerCounts /\ UNCHANGED <<reported, verdict, announced, dueTo>>
    BY DEF IInv
  <2>4. ASSUME NEW kind \in Kinds
        PROVE  /\ (announced[kind] = Cardinality(HeardCount(kind)))'
               /\ \A x \in Workers :
                    (dueTo[x][kind] = Cardinality(Exports(HeardCount(kind) \ {x}, kind)))'
    BY <1>6, <2>2, <2>3, Zenon DEF ManagerCounts
  <2>5. (reported = Cardinality(Heard) /\ (reported > 0 => verdict # None))'
    BY <1>5, <2>3 DEF ManagerCounts
  <2> QED
    BY <2>4, <2>5, Zenon DEF ManagerCounts
<1>8. ArrivesOnce'
  <2> SUFFICES ASSUME NEW kind \in Kinds
               PROVE  /\ IsFiniteSet(Exports(Workers, kind)')
                      /\ \A x \in Workers : worker'[x].got[kind] + inFlight'[x][kind]
                                <= Cardinality(Exports(Workers \ {x}, kind)')
    BY DEF ArrivesOnce
  <2>1. /\ Exports(Workers, kind)' = Exports(Workers, kind)
        /\ \A x \in Workers : Exports(Workers \ {x}, kind)' = Exports(Workers \ {x}, kind)
    BY <1>4
  <2>2. IsFiniteSet(Exports(Workers, kind)')
    BY <2>1 DEF IInv, ArrivesOnce
  <2>3. ASSUME NEW x \in Workers
        PROVE  worker'[x].got[kind] + inFlight'[x][kind] <= Cardinality(Exports(Workers \ {x}, kind)')
    <3>1. PICK c : c = Cardinality(Exports(Workers \ {x}, kind))
      OBVIOUS
    <3>2. worker[x].got[kind] + inFlight[x][kind] <= c
      BY <3>1 DEF IInv, ArrivesOnce
    <3>3. c \in Nat
      BY <3>1, ExportsWithin DEF IInv, ArrivesOnce
    <3>4. /\ worker[x].got[kind] \in Nat /\ inFlight[x][kind] \in Nat
          /\ worker'[x].got[kind] \in Nat /\ inFlight'[x][kind] \in Nat
      <4>1. worker[x].got \in Counts /\ worker'[x].got \in Counts
        BY <1>2 DEF IInv, Types, WorkerType
      <4>2. inFlight[x] \in Counts /\ inFlight'[x] \in Counts
        BY <1>2 DEF IInv, Types
      <4> QED
        BY <4>1, <4>2 DEF Counts
    <3>5. worker'[x].got[kind] + inFlight'[x][kind] <= worker[x].got[kind] + inFlight[x][kind]
      BY <1>1, <3>4 DEF Quiet
    <3> QED
      BY <2>1, <3>1, <3>2, <3>3, <3>4, <3>5
  <2> QED
    BY <2>2, <2>3
<1>9. ReceivedBeforePassed'
  <2> SUFFICES ASSUME NEW x \in Workers, NEW kind \in Kinds, Passed(x, kind)'
               PROVE  NothingDue(x, kind)'
    BY DEF ReceivedBeforePassed, Passed, NothingDue
  <2>1. \A y \in Workers : Searching(y)' => Searching(y)
    BY <1>1 DEF Quiet, Searching
  <2>2. Passed(x, kind) => NothingDue(x, kind)
    BY DEF IInv, ReceivedBeforePassed, Passed, NothingDue
  <2>3. NothingDue(x, kind)
    BY <1>1, <2>2 DEF Passed
  <2>4. inFlight'[x][kind] <= inFlight[x][kind] /\ inFlight'[x][kind] \in Nat
    <3>1. inFlight[x] \in Counts /\ inFlight'[x] \in Counts
      BY <1>2 DEF IInv, Types
    <3> QED
      BY <1>1, <3>1 DEF Counts
  <2> QED
    BY <2>1, <2>3, <2>4 DEF NothingDue
<1>10. ASSUME NEW x \in Workers PROVE Own(x)'
  <2> SUFFICES ASSUME x # w PROVE Own(x)'
    OBVIOUS
  <2>1. /\ worker'[x] = worker[x] /\ toManager'[x] = toManager[x] /\ toWorker'[x] = toWorker[x]
        /\ x \in printed' <=> x \in printed
    BY <1>1
  <2>2. Own(x)
    BY DEF IInv
  <2>3. Ended(x)' /\ ToManager(x)' /\ LastHeard(x)'
    BY <2>1, <2>2 DEF Own, Ended, ToManager, LastHeard, Fully
  <2>4. Staged(x)'
    BY <2>1, <2>2 DEF Own, Staged, Fully, Told, Counted
  <2>5. ToWorker(x)'
    BY <2>1, <2>2 DEF Own, ToWorker, AnswerTo, CountTo, Told
  <2> QED
    BY <2>3, <2>4, <2>5 DEF Own
<1> QED
  BY <1>2, <1>7, <1>8, <1>9, <1>10 DEF IInv

(* What leaves the network has arrived, or was cancelled.                  *)
LEMMA ArrivalIsOld ==
  ASSUME IInv, NEW w \in Workers, NEW kind \in Kinds, Arrives(w, kind),
         \/ worker'[w].got = worker[w].got
         \/ worker'[w].got = [worker[w].got EXCEPT ![kind] = @ + 1]
  PROVE  NothingNew(w) /\ worker'[w].got \in Counts
<1>1. inFlight \in [Workers -> Counts] /\ inFlight[w] \in Counts /\ worker[w].got \in Counts
  BY DEF IInv, Types, WorkerType
<1>2. inFlight' = [inFlight EXCEPT ![w] = [inFlight[w] EXCEPT ![kind] = @ - 1]]
  BY <1>1 DEF Arrives
<1>3. inFlight'[w] = [inFlight[w] EXCEPT ![kind] = @ - 1]
  BY <1>1, <1>2
<1>4. inFlight[w][kind] \in Nat /\ inFlight[w][kind] - 1 \in Nat
  BY <1>1 DEF Arrives, Counts
<1>5. inFlight'[w] \in Counts
  BY <1>1, <1>3, <1>4 DEF Counts
<1>6. worker'[w].got \in Counts
  BY <1>1 DEF Counts
<1>7. ASSUME NEW k \in Kinds
      PROVE  /\ inFlight'[w][k] <= inFlight[w][k]
             /\ worker'[w].got[k] + inFlight'[w][k] <= worker[w].got[k] + inFlight[w][k]
  BY <1>1, <1>3, <1>4 DEF Counts
<1>8. inFlight' = [inFlight EXCEPT ![w] = inFlight'[w]]
  BY <1>2, <1>3
<1> QED
  BY <1>5, <1>6, <1>7, <1>8 DEF NothingNew

LEMMA NothingArrives ==
  ASSUME IInv, NEW w \in Workers, UNCHANGED inFlight, worker'[w].got = worker[w].got
  PROVE  NothingNew(w)
<1>1. inFlight \in [Workers -> Counts] /\ inFlight[w] \in Counts /\ worker[w].got \in Counts
  BY DEF IInv, Types, WorkerType
<1> QED
  BY <1>1 DEF NothingNew, Counts

(* A step of a worker that is still in its search, and stays there.        *)
LEMMA SearchingKeeps ==
  ASSUME IInv, NEW w \in Workers, Only(w), NothingNew(w),
         Searching(w), Searching(w)', UNCHANGED <<toManager, printed>>,
         worker'[w].stage = worker[w].stage, worker'[w].sent = worker[w].sent,
         worker'[w].display = worker[w].display, Ended(w)', ToWorker(w)'
  PROVE  IInv'
<1>1. Own(w) /\ worker[w].pc \in Before /\ worker'[w].pc \in Before
  BY DEF IInv, Searching, Before
<1>2. /\ ~Reported(w) /\ ~Reported(w)' /\ ~Told(w) /\ ~Told(w)' /\ worker[w].stage = "unit"
      /\ \A kind \in Kinds : /\ ~Announced(w, kind) /\ ~Counted(w, kind)
                             /\ ~Announced(w, kind)' /\ ~Counted(w, kind)'
  <2>1. worker[w].stage \in Kinds
    BY DEF IInv, Types, WorkerType
  <2>2. worker[w].stage = "unit"
    BY <1>1, <2>1 DEF Own, Staged, Before, Counting, Kinds
  <2> QED
    BY <1>1, <2>2 DEF Reported, Told, Announced, Counted, Before, Counting
<1>3. Quiet(w)
  BY <1>2 DEF Quiet, Heard, HeardCount
<1>4. Staged(w)'
  BY <1>1, <1>2 DEF Own, Staged, Only, Before, Fully, Counting
<1>5. ToManager(w)'
  BY <1>1 DEF Own, ToManager, Before
<1>6. listening
  BY <1>1 DEF Own, LastHeard, Before, Counting
<1>7. LastHeard(w)'
  BY <1>6 DEF LastHeard, Only
<1>8. \A kind \in Kinds : ~Passed(w, kind)'
  BY <1>1, <1>2 DEF Passed, Before
<1> QED
  BY <1>3, <1>4, <1>5, <1>7, <1>8, OnlyKeeps DEF Own

-----------------------------------------------------------------------------
(* The search, and what the main thread does until the others have left.   *)
LEMMA SolveKeeps ==
  ASSUME IInv, NEW w \in Workers, Solve(w), UNCHANGED mode
  PROVE  IInv'
<1>1. worker[w] \in WorkerType /\ Own(w) /\ printed \subseteq {verdict} \ {None}
  BY DEF IInv, Types
<1>2. worker'[w] = [worker[w] EXCEPT !.found = TRUE, !.finished = TRUE]
  BY DEF Solve, IInv, Types
<1>3. /\ worker'[w] \in WorkerType
      /\ worker'[w].found /\ worker'[w].finished
      /\ worker'[w].pc = worker[w].pc /\ worker'[w].stopped = worker[w].stopped
      /\ worker'[w].stage = worker[w].stage /\ worker'[w].sent = worker[w].sent
      /\ worker'[w].display = worker[w].display /\ worker'[w].lost = worker[w].lost /\ worker'[w].got = worker[w].got
  BY <1>1, <1>2 DEF WorkerType
<1>4. Searching(w) /\ UNCHANGED <<netVars, managerVars>>
  BY DEF Solve
<1> USE DEF netVars, managerVars
<1>5. Only(w)
  BY <1>1, <1>2, <1>3, <1>4 DEF Solve, IInv, Types, Only
<1>6. NothingNew(w)
  BY <1>3, <1>4, NothingArrives
<1>7. Ended(w)'
  BY <1>1, <1>3, <1>4 DEF Own, Ended
<1>8. ToWorker(w)'
  BY <1>1, <1>3, <1>4 DEF Own, ToWorker, Searching, Before, Told
<1>9. Searching(w)'
  BY <1>3, <1>4 DEF Searching
<1> QED
  BY <1>3, <1>4, <1>5, <1>6, <1>7, <1>8, <1>9, SearchingKeeps

(* The only message that waits for a worker that still searches is the     *)
(* order to stop, which it had not received.                               *)
LEMMA StopTaken ==
  ASSUME IInv, NEW w \in Workers, Searching(w), Take(w)
  PROVE  /\ Answer(w).tag = "STOP_AND_KILL" /\ toWorker'[w] = <<>>
         /\ toWorker' = [toWorker EXCEPT ![w] = toWorker'[w]]
         /\ verdict # None /\ ~worker[w].stopped
<1>1. toWorker[w] = <<StopMessage>> /\ verdict # None /\ ~worker[w].stopped
  BY DEF IInv, Own, ToWorker, Searching, Before, Take, Answered
<1>2. Head(toWorker[w]) = StopMessage /\ Tail(toWorker[w]) = <<>>
  BY <1>1
<1>3. toWorker' = [toWorker EXCEPT ![w] = <<>>] /\ toWorker'[w] = <<>>
  BY <1>2 DEF Take, IInv, Types
<1>4. Answer(w).tag = "STOP_AND_KILL"
  BY <1>2 DEF Answer, StopMessage, Message
<1> QED
  BY <1>1, <1>3, <1>4

LEMMA AskSubproblemKeeps ==
  ASSUME IInv, NEW w \in Workers, AskSubproblem(w), UNCHANGED mode
  PROVE  IInv'
<1>1. worker[w] \in WorkerType /\ Own(w) /\ printed \subseteq {verdict} \ {None} /\ Searching(w)
  BY DEF IInv, Types, AskSubproblem, Searching
<1>2. UNCHANGED <<mode, toManager, listening, verdict, reported, announced, dueTo, printed>>
  BY DEF AskSubproblem, netVars, managerVars
<1>3. /\ worker' = [worker EXCEPT ![w] = worker'[w]]
      /\ worker'[w] = [worker[w] EXCEPT !.finished = TRUE]
  BY <1>1 DEF IInv, Types, AskSubproblem
<1>4. worker'[w].got = worker[w].got
  BY <1>1, <1>3 DEF WorkerType
<1>5. NothingNew(w) /\ worker'[w].got \in Counts
  BY <1>1, <1>3, <1>4, NothingArrives DEF AskSubproblem, netVars, WorkerType
<1>6. /\ worker'[w] \in WorkerType
      /\ worker'[w].pc = worker[w].pc /\ worker'[w].found = worker[w].found
      /\ worker'[w].finished = TRUE /\ worker'[w].stopped = worker[w].stopped
      /\ worker'[w].stage = worker[w].stage /\ worker'[w].sent = worker[w].sent
      /\ worker'[w].display = worker[w].display /\ worker'[w].lost = worker[w].lost /\ worker'[w].got = worker[w].got
  BY <1>1, <1>3, <1>5 DEF WorkerType
<1>7. UNCHANGED toWorker
  BY DEF AskSubproblem, netVars
<1>8. Only(w)
  BY <1>1, <1>2, <1>3, <1>6, <1>7 DEF IInv, Types, Only
<1>9. Ended(w)' /\ Searching(w)'
  BY <1>1, <1>2, <1>6, <1>7 DEF Own, Ended, Searching, Before, AskSubproblem
<1>10. ToWorker(w)'
  BY <1>1, <1>2, <1>6, <1>7 DEF Own, ToWorker, Searching, Before, Told, AskSubproblem
<1> QED
  BY <1>1, <1>2, <1>5, <1>6, <1>8, <1>9, <1>10, SearchingKeeps

LEMMA ListenManagerKeeps ==
  ASSUME IInv, NEW w \in Workers, ListenManager(w), UNCHANGED mode
  PROVE  IInv'
<1>1. worker[w] \in WorkerType /\ Own(w) /\ printed \subseteq {verdict} \ {None} /\ Searching(w)
  BY DEF IInv, Types, ListenManager, Searching
<1>2. UNCHANGED <<mode, toManager, listening, verdict, reported, announced, dueTo, printed>>
  BY DEF ListenManager, netVars, managerVars
<1>3. /\ worker' = [worker EXCEPT ![w] = worker'[w]]
      /\ worker'[w] = [worker[w] EXCEPT !.stopped = TRUE, !.finished = TRUE]
  BY StopTaken, <1>1 DEF IInv, Types, ListenManager
<1>4. worker'[w].got = worker[w].got
  BY <1>1, <1>3 DEF WorkerType
<1>5. NothingNew(w) /\ worker'[w].got \in Counts
  BY <1>1, <1>3, <1>4, NothingArrives DEF ListenManager, netVars, WorkerType
<1>6. /\ worker'[w] \in WorkerType
      /\ worker'[w].pc = worker[w].pc /\ worker'[w].found = worker[w].found
      /\ worker'[w].finished = TRUE /\ worker'[w].stopped = TRUE
      /\ worker'[w].stage = worker[w].stage /\ worker'[w].sent = worker[w].sent
      /\ worker'[w].display = worker[w].display /\ worker'[w].lost = worker[w].lost /\ worker'[w].got = worker[w].got
  BY <1>1, <1>3, <1>5 DEF WorkerType
<1>7. /\ toWorker'[w] = <<>> /\ verdict # None /\ ~worker[w].stopped
      /\ toWorker' = [toWorker EXCEPT ![w] = toWorker'[w]]
  BY <1>1, StopTaken DEF ListenManager
<1>8. Only(w)
  BY <1>1, <1>2, <1>3, <1>6, <1>7 DEF IInv, Types, Only
<1>9. Ended(w)' /\ Searching(w)'
  BY <1>1, <1>2, <1>6, <1>7 DEF Own, Ended, Searching, Before, ListenManager
<1>10. ToWorker(w)'
  BY <1>1, <1>2, <1>6, <1>7 DEF Own, ToWorker, Searching, Before, Told, ListenManager
<1> QED
  BY <1>1, <1>2, <1>5, <1>6, <1>8, <1>9, <1>10, SearchingKeeps

LEMMA ListenUnitKeeps ==
  ASSUME IInv, NEW w \in Workers, ListenUnit(w), UNCHANGED mode
  PROVE  IInv'
<1>1. worker[w] \in WorkerType /\ Own(w) /\ printed \subseteq {verdict} \ {None} /\ Searching(w)
  BY DEF IInv, Types, ListenUnit, Searching
<1>2. UNCHANGED <<mode, toManager, listening, verdict, reported, announced, dueTo, printed>>
  BY DEF ListenUnit, netVars, managerVars
<1>3. /\ worker' = [worker EXCEPT ![w] = worker'[w]]
      /\ worker'[w] = [worker[w] EXCEPT !.got = [worker[w].got EXCEPT !["unit"] = @ + 1]]
  BY <1>1 DEF IInv, Types, ListenUnit
<1>4. worker'[w].got = [worker[w].got EXCEPT !["unit"] = @ + 1]
  BY <1>1, <1>3 DEF WorkerType
<1>5. NothingNew(w) /\ worker'[w].got \in Counts
  BY <1>1, <1>3, <1>4, ArrivalIsOld DEF ListenUnit, Kinds, netVars
<1>6. /\ worker'[w] \in WorkerType
      /\ worker'[w].pc = worker[w].pc /\ worker'[w].found = worker[w].found
      /\ worker'[w].finished = worker[w].finished /\ worker'[w].stopped = worker[w].stopped
      /\ worker'[w].stage = worker[w].stage /\ worker'[w].sent = worker[w].sent
      /\ worker'[w].display = worker[w].display /\ worker'[w].lost = worker[w].lost /\ worker'[w].got = [worker[w].got EXCEPT !["unit"] = @ + 1]
  BY <1>1, <1>3, <1>5 DEF WorkerType
<1>7. UNCHANGED toWorker
  BY DEF ListenUnit, netVars
<1>8. Only(w)
  BY <1>1, <1>2, <1>3, <1>6, <1>7 DEF IInv, Types, Only
<1>9. Ended(w)' /\ Searching(w)'
  BY <1>1, <1>2, <1>6, <1>7 DEF Own, Ended, Searching, Before, ListenUnit
<1>10. ToWorker(w)'
  BY <1>1, <1>2, <1>6, <1>7 DEF Own, ToWorker, Searching, Before, Told, ListenUnit
<1> QED
  BY <1>1, <1>2, <1>5, <1>6, <1>8, <1>9, <1>10, SearchingKeeps

LEMMA LeaveStartKeeps ==
  ASSUME IInv, NEW w \in Workers, LeaveStart(w), UNCHANGED mode
  PROVE  IInv'
<1>1. worker[w] \in WorkerType /\ Own(w) /\ printed \subseteq {verdict} \ {None} /\ Searching(w)
  BY DEF IInv, Types, LeaveStart, Searching
<1>2. UNCHANGED <<mode, toManager, listening, verdict, reported, announced, dueTo, printed>>
  BY DEF LeaveStart, netVars, managerVars
<1>3. CASE worker[w].stopped
  <2>1. /\ worker' = [worker EXCEPT ![w] = worker'[w]]
        /\ worker'[w] = [worker[w] EXCEPT !.pc = "testUnit"]
    BY <1>3, <1>1 DEF IInv, Types, LeaveStart
  <2>2. worker'[w].got = worker[w].got
    BY <1>1, <2>1 DEF WorkerType
  <2>3. NothingNew(w) /\ worker'[w].got \in Counts
    BY <1>3, <1>1, <2>1, <2>2, NothingArrives DEF LeaveStart, netVars, WorkerType
  <2>4. /\ worker'[w] \in WorkerType
        /\ worker'[w].pc = "testUnit" /\ worker'[w].found = worker[w].found
        /\ worker'[w].finished = worker[w].finished /\ worker'[w].stopped = worker[w].stopped
        /\ worker'[w].stage = worker[w].stage /\ worker'[w].sent = worker[w].sent
        /\ worker'[w].display = worker[w].display /\ worker'[w].lost = worker[w].lost /\ worker'[w].got = worker[w].got
    BY <1>1, <2>1, <2>3 DEF WorkerType
  <2>5. UNCHANGED toWorker
    BY <1>3 DEF LeaveStart, netVars
  <2>6. Only(w)
    BY <1>1, <1>2, <2>1, <2>4, <2>5 DEF IInv, Types, Only
  <2>7. Ended(w)' /\ Searching(w)'
    BY <1>3, <1>1, <1>2, <2>4, <2>5 DEF Own, Ended, Searching, Before, LeaveStart
  <2>8. ToWorker(w)'
    BY <1>3, <1>1, <1>2, <2>4, <2>5 DEF Own, ToWorker, Searching, Before, Told, LeaveStart
  <2> QED
    BY <1>1, <1>2, <2>3, <2>4, <2>6, <2>7, <2>8, SearchingKeeps
<1>4. CASE ~worker[w].stopped
  <2>1. /\ worker' = [worker EXCEPT ![w] = worker'[w]]
        /\ worker'[w] = [worker[w] EXCEPT !.pc = "test"]
    BY <1>4, <1>1 DEF IInv, Types, LeaveStart
  <2>2. worker'[w].got = worker[w].got
    BY <1>1, <2>1 DEF WorkerType
  <2>3. NothingNew(w) /\ worker'[w].got \in Counts
    BY <1>4, <1>1, <2>1, <2>2, NothingArrives DEF LeaveStart, netVars, WorkerType
  <2>4. /\ worker'[w] \in WorkerType
        /\ worker'[w].pc = "test" /\ worker'[w].found = worker[w].found
        /\ worker'[w].finished = worker[w].finished /\ worker'[w].stopped = worker[w].stopped
        /\ worker'[w].stage = worker[w].stage /\ worker'[w].sent = worker[w].sent
        /\ worker'[w].display = worker[w].display /\ worker'[w].lost = worker[w].lost /\ worker'[w].got = worker[w].got
    BY <1>1, <2>1, <2>3 DEF WorkerType
  <2>5. UNCHANGED toWorker
    BY <1>4 DEF LeaveStart, netVars
  <2>6. Only(w)
    BY <1>1, <1>2, <2>1, <2>4, <2>5 DEF IInv, Types, Only
  <2>7. Ended(w)' /\ Searching(w)'
    BY <1>4, <1>1, <1>2, <2>4, <2>5 DEF Own, Ended, Searching, Before, LeaveStart
  <2>8. ToWorker(w)'
    BY <1>4, <1>1, <1>2, <2>4, <2>5 DEF Own, ToWorker, Searching, Before, Told, LeaveStart
  <2> QED
    BY <1>1, <1>2, <2>3, <2>4, <2>6, <2>7, <2>8, SearchingKeeps
<1> QED
  BY <1>1, <1>2, <1>3, <1>4 DEF LeaveStart

LEMMA TestManagerKeeps ==
  ASSUME IInv, NEW w \in Workers, TestManager(w), UNCHANGED mode
  PROVE  IInv'
<1>1. worker[w] \in WorkerType /\ Own(w) /\ printed \subseteq {verdict} \ {None} /\ Searching(w)
  BY DEF IInv, Types, TestManager, Searching
<1>2. UNCHANGED <<mode, toManager, listening, verdict, reported, announced, dueTo, printed>>
  BY DEF TestManager, netVars, managerVars
<1>3. CASE Take(w) /\ worker' = [worker EXCEPT ![w].stopped = (Answer(w).tag = "STOP_AND_KILL"), ![w].pc = "testUnit"]
  <2>1. /\ worker' = [worker EXCEPT ![w] = worker'[w]]
        /\ worker'[w] = [worker[w] EXCEPT !.stopped = TRUE, !.pc = "testUnit"]
    BY <1>3, StopTaken, <1>1 DEF IInv, Types, TestManager
  <2>2. worker'[w].got = worker[w].got
    BY <1>1, <2>1 DEF WorkerType
  <2>3. NothingNew(w) /\ worker'[w].got \in Counts
    BY <1>3, <1>1, <2>1, <2>2, NothingArrives DEF TestManager, netVars, WorkerType
  <2>4. /\ worker'[w] \in WorkerType
        /\ worker'[w].pc = "testUnit" /\ worker'[w].found = worker[w].found
        /\ worker'[w].finished = worker[w].finished /\ worker'[w].stopped = TRUE
        /\ worker'[w].stage = worker[w].stage /\ worker'[w].sent = worker[w].sent
        /\ worker'[w].display = worker[w].display /\ worker'[w].lost = worker[w].lost /\ worker'[w].got = worker[w].got
    BY <1>1, <2>1, <2>3 DEF WorkerType
  <2>5. /\ toWorker'[w] = <<>> /\ verdict # None /\ ~worker[w].stopped
        /\ toWorker' = [toWorker EXCEPT ![w] = toWorker'[w]]
    BY <1>3, <1>1, StopTaken DEF TestManager
  <2>6. Only(w)
    BY <1>1, <1>2, <2>1, <2>4, <2>5 DEF IInv, Types, Only
  <2>7. Ended(w)' /\ Searching(w)'
    BY <1>3, <1>1, <1>2, <2>4, <2>5 DEF Own, Ended, Searching, Before, TestManager
  <2>8. ToWorker(w)'
    BY <1>3, <1>1, <1>2, <2>4, <2>5 DEF Own, ToWorker, Searching, Before, Told, TestManager
  <2> QED
    BY <1>1, <1>2, <2>3, <2>4, <2>6, <2>7, <2>8, SearchingKeeps
<1>4. CASE worker' = [worker EXCEPT ![w].pc = "cancel"] /\ UNCHANGED toWorker
  <2>1. /\ worker' = [worker EXCEPT ![w] = worker'[w]]
        /\ worker'[w] = [worker[w] EXCEPT !.pc = "cancel"]
    BY <1>4, StopTaken, <1>1 DEF IInv, Types, TestManager
  <2>2. worker'[w].got = worker[w].got
    BY <1>1, <2>1 DEF WorkerType
  <2>3. NothingNew(w) /\ worker'[w].got \in Counts
    BY <1>4, <1>1, <2>1, <2>2, NothingArrives DEF TestManager, netVars, WorkerType
  <2>4. /\ worker'[w] \in WorkerType
        /\ worker'[w].pc = "cancel" /\ worker'[w].found = worker[w].found
        /\ worker'[w].finished = worker[w].finished /\ worker'[w].stopped = worker[w].stopped
        /\ worker'[w].stage = worker[w].stage /\ worker'[w].sent = worker[w].sent
        /\ worker'[w].display = worker[w].display /\ worker'[w].lost = worker[w].lost /\ worker'[w].got = worker[w].got
    BY <1>1, <2>1, <2>3 DEF WorkerType
  <2>5. UNCHANGED toWorker
    BY <1>4 DEF TestManager, netVars
  <2>6. Only(w)
    BY <1>1, <1>2, <2>1, <2>4, <2>5 DEF IInv, Types, Only
  <2>7. Ended(w)' /\ Searching(w)'
    BY <1>4, <1>1, <1>2, <2>4, <2>5 DEF Own, Ended, Searching, Before, TestManager
  <2>8. ToWorker(w)'
    BY <1>4, <1>1, <1>2, <2>4, <2>5 DEF Own, ToWorker, Searching, Before, Told, TestManager
  <2> QED
    BY <1>1, <1>2, <2>3, <2>4, <2>6, <2>7, <2>8, SearchingKeeps
<1> QED
  BY <1>1, <1>2, <1>3, <1>4 DEF TestManager

LEMMA CancelManagerKeeps ==
  ASSUME IInv, NEW w \in Workers, CancelManager(w), UNCHANGED mode
  PROVE  IInv'
<1>1. worker[w] \in WorkerType /\ Own(w) /\ printed \subseteq {verdict} \ {None} /\ Searching(w)
  BY DEF IInv, Types, CancelManager, Searching
<1>2. UNCHANGED <<mode, toManager, listening, verdict, reported, announced, dueTo, printed>>
  BY DEF CancelManager, netVars, managerVars
<1>3. CASE Take(w) /\ worker' = [worker EXCEPT ![w].pc = "testUnit", ![w].lost = @ \cup {"order"}]
  <2>1. /\ worker' = [worker EXCEPT ![w] = worker'[w]]
        /\ worker'[w] = [worker[w] EXCEPT !.pc = "testUnit", !.lost = @ \cup {"order"}]
    BY <1>3, <1>1 DEF IInv, Types, CancelManager
  <2>2. worker'[w].got = worker[w].got
    BY <1>1, <2>1 DEF WorkerType
  <2>3. NothingNew(w) /\ worker'[w].got \in Counts
    BY <1>3, <1>1, <2>1, <2>2, NothingArrives DEF CancelManager, netVars, WorkerType
  <2>4. /\ worker'[w] \in WorkerType
        /\ worker'[w].pc = "testUnit" /\ worker'[w].found = worker[w].found
        /\ worker'[w].finished = worker[w].finished /\ worker'[w].stopped = worker[w].stopped
        /\ worker'[w].stage = worker[w].stage /\ worker'[w].sent = worker[w].sent
        /\ worker'[w].display = worker[w].display /\ worker'[w].lost = worker[w].lost \cup {"order"} /\ worker'[w].got = worker[w].got
    <3>1. worker[w].lost \cup {"order"} \in SUBSET {"order", "unit"}
      BY <1>1 DEF WorkerType
    <3>2. worker'[w] = [worker[w] EXCEPT !.pc = "testUnit", !.lost = worker[w].lost \cup {"order"}]
      BY <2>1
    <3> QED
      BY <1>1, <2>3, <3>1, <3>2 DEF WorkerType
  <2>5. /\ toWorker'[w] = <<>> /\ verdict # None /\ ~worker[w].stopped
        /\ toWorker' = [toWorker EXCEPT ![w] = toWorker'[w]]
    BY <1>3, <1>1, StopTaken DEF CancelManager
  <2>6. Only(w)
    BY <1>1, <1>2, <2>1, <2>4, <2>5 DEF IInv, Types, Only
  <2>7. Ended(w)' /\ Searching(w)'
    BY <1>3, <1>1, <1>2, <2>4, <2>5 DEF Own, Ended, Searching, Before, CancelManager
  <2>8. ToWorker(w)'
    BY <1>3, <1>1, <1>2, <2>4, <2>5 DEF Own, ToWorker, Searching, Before, Told, CancelManager
  <2> QED
    BY <1>1, <1>2, <2>3, <2>4, <2>6, <2>7, <2>8, SearchingKeeps
<1>4. CASE worker' = [worker EXCEPT ![w].pc = "testUnit"] /\ UNCHANGED toWorker
  <2>1. /\ worker' = [worker EXCEPT ![w] = worker'[w]]
        /\ worker'[w] = [worker[w] EXCEPT !.pc = "testUnit"]
    BY <1>4, <1>1 DEF IInv, Types, CancelManager
  <2>2. worker'[w].got = worker[w].got
    BY <1>1, <2>1 DEF WorkerType
  <2>3. NothingNew(w) /\ worker'[w].got \in Counts
    BY <1>4, <1>1, <2>1, <2>2, NothingArrives DEF CancelManager, netVars, WorkerType
  <2>4. /\ worker'[w] \in WorkerType
        /\ worker'[w].pc = "testUnit" /\ worker'[w].found = worker[w].found
        /\ worker'[w].finished = worker[w].finished /\ worker'[w].stopped = worker[w].stopped
        /\ worker'[w].stage = worker[w].stage /\ worker'[w].sent = worker[w].sent
        /\ worker'[w].display = worker[w].display /\ worker'[w].lost = worker[w].lost /\ worker'[w].got = worker[w].got
    BY <1>1, <2>1, <2>3 DEF WorkerType
  <2>5. UNCHANGED toWorker
    BY <1>4 DEF CancelManager, netVars
  <2>6. Only(w)
    BY <1>1, <1>2, <2>1, <2>4, <2>5 DEF IInv, Types, Only
  <2>7. Ended(w)' /\ Searching(w)'
    BY <1>4, <1>1, <1>2, <2>4, <2>5 DEF Own, Ended, Searching, Before, CancelManager
  <2>8. ToWorker(w)'
    BY <1>4, <1>1, <1>2, <2>4, <2>5 DEF Own, ToWorker, Searching, Before, Told, CancelManager
  <2> QED
    BY <1>1, <1>2, <2>3, <2>4, <2>6, <2>7, <2>8, SearchingKeeps
<1> QED
  BY <1>1, <1>2, <1>3, <1>4 DEF CancelManager

LEMMA TestUnitKeeps ==
  ASSUME IInv, NEW w \in Workers, TestUnit(w), UNCHANGED mode
  PROVE  IInv'
<1>1. worker[w] \in WorkerType /\ Own(w) /\ printed \subseteq {verdict} \ {None} /\ Searching(w)
  BY DEF IInv, Types, TestUnit, Searching
<1>2. UNCHANGED <<mode, toManager, listening, verdict, reported, announced, dueTo, printed>>
  BY DEF TestUnit, netVars, managerVars
<1>3. CASE Arrives(w, "unit") /\ worker' = [worker EXCEPT ![w].got["unit"] = @ + 1, ![w].pc = "join"]
  <2>1. /\ worker' = [worker EXCEPT ![w] = worker'[w]]
        /\ worker'[w] = [worker[w] EXCEPT !.got = [worker[w].got EXCEPT !["unit"] = @ + 1], !.pc = "join"]
    BY <1>3, <1>1 DEF IInv, Types, TestUnit
  <2>2. worker'[w].got = [worker[w].got EXCEPT !["unit"] = @ + 1]
    BY <1>1, <2>1 DEF WorkerType
  <2>3. NothingNew(w) /\ worker'[w].got \in Counts
    BY <1>3, <1>1, <2>1, <2>2, ArrivalIsOld DEF TestUnit, Kinds, netVars
  <2>4. /\ worker'[w] \in WorkerType
        /\ worker'[w].pc = "join" /\ worker'[w].found = worker[w].found
        /\ worker'[w].finished = worker[w].finished /\ worker'[w].stopped = worker[w].stopped
        /\ worker'[w].stage = worker[w].stage /\ worker'[w].sent = worker[w].sent
        /\ worker'[w].display = worker[w].display /\ worker'[w].lost = worker[w].lost /\ worker'[w].got = [worker[w].got EXCEPT !["unit"] = @ + 1]
    BY <1>1, <2>1, <2>3 DEF WorkerType
  <2>5. UNCHANGED toWorker
    BY <1>3 DEF TestUnit, netVars
  <2>6. Only(w)
    BY <1>1, <1>2, <2>1, <2>4, <2>5 DEF IInv, Types, Only
  <2>7. Ended(w)' /\ Searching(w)'
    BY <1>3, <1>1, <1>2, <2>4, <2>5 DEF Own, Ended, Searching, Before, TestUnit
  <2>8. ToWorker(w)'
    BY <1>3, <1>1, <1>2, <2>4, <2>5 DEF Own, ToWorker, Searching, Before, Told, TestUnit
  <2> QED
    BY <1>1, <1>2, <2>3, <2>4, <2>6, <2>7, <2>8, SearchingKeeps
<1>4. CASE worker' = [worker EXCEPT ![w].pc = "cancelUnit"] /\ UNCHANGED inFlight
  <2>1. /\ worker' = [worker EXCEPT ![w] = worker'[w]]
        /\ worker'[w] = [worker[w] EXCEPT !.pc = "cancelUnit"]
    BY <1>4, <1>1 DEF IInv, Types, TestUnit
  <2>2. worker'[w].got = worker[w].got
    BY <1>1, <2>1 DEF WorkerType
  <2>3. NothingNew(w) /\ worker'[w].got \in Counts
    BY <1>4, <1>1, <2>1, <2>2, NothingArrives DEF TestUnit, netVars, WorkerType
  <2>4. /\ worker'[w] \in WorkerType
        /\ worker'[w].pc = "cancelUnit" /\ worker'[w].found = worker[w].found
        /\ worker'[w].finished = worker[w].finished /\ worker'[w].stopped = worker[w].stopped
        /\ worker'[w].stage = worker[w].stage /\ worker'[w].sent = worker[w].sent
        /\ worker'[w].display = worker[w].display /\ worker'[w].lost = worker[w].lost /\ worker'[w].got = worker[w].got
    BY <1>1, <2>1, <2>3 DEF WorkerType
  <2>5. UNCHANGED toWorker
    BY <1>4 DEF TestUnit, netVars
  <2>6. Only(w)
    BY <1>1, <1>2, <2>1, <2>4, <2>5 DEF IInv, Types, Only
  <2>7. Ended(w)' /\ Searching(w)'
    BY <1>4, <1>1, <1>2, <2>4, <2>5 DEF Own, Ended, Searching, Before, TestUnit
  <2>8. ToWorker(w)'
    BY <1>4, <1>1, <1>2, <2>4, <2>5 DEF Own, ToWorker, Searching, Before, Told, TestUnit
  <2> QED
    BY <1>1, <1>2, <2>3, <2>4, <2>6, <2>7, <2>8, SearchingKeeps
<1> QED
  BY <1>1, <1>2, <1>3, <1>4 DEF TestUnit

LEMMA CancelUnitKeeps ==
  ASSUME IInv, NEW w \in Workers, CancelUnit(w), UNCHANGED mode
  PROVE  IInv'
<1>1. worker[w] \in WorkerType /\ Own(w) /\ printed \subseteq {verdict} \ {None} /\ Searching(w)
  BY DEF IInv, Types, CancelUnit, Searching
<1>2. UNCHANGED <<mode, toManager, listening, verdict, reported, announced, dueTo, printed>>
  BY DEF CancelUnit, netVars, managerVars
<1>3. CASE Arrives(w, "unit") /\ worker' = [worker EXCEPT ![w].pc = "join", ![w].lost = @ \cup {"unit"}]
  <2>1. /\ worker' = [worker EXCEPT ![w] = worker'[w]]
        /\ worker'[w] = [worker[w] EXCEPT !.pc = "join", !.lost = @ \cup {"unit"}]
    BY <1>3, <1>1 DEF IInv, Types, CancelUnit
  <2>2. worker'[w].got = worker[w].got
    BY <1>1, <2>1 DEF WorkerType
  <2>3. NothingNew(w) /\ worker'[w].got \in Counts
    BY <1>3, <1>1, <2>1, <2>2, ArrivalIsOld DEF CancelUnit, Kinds, netVars
  <2>4. /\ worker'[w] \in WorkerType
        /\ worker'[w].pc = "join" /\ worker'[w].found = worker[w].found
        /\ worker'[w].finished = worker[w].finished /\ worker'[w].stopped = worker[w].stopped
        /\ worker'[w].stage = worker[w].stage /\ worker'[w].sent = worker[w].sent
        /\ worker'[w].display = worker[w].display /\ worker'[w].lost = worker[w].lost \cup {"unit"} /\ worker'[w].got = worker[w].got
    <3>1. worker[w].lost \cup {"unit"} \in SUBSET {"order", "unit"}
      BY <1>1 DEF WorkerType
    <3>2. worker'[w] = [worker[w] EXCEPT !.pc = "join", !.lost = worker[w].lost \cup {"unit"}]
      BY <2>1
    <3> QED
      BY <1>1, <2>3, <3>1, <3>2 DEF WorkerType
  <2>5. UNCHANGED toWorker
    BY <1>3 DEF CancelUnit, netVars
  <2>6. Only(w)
    BY <1>1, <1>2, <2>1, <2>4, <2>5 DEF IInv, Types, Only
  <2>7. Ended(w)' /\ Searching(w)'
    BY <1>3, <1>1, <1>2, <2>4, <2>5 DEF Own, Ended, Searching, Before, CancelUnit
  <2>8. ToWorker(w)'
    BY <1>3, <1>1, <1>2, <2>4, <2>5 DEF Own, ToWorker, Searching, Before, Told, CancelUnit
  <2> QED
    BY <1>1, <1>2, <2>3, <2>4, <2>6, <2>7, <2>8, SearchingKeeps
<1>4. CASE worker' = [worker EXCEPT ![w].pc = "join"] /\ UNCHANGED inFlight
  <2>1. /\ worker' = [worker EXCEPT ![w] = worker'[w]]
        /\ worker'[w] = [worker[w] EXCEPT !.pc = "join"]
    BY <1>4, <1>1 DEF IInv, Types, CancelUnit
  <2>2. worker'[w].got = worker[w].got
    BY <1>1, <2>1 DEF WorkerType
  <2>3. NothingNew(w) /\ worker'[w].got \in Counts
    BY <1>4, <1>1, <2>1, <2>2, NothingArrives DEF CancelUnit, netVars, WorkerType
  <2>4. /\ worker'[w] \in WorkerType
        /\ worker'[w].pc = "join" /\ worker'[w].found = worker[w].found
        /\ worker'[w].finished = worker[w].finished /\ worker'[w].stopped = worker[w].stopped
        /\ worker'[w].stage = worker[w].stage /\ worker'[w].sent = worker[w].sent
        /\ worker'[w].display = worker[w].display /\ worker'[w].lost = worker[w].lost /\ worker'[w].got = worker[w].got
    BY <1>1, <2>1, <2>3 DEF WorkerType
  <2>5. UNCHANGED toWorker
    BY <1>4 DEF CancelUnit, netVars
  <2>6. Only(w)
    BY <1>1, <1>2, <2>1, <2>4, <2>5 DEF IInv, Types, Only
  <2>7. Ended(w)' /\ Searching(w)'
    BY <1>4, <1>1, <1>2, <2>4, <2>5 DEF Own, Ended, Searching, Before, CancelUnit
  <2>8. ToWorker(w)'
    BY <1>4, <1>1, <1>2, <2>4, <2>5 DEF Own, ToWorker, Searching, Before, Told, CancelUnit
  <2> QED
    BY <1>1, <1>2, <2>3, <2>4, <2>6, <2>7, <2>8, SearchingKeeps
<1> QED
  BY <1>1, <1>2, <1>3, <1>4 DEF CancelUnit

-----------------------------------------------------------------------------
(* The manager has heard of all of them, or of fewer than there are.       *)
LEMMA AllHeard ==
  ASSUME NEW S \in SUBSET Workers
  PROVE  /\ IsFiniteSet(S) /\ Cardinality(S) \in 0..N
         /\ Cardinality(S) = N <=> S = Workers
<1>1. IsFiniteSet(S) /\ Cardinality(S) <= N /\ (N = Cardinality(S) => Workers = S)
  BY SetAssumption, FS_Subset DEF N
<1>2. Cardinality(S) \in Nat
  BY <1>1, FS_CardinalityType
<1> QED
  BY <1>1, <1>2, CountOfWorkers DEF N

(* What a worker reads from the manager's counters.                        *)
LEMMA CountersTell ==
  ASSUME IInv, NEW w \in Workers
  PROVE  /\ w \notin Heard => reported # N
         /\ reported = N => w \in Heard /\ verdict # None
         /\ \A kind \in Kinds :
              /\ w \notin HeardCount(kind) => announced[kind] # N
              /\ announced[kind] = N => HeardCount(kind) = Workers
<1>1. Heard \in SUBSET Workers /\ \A kind \in Kinds : HeardCount(kind) \in SUBSET Workers
  BY DEF Heard, HeardCount
<1>2. reported = Cardinality(Heard) /\ \A kind \in Kinds : announced[kind] = Cardinality(HeardCount(kind))
  BY DEF IInv, ManagerCounts
<1>3. N > 0
  BY AllHeard, FS_EmptySet, CountOfWorkers
<1> QED
  BY <1>1, <1>2, <1>3, AllHeard DEF IInv, ManagerCounts

(* The order to stop, and the answer behind it.                            *)
LEMMA TwoMessages ==
  ASSUME NEW a, NEW b
  PROVE  <<a>> \o <<b>> = <<a, b>> /\ Head(<<a, b>>) = a /\ Tail(<<a, b>>) = <<b>>
<1>1. a \in {a, b} /\ b \in {a, b} /\ <<a>> \in Seq({a, b})
  OBVIOUS
<1>2. Append(<<a>>, b) = <<a>> \o <<b>>
  BY <1>1, AppendIsConcat
<1>3. Append(<<a>>, b) = <<a, b>>
  <2>1. /\ Append(<<a>>, b) \in Seq({a, b}) /\ Len(Append(<<a>>, b)) = 2
        /\ Append(<<a>>, b)[1] = a /\ Append(<<a>>, b)[2] = b
    BY <1>1, AppendProperties
  <2>2. <<a, b>> \in Seq({a, b}) /\ Len(<<a, b>>) = 2 /\ <<a, b>>[1] = a /\ <<a, b>>[2] = b
    OBVIOUS
  <2>3. Append(<<a>>, b) \in [1..2 -> {a, b}] /\ <<a, b>> \in [1..2 -> {a, b}]
    BY <2>1, <2>2, LenProperties
  <2>4. \A i \in 1..2 : Append(<<a>>, b)[i] = <<a, b>>[i]
    BY <2>1, <2>2
  <2>5. \A f, g \in [1..2 -> {a, b}] : (\A i \in 1..2 : f[i] = g[i]) => f = g
    OBVIOUS
  <2> QED
    BY <2>3, <2>4, <2>5, Zenon
<1>4. Head(<<a, b>>) = a /\ Tail(<<a, b>>) = <<b>>
  OBVIOUS
<1> QED
  BY <1>2, <1>3, <1>4

LEMMA FirstOfTwo ==
  ASSUME NEW a, NEW s, s = <<>> \/ \E m : s = <<m>>
  PROVE  Head(<<a>> \o s) = a /\ Tail(<<a>> \o s) = s
<1>1. CASE s = <<>>
  <2>1. <<a>> \o s = <<a>>
    BY <1>1
  <2> QED
    BY <1>1, <2>1
<1>2. CASE \E m : s = <<m>>
  BY <1>2, TwoMessages
<1> QED
  BY <1>1, <1>2

(* A worker that has received as many as are due has left none behind.     *)
LEMMA CompleteIsAll ==
  ASSUME IInv, NEW w \in Workers, NEW kind \in Kinds, Counted(w, kind), Complete(w, kind)
  PROVE  NothingDue(w, kind)
<1>1. announced[kind] = N /\ worker[w].due[kind] = dueTo[w][kind]
  BY DEF IInv, Own, Staged
<1>2. HeardCount(kind) = Workers
  BY <1>1, CountersTell
<1>3. PICK c : c = Cardinality(Exports(Workers \ {w}, kind))
  OBVIOUS
<1>4. dueTo[w][kind] = c
  BY <1>2, <1>3 DEF IInv, ManagerCounts
<1>5. worker[w].got[kind] + inFlight[w][kind] <= c
  BY <1>3 DEF IInv, ArrivesOnce
<1>6. worker[w].got[kind] \in Nat /\ inFlight[w][kind] \in Nat /\ dueTo[w][kind] \in Nat
  <2>1. worker[w].got \in Counts /\ inFlight[w] \in Counts /\ dueTo[w] \in Counts
    BY DEF IInv, Types, WorkerType
  <2> QED
    BY <2>1 DEF Counts
<1>7. worker[w].got[kind] >= c
  BY <1>1, <1>4 DEF Complete
<1>8. inFlight[w][kind] = 0
  BY <1>4, <1>5, <1>6, <1>7
<1>9. \A x \in Workers : ~Searching(x)
  <2>1. \A x \in Workers : Announced(x, kind) /\ Own(x)
    BY <1>2 DEF HeardCount, IInv
  <2> QED
    BY <2>1 DEF Announced, Searching, Own, Staged, Counting
<1> QED
  BY <1>8, <1>9 DEF NothingDue

(* Nothing more is due of clauses that nobody exports.                     *)
LEMMA NoClauses ==
  ASSUME IInv, ~Fully, NEW w \in Workers
  PROVE  inFlight[w]["clause"] = 0
<1>1. \A x \in Workers : 1..worker[x].sent["clause"] = {}
  BY DEF IInv, Own, Staged
<1>2. Exports(Workers \ {w}, "clause") = {}
  <2>1. \A x \in Workers : {x} \X (1..worker[x].sent["clause"]) = {}
    BY <1>1
  <2> QED
    BY <2>1 DEF Exports
<1>3. worker[w].got["clause"] + inFlight[w]["clause"] <= 0
  BY <1>2, FS_EmptySet DEF IInv, ArrivesOnce, Kinds
<1>4. worker[w].got["clause"] \in Nat /\ inFlight[w]["clause"] \in Nat
  <2>1. worker[w].got \in Counts /\ inFlight[w] \in Counts
    BY DEF IInv, Types, WorkerType
  <2> QED
    BY <2>1 DEF Counts, Kinds
<1> QED
  BY <1>3, <1>4

(* The main thread after its search.                                       *)
LEMMA StopThreadKeeps ==
  ASSUME IInv, NEW w \in Workers, StopThread(w), UNCHANGED mode
  PROVE  IInv'
<1>1. worker[w] \in WorkerType /\ Own(w) /\ printed \subseteq {verdict} \ {None}
  BY DEF IInv, Types
<1>2. UNCHANGED <<mode, listening, verdict, reported, announced, dueTo, toManager, toWorker, printed>>
  BY DEF StopThread, netVars, managerVars, Take, Arrives
<1>3. /\ worker' = [worker EXCEPT ![w] = worker'[w]]
      /\ worker'[w] = [worker[w] EXCEPT !.pc = "joinThread"]
  BY <1>1 DEF IInv, Types, StopThread
<1>4. worker'[w].got = worker[w].got
  BY <1>1, <1>3 DEF WorkerType
<1>5. NothingNew(w) /\ worker'[w].got \in Counts
  BY <1>1, <1>3, <1>4, NothingArrives DEF StopThread, netVars, WorkerType
<1>6. /\ worker'[w] \in WorkerType
      /\ worker'[w].pc = "joinThread" /\ worker'[w].found = worker[w].found
      /\ worker'[w].finished = worker[w].finished /\ worker'[w].stopped = worker[w].stopped
      /\ worker'[w].stage = worker[w].stage /\ worker'[w].sent = worker[w].sent
      /\ worker'[w].display = worker[w].display /\ worker'[w].lost = worker[w].lost /\ worker'[w].got = worker[w].got
      /\ worker'[w].due = worker[w].due
  BY <1>1, <1>3, <1>5 DEF WorkerType
<1>7. Only(w)
  BY <1>1, <1>2, <1>3, <1>6 DEF IInv, Types, Only
<1>8. Ended(w)'
  BY <1>1, <1>2, <1>6 DEF StopThread, Own, Ended, Before
<1>9. Staged(w)'
  BY <1>1, <1>2, <1>6 DEF StopThread, Own, Staged, Told, Counted, Counting, Before, Fully
<1>10. ToManager(w)'
  BY <1>1, <1>2, <1>6 DEF StopThread, Own, ToManager, Before
<1>11. ToWorker(w)'
  BY <1>1, <1>2, <1>6 DEF StopThread, Own, ToWorker, AnswerTo, CountTo, Told, Before
<1>12. LastHeard(w)'
  BY <1>1, <1>2, <1>6 DEF StopThread, Own, LastHeard, Staged, Told, Counting, Before, Fully
<1>13. Quiet(w)
  BY <1>1, <1>2, <1>6 DEF StopThread, Own, Quiet, Searching, Heard, HeardCount, Reported, Told, Announced, Counted, Counting, Before, Kinds
<1>14. \A kind \in Kinds : Passed(w, kind)' => Passed(w, kind) \/ NothingDue(w, kind)
  BY <1>1, <1>2, <1>6 DEF StopThread, Own, Passed, Kinds
<1> QED
  BY <1>7, <1>5, <1>8, <1>9, <1>10, <1>11, <1>12, <1>13, <1>14, OnlyKeeps DEF Own

LEMMA JoinThreadKeeps ==
  ASSUME IInv, NEW w \in Workers, JoinThread(w), UNCHANGED mode
  PROVE  IInv'
<1>1. worker[w] \in WorkerType /\ Own(w) /\ printed \subseteq {verdict} \ {None}
  BY DEF IInv, Types
<1>2. UNCHANGED <<mode, listening, verdict, reported, announced, dueTo, toManager, toWorker, printed>>
  BY DEF JoinThread, netVars, managerVars, Take, Arrives
<1>3. /\ worker' = [worker EXCEPT ![w] = worker'[w]]
      /\ worker'[w] = [worker[w] EXCEPT !.pc = "announce"]
  BY <1>1 DEF IInv, Types, JoinThread
<1>4. worker'[w].got = worker[w].got
  BY <1>1, <1>3 DEF WorkerType
<1>5. NothingNew(w) /\ worker'[w].got \in Counts
  BY <1>1, <1>3, <1>4, NothingArrives DEF JoinThread, netVars, WorkerType
<1>6. /\ worker'[w] \in WorkerType
      /\ worker'[w].pc = "announce" /\ worker'[w].found = worker[w].found
      /\ worker'[w].finished = worker[w].finished /\ worker'[w].stopped = worker[w].stopped
      /\ worker'[w].stage = worker[w].stage /\ worker'[w].sent = worker[w].sent
      /\ worker'[w].display = worker[w].display /\ worker'[w].lost = worker[w].lost /\ worker'[w].got = worker[w].got
      /\ worker'[w].due = worker[w].due
  BY <1>1, <1>3, <1>5 DEF WorkerType
<1>7. Only(w)
  BY <1>1, <1>2, <1>3, <1>6 DEF IInv, Types, Only
<1>8. Ended(w)'
  BY <1>1, <1>2, <1>6 DEF JoinThread, Own, Ended, Before
<1>9. Staged(w)'
  BY <1>1, <1>2, <1>6 DEF JoinThread, Own, Staged, Told, Counted, Counting, Before, Fully
<1>10. ToManager(w)'
  BY <1>1, <1>2, <1>6 DEF JoinThread, Own, ToManager, Before
<1>11. ToWorker(w)'
  BY <1>1, <1>2, <1>6 DEF JoinThread, Own, ToWorker, AnswerTo, CountTo, Told, Before
<1>12. LastHeard(w)'
  BY <1>1, <1>2, <1>6 DEF JoinThread, Own, LastHeard, Staged, Told, Counting, Before, Fully
<1>13. Quiet(w)
  BY <1>1, <1>2, <1>6 DEF JoinThread, Own, Quiet, Searching, Heard, HeardCount, Reported, Told, Announced, Counted, Counting, Before, Kinds
<1>14. \A kind \in Kinds : Passed(w, kind)' => Passed(w, kind) \/ NothingDue(w, kind)
  BY <1>1, <1>2, <1>6 DEF JoinThread, Own, Passed, Kinds
<1> QED
  BY <1>7, <1>5, <1>8, <1>9, <1>10, <1>11, <1>12, <1>13, <1>14, OnlyKeeps DEF Own

LEMMA ReportKeeps ==
  ASSUME IInv, NEW w \in Workers, Report(w), UNCHANGED mode
  PROVE  IInv'
<1>1. worker[w] \in WorkerType /\ Own(w) /\ printed \subseteq {verdict} \ {None}
  BY DEF IInv, Types
<1>2. UNCHANGED <<mode, listening, verdict, reported, announced, dueTo, toWorker, printed>>
  BY DEF Report, netVars, managerVars, Take, Arrives
<1>3. ~Told(w) /\ w \notin Heard /\ reported # N /\ worker[w].stage = "unit" /\ listening
  BY <1>1, CountersTell DEF Report, Told, Heard, Reported, Before, Own, Staged, LastHeard, Counting, WorkerType, Kinds
<1>4. /\ worker' = [worker EXCEPT ![w] = worker'[w]]
      /\ worker'[w] = [worker[w] EXCEPT !.pc = AfterReport(w)]
  BY <1>1, <1>3 DEF IInv, Types, Report
<1>5. worker'[w].got = worker[w].got
  BY <1>1, <1>4 DEF WorkerType
<1>6. NothingNew(w) /\ worker'[w].got \in Counts
  BY <1>1, <1>4, <1>5, NothingArrives DEF Report, netVars, WorkerType
<1>7. /\ worker'[w] \in WorkerType
      /\ worker'[w].pc = AfterReport(w) /\ worker'[w].found = worker[w].found
      /\ worker'[w].finished = worker[w].finished /\ worker'[w].stopped = worker[w].stopped
      /\ worker'[w].stage = worker[w].stage /\ worker'[w].sent = worker[w].sent
      /\ worker'[w].display = worker[w].display /\ worker'[w].lost = worker[w].lost /\ worker'[w].got = worker[w].got
      /\ worker'[w].due = worker[w].due
  BY <1>1, <1>4, <1>6 DEF WorkerType, AfterReport
<1>8. /\ toManager' = [toManager EXCEPT ![w] = toManager'[w]]
      /\ toManager'[w] = <<Message("SOLUTION_FOUND", worker[w].found)>>
  <2>1. toManager[w] = <<>>
    BY <1>1 DEF Report, Own, ToManager
  <2> QED
    BY <2>1 DEF Report, Send, IInv, Types
<1>9. Only(w)
  BY <1>1, <1>2, <1>4, <1>7, <1>8 DEF IInv, Types, Only
<1>10. Ended(w)'
  BY <1>1, <1>2, <1>7, <1>3, <1>8 DEF Report, Own, Ended, Before, AfterReport, CountTo
<1>11. Staged(w)'
  BY <1>1, <1>2, <1>7, <1>3, <1>8 DEF Report, Own, Staged, Told, Counted, Counting, Before, Fully, AfterReport, CountTo
<1>12. ToManager(w)'
  BY <1>1, <1>2, <1>7, <1>3, <1>8 DEF Report, Own, ToManager, Before, AfterReport, CountTo
<1>13. ToWorker(w)'
  BY <1>1, <1>2, <1>7, <1>3, <1>8 DEF Report, Own, ToWorker, AnswerTo, CountTo, Told, Before, AfterReport, CountTo
<1>14. LastHeard(w)'
  BY <1>1, <1>2, <1>7, <1>3, <1>8 DEF Report, Own, LastHeard, Staged, Told, Counting, Before, Fully, AfterReport, CountTo
<1>15. Quiet(w)
  BY <1>1, <1>2, <1>7, <1>3, <1>8 DEF Report, Own, Quiet, Searching, Heard, HeardCount, Reported, Told, Announced, Counted, Counting, Before, Kinds, AfterReport, CountTo
<1>16. \A kind \in Kinds : Passed(w, kind)' => Passed(w, kind) \/ NothingDue(w, kind)
  BY <1>1, <1>2, <1>7, <1>3, <1>8 DEF Report, Own, Passed, Kinds, AfterReport, CountTo
<1> QED
  BY <1>9, <1>6, <1>10, <1>11, <1>12, <1>13, <1>14, <1>15, <1>16, OnlyKeeps DEF Own

LEMMA ReceiveStopKeeps ==
  ASSUME IInv, NEW w \in Workers, ReceiveStop(w), UNCHANGED mode
  PROVE  IInv'
<1>1. worker[w] \in WorkerType /\ Own(w) /\ printed \subseteq {verdict} \ {None}
  BY DEF IInv, Types
<1>2. UNCHANGED <<mode, listening, verdict, reported, announced, dueTo, toManager, printed>>
  BY DEF ReceiveStop, netVars, managerVars, Take, Arrives
<1>3. /\ Answer(w).tag \in {"STOP_AND_KILL", "PRINT_SOLUTION", "SOLUTION_IND"}
      /\ verdict # None /\ toWorker' = [toWorker EXCEPT ![w] = toWorker'[w]]
      /\ \/ toWorker'[w] = AnswerTo(w)
         \/ toWorker'[w] = <<>> /\ "order" \in worker[w].lost /\ reported = N
  <2>1. /\ worker[w].pc = "stop" /\ ~worker[w].stopped /\ toWorker[w] # <<>>
        /\ toWorker' = [toWorker EXCEPT ![w] = Tail(toWorker[w])] /\ toWorker'[w] = Tail(toWorker[w])
    BY <1>1 DEF ReceiveStop, Take, Answered, Own, Ended, IInv, Types
  <2>2. CASE toWorker[w] = <<StopMessage>> \o AnswerTo(w) /\ verdict # None
    <3>1. AnswerTo(w) = <<>> \/ \E m : AnswerTo(w) = <<m>>
      BY DEF AnswerTo
    <3>2. Head(toWorker[w]) = StopMessage /\ Tail(toWorker[w]) = AnswerTo(w)
      BY <2>2, <3>1, FirstOfTwo
    <3>3. Answer(w).tag = "STOP_AND_KILL"
      BY <3>2 DEF Answer, StopMessage, Message
    <3> QED
      BY <2>1, <2>2, <3>2, <3>3
  <2>3. CASE toWorker[w] = AnswerTo(w) /\ (verdict # None => "order" \in worker[w].lost)
    <3>1. reported = N /\ verdict # None
      BY <2>1, <2>3, CountersTell DEF AnswerTo
    <3>2. /\ Head(toWorker[w]) \in {Message("PRINT_SOLUTION", 0), Message("SOLUTION_IND", 0)}
          /\ Tail(toWorker[w]) = <<>>
      BY <2>3, <3>1 DEF AnswerTo
    <3>3. Answer(w).tag \in {"PRINT_SOLUTION", "SOLUTION_IND"}
      BY <3>2 DEF Answer, Message
    <3>4. toWorker'[w] = <<>> /\ "order" \in worker[w].lost
      BY <2>1, <2>3, <3>1, <3>2
    <3> QED
      BY <2>1, <3>1, <3>3, <3>4
  <2> QED
    BY <1>1, <2>1, <2>2, <2>3 DEF Own, ToWorker
<1>4. /\ worker' = [worker EXCEPT ![w] = worker'[w]]
      /\ worker'[w] = [worker[w] EXCEPT !.pc = "answer", !.stopped = TRUE, !.took = Answer(w).tag]
  BY <1>1, <1>3 DEF IInv, Types, ReceiveStop
<1>5. worker'[w].got = worker[w].got
  BY <1>1, <1>4 DEF WorkerType
<1>6. NothingNew(w) /\ worker'[w].got \in Counts
  BY <1>1, <1>4, <1>5, NothingArrives DEF ReceiveStop, netVars, WorkerType
<1>7. /\ worker'[w] \in WorkerType
      /\ worker'[w].pc = "answer" /\ worker'[w].found = worker[w].found
      /\ worker'[w].finished = worker[w].finished /\ worker'[w].stopped = TRUE
      /\ worker'[w].stage = worker[w].stage /\ worker'[w].sent = worker[w].sent
      /\ worker'[w].display = worker[w].display /\ worker'[w].lost = worker[w].lost /\ worker'[w].got = worker[w].got
      /\ worker'[w].due = worker[w].due
  BY <1>1, <1>4, <1>6, <1>3 DEF WorkerType
<1>8. Only(w)
  BY <1>1, <1>2, <1>4, <1>7, <1>3 DEF IInv, Types, Only
<1>9. Ended(w)'
  BY <1>1, <1>2, <1>7, <1>3 DEF ReceiveStop, Own, Ended, Before
<1>10. Staged(w)'
  BY <1>1, <1>2, <1>7, <1>3 DEF ReceiveStop, Own, Staged, Told, Counted, Counting, Before, Fully
<1>11. ToManager(w)'
  BY <1>1, <1>2, <1>7, <1>3 DEF ReceiveStop, Own, ToManager, Before
<1>12. ToWorker(w)'
  BY <1>1, <1>2, <1>7, <1>3 DEF ReceiveStop, Own, ToWorker, AnswerTo, CountTo, Told, Before
<1>13. LastHeard(w)'
  BY <1>1, <1>2, <1>7, <1>3 DEF ReceiveStop, Own, LastHeard, Staged, Told, Counting, Before, Fully
<1>14. Quiet(w)
  BY <1>1, <1>2, <1>7, <1>3 DEF ReceiveStop, Own, Quiet, Searching, Heard, HeardCount, Reported, Told, Announced, Counted, Counting, Before, Kinds
<1>15. \A kind \in Kinds : Passed(w, kind)' => Passed(w, kind) \/ NothingDue(w, kind)
  BY <1>1, <1>2, <1>7, <1>3 DEF ReceiveStop, Own, Passed, Kinds
<1> QED
  BY <1>8, <1>6, <1>9, <1>10, <1>11, <1>12, <1>13, <1>14, <1>15, OnlyKeeps DEF Own

LEMMA ReceiveAnswerKeeps ==
  ASSUME IInv, NEW w \in Workers, ReceiveAnswer(w), UNCHANGED mode
  PROVE  IInv'
<1>1. worker[w] \in WorkerType /\ Own(w) /\ printed \subseteq {verdict} \ {None}
  BY DEF IInv, Types
<1>2. UNCHANGED <<mode, listening, verdict, reported, announced, dueTo, toManager, printed>>
  BY DEF ReceiveAnswer, netVars, managerVars, Take, Arrives
<1>3. /\ AfterAnswer(Answer(w).tag) = "stopThread" /\ (Answer(w).tag = "PRINT_SOLUTION") = (verdict = w)
      /\ toWorker' = [toWorker EXCEPT ![w] = toWorker'[w]] /\ toWorker'[w] = <<>>
      /\ reported = N /\ w \in Heard /\ toManager[w] = <<>>
      /\ worker[w].pc = "answer" /\ worker[w].stage = "unit"
  <2>1. /\ worker[w].pc = "answer" /\ toWorker[w] = AnswerTo(w) /\ AnswerTo(w) # <<>>
        /\ toWorker' = [toWorker EXCEPT ![w] = Tail(toWorker[w])] /\ toWorker'[w] = Tail(toWorker[w])
    BY <1>1 DEF ReceiveAnswer, Take, Answered, Own, ToWorker, IInv, Types
  <2>2. /\ reported = N /\ Tail(toWorker[w]) = <<>>
        /\ Head(toWorker[w]) = IF verdict = w THEN Message("PRINT_SOLUTION", 0)
                                              ELSE Message("SOLUTION_IND", 0)
    BY <2>1 DEF AnswerTo
  <2>3. Answer(w).tag = IF verdict = w THEN "PRINT_SOLUTION" ELSE "SOLUTION_IND"
    BY <2>2 DEF Answer, Message
  <2>4. w \in Heard /\ toManager[w] = <<>>
    BY <2>1, <2>2, CountersTell DEF Heard, Told
  <2>5. worker[w].stage = "unit"
    BY <1>1, <2>1 DEF Own, Staged, Counting, WorkerType, Kinds
  <2> QED
    BY <2>1, <2>2, <2>3, <2>4, <2>5 DEF AfterAnswer, Answers
<1>4. /\ worker' = [worker EXCEPT ![w] = worker'[w]]
      /\ worker'[w] = [worker[w] EXCEPT !.pc = "stopThread", !.display = (verdict = w)]
  BY <1>1, <1>3 DEF IInv, Types, ReceiveAnswer
<1>5. worker'[w].got = worker[w].got
  BY <1>1, <1>4 DEF WorkerType
<1>6. NothingNew(w) /\ worker'[w].got \in Counts
  BY <1>1, <1>4, <1>5, NothingArrives DEF ReceiveAnswer, netVars, WorkerType
<1>7. /\ worker'[w] \in WorkerType
      /\ worker'[w].pc = "stopThread" /\ worker'[w].found = worker[w].found
      /\ worker'[w].finished = worker[w].finished /\ worker'[w].stopped = worker[w].stopped
      /\ worker'[w].stage = worker[w].stage /\ worker'[w].sent = worker[w].sent
      /\ worker'[w].display = (verdict = w) /\ worker'[w].got = worker[w].got
      /\ worker'[w].due = worker[w].due
  BY <1>1, <1>4, <1>6 DEF WorkerType
<1>8. Only(w)
  BY <1>1, <1>2, <1>4, <1>7, <1>3 DEF IInv, Types, Only
<1>9. Ended(w)'
  BY <1>1, <1>2, <1>7, <1>3 DEF ReceiveAnswer, Own, Ended, Before
<1>10. Staged(w)'
  BY <1>1, <1>2, <1>7, <1>3 DEF ReceiveAnswer, Own, Staged, Told, Counted, Counting, Before, Fully
<1>11. ToManager(w)'
  BY <1>1, <1>2, <1>7, <1>3 DEF ReceiveAnswer, Own, ToManager, Before
<1>12. ToWorker(w)'
  BY <1>1, <1>2, <1>7, <1>3 DEF ReceiveAnswer, Own, ToWorker, AnswerTo, CountTo, Told, Before
<1>13. LastHeard(w)'
  BY <1>1, <1>2, <1>7, <1>3 DEF ReceiveAnswer, Own, LastHeard, Staged, Told, Counting, Before, Fully
<1>14. Quiet(w)
  BY <1>1, <1>2, <1>7, <1>3 DEF ReceiveAnswer, Own, Quiet, Searching, Heard, HeardCount, Reported, Told, Announced, Counted, Counting, Before, Kinds
<1>15. \A kind \in Kinds : Passed(w, kind)' => Passed(w, kind) \/ NothingDue(w, kind)
  BY <1>1, <1>2, <1>7, <1>3 DEF ReceiveAnswer, Own, Passed, Kinds
<1> QED
  BY <1>8, <1>6, <1>9, <1>10, <1>11, <1>12, <1>13, <1>14, <1>15, OnlyKeeps DEF Own

(* The counts.                                                             *)
LEMMA AnnounceKeeps ==
  ASSUME IInv, NEW w \in Workers, Announce(w), UNCHANGED mode
  PROVE  IInv'
<1>1. worker[w] \in WorkerType /\ Own(w) /\ printed \subseteq {verdict} \ {None}
  BY DEF IInv, Types
<1>2. UNCHANGED <<mode, listening, verdict, reported, announced, dueTo, toWorker, printed>>
  BY DEF Announce, netVars, managerVars, Take, Arrives
<1>3. /\ worker[w].pc = "announce" /\ worker[w].stage \in Kinds /\ listening
      /\ toManager[w] = <<>> /\ toWorker[w] = <<>>
      /\ w \notin HeardCount(worker[w].stage) /\ announced[worker[w].stage] # N
  BY <1>1, CountersTell DEF Announce, HeardCount, Announced, Own, LastHeard, ToManager, ToWorker, Told, Before, Counting, WorkerType, Kinds
<1>4. /\ worker' = [worker EXCEPT ![w] = worker'[w]]
      /\ worker'[w] = [worker[w] EXCEPT !.pc = "count"]
  BY <1>1, <1>3 DEF IInv, Types, Announce
<1>5. worker'[w].got = worker[w].got
  BY <1>1, <1>4 DEF WorkerType
<1>6. NothingNew(w) /\ worker'[w].got \in Counts
  BY <1>1, <1>4, <1>5, NothingArrives DEF Announce, netVars, WorkerType
<1>7. /\ worker'[w] \in WorkerType
      /\ worker'[w].pc = "count" /\ worker'[w].found = worker[w].found
      /\ worker'[w].finished = worker[w].finished /\ worker'[w].stopped = worker[w].stopped
      /\ worker'[w].stage = worker[w].stage /\ worker'[w].sent = worker[w].sent
      /\ worker'[w].display = worker[w].display /\ worker'[w].lost = worker[w].lost /\ worker'[w].got = worker[w].got
      /\ worker'[w].due = worker[w].due
  BY <1>1, <1>4, <1>6 DEF WorkerType
<1>8. /\ toManager' = [toManager EXCEPT ![w] = toManager'[w]]
      /\ toManager'[w] = <<Message(StopComTag(worker[w].stage), worker[w].sent[worker[w].stage])>>
  BY <1>3 DEF Announce, Send, IInv, Types
<1>9. Only(w)
  BY <1>1, <1>2, <1>4, <1>7, <1>8 DEF IInv, Types, Only
<1>10. Ended(w)'
  BY <1>1, <1>2, <1>7, <1>3, <1>8 DEF Announce, Own, Ended, Before, Passed, Kinds
<1>11. Staged(w)'
  BY <1>1, <1>2, <1>7, <1>3, <1>8 DEF Announce, Own, Staged, Told, Counted, Counting, Before, Fully, Passed, Kinds
<1>12. ToManager(w)'
  BY <1>1, <1>2, <1>7, <1>3, <1>8 DEF Announce, Own, ToManager, Before, Passed, Kinds
<1>13. ToWorker(w)'
  BY <1>1, <1>2, <1>7, <1>3, <1>8 DEF Announce, Own, ToWorker, AnswerTo, CountTo, Told, Before, Passed, Kinds
<1>14. LastHeard(w)'
  BY <1>1, <1>2, <1>7, <1>3, <1>8 DEF Announce, Own, LastHeard, Staged, Told, Counting, Before, Fully, Passed, Kinds
<1>15. Quiet(w)
  BY <1>1, <1>2, <1>7, <1>3, <1>8 DEF Announce, Own, Quiet, Searching, Heard, HeardCount, Reported, Told, Announced, Counted, Counting, Before, Kinds, Passed, Kinds
<1>16. \A kind \in Kinds : Passed(w, kind)' => Passed(w, kind) \/ NothingDue(w, kind)
  BY <1>1, <1>2, <1>7, <1>3, <1>8 DEF Announce, Own, Passed, Kinds, Passed, Kinds
<1> QED
  BY <1>9, <1>6, <1>10, <1>11, <1>12, <1>13, <1>14, <1>15, <1>16, OnlyKeeps DEF Own

LEMMA ReceiveCountKeeps ==
  ASSUME IInv, NEW w \in Workers, ReceiveCount(w), UNCHANGED mode
  PROVE  IInv'
<1>1. worker[w] \in WorkerType /\ Own(w) /\ printed \subseteq {verdict} \ {None}
  BY DEF IInv, Types
<1>2. UNCHANGED <<mode, listening, verdict, reported, announced, dueTo, toManager, printed>>
  BY DEF ReceiveCount, netVars, managerVars, Take, Arrives
<1>3. /\ worker[w].pc = "count" /\ worker[w].stage \in Kinds /\ announced[worker[w].stage] = N
      /\ Answer(w).value = dueTo[w][worker[w].stage] /\ dueTo[w][worker[w].stage] \in Nat
      /\ toWorker' = [toWorker EXCEPT ![w] = toWorker'[w]] /\ toWorker'[w] = <<>>
      /\ toManager[w] = <<>> /\ w \in HeardCount(worker[w].stage)
      /\ [worker[w].due EXCEPT ![worker[w].stage] = dueTo[w][worker[w].stage]] \in Counts
  <2>1. /\ worker[w].pc = "count" /\ toWorker[w] = CountTo(w) /\ CountTo(w) # <<>>
        /\ toWorker' = [toWorker EXCEPT ![w] = Tail(toWorker[w])] /\ toWorker'[w] = Tail(toWorker[w])
    BY <1>1 DEF ReceiveCount, Take, Answered, Own, ToWorker, IInv, Types
  <2>2. /\ announced[worker[w].stage] = N
        /\ toWorker[w] = <<Message("COUNT", dueTo[w][worker[w].stage])>>
    BY <2>1 DEF CountTo
  <2>3. Head(toWorker[w]) = Message("COUNT", dueTo[w][worker[w].stage]) /\ Tail(toWorker[w]) = <<>>
    BY <2>2
  <2>4. Answer(w).value = dueTo[w][worker[w].stage]
    BY <2>3 DEF Answer, Message
  <2>5. worker[w].stage \in Kinds /\ dueTo[w] \in Counts /\ worker[w].due \in Counts
    BY <1>1 DEF WorkerType, IInv, Types
  <2>6. w \in HeardCount(worker[w].stage)
    BY <2>2, <2>5, CountersTell
  <2>7. toManager[w] = <<>>
    BY <2>1, <2>5, <2>6 DEF HeardCount, Counted, Kinds
  <2> QED
    BY <2>1, <2>2, <2>3, <2>4, <2>5, <2>6, <2>7 DEF Counts
<1>4. /\ worker' = [worker EXCEPT ![w] = worker'[w]]
      /\ worker'[w] = [worker[w] EXCEPT !.pc = "drain", !.due = [worker[w].due EXCEPT ![worker[w].stage] = dueTo[w][worker[w].stage]]]
  BY <1>1, <1>3 DEF IInv, Types, ReceiveCount
<1>5. worker'[w].got = worker[w].got
  BY <1>1, <1>4 DEF WorkerType
<1>6. NothingNew(w) /\ worker'[w].got \in Counts
  BY <1>1, <1>4, <1>5, NothingArrives DEF ReceiveCount, netVars, WorkerType
<1>7. /\ worker'[w] \in WorkerType
      /\ worker'[w].pc = "drain" /\ worker'[w].found = worker[w].found
      /\ worker'[w].finished = worker[w].finished /\ worker'[w].stopped = worker[w].stopped
      /\ worker'[w].stage = worker[w].stage /\ worker'[w].sent = worker[w].sent
      /\ worker'[w].display = worker[w].display /\ worker'[w].lost = worker[w].lost /\ worker'[w].got = worker[w].got
      /\ worker'[w].due = [worker[w].due EXCEPT ![worker[w].stage] = dueTo[w][worker[w].stage]]
  BY <1>1, <1>4, <1>6, <1>3 DEF WorkerType
<1>8. \A kind \in Kinds :
        worker'[w].due[kind] = IF kind = worker[w].stage THEN dueTo[w][kind] ELSE worker[w].due[kind]
  <2>1. worker[w].due \in Counts
    BY <1>1 DEF WorkerType
  <2> QED
    BY <1>7, <2>1 DEF Counts
<1>9. Only(w)
  BY <1>1, <1>2, <1>4, <1>7, <1>3, <1>8 DEF IInv, Types, Only
<1>10. Ended(w)'
  BY <1>1, <1>2, <1>7, <1>3, <1>8 DEF ReceiveCount, Own, Ended, Before, Kinds, WorkerType
<1>11. Staged(w)'
  <2>1. Told(w) /\ Told(w)'
    BY <1>3, <1>7 DEF Told, Before
  <2>2. ASSUME NEW kind \in Kinds, Counted(w, kind)'
        PROVE  (announced[kind] = N /\ worker[w].due[kind] = dueTo[w][kind])'
    <3>1. kind = worker[w].stage \/ Counted(w, kind)
      BY <2>2, <1>7 DEF Counted, Kinds
    <3> QED
      BY <1>1, <1>2, <1>3, <1>8, <3>1 DEF Own, Staged
  <2> QED
    BY <1>1, <1>2, <1>3, <1>7, <2>1, <2>2 DEF Own, Staged, Counting, Fully
<1>12. ToManager(w)'
  BY <1>1, <1>2, <1>7, <1>3, <1>8 DEF ReceiveCount, Own, ToManager, Before, Kinds, WorkerType
<1>13. ToWorker(w)'
  BY <1>1, <1>2, <1>7, <1>3, <1>8 DEF ReceiveCount, Own, ToWorker, AnswerTo, CountTo, Told, Before, Kinds, WorkerType
<1>14. LastHeard(w)'
  BY <1>1, <1>2, <1>7, <1>3, <1>8 DEF ReceiveCount, Own, LastHeard, Staged, Told, Counting, Before, Fully, Kinds, WorkerType
<1>15. Quiet(w)
  BY <1>1, <1>2, <1>7, <1>3, <1>8 DEF ReceiveCount, Own, Quiet, Searching, Heard, HeardCount, Reported, Told, Announced, Counted, Counting, Before, Kinds, Kinds, WorkerType
<1>16. \A kind \in Kinds : Passed(w, kind)' => Passed(w, kind) \/ NothingDue(w, kind)
  BY <1>1, <1>2, <1>7, <1>3, <1>8 DEF ReceiveCount, Own, Passed, Kinds, Kinds, WorkerType
<1> QED
  BY <1>9, <1>6, <1>10, <1>11, <1>12, <1>13, <1>14, <1>15, <1>16, OnlyKeeps DEF Own

LEMMA DrainKeeps ==
  ASSUME IInv, NEW w \in Workers, Drain(w), UNCHANGED mode
  PROVE  IInv'
<1>1. worker[w] \in WorkerType /\ Own(w) /\ printed \subseteq {verdict} \ {None}
  BY DEF IInv, Types
<1>2. UNCHANGED <<mode, listening, verdict, reported, announced, dueTo, toManager, toWorker, printed>>
  BY DEF Drain, netVars, managerVars, Take, Arrives
<1>3. worker[w].stage \in Kinds /\ worker[w].pc = "drain"
  BY <1>1 DEF Drain, WorkerType
<1>4. /\ worker' = [worker EXCEPT ![w] = worker'[w]]
      /\ worker'[w] = [worker[w] EXCEPT !.got = [worker[w].got EXCEPT ![worker[w].stage] = @ + 1]]
  BY <1>1, <1>3 DEF IInv, Types, Drain
<1>5. worker'[w].got = [worker[w].got EXCEPT ![worker[w].stage] = @ + 1]
  BY <1>1, <1>4 DEF WorkerType
<1>6. NothingNew(w) /\ worker'[w].got \in Counts
  BY <1>1, <1>3, <1>4, <1>5, ArrivalIsOld DEF Drain, netVars, Kinds
<1>7. /\ worker'[w] \in WorkerType
      /\ worker'[w].pc = worker[w].pc /\ worker'[w].found = worker[w].found
      /\ worker'[w].finished = worker[w].finished /\ worker'[w].stopped = worker[w].stopped
      /\ worker'[w].stage = worker[w].stage /\ worker'[w].sent = worker[w].sent
      /\ worker'[w].display = worker[w].display /\ worker'[w].lost = worker[w].lost /\ worker'[w].got = [worker[w].got EXCEPT ![worker[w].stage] = @ + 1]
      /\ worker'[w].due = worker[w].due
  BY <1>1, <1>4, <1>6 DEF WorkerType
<1>8. Only(w)
  BY <1>1, <1>2, <1>4, <1>7 DEF IInv, Types, Only
<1>9. Ended(w)'
  BY <1>1, <1>2, <1>7, <1>3 DEF Drain, Own, Ended, Before, Kinds, WorkerType
<1>10. Staged(w)'
  <2>1. Staged(w) /\ mode' = mode
    BY <1>1, <1>2 DEF Own
  <2> QED
    BY <1>2, <1>7, <2>1 DEF Staged, Told, Counted, Fully
<1>11. ToManager(w)'
  BY <1>1, <1>2, <1>7, <1>3 DEF Drain, Own, ToManager, Before, Kinds, WorkerType
<1>12. ToWorker(w)'
  BY <1>1, <1>2, <1>7, <1>3 DEF Drain, Own, ToWorker, AnswerTo, CountTo, Told, Before, Kinds, WorkerType
<1>13. LastHeard(w)'
  BY <1>1, <1>2, <1>7, <1>3 DEF Drain, Own, LastHeard, Staged, Told, Counting, Before, Fully, Kinds, WorkerType
<1>14. Quiet(w)
  BY <1>1, <1>2, <1>7, <1>3 DEF Drain, Own, Quiet, Searching, Heard, HeardCount, Reported, Told, Announced, Counted, Counting, Before, Kinds, Kinds, WorkerType
<1>15. \A kind \in Kinds : Passed(w, kind)' => Passed(w, kind) \/ NothingDue(w, kind)
  BY <1>1, <1>2, <1>7, <1>3 DEF Drain, Own, Passed, Kinds, Kinds, WorkerType
<1> QED
  BY <1>8, <1>6, <1>9, <1>10, <1>11, <1>12, <1>13, <1>14, <1>15, OnlyKeeps DEF Own

LEMMA DrainedKeeps ==
  ASSUME IInv, NEW w \in Workers, Drained(w), UNCHANGED mode
  PROVE  IInv'
<1>1. worker[w] \in WorkerType /\ Own(w) /\ printed \subseteq {verdict} \ {None}
  BY DEF IInv, Types
<1>2. UNCHANGED <<mode, listening, verdict, reported, announced, dueTo, toManager, toWorker, printed>>
  BY DEF Drained, netVars, managerVars, Take, Arrives
<1>3. /\ worker[w].pc = "drain" /\ worker[w].stage \in Kinds /\ Counted(w, worker[w].stage)
      /\ worker[w].stage = "clause" => Fully
      /\ toManager[w] = <<>> /\ toWorker[w] = <<>> /\ Told(w)
      /\ ~listening /\ Fully => worker[w].stage = "clause"
  BY <1>1 DEF Drained, WorkerType, Own, Staged, ToManager, ToWorker, LastHeard, Counted, Counting, Told, Before, Kinds
<1>4. NothingDue(w, worker[w].stage)
  BY <1>3, CompleteIsAll DEF Drained
<1>5. worker[w].stage = "clause" \/ ~Fully => \A kind \in Kinds : NothingDue(w, kind)
  <2>1. CASE worker[w].stage = "clause"
    <3>1. NothingDue(w, "unit")
      BY <2>1 DEF IInv, ReceivedBeforePassed, NothingDue, Kinds
    <3> QED
      BY <2>1, <3>1, <1>4 DEF Kinds
  <2>2. CASE worker[w].stage = "unit" /\ ~Fully
    BY <2>2, <1>4, NoClauses DEF NothingDue, Kinds
  <2> QED
    BY <1>3, <2>1, <2>2 DEF Kinds
<1>6. /\ worker' = [worker EXCEPT ![w] = worker'[w]]
      /\ worker'[w] = [worker[w] EXCEPT !.stage = (IF worker[w].stage = "unit" /\ Fully THEN "clause" ELSE worker[w].stage), !.pc = (IF worker[w].stage = "unit" /\ Fully THEN "announce" ELSE "print")]
  BY <1>1, <1>3, <1>4, <1>5 DEF IInv, Types, Drained, WorkerType
<1>7. worker'[w].got = worker[w].got
  BY <1>1, <1>6 DEF WorkerType
<1>8. NothingNew(w) /\ worker'[w].got \in Counts
  BY <1>1, <1>6, <1>7, NothingArrives DEF Drained, netVars, WorkerType
<1>9. /\ worker'[w] \in WorkerType
      /\ worker'[w].pc = (IF worker[w].stage = "unit" /\ Fully THEN "announce" ELSE "print") /\ worker'[w].found = worker[w].found
      /\ worker'[w].finished = worker[w].finished /\ worker'[w].stopped = worker[w].stopped
      /\ worker'[w].stage = (IF worker[w].stage = "unit" /\ Fully THEN "clause" ELSE worker[w].stage) /\ worker'[w].sent = worker[w].sent
      /\ worker'[w].display = worker[w].display /\ worker'[w].lost = worker[w].lost /\ worker'[w].got = worker[w].got
      /\ worker'[w].due = worker[w].due
  BY <1>1, <1>6, <1>8 DEF WorkerType, Kinds
<1>10. Only(w)
  BY <1>1, <1>2, <1>6, <1>9 DEF IInv, Types, Only
<1>11. Ended(w)'
  BY <1>1, <1>2, <1>9, <1>3, <1>4, <1>5 DEF Drained, Own, Ended, Before, Kinds
<1>12. Staged(w)'
  BY <1>1, <1>2, <1>9, <1>3, <1>4, <1>5 DEF Drained, Own, Staged, Told, Counted, Counting, Before, Fully, Kinds
<1>13. ToManager(w)'
  BY <1>1, <1>2, <1>9, <1>3, <1>4, <1>5 DEF Drained, Own, ToManager, Before, Kinds
<1>14. ToWorker(w)'
  BY <1>1, <1>2, <1>9, <1>3, <1>4, <1>5 DEF Drained, Own, ToWorker, AnswerTo, CountTo, Told, Before, Kinds
<1>15. LastHeard(w)'
  BY <1>1, <1>2, <1>9, <1>3, <1>4, <1>5 DEF Drained, Own, LastHeard, Staged, Told, Counting, Before, Fully, Kinds
<1>16. Quiet(w)
  BY <1>1, <1>2, <1>9, <1>3, <1>4, <1>5 DEF Drained, Own, Quiet, Searching, Heard, HeardCount, Reported, Told, Announced, Counted, Counting, Before, Kinds, Kinds
<1>17. \A kind \in Kinds : Passed(w, kind)' => Passed(w, kind) \/ NothingDue(w, kind)
  BY <1>1, <1>2, <1>9, <1>3, <1>4, <1>5 DEF Drained, Own, Passed, Kinds, Kinds
<1> QED
  BY <1>10, <1>8, <1>11, <1>12, <1>13, <1>14, <1>15, <1>16, <1>17, OnlyKeeps DEF Own

(* The end.                                                               *)
LEMMA DisplaySolutionKeeps ==
  ASSUME IInv, NEW w \in Workers, DisplaySolution(w), UNCHANGED mode
  PROVE  IInv'
<1>1. worker[w] \in WorkerType /\ Own(w) /\ printed \subseteq {verdict} \ {None}
  BY DEF IInv, Types
<1>2. UNCHANGED <<mode, listening, verdict, reported, announced, dueTo, toWorker>>
  BY DEF DisplaySolution, netVars, managerVars, Take, Arrives
<1>3. /\ worker[w].pc = "print" /\ worker[w].display /\ listening /\ verdict = w
      /\ toManager[w] = <<>> /\ toWorker[w] = <<>> /\ w \notin printed
      /\ printed' = printed \cup {w} /\ printed' \subseteq {verdict} \ {None} /\ printed' \ {w} = printed \ {w}
  BY <1>1, NamesAssumption DEF DisplaySolution, Own, Staged, Told, ToManager, ToWorker, LastHeard, Before
<1>4. /\ worker' = [worker EXCEPT ![w] = worker'[w]]
      /\ worker'[w] = [worker[w] EXCEPT !.pc = "kill"]
  BY <1>1, <1>3 DEF IInv, Types, DisplaySolution
<1>5. worker'[w].got = worker[w].got
  BY <1>1, <1>4 DEF WorkerType
<1>6. NothingNew(w) /\ worker'[w].got \in Counts
  BY <1>1, <1>4, <1>5, NothingArrives DEF DisplaySolution, netVars, WorkerType
<1>7. /\ worker'[w] \in WorkerType
      /\ worker'[w].pc = "kill" /\ worker'[w].found = worker[w].found
      /\ worker'[w].finished = worker[w].finished /\ worker'[w].stopped = worker[w].stopped
      /\ worker'[w].stage = worker[w].stage /\ worker'[w].sent = worker[w].sent
      /\ worker'[w].display = worker[w].display /\ worker'[w].lost = worker[w].lost /\ worker'[w].got = worker[w].got
      /\ worker'[w].due = worker[w].due
  BY <1>1, <1>4, <1>6 DEF WorkerType
<1>8. /\ toManager' = [toManager EXCEPT ![w] = toManager'[w]]
      /\ toManager'[w] = <<Message("JOB_FINISHED", 0)>>
  BY <1>3 DEF DisplaySolution, Send, IInv, Types
<1>9. Only(w)
  BY <1>1, <1>2, <1>4, <1>7, <1>3, <1>8 DEF IInv, Types, Only
<1>10. Ended(w)'
  BY <1>1, <1>2, <1>7, <1>3, <1>8 DEF DisplaySolution, Own, Ended, Before, Kinds
<1>11. Staged(w)'
  BY <1>1, <1>2, <1>7, <1>3, <1>8 DEF DisplaySolution, Own, Staged, Told, Counted, Counting, Before, Fully, Kinds
<1>12. ToManager(w)'
  BY <1>1, <1>2, <1>7, <1>3, <1>8 DEF DisplaySolution, Own, ToManager, Before, Kinds
<1>13. ToWorker(w)'
  BY <1>1, <1>2, <1>7, <1>3, <1>8 DEF DisplaySolution, Own, ToWorker, AnswerTo, CountTo, Told, Before, Kinds
<1>14. LastHeard(w)'
  BY <1>1, <1>2, <1>7, <1>3, <1>8 DEF DisplaySolution, Own, LastHeard, Staged, Told, Counting, Before, Fully, Kinds
<1>15. Quiet(w)
  BY <1>1, <1>2, <1>7, <1>3, <1>8 DEF DisplaySolution, Own, Quiet, Searching, Heard, HeardCount, Reported, Told, Announced, Counted, Counting, Before, Kinds, Kinds
<1>16. \A kind \in Kinds : Passed(w, kind)' => Passed(w, kind) \/ NothingDue(w, kind)
  BY <1>1, <1>2, <1>7, <1>3, <1>8 DEF DisplaySolution, Own, Passed, Kinds, Kinds
<1> QED
  BY <1>9, <1>6, <1>10, <1>11, <1>12, <1>13, <1>14, <1>15, <1>16, OnlyKeeps DEF Own

LEMMA KillKeeps ==
  ASSUME IInv, NEW w \in Workers, Kill(w), UNCHANGED mode
  PROVE  IInv'
<1>1. worker[w] \in WorkerType /\ Own(w) /\ printed \subseteq {verdict} \ {None}
  BY DEF IInv, Types
<1>2. UNCHANGED <<mode, listening, verdict, reported, announced, dueTo, toManager, toWorker, printed>>
  BY DEF Kill, netVars, managerVars, Take, Arrives
<1>3. /\ worker' = [worker EXCEPT ![w] = worker'[w]]
      /\ worker'[w] = [worker[w] EXCEPT !.pc = "done"]
  BY <1>1 DEF IInv, Types, Kill
<1>4. worker'[w].got = worker[w].got
  BY <1>1, <1>3 DEF WorkerType
<1>5. NothingNew(w) /\ worker'[w].got \in Counts
  BY <1>1, <1>3, <1>4, NothingArrives DEF Kill, netVars, WorkerType
<1>6. /\ worker'[w] \in WorkerType
      /\ worker'[w].pc = "done" /\ worker'[w].found = worker[w].found
      /\ worker'[w].finished = worker[w].finished /\ worker'[w].stopped = worker[w].stopped
      /\ worker'[w].stage = worker[w].stage /\ worker'[w].sent = worker[w].sent
      /\ worker'[w].display = worker[w].display /\ worker'[w].lost = worker[w].lost /\ worker'[w].got = worker[w].got
      /\ worker'[w].due = worker[w].due
  BY <1>1, <1>3, <1>5 DEF WorkerType
<1>7. Only(w)
  BY <1>1, <1>2, <1>3, <1>6 DEF IInv, Types, Only
<1>8. Ended(w)'
  BY <1>1, <1>2, <1>6 DEF Kill, Own, Ended, Before, Kinds
<1>9. Staged(w)'
  BY <1>1, <1>2, <1>6 DEF Kill, Own, Staged, Told, Counted, Counting, Before, Fully, Kinds
<1>10. ToManager(w)'
  BY <1>1, <1>2, <1>6 DEF Kill, Own, ToManager, Before, Kinds
<1>11. ToWorker(w)'
  BY <1>1, <1>2, <1>6 DEF Kill, Own, ToWorker, AnswerTo, CountTo, Told, Before, Kinds
<1>12. LastHeard(w)'
  BY <1>1, <1>2, <1>6 DEF Kill, Own, LastHeard, Staged, Told, Counting, Before, Fully, Kinds
<1>13. Quiet(w)
  BY <1>1, <1>2, <1>6 DEF Kill, Own, Quiet, Searching, Heard, HeardCount, Reported, Told, Announced, Counted, Counting, Before, Kinds, Kinds
<1>14. \A kind \in Kinds : Passed(w, kind)' => Passed(w, kind) \/ NothingDue(w, kind)
  BY <1>1, <1>2, <1>6 DEF Kill, Own, Passed, Kinds, Kinds
<1> QED
  BY <1>7, <1>5, <1>8, <1>9, <1>10, <1>11, <1>12, <1>13, <1>14, OnlyKeeps DEF Own

(* The communication threads.                                             *)
LEMMA ListenClauseKeeps ==
  ASSUME IInv, NEW w \in Workers, ListenClause(w), UNCHANGED mode
  PROVE  IInv'
<1>1. worker[w] \in WorkerType /\ Own(w) /\ printed \subseteq {verdict} \ {None}
  BY DEF IInv, Types
<1>2. UNCHANGED <<mode, listening, verdict, reported, announced, dueTo, toManager, toWorker, printed>>
  BY DEF ListenClause, netVars, managerVars, Take, Arrives
<1>3. /\ worker' = [worker EXCEPT ![w] = worker'[w]]
      /\ worker'[w] = [worker[w] EXCEPT !.got = [worker[w].got EXCEPT !["clause"] = @ + 1]]
  BY <1>1 DEF IInv, Types, ListenClause
<1>4. worker'[w].got = [worker[w].got EXCEPT !["clause"] = @ + 1]
  BY <1>1, <1>3 DEF WorkerType
<1>5. NothingNew(w) /\ worker'[w].got \in Counts
  BY <1>1, <1>3, <1>4, ArrivalIsOld DEF ListenClause, netVars, Kinds
<1>6. /\ worker'[w] \in WorkerType
      /\ worker'[w].pc = worker[w].pc /\ worker'[w].found = worker[w].found
      /\ worker'[w].finished = worker[w].finished /\ worker'[w].stopped = worker[w].stopped
      /\ worker'[w].stage = worker[w].stage /\ worker'[w].sent = worker[w].sent
      /\ worker'[w].display = worker[w].display /\ worker'[w].lost = worker[w].lost /\ worker'[w].got = [worker[w].got EXCEPT !["clause"] = @ + 1]
      /\ worker'[w].due = worker[w].due
  BY <1>1, <1>3, <1>5 DEF WorkerType
<1>7. Only(w)
  BY <1>1, <1>2, <1>3, <1>6 DEF IInv, Types, Only
<1>8. Ended(w)'
  BY <1>1, <1>2, <1>6 DEF ListenClause, Own, Ended, Before
<1>9. Staged(w)'
  BY <1>1, <1>2, <1>6 DEF ListenClause, Own, Staged, Told, Counted, Counting, Before, Fully
<1>10. ToManager(w)'
  BY <1>1, <1>2, <1>6 DEF ListenClause, Own, ToManager, Before
<1>11. ToWorker(w)'
  BY <1>1, <1>2, <1>6 DEF ListenClause, Own, ToWorker, AnswerTo, CountTo, Told, Before
<1>12. LastHeard(w)'
  BY <1>1, <1>2, <1>6 DEF ListenClause, Own, LastHeard, Staged, Told, Counting, Before, Fully
<1>13. Quiet(w)
  BY <1>1, <1>2, <1>6 DEF ListenClause, Own, Quiet, Searching, Heard, HeardCount, Reported, Told, Announced, Counted, Counting, Before, Kinds
<1>14. \A kind \in Kinds : Passed(w, kind)' => Passed(w, kind) \/ NothingDue(w, kind)
  BY <1>1, <1>2, <1>6 DEF ListenClause, Own, Passed, Kinds
<1> QED
  BY <1>7, <1>5, <1>8, <1>9, <1>10, <1>11, <1>12, <1>13, <1>14, OnlyKeeps DEF Own

LEMMA ListenerEndsKeeps ==
  ASSUME IInv, NEW w \in Workers, ListenerEnds(w), UNCHANGED mode
  PROVE  IInv'
<1>1. worker[w] \in WorkerType /\ Own(w) /\ printed \subseteq {verdict} \ {None}
  BY DEF IInv, Types
<1>2. UNCHANGED <<mode, listening, verdict, reported, announced, dueTo, toManager, toWorker, printed>>
  BY DEF ListenerEnds, netVars, managerVars, Take, Arrives
<1>3. /\ worker' = [worker EXCEPT ![w] = worker'[w]]
      /\ worker'[w] = [worker[w] EXCEPT !.listener = "ended"]
  BY <1>1 DEF IInv, Types, ListenerEnds
<1>4. worker'[w].got = worker[w].got
  BY <1>1, <1>3 DEF WorkerType
<1>5. NothingNew(w) /\ worker'[w].got \in Counts
  BY <1>1, <1>3, <1>4, NothingArrives DEF ListenerEnds, netVars, WorkerType
<1>6. /\ worker'[w] \in WorkerType
      /\ worker'[w].pc = worker[w].pc /\ worker'[w].found = worker[w].found
      /\ worker'[w].finished = worker[w].finished /\ worker'[w].stopped = worker[w].stopped
      /\ worker'[w].stage = worker[w].stage /\ worker'[w].sent = worker[w].sent
      /\ worker'[w].display = worker[w].display /\ worker'[w].lost = worker[w].lost /\ worker'[w].got = worker[w].got
      /\ worker'[w].due = worker[w].due
  BY <1>1, <1>3, <1>5 DEF WorkerType
<1>7. Only(w)
  BY <1>1, <1>2, <1>3, <1>6 DEF IInv, Types, Only
<1>8. Ended(w)'
  BY <1>1, <1>2, <1>6 DEF ListenerEnds, Own, Ended, Before
<1>9. Staged(w)'
  BY <1>1, <1>2, <1>6 DEF ListenerEnds, Own, Staged, Told, Counted, Counting, Before, Fully
<1>10. ToManager(w)'
  BY <1>1, <1>2, <1>6 DEF ListenerEnds, Own, ToManager, Before
<1>11. ToWorker(w)'
  BY <1>1, <1>2, <1>6 DEF ListenerEnds, Own, ToWorker, AnswerTo, CountTo, Told, Before
<1>12. LastHeard(w)'
  BY <1>1, <1>2, <1>6 DEF ListenerEnds, Own, LastHeard, Staged, Told, Counting, Before, Fully
<1>13. Quiet(w)
  BY <1>1, <1>2, <1>6 DEF ListenerEnds, Own, Quiet, Searching, Heard, HeardCount, Reported, Told, Announced, Counted, Counting, Before, Kinds
<1>14. \A kind \in Kinds : Passed(w, kind)' => Passed(w, kind) \/ NothingDue(w, kind)
  BY <1>1, <1>2, <1>6 DEF ListenerEnds, Own, Passed, Kinds
<1> QED
  BY <1>7, <1>5, <1>8, <1>9, <1>10, <1>11, <1>12, <1>13, <1>14, OnlyKeeps DEF Own

LEMMA EnterRoundKeeps ==
  ASSUME IInv, NEW w \in Workers, EnterRound(w), UNCHANGED mode
  PROVE  IInv'
<1>1. worker[w] \in WorkerType /\ Own(w) /\ printed \subseteq {verdict} \ {None}
  BY DEF IInv, Types
<1>2. UNCHANGED <<mode, listening, verdict, reported, announced, dueTo, toManager, toWorker, printed>>
  BY DEF EnterRound, netVars, managerVars, Take, Arrives
<1>3. /\ worker' = [worker EXCEPT ![w] = worker'[w]]
      /\ worker'[w] = [worker[w] EXCEPT !.listener = IF worker[w].found THEN "end" ELSE "go on"]
  BY <1>1 DEF IInv, Types, EnterRound
<1>4. worker'[w].got = worker[w].got
  BY <1>1, <1>3 DEF WorkerType
<1>5. NothingNew(w) /\ worker'[w].got \in Counts
  BY <1>1, <1>3, <1>4, NothingArrives DEF EnterRound, netVars, WorkerType
<1>6. /\ worker'[w] \in WorkerType
      /\ worker'[w].pc = worker[w].pc /\ worker'[w].found = worker[w].found
      /\ worker'[w].finished = worker[w].finished /\ worker'[w].stopped = worker[w].stopped
      /\ worker'[w].stage = worker[w].stage /\ worker'[w].sent = worker[w].sent
      /\ worker'[w].display = worker[w].display /\ worker'[w].lost = worker[w].lost /\ worker'[w].got = worker[w].got
      /\ worker'[w].due = worker[w].due
  BY <1>1, <1>3, <1>5 DEF WorkerType
<1>7. Only(w)
  BY <1>1, <1>2, <1>3, <1>6 DEF IInv, Types, Only
<1>8. Ended(w)'
  BY <1>1, <1>2, <1>6 DEF EnterRound, Own, Ended, Before
<1>9. Staged(w)'
  BY <1>1, <1>2, <1>6 DEF EnterRound, Own, Staged, Told, Counted, Counting, Before, Fully
<1>10. ToManager(w)'
  BY <1>1, <1>2, <1>6 DEF EnterRound, Own, ToManager, Before
<1>11. ToWorker(w)'
  BY <1>1, <1>2, <1>6 DEF EnterRound, Own, ToWorker, AnswerTo, CountTo, Told, Before
<1>12. LastHeard(w)'
  BY <1>1, <1>2, <1>6 DEF EnterRound, Own, LastHeard, Staged, Told, Counting, Before, Fully
<1>13. Quiet(w)
  BY <1>1, <1>2, <1>6 DEF EnterRound, Own, Quiet, Searching, Heard, HeardCount, Reported, Told, Announced, Counted, Counting, Before, Kinds
<1>14. \A kind \in Kinds : Passed(w, kind)' => Passed(w, kind) \/ NothingDue(w, kind)
  BY <1>1, <1>2, <1>6 DEF EnterRound, Own, Passed, Kinds
<1> QED
  BY <1>7, <1>5, <1>8, <1>9, <1>10, <1>11, <1>12, <1>13, <1>14, OnlyKeeps DEF Own

-----------------------------------------------------------------------------
(* The workers stay as they are, but for their communication threads.      *)
SameWorkers ==
  \A x \in Workers :
    /\ worker'[x].pc = worker[x].pc /\ worker'[x].found = worker[x].found
    /\ worker'[x].finished = worker[x].finished /\ worker'[x].stopped = worker[x].stopped
    /\ worker'[x].stage = worker[x].stage /\ worker'[x].sent = worker[x].sent
    /\ worker'[x].display = worker[x].display /\ worker'[x].got = worker[x].got
    /\ worker'[x].due = worker[x].due /\ worker'[x].lost = worker[x].lost

LEMMA WorkersStay ==
  ASSUME IInv, SameWorkers, UNCHANGED inFlight
  PROVE  /\ ArrivesOnce' /\ ReceivedBeforePassed'
         /\ \A S \in SUBSET Workers : \A kind \in Kinds : Exports(S, kind)' = Exports(S, kind)
         /\ \A x \in Workers :
              /\ Reported(x)' <=> Reported(x)
              /\ Told(x)' <=> Told(x)
              /\ \A kind \in Kinds : /\ Announced(x, kind)' <=> Announced(x, kind)
                                     /\ Counted(x, kind)' <=> Counted(x, kind)
<1>1. ASSUME NEW S \in SUBSET Workers, NEW kind \in Kinds
      PROVE  Exports(S, kind)' = Exports(S, kind)
  <2>1. \A x \in S : worker'[x].sent[kind] = worker[x].sent[kind]
    BY DEF SameWorkers
  <2> QED
    BY <2>1 DEF Exports
<1>2. ReceivedBeforePassed'
  BY DEF SameWorkers, IInv, ReceivedBeforePassed, Searching
<1>3. ASSUME NEW kind \in Kinds
      PROVE  /\ IsFiniteSet(Exports(Workers, kind)')
             /\ \A x \in Workers : worker'[x].got[kind] + inFlight'[x][kind]
                                     <= Cardinality(Exports(Workers \ {x}, kind)')
  <2>1. Exports(Workers, kind)' = Exports(Workers, kind)
    BY <1>1
  <2>2. ASSUME NEW x \in Workers
        PROVE  worker'[x].got[kind] + inFlight'[x][kind] <= Cardinality(Exports(Workers \ {x}, kind)')
    <3>1. Exports(Workers \ {x}, kind)' = Exports(Workers \ {x}, kind)
      BY <1>1
    <3>2. PICK c : c = Cardinality(Exports(Workers \ {x}, kind))
      OBVIOUS
    <3>3. worker[x].got[kind] + inFlight[x][kind] <= c
      BY <3>2 DEF IInv, ArrivesOnce
    <3>4. worker'[x].got[kind] = worker[x].got[kind]
      BY DEF SameWorkers
    <3> QED
      BY <3>1, <3>2, <3>3, <3>4
  <2> QED
    BY <2>1, <2>2 DEF IInv, ArrivesOnce
<1>4. ArrivesOnce'
  BY <1>3 DEF ArrivesOnce
<1> QED
  BY <1>1, <1>2, <1>4 DEF SameWorkers, Reported, Told, Announced, Counted

(* What the manager counts stays as it is.                                 *)
LEMMA CountsStay ==
  ASSUME IInv, SameWorkers, UNCHANGED inFlight,
         UNCHANGED <<reported, announced, dueTo>>, reported > 0 => verdict' # None,
         Heard' = Heard, \A kind \in Kinds : HeardCount(kind)' = HeardCount(kind)
  PROVE  ManagerCounts'
<1>1. ManagerCounts
  BY DEF IInv
<1>2. ASSUME NEW kind \in Kinds
      PROVE  /\ (announced[kind] = Cardinality(HeardCount(kind)))'
             /\ \A x \in Workers :
                  (dueTo[x][kind] = Cardinality(Exports(HeardCount(kind) \ {x}, kind)))'
  <2>1. HeardCount(kind) \subseteq Workers
    BY DEF HeardCount
  <2>2. \A x \in Workers :
          Exports(HeardCount(kind) \ {x}, kind)' = Exports(HeardCount(kind) \ {x}, kind)
    BY <2>1, WorkersStay
  <2> QED
    BY <1>1, <2>2, Zenon DEF ManagerCounts
<1>3. (reported = Cardinality(Heard) /\ (reported > 0 => verdict # None))'
  BY <1>1 DEF ManagerCounts
<1> QED
  BY <1>2, <1>3, Zenon DEF ManagerCounts

LEMMA AllgatherKeeps ==
  ASSUME IInv, Allgather, UNCHANGED mode
  PROVE  IInv'
<1>1. UNCHANGED <<mode, inFlight, toManager, toWorker, listening, verdict, reported,
                  announced, dueTo, printed>>
  BY DEF Allgather, netVars, managerVars
<1>2. worker \in [Workers -> WorkerType]
  BY DEF IInv, Types
<1>3. PICK l \in {"ended", "sleep"} :
        worker' = [x \in Workers |-> [worker[x] EXCEPT !.listener = l]]
  BY DEF Allgather
<1>4. worker' \in [Workers -> WorkerType]
  <2>1. ASSUME NEW x \in Workers PROVE [worker[x] EXCEPT !.listener = l] \in WorkerType
    <3>1. worker[x] \in WorkerType
      BY <1>2
    <3> QED
      BY <3>1 DEF WorkerType
  <2> QED
    BY <1>3, <2>1
<1>5. SameWorkers
  <2>1. ASSUME NEW x \in Workers
        PROVE  worker[x] \in WorkerType /\ worker'[x] = [worker[x] EXCEPT !.listener = l]
    BY <1>2, <1>3
  <2>2. ASSUME NEW x \in Workers
        PROVE  /\ worker'[x].pc = worker[x].pc /\ worker'[x].found = worker[x].found
               /\ worker'[x].finished = worker[x].finished /\ worker'[x].stopped = worker[x].stopped
               /\ worker'[x].stage = worker[x].stage /\ worker'[x].sent = worker[x].sent
               /\ worker'[x].display = worker[x].display /\ worker'[x].got = worker[x].got
               /\ worker'[x].due = worker[x].due /\ worker'[x].lost = worker[x].lost
    <3>1. worker[x] \in WorkerType
      BY <2>1
    <3>2. worker'[x] = [worker[x] EXCEPT !.listener = l]
      BY <2>1
    <3> QED
      BY <3>1, <3>2 DEF WorkerType
  <2> QED
    BY <2>2 DEF SameWorkers
<1>6. Types'
  BY <1>1, <1>4 DEF IInv, Types
<1>7. Heard' = Heard /\ \A kind \in Kinds : HeardCount(kind)' = HeardCount(kind)
  BY <1>1, <1>5, WorkersStay DEF Heard, HeardCount
<1>8. ManagerCounts'
  BY <1>1, <1>5, <1>7, CountsStay DEF IInv, ManagerCounts
<1>9. ASSUME NEW x \in Workers PROVE Own(x)'
  <2>1. Own(x)
    BY DEF IInv
  <2>2. Ended(x)' /\ ToManager(x)' /\ LastHeard(x)'
    BY <1>1, <1>5, <2>1 DEF SameWorkers, Own, Ended, ToManager, LastHeard, Fully
  <2>3. Staged(x)'
    BY <1>1, <1>5, <2>1 DEF SameWorkers, Own, Staged, Fully, Told, Counted
  <2>4. ToWorker(x)'
    BY <1>1, <1>5, <2>1 DEF SameWorkers, Own, ToWorker, AnswerTo, CountTo, Told
  <2> QED
    BY <2>2, <2>3, <2>4 DEF Own
<1> QED
  BY <1>1, <1>5, <1>6, <1>8, <1>9, WorkersStay DEF IInv

-----------------------------------------------------------------------------
(* While a worker searches nobody has passed a stage, nor has the manager  *)
(* heard of all of them, so that an export is counted by nobody yet.       *)
LEMMA ExportKeeps ==
  ASSUME IInv, NEW w \in Workers, NEW kind \in Kinds, Export(w, kind), UNCHANGED mode
  PROVE  IInv'
<1>1. /\ worker \in [Workers -> WorkerType] /\ worker[w] \in WorkerType
      /\ inFlight \in [Workers -> Counts] /\ worker[w].sent \in Counts
      /\ worker[w].sent[kind] \in Nat
  <2>1. worker \in [Workers -> WorkerType] /\ inFlight \in [Workers -> Counts]
    BY DEF IInv, Types
  <2>2. worker[w] \in WorkerType
    BY <2>1
  <2>3. worker[w].sent \in Counts
    BY <2>2 DEF WorkerType
  <2> QED
    BY <2>1, <2>2, <2>3 DEF Counts
<1>2. UNCHANGED <<mode, toManager, toWorker, listening, verdict, reported, announced, dueTo, printed>>
  BY DEF Export, managerVars
<1>3. /\ worker[w].pc \in Before /\ (kind = "clause" => Fully)
      /\ worker[w].stage = "unit"
  <2>1. Own(w)
    BY DEF IInv
  <2> QED
    BY <1>1, <2>1 DEF Export, Searching, Before, Own, Staged, Counting, WorkerType, Kinds
<1>4. worker' = [worker EXCEPT ![w] = [worker[w] EXCEPT !.sent = [worker[w].sent EXCEPT ![kind] = @ + 1]]]
  BY DEF Export
<1>5. [worker[w].sent EXCEPT ![kind] = @ + 1] \in Counts
  BY <1>1 DEF Counts
<1>6. worker' \in [Workers -> WorkerType]
  BY <1>1, <1>4, <1>5 DEF WorkerType
<1>7. /\ \A x \in Workers \ {w} : worker'[x] = worker[x]
      /\ worker'[w].pc = worker[w].pc /\ worker'[w].found = worker[w].found
      /\ worker'[w].finished = worker[w].finished /\ worker'[w].stopped = worker[w].stopped
      /\ worker'[w].stage = worker[w].stage /\ worker'[w].display = worker[w].display /\ worker'[w].lost = worker[w].lost
      /\ worker'[w].got = worker[w].got /\ worker'[w].due = worker[w].due
      /\ worker'[w].sent = [worker[w].sent EXCEPT ![kind] = @ + 1]
  BY <1>1, <1>4 DEF WorkerType
<1>8. inFlight' \in [Workers -> Counts] /\ inFlight'[w] = inFlight[w]
  <2>1. ASSUME NEW x \in Workers PROVE [inFlight[x] EXCEPT ![kind] = @ + 1] \in Counts
    <3>1. inFlight[x] \in Counts
      BY <1>1
    <3> QED
      BY <3>1 DEF Counts
  <2> QED
    BY <1>1, <2>1 DEF Export
<1>9. \A x \in Workers : \A k \in Kinds :
        /\ inFlight'[x][k] \in Nat /\ inFlight[x][k] \in Nat /\ worker[x].got[k] \in Nat
        /\ inFlight'[x][k] = IF x # w /\ k = kind THEN inFlight[x][k] + 1 ELSE inFlight[x][k]
        /\ worker'[x].got[k] = worker[x].got[k]
  <2> SUFFICES ASSUME NEW x \in Workers, NEW k \in Kinds
               PROVE  /\ inFlight'[x][k] \in Nat /\ inFlight[x][k] \in Nat /\ worker[x].got[k] \in Nat
                      /\ inFlight'[x][k] = IF x # w /\ k = kind THEN inFlight[x][k] + 1
                                           ELSE inFlight[x][k]
                      /\ worker'[x].got[k] = worker[x].got[k]
    OBVIOUS
  <2>1. inFlight[x] \in Counts /\ inFlight'[x] \in Counts /\ worker[x].got \in Counts
    BY <1>1, <1>8 DEF WorkerType
  <2>2. inFlight'[x] = IF x = w THEN inFlight[x] ELSE [inFlight[x] EXCEPT ![kind] = @ + 1]
    BY DEF Export
  <2> QED
    BY <1>7, <2>1, <2>2 DEF Counts
<1>10. Types'
  BY <1>2, <1>6, <1>8 DEF IInv, Types
<1>11. /\ Heard' = Heard
       /\ \A k \in Kinds : HeardCount(k)' = HeardCount(k) /\ w \notin HeardCount(k)
  BY <1>2, <1>3, <1>7 DEF Heard, HeardCount, Reported, Told, Announced, Counted, Before, Counting
<1>12. ASSUME NEW S \in SUBSET Workers, NEW k \in Kinds, k # kind \/ w \notin S
       PROVE  Exports(S, k)' = Exports(S, k)
  <2>1. \A x \in S : worker'[x].sent[k] = worker[x].sent[k]
    BY <1>1, <1>7, <1>12 DEF Counts
  <2> QED
    BY <2>1 DEF Exports
<1>13. ASSUME NEW S \in SUBSET Workers, w \in S
       PROVE  LET new == <<w, worker[w].sent[kind] + 1>>
              IN new \notin Exports(S, kind) /\ Exports(S, kind)' = Exports(S, kind) \cup {new}
  <2>1. \A x \in S \ {w} : worker'[x].sent[kind] = worker[x].sent[kind]
    BY <1>7
  <2>2. worker'[w].sent[kind] = worker[w].sent[kind] + 1
    BY <1>1, <1>7 DEF Counts
  <2>3. 1..worker'[w].sent[kind] = (1..worker[w].sent[kind]) \cup {worker[w].sent[kind] + 1}
    BY <1>1, <2>2
  <2>4. <<w, worker[w].sent[kind] + 1>> \notin Exports(S, kind)
    BY <1>1 DEF Exports
  <2> QED
    BY <1>13, <2>1, <2>3, <2>4 DEF Exports
<1>14. ManagerCounts'
  <2>1. ManagerCounts
    BY DEF IInv
  <2>2. ASSUME NEW k \in Kinds
        PROVE  /\ (announced[k] = Cardinality(HeardCount(k)))'
               /\ \A x \in Workers :
                    (dueTo[x][k] = Cardinality(Exports(HeardCount(k) \ {x}, k)))'
    <3>1. HeardCount(k) \subseteq Workers
      BY DEF HeardCount
    <3>2. \A x \in Workers : Exports(HeardCount(k) \ {x}, k)' = Exports(HeardCount(k) \ {x}, k)
      BY <1>11, <1>12, <3>1
    <3> QED
      BY <1>2, <1>11, <2>1, <3>2, Zenon DEF ManagerCounts
  <2>3. (reported = Cardinality(Heard) /\ (reported > 0 => verdict # None))'
    BY <1>2, <1>11, <2>1 DEF ManagerCounts
  <2> QED
    BY <2>2, <2>3, Zenon DEF ManagerCounts
<1>15. ASSUME NEW k \in Kinds
       PROVE  /\ IsFiniteSet(Exports(Workers, k)')
              /\ \A x \in Workers : worker'[x].got[k] + inFlight'[x][k]
                                      <= Cardinality(Exports(Workers \ {x}, k)')
  <2>1. IsFiniteSet(Exports(Workers, k))
    BY DEF IInv, ArrivesOnce
  <2>2. ASSUME NEW S \in SUBSET Workers
        PROVE  /\ IsFiniteSet(Exports(S, k)')
               /\ Cardinality(Exports(S, k)') = IF k = kind /\ w \in S
                                                THEN Cardinality(Exports(S, k)) + 1
                                                ELSE Cardinality(Exports(S, k))
    <3>1. IsFiniteSet(Exports(S, k))
      BY <2>1, ExportsWithin
    <3>2. CASE k = kind /\ w \in S
      <4>1. PICK new : new \notin Exports(S, k) /\ Exports(S, k)' = Exports(S, k) \cup {new}
        BY <1>13, <3>2
      <4> QED
        BY <3>1, <3>2, <4>1, FS_AddElement
    <3>3. CASE k # kind \/ w \notin S
      BY <1>12, <3>1, <3>3
    <3> QED
      BY <3>2, <3>3
  <2>3. ASSUME NEW x \in Workers
        PROVE  worker'[x].got[k] + inFlight'[x][k] <= Cardinality(Exports(Workers \ {x}, k)')
    <3>1. PICK c : c = Cardinality(Exports(Workers \ {x}, k))
      OBVIOUS
    <3>2. c \in Nat /\ worker[x].got[k] + inFlight[x][k] <= c
      BY <2>1, <3>1, ExportsWithin DEF IInv, ArrivesOnce
    <3>3. Cardinality(Exports(Workers \ {x}, k)') = IF k = kind /\ w # x THEN c + 1 ELSE c
      BY <2>2, <3>1
    <3> QED
      BY <1>9, <3>2, <3>3
  <2> QED
    BY <2>2, <2>3
<1>16. ArrivesOnce'
  BY <1>15 DEF ArrivesOnce
<1>17. ReceivedBeforePassed'
  <2>1. \A x \in Workers : \A k \in Kinds : ~Passed(x, k)
    <3> SUFFICES ASSUME NEW x \in Workers, NEW k \in Kinds, Passed(x, k) PROVE FALSE
      OBVIOUS
    <3>1. x # w
      BY <1>3 DEF Passed, Before
    <3>2. ~Searching(w)
      BY <3>1 DEF IInv, ReceivedBeforePassed, Passed
    <3> QED
      BY <3>2 DEF Export
  <2>2. \A x \in Workers : \A k \in Kinds : ~Passed(x, k)'
    BY <1>7, <2>1 DEF Passed
  <2> QED
    BY <2>2 DEF ReceivedBeforePassed, Passed
<1>18. ASSUME NEW x \in Workers PROVE Own(x)'
  <2>1. Own(x)
    BY DEF IInv
  <2>2. /\ worker'[x].pc = worker[x].pc /\ worker'[x].found = worker[x].found
        /\ worker'[x].finished = worker[x].finished /\ worker'[x].stopped = worker[x].stopped
        /\ worker'[x].stage = worker[x].stage /\ worker'[x].display = worker[x].display
        /\ worker'[x].due = worker[x].due /\ worker'[x].lost = worker[x].lost
        /\ worker[x].pc \notin Before => worker'[x].sent = worker[x].sent
        /\ ~Fully => worker'[x].sent["clause"] = worker[x].sent["clause"]
    BY <1>1, <1>3, <1>7 DEF Counts, Kinds
  <2>3. Ended(x)' /\ ToManager(x)' /\ LastHeard(x)'
    BY <1>2, <2>1, <2>2 DEF Own, Ended, ToManager, LastHeard, Fully, Before
  <2>4. Staged(x)'
    BY <1>2, <2>1, <2>2 DEF Own, Staged, Fully, Told, Counted
  <2>5. ToWorker(x)'
    BY <1>2, <2>1, <2>2 DEF Own, ToWorker, AnswerTo, CountTo, Told
  <2> QED
    BY <2>3, <2>4, <2>5 DEF Own
<1> QED
  BY <1>10, <1>14, <1>16, <1>17, <1>18 DEF IInv

-----------------------------------------------------------------------------
(* The manager.  What it reads of a worker is what that one has sent.      *)
LEMMA ManagerReads ==
  ASSUME IInv, NEW w \in Workers, NEW tag, Receives(w, tag)
  PROVE  /\ listening /\ toManager'[w] = <<>>
         /\ toManager' = [toManager EXCEPT ![w] = <<>>]
         /\ tag = "SOLUTION_FOUND" =>
              worker[w].pc \in {"stop", "answer"} /\ Value(w) = worker[w].found
         /\ \A kind \in Kinds : tag = StopComTag(kind) =>
              /\ worker[w].pc = "count" /\ worker[w].stage = kind
              /\ Value(w) = worker[w].sent[kind]
         /\ tag = "JOB_FINISHED" => worker[w].pc \in {"kill", "done"} /\ worker[w].display
         /\ tag \in {"SOLUTION_FOUND", "JOB_FINISHED"} \cup {StopComTag(kind) : kind \in Kinds}
              => toManager[w] # <<>>
<1>1. ToManager(w) /\ worker[w].stage \in Kinds
  BY DEF IInv, Own, Types, WorkerType
<1>2. PICK m : toManager[w] = <<m>>
  BY <1>1 DEF ToManager, Receives
<1>3. Head(toManager[w]) = m /\ Tail(toManager[w]) = <<>>
  BY <1>2
<1>4. m.tag = tag /\ Value(w) = m.value
  BY <1>3 DEF Receives, Value
<1>5. toManager' = [toManager EXCEPT ![w] = <<>>] /\ toManager'[w] = <<>>
  BY <1>3 DEF Receives, IInv, Types
<1>6. \/ /\ worker[w].pc \in {"stop", "answer"}
         /\ m = Message("SOLUTION_FOUND", worker[w].found)
      \/ /\ worker[w].pc = "count"
         /\ m = Message(StopComTag(worker[w].stage), worker[w].sent[worker[w].stage])
      \/ /\ worker[w].pc \in {"kill", "done"} /\ worker[w].display
         /\ m = Message("JOB_FINISHED", 0)
  BY <1>1, <1>2 DEF ToManager
<1> QED
  BY <1>1, <1>2, <1>4, <1>5, <1>6 DEF Receives, Message, StopComTag, Kinds

(* The worker that has printed is the last the manager has to hear.        *)
LEMMA JobFinishedKeeps ==
  ASSUME IInv, NEW w \in Workers, JobFinished(w), UNCHANGED mode
  PROVE  IInv'
<1>1. /\ UNCHANGED <<mode, worker, inFlight, toWorker, verdict, reported, announced, dueTo, printed>>
      /\ listening /\ listening' = FALSE
  BY DEF JobFinished, Receives
<1>2. /\ worker[w].pc \in {"kill", "done"} /\ worker[w].display
      /\ toManager' = [toManager EXCEPT ![w] = <<>>] /\ toManager'[w] = <<>>
  BY ManagerReads DEF JobFinished
<1>3. SameWorkers
  BY <1>1 DEF SameWorkers
<1>4. Types'
  BY <1>1, <1>2 DEF IInv, Types
<1>5. \A x \in Workers \ {w} : toManager'[x] = toManager[x]
  BY <1>2 DEF IInv, Types
<1>6. /\ Told(w) /\ Reported(w)
      /\ \A kind \in Kinds : Announced(w, kind) => Counted(w, kind)
  BY <1>2 DEF Told, Reported, Announced, Counted, Before, Counting
<1>7. Heard' = Heard /\ \A kind \in Kinds : HeardCount(kind)' = HeardCount(kind)
  BY <1>3, <1>1, <1>5, <1>6, WorkersStay DEF Heard, HeardCount
<1>8. ManagerCounts'
  BY <1>1, <1>3, <1>7, CountsStay DEF IInv, ManagerCounts
<1>9. ASSUME NEW x \in Workers PROVE LastHeard(x)'
  <2>1. PICK last \in Kinds : last = IF Fully THEN "clause" ELSE "unit"
    BY DEF Kinds
  <2>2. Own(w) /\ Own(x) /\ worker[w].stage \in Kinds /\ worker[x].stage \in Kinds
    BY DEF IInv, Types, WorkerType
  <2>3. Counted(w, last)
    BY <1>2, <2>1, <2>2 DEF Own, Staged, Counted, Counting, Kinds
  <2>4. announced[last] = N /\ HeardCount(last) = Workers
    BY <2>2, <2>3, CountersTell DEF Own, Staged
  <2>5. Announced(x, last) /\ (toManager[x] = <<>> \/ Counted(x, last))
    BY <2>4 DEF HeardCount
  <2>6. worker[x].pc \in Counting /\ worker[x].stage = last
    BY <2>1, <2>2, <2>5 DEF Announced, Own, Staged, Kinds
  <2>7. Told(x) /\ worker[w].display = (verdict = w) /\ worker[x].display = (verdict = x)
    BY <1>6, <2>2, <2>6 DEF Own, Staged, Told, Before, Counting
  <2>8. worker[x].display => x = w
    BY <1>2, <2>7
  <2>9. toManager'[x] = <<>>
    BY <1>2, <1>5, <2>1, <2>2, <2>5, <2>6, <2>8 DEF Own, ToManager, Counted, Counting
  <2> QED
    BY <1>1, <1>2, <2>1, <2>4, <2>6, <2>8, <2>9 DEF LastHeard, Fully
<1>10. ASSUME NEW x \in Workers PROVE Own(x)'
  <2>1. Own(x)
    BY DEF IInv
  <2>2. Ended(x)' /\ Staged(x)'
    BY <1>1, <2>1 DEF Own, Ended, Staged, Fully, Told, Counted
  <2>3. ToManager(x)'
    BY <1>1, <1>2, <1>5, <2>1 DEF Own, ToManager
  <2>4. ToWorker(x)'
    BY <1>1, <2>1 DEF Own, ToWorker, AnswerTo, CountTo, Told
  <2> QED
    BY <1>9, <2>2, <2>3, <2>4 DEF Own
<1> QED
  BY <1>1, <1>3, <1>4, <1>8, <1>10, WorkersStay DEF IInv

(* Before the first verdict no worker can have received anything.          *)
LEMMA NoVerdictYet ==
  ASSUME IInv, NEW x \in Workers, verdict = None
  PROVE  /\ worker[x].pc \in Before \cup {"stop"} /\ ~worker[x].stopped /\ ~Told(x)
         /\ toWorker[x] = <<>> /\ printed = {} /\ reported = 0 /\ reported # N
         /\ ~Counted(x, "unit") /\ ~Counted(x, "clause") /\ listening
<1>1. Own(x) /\ printed = {} /\ worker[x].stage \in Kinds
  BY DEF IInv, Types, WorkerType
<1>2. worker[x].pc \in Before \cup {"stop"} /\ ~worker[x].stopped /\ ~Told(x)
  BY <1>1 DEF Own, Ended, Told
<1>3. reported = 0 /\ reported # N
  BY CountersTell, CountOfWorkers DEF IInv, ManagerCounts, Types
<1>4. toWorker[x] = <<>>
  BY <1>1, <1>2, <1>3 DEF Own, ToWorker, AnswerTo
<1>5. ~Counted(x, "unit") /\ ~Counted(x, "clause") /\ listening
  BY <1>1, <1>2 DEF Counted, Own, Staged, LastHeard, Counting, Before
<1> QED
  BY <1>1, <1>2, <1>3, <1>4, <1>5

LEMMA TreeUNSATKeeps ==
  ASSUME IInv, TreeUNSAT, UNCHANGED mode
  PROVE  IInv'
<1>1. /\ UNCHANGED <<mode, worker, inFlight, toManager, listening, reported, announced, dueTo>>
      /\ verdict = None /\ verdict' = Tree /\ Tree # None /\ Tree \notin Workers
  BY NamesAssumption DEF TreeUNSAT
<1>2. ASSUME NEW x \in Workers PROVE toWorker'[x] = <<StopMessage>>
  <2>1. toWorker'[x] = Append(toWorker[x], StopMessage)
    BY DEF TreeUNSAT, StopMessage
  <2>2. toWorker[x] = <<>>
    BY <1>1, NoVerdictYet
  <2> QED
    BY <2>1, <2>2
<1>3. printed' = {Tree}
  BY <1>1 DEF TreeUNSAT, IInv, Types
<1>4. SameWorkers
  BY <1>1 DEF SameWorkers
<1>5. Types'
  <2>1. toWorker' = [x \in Workers |-> toWorker'[x]]
    BY DEF TreeUNSAT
  <2> QED
    BY <1>1, <1>3, <2>1 DEF IInv, Types
<1>6. Heard' = Heard /\ \A kind \in Kinds : HeardCount(kind)' = HeardCount(kind)
  BY <1>1, <1>4, WorkersStay DEF Heard, HeardCount
<1>7. ManagerCounts'
  BY <1>1, <1>4, <1>6, CountsStay
<1>8. ASSUME NEW x \in Workers PROVE Own(x)'
  <2>1. Own(x)
    BY DEF IInv
  <2>2. /\ worker[x].pc \in Before \cup {"stop"} /\ ~worker[x].stopped /\ ~Told(x)
        /\ reported # N /\ listening /\ printed = {}
        /\ ~Counted(x, "unit") /\ ~Counted(x, "clause")
    BY <1>1, NoVerdictYet
  <2>3. Ended(x)' /\ ToManager(x)' /\ LastHeard(x)'
    BY <1>1, <2>1, <2>2 DEF Own, Ended, ToManager, LastHeard
  <2>4. Told(x)' = Told(x) /\ Counted(x, "unit")' = Counted(x, "unit")
        /\ Counted(x, "clause")' = Counted(x, "clause")
    BY <1>1 DEF Told, Counted
  <2>5. Staged(x)'
    BY <1>1, <1>3, <2>1, <2>2, <2>4 DEF Own, Staged, Fully, Kinds
  <2>6. ToWorker(x)'
    BY <1>1, <1>2, <2>2, <2>4 DEF ToWorker, AnswerTo, Before
  <2> QED
    BY <2>3, <2>5, <2>6 DEF Own
<1> QED
  BY <1>1, <1>4, <1>5, <1>7, <1>8, WorkersStay DEF IInv

(* The first report with a solution gives the verdict, the last report     *)
(* gives the answers: each goes to all workers, behind what they have not  *)
(* received yet.                                                           *)
LEMMA SolutionFoundKeeps ==
  ASSUME IInv, NEW w \in Workers, SolutionFound(w), UNCHANGED mode
  PROVE  IInv'
<1>1. /\ UNCHANGED <<mode, worker, inFlight, listening, announced, dueTo, printed>>
      /\ listening /\ reported' = reported + 1
  BY DEF SolutionFound, Receives
<1>2. /\ worker[w].pc \in {"stop", "answer"} /\ Value(w) = worker[w].found
      /\ toManager' = [toManager EXCEPT ![w] = <<>>] /\ toManager'[w] = <<>> /\ toManager[w] # <<>>
  BY ManagerReads DEF SolutionFound
<1>3. \A x \in Workers \ {w} : toManager'[x] = toManager[x]
  BY <1>2 DEF IInv, Types
<1>4. SameWorkers
  BY <1>1 DEF SameWorkers
<1>5. /\ worker[w].found \in BOOLEAN /\ reported \in 0..N /\ N \in Nat
      /\ verdict \in Workers \cup {Tree, None} /\ printed \subseteq {verdict} \ {None}
  BY CountOfWorkers DEF IInv, Types, WorkerType
<1>6. /\ verdict' = (IF verdict = None /\ worker[w].found THEN w ELSE verdict)
      /\ verdict' # None
  <2>1. Own(w)
    BY DEF IInv
  <2>2. worker[w].found \/ verdict # None
    BY <1>2, <2>1 DEF Own, Ended
  <2>3. w # None
    BY NamesAssumption
  <2> QED
    BY <1>2, <1>5, <2>2, <2>3 DEF SolutionFound, IsFirst
<1>7. Told(w) = FALSE /\ Reported(w) /\ \A kind \in Kinds : ~Counted(w, kind) /\ ~Announced(w, kind)
  <2>1. Own(w) /\ worker[w].stage \in Kinds
    BY DEF IInv, Types, WorkerType
  <2> QED
    BY <1>2, <2>1 DEF Told, Reported, Counted, Announced, Own, Staged, Counting, Before, Kinds
<1>8. w \notin Heard /\ Heard' = Heard \cup {w}
  BY <1>2, <1>3, <1>4, <1>1, <1>7, WorkersStay DEF Heard
<1>9. \A kind \in Kinds : HeardCount(kind)' = HeardCount(kind)
  BY <1>1, <1>3, <1>4, <1>7, WorkersStay DEF HeardCount
<1>10. /\ reported # N /\ reported' = Cardinality(Heard') /\ reported' \in 0..N
       /\ reported' = N => Heard' = Workers
  <2>1. Heard \in SUBSET Workers /\ Heard' \in SUBSET Workers
    BY <1>8 DEF Heard
  <2>2. reported = Cardinality(Heard) /\ IsFiniteSet(Heard)
    BY <2>1, AllHeard DEF IInv, ManagerCounts
  <2>3. Cardinality(Heard') = reported + 1
    BY <1>8, <2>2, FS_AddElement
  <2>4. Cardinality(Heard') \in 0..N /\ (Cardinality(Heard') = N => Heard' = Workers)
    BY <2>1, AllHeard
  <2> QED
    BY <1>1, <1>8, <2>3, <2>4, CountersTell
<1>11. ManagerCounts'
  <2>1. ManagerCounts
    BY DEF IInv
  <2>2. ASSUME NEW kind \in Kinds
        PROVE  /\ (announced[kind] = Cardinality(HeardCount(kind)))'
               /\ \A x \in Workers :
                    (dueTo[x][kind] = Cardinality(Exports(HeardCount(kind) \ {x}, kind)))'
    <3>1. HeardCount(kind) \subseteq Workers
      BY DEF HeardCount
    <3>2. \A x \in Workers :
            Exports(HeardCount(kind) \ {x}, kind)' = Exports(HeardCount(kind) \ {x}, kind)
      BY <1>1, <1>4, <1>9, <3>1, WorkersStay
    <3> QED
      BY <1>1, <1>9, <2>1, <3>2, Zenon DEF ManagerCounts
  <2>3. (reported = Cardinality(Heard) /\ (reported > 0 => verdict # None))'
    BY <1>6, <1>10
  <2> QED
    BY <2>2, <2>3, Zenon DEF ManagerCounts
<1>12. Types'
  <2>1. toWorker' = [x \in Workers |-> toWorker'[x]]
    BY DEF SolutionFound
  <2>2. printed' \subseteq {verdict'} \ {None}
    BY <1>1, <1>5, <1>6
  <2>3. verdict' \in Workers \cup {Tree, None}
    BY <1>5, <1>6
  <2>4. toManager' = [x \in Workers |-> toManager'[x]]
    BY <1>2 DEF IInv, Types
  <2> QED
    BY <1>1, <1>10, <2>1, <2>2, <2>3, <2>4 DEF IInv, Types
<1>13. ASSUME NEW x \in Workers PROVE ~Told(x)
  BY <1>10 DEF IInv, Own, Staged
<1>14. ASSUME NEW x \in Workers
       PROVE  /\ AnswerTo(x) = <<>> /\ (Last(reported) <=> reported' = N)
              /\ verdict # None => verdict' = verdict
              /\ verdict = None => toWorker[x] = <<>> /\ ~worker[x].stopped
              /\ toWorker'[x] = (toWorker[x] \o (IF verdict = None THEN <<StopMessage>> ELSE <<>>))
                                  \o AnswerTo(x)'
  <2>1. AnswerTo(x) = <<>> /\ (Last(reported) <=> reported' = N)
    BY <1>1, <1>10 DEF AnswerTo, Last, N
  <2>2. IsFirst(w) <=> verdict = None
    BY <1>2, <1>5, <1>6 DEF IsFirst
  <2>3. verdict = None => toWorker[x] = <<>> /\ ~worker[x].stopped
    BY NoVerdictYet
  <2>4. AnswerTo(x)' = IF ~Last(reported) THEN <<>>
                       ELSE IF x = verdict' THEN <<Message("PRINT_SOLUTION", 0)>>
                       ELSE <<Message("SOLUTION_IND", 0)>>
    BY <2>1 DEF AnswerTo, N
  <2>5. toWorker'[x] = toWorker[x] \o (IF verdict = None THEN <<StopMessage>> ELSE <<>>)
                         \o (IF ~Last(reported) THEN <<>>
                             ELSE IF x = verdict' THEN <<Message("PRINT_SOLUTION", 0)>>
                             ELSE <<Message("SOLUTION_IND", 0)>>)
    BY <2>2 DEF SolutionFound, StopMessage
  <2> QED
    BY <1>6, <2>1, <2>3, <2>4, <2>5
<1>15. ASSUME NEW x \in Workers PROVE Own(x)'
  <2>1. Own(x) /\ ~Told(x) /\ ~Told(x)'
    BY <1>1, <1>13 DEF IInv, Told
  <2>2. Ended(x)'
    BY <1>1, <1>6, <2>1 DEF Own, Ended
  <2>3. Staged(x)'
    <3>1. \A kind \in Kinds : Counted(x, kind)' => Counted(x, kind)
      BY <1>1 DEF Counted
    <3> QED
      BY <1>1, <2>1, <3>1 DEF Own, Staged, Fully
  <2>4. ToManager(x)' /\ LastHeard(x)'
    BY <1>1, <1>2, <1>3, <2>1 DEF Own, ToManager, LastHeard
  <2>5. ToWorker(x)'
    <3>1. AnswerTo(x)' = <<>> \/ \E m : AnswerTo(x)' = <<m>>
      BY DEF AnswerTo
    <3>2. /\ (<<>> \o <<>>) \o AnswerTo(x)' = AnswerTo(x)'
          /\ (<<StopMessage>> \o <<>>) \o AnswerTo(x)' = <<StopMessage>> \o AnswerTo(x)'
          /\ (<<>> \o <<StopMessage>>) \o AnswerTo(x)' = <<StopMessage>> \o AnswerTo(x)'
          /\ <<StopMessage>> \o <<>> = <<StopMessage>>
      <4>1. <<>> \o AnswerTo(x)' = AnswerTo(x)'
        BY <3>1
      <4>2. <<>> \o <<>> = <<>> /\ <<StopMessage>> \o <<>> = <<StopMessage>>
            /\ <<>> \o <<StopMessage>> = <<StopMessage>>
        OBVIOUS
      <4> QED
        BY <4>1, <4>2
    <3>3. /\ worker[x].pc \in Before \cup {"stop", "answer"}
          /\ worker[x].pc = "answer" => worker[x].stopped /\ verdict # None
          /\ worker[x].pc \in Before => AnswerTo(x)' = <<>>
      BY <1>1, <1>10, <2>1 DEF Own, Ended, Told, Before, Heard, Reported, AnswerTo
    <3> DEFINE owed == verdict # None /\ ~worker[x].stopped
               lost == "order" \in worker[x].lost
    <3>4. \/ toWorker[x] = <<>> /\ (owed => lost)
          \/ toWorker[x] = <<StopMessage>> /\ owed
      <4>1. CASE worker[x].pc \in Before
        BY <2>1, <4>1 DEF Own, ToWorker
      <4>2. CASE worker[x].pc = "stop"
        BY <1>14, <2>1, <3>2, <4>2 DEF Own, ToWorker
      <4>3. CASE worker[x].pc = "answer"
        BY <1>14, <2>1, <3>3, <4>3 DEF Own, ToWorker
      <4> QED
        BY <3>3, <4>1, <4>2, <4>3
    <3>5. \/ toWorker'[x] = AnswerTo(x)' /\ (owed => lost)
             /\ verdict # None
          \/ toWorker'[x] = <<StopMessage>> \o AnswerTo(x)' /\ ~worker[x].stopped
      <4>1. CASE verdict = None
        BY <1>14, <3>2, <4>1
      <4>2. CASE verdict # None
        BY <1>14, <3>2, <3>4, <4>2
      <4> QED
        BY <4>1, <4>2
    <3>6. UNCHANGED <<worker>> /\ verdict' # None
      BY <1>1, <1>6
    <3>7. CASE worker[x].pc \in Before
      BY <2>1, <3>2, <3>3, <3>5, <3>6, <3>7 DEF ToWorker, Before
    <3>8. CASE worker[x].pc = "stop"
      BY <2>1, <3>5, <3>6, <3>8 DEF ToWorker, Before
    <3>9. CASE worker[x].pc = "answer"
      BY <2>1, <3>3, <3>5, <3>6, <3>9 DEF ToWorker, Before
    <3> QED
      BY <3>3, <3>7, <3>8, <3>9
  <2> QED
    BY <2>2, <2>3, <2>4, <2>5 DEF Own
<1> QED
  BY <1>1, <1>4, <1>11, <1>12, <1>15, WorkersStay DEF IInv

(* The last announcement of a kind gives the counts: every other worker    *)
(* has announced before, and waits.                                        *)
LEMMA ExportsOfOneMore ==
  ASSUME IInv, NEW kind \in Kinds, NEW S \in SUBSET Workers, NEW w \in Workers \ S
  PROVE  Cardinality(Exports(S \cup {w}, kind))
           = Cardinality(Exports(S, kind)) + worker[w].sent[kind]
<1>1. PICK n \in Nat : n = worker[w].sent[kind]
  <2>1. worker[w].sent \in Counts
    BY DEF IInv, Types, WorkerType
  <2> QED
    BY <2>1 DEF Counts
<1>2. PICK own : own = {w} \X (1..n)
  OBVIOUS
<1>3. PICK old : old = Exports(S, kind)
  OBVIOUS
<1>4. Exports(S \cup {w}, kind) = old \cup own /\ old \cap own = {}
  BY <1>1, <1>2, <1>3 DEF Exports
<1>5. IsFiniteSet(old) /\ Cardinality(old) \in Nat
  BY <1>3, ExportsWithin DEF IInv, ArrivesOnce
<1>6. IsFiniteSet(own) /\ Cardinality(own) = n
  <2>1. IsFiniteSet({w}) /\ Cardinality({w}) = 1
    BY FS_Singleton
  <2>2. IsFiniteSet(1..n) /\ Cardinality(1..n) = n
    BY FS_Interval
  <2>3. IsFiniteSet(own) /\ Cardinality(own) = 1 * n
    BY <1>2, <2>1, <2>2, FS_Product
  <2> QED
    BY <2>3
<1>7. Cardinality(old \cup own) = Cardinality(old) + n - 0
  <2>1. Cardinality(old \cap own) = 0
    BY <1>4, FS_EmptySet
  <2> QED
    BY <1>5, <1>6, <2>1, FS_Union
<1>8. /\ Cardinality(Exports(S \cup {w}, kind)) = Cardinality(old) + n - 0
      /\ Cardinality(Exports(S, kind)) = Cardinality(old)
  BY <1>3, <1>4, <1>7, Zenon
<1> QED
  BY <1>1, <1>5, <1>8

LEMMA StopComKeeps ==
  ASSUME IInv, NEW w \in Workers, NEW kind \in Kinds, StopCom(w, kind), UNCHANGED mode
  PROVE  IInv'
<1>1. /\ UNCHANGED <<mode, worker, inFlight, verdict, reported, printed>>
      /\ listening /\ announced' = [announced EXCEPT ![kind] = announced[kind] + 1]
      /\ announced \in [Kinds -> 0..N] /\ N \in Nat
  BY CountOfWorkers DEF StopCom, Receives, IInv, Types
<1>2. /\ worker[w].pc = "count" /\ worker[w].stage = kind /\ Value(w) = worker[w].sent[kind]
      /\ toManager' = [toManager EXCEPT ![w] = <<>>] /\ toManager'[w] = <<>> /\ toManager[w] # <<>>
  BY ManagerReads DEF StopCom
<1>3. \A x \in Workers \ {w} : toManager'[x] = toManager[x]
  BY <1>2 DEF IInv, Types
<1>4. SameWorkers
  BY <1>1 DEF SameWorkers
<1>5. /\ Told(w) /\ Announced(w, kind) /\ ~Counted(w, kind)
      /\ \A k \in Kinds \ {kind} : Announced(w, k) => Counted(w, k)
  BY <1>2 DEF Told, Announced, Counted, Before, Counting, Kinds
<1>6. Heard' = Heard
  BY <1>3, <1>4, <1>1, <1>5, WorkersStay DEF Heard
<1>7. /\ w \notin HeardCount(kind) /\ HeardCount(kind)' = HeardCount(kind) \cup {w}
      /\ \A k \in Kinds \ {kind} : HeardCount(k)' = HeardCount(k)
  BY <1>1, <1>2, <1>3, <1>4, <1>5, WorkersStay DEF HeardCount
<1>8. /\ announced[kind] # N /\ announced'[kind] = announced[kind] + 1
      /\ announced'[kind] = Cardinality(HeardCount(kind)') /\ announced'[kind] \in 0..N
      /\ announced'[kind] = N => HeardCount(kind)' = Workers
      /\ \A k \in Kinds \ {kind} : announced'[k] = announced[k]
  <2>1. HeardCount(kind) \in SUBSET Workers /\ HeardCount(kind)' \in SUBSET Workers
    BY <1>7 DEF HeardCount
  <2>2. announced[kind] = Cardinality(HeardCount(kind)) /\ IsFiniteSet(HeardCount(kind))
    BY <2>1, AllHeard DEF IInv, ManagerCounts
  <2>3. Cardinality(HeardCount(kind)') = announced[kind] + 1
    BY <1>7, <2>2, FS_AddElement
  <2>4. /\ Cardinality(HeardCount(kind)') \in 0..N
        /\ Cardinality(HeardCount(kind)') = N => HeardCount(kind)' = Workers
    BY <2>1, AllHeard
  <2> QED
    BY <1>1, <1>7, <2>3, <2>4, CountersTell
<1>9. /\ dueTo' \in [Workers -> Counts]
      /\ \A x \in Workers : \A k \in Kinds :
           dueTo'[x][k] = IF x # w /\ k = kind THEN dueTo[x][k] + worker[w].sent[kind] ELSE dueTo[x][k]
  <2>1. worker[w].sent[kind] \in Nat
    <3>1. worker[w].sent \in Counts
      BY DEF IInv, Types, WorkerType
    <3> QED
      BY <3>1 DEF Counts
  <2>2. dueTo' = [x \in Workers |-> IF x = w THEN dueTo[x]
                                    ELSE [dueTo[x] EXCEPT ![kind] = @ + worker[w].sent[kind]]]
    BY <1>2 DEF StopCom, AddToOthers
  <2>3. ASSUME NEW x \in Workers
        PROVE  /\ dueTo'[x] \in Counts
               /\ \A k \in Kinds : dueTo'[x][k] = IF x # w /\ k = kind
                                                  THEN dueTo[x][k] + worker[w].sent[kind]
                                                  ELSE dueTo[x][k]
    <3>1. dueTo[x] \in Counts
      BY DEF IInv, Types
    <3>2. dueTo'[x] = IF x = w THEN dueTo[x] ELSE [dueTo[x] EXCEPT ![kind] = @ + worker[w].sent[kind]]
      BY <2>2
    <3> QED
      BY <2>1, <3>1, <3>2 DEF Counts
  <2> QED
    BY <2>2, <2>3
<1>10. ManagerCounts'
  <2>1. ManagerCounts
    BY DEF IInv
  <2>2. ASSUME NEW k \in Kinds
        PROVE  /\ (announced[k] = Cardinality(HeardCount(k)))'
               /\ \A x \in Workers :
                    (dueTo[x][k] = Cardinality(Exports(HeardCount(k) \ {x}, k)))'
    <3>1. HeardCount(k) \subseteq Workers /\ HeardCount(k)' \subseteq Workers
      BY <1>7 DEF HeardCount
    <3>2. announced'[k] = Cardinality(HeardCount(k)')
      BY <1>7, <1>8, <2>1 DEF ManagerCounts
    <3>3. ASSUME NEW x \in Workers
          PROVE  dueTo'[x][k] = Cardinality(Exports(HeardCount(k) \ {x}, k)')
      <4>1. dueTo[x][k] = Cardinality(Exports(HeardCount(k) \ {x}, k))
        BY <2>1 DEF ManagerCounts
      <4>2. CASE x = w \/ k # kind
        <5>1. HeardCount(k)' \ {x} = HeardCount(k) \ {x}
          BY <1>7, <4>2
        <5>2. Exports(HeardCount(k) \ {x}, k)' = Exports(HeardCount(k) \ {x}, k)
          BY <1>1, <1>4, <3>1, <5>1, WorkersStay
        <5> QED
          BY <1>9, <4>1, <4>2, <5>2
      <4>3. CASE x # w /\ k = kind
        <5>1. PICK S \in SUBSET Workers : S = HeardCount(kind) \ {x} /\ w \notin S
          BY <1>7, <3>1, <4>3
        <5>2. HeardCount(kind)' \ {x} = S \cup {w}
          BY <1>7, <4>3, <5>1
        <5>3. Exports(HeardCount(kind) \ {x}, kind)' = Exports(S \cup {w}, kind)
          BY <1>1, <1>4, <5>2, WorkersStay
        <5>4. Cardinality(Exports(S \cup {w}, kind))
                = Cardinality(Exports(S, kind)) + worker[w].sent[kind]
          BY <5>1, ExportsOfOneMore
        <5> QED
          BY <1>9, <4>1, <4>3, <5>1, <5>3, <5>4
      <4> QED
        BY <4>2, <4>3
    <3> QED
      BY <3>2, <3>3
  <2>3. (reported = Cardinality(Heard) /\ (reported > 0 => verdict # None))'
    BY <1>1, <1>6, <2>1 DEF ManagerCounts
  <2> QED
    BY <2>2, <2>3, Zenon DEF ManagerCounts
<1>11. Types'
  <2>1. toWorker' = [x \in Workers |-> toWorker'[x]] /\ listening' \in BOOLEAN
    BY DEF StopCom
  <2>2. toManager' = [x \in Workers |-> toManager'[x]]
    BY <1>2 DEF IInv, Types
  <2>3. announced' \in [Kinds -> 0..N]
    BY <1>1, <1>8
  <2> QED
    BY <1>1, <1>9, <2>1, <2>2, <2>3 DEF IInv, Types
<1>12. ASSUME NEW x \in Workers
       PROVE  /\ Own(x) /\ worker[x].stage \in Kinds /\ ~Counted(x, kind)
              /\ announced'[kind] = N =>
                   /\ worker[x].pc = "count" /\ worker[x].stage = kind
                   /\ toManager'[x] = <<>>
  <2>1. Own(x) /\ worker[x].stage \in Kinds
    BY DEF IInv, Types, WorkerType
  <2>2. ~Counted(x, kind)
    BY <1>8, <2>1 DEF Own, Staged
  <2>3. ASSUME announced'[kind] = N
        PROVE  worker[x].pc = "count" /\ worker[x].stage = kind /\ toManager'[x] = <<>>
    <3>1. Announced(x, kind)' /\ (toManager'[x] = <<>> \/ Counted(x, kind)')
      BY <1>8, <2>3 DEF HeardCount
    <3>2. Announced(x, kind) /\ toManager'[x] = <<>>
      BY <1>1, <1>4, <2>2, <3>1, WorkersStay
    <3> QED
      BY <2>2, <3>2 DEF Announced, Counted
  <2> QED
    BY <2>1, <2>2, <2>3
<1>13. Last(announced[kind]) <=> announced'[kind] = N
  BY <1>8 DEF Last, N
<1>14. ASSUME NEW x \in Workers PROVE ToWorker(x)'
  <2>1. CASE announced'[kind] = N
    <3>1. worker[x].pc = "count" /\ worker[x].stage = kind /\ Own(x)
      BY <1>12, <2>1
    <3>2. toWorker[x] = <<>>
      BY <1>8, <3>1 DEF Own, ToWorker, CountTo
    <3>3. toWorker'[x] = <<>> \o <<Message("COUNT", dueTo'[x][kind])>>
      BY <1>13, <2>1, <3>2 DEF StopCom
    <3>4. toWorker'[x] = CountTo(x)'
      BY <1>1, <2>1, <3>1, <3>3 DEF CountTo
    <3> QED
      BY <1>1, <3>1, <3>4 DEF ToWorker, Before
  <2>2. CASE announced'[kind] # N
    <3>1. \E s : toWorker[x] \in {<<>>, <<s>>} \/ \E m : toWorker[x] = <<s>> \o <<m>>
      <4>1. AnswerTo(x) = <<>> \/ \E m : AnswerTo(x) = <<m>>
        BY DEF AnswerTo
      <4>2. CountTo(x) = <<>> \/ \E m : CountTo(x) = <<m>>
        BY DEF CountTo
      <4>3. <<StopMessage>> \o <<>> = <<StopMessage>>
        OBVIOUS
      <4>4. ToWorker(x)
        BY <1>12 DEF Own
      <4>5. CASE worker[x].pc \in Before
        BY <4>4, <4>5 DEF ToWorker
      <4>6. CASE worker[x].pc = "stop"
        BY <4>1, <4>3, <4>4, <4>6 DEF ToWorker
      <4>7. CASE worker[x].pc \in {"answer", "count"}
        BY <4>1, <4>2, <4>4, <4>7 DEF ToWorker
      <4>8. CASE worker[x].pc \notin Before \cup {"stop", "answer", "count"}
        BY <4>4, <4>8 DEF ToWorker, Told
      <4> QED
        BY <4>5, <4>6, <4>7, <4>8
    <3>2. toWorker'[x] = toWorker[x] \o <<>>
      BY <1>13, <2>2 DEF StopCom
    <3>3. toWorker'[x] = toWorker[x]
      BY <3>1, <3>2, TwoMessages
    <3>4. CountTo(x)' = CountTo(x)
      BY <1>1, <1>8, <1>9, <1>12, <2>2 DEF CountTo
    <3>5. AnswerTo(x)' = AnswerTo(x) /\ Told(x)' = Told(x) /\ Own(x)
      BY <1>1, <1>12 DEF AnswerTo, Told
    <3> QED
      BY <1>1, <3>3, <3>4, <3>5 DEF Own, ToWorker
  <2> QED
    BY <2>1, <2>2
<1>15. ASSUME NEW x \in Workers PROVE LastHeard(x)'
  <2> SUFFICES ASSUME ~listening' PROVE LastHeard(x)'
    BY DEF LastHeard
  <2>1. kind = "clause" /\ announced'[kind] = N /\ verdict = Tree
    BY <1>13 DEF StopCom
  <2>2. Own(x) /\ worker[x].pc = "count" /\ worker[x].stage = kind /\ toManager'[x] = <<>>
    BY <1>12, <2>1
  <2>3. Fully
    BY <2>1, <2>2 DEF Own, Staged
  <2>4. ~worker[x].display
    BY <2>1, <2>2, NamesAssumption DEF Own, Staged, Told
  <2> QED
    BY <1>1, <2>1, <2>2, <2>3, <2>4 DEF LastHeard, Fully, Counting
<1>16. ASSUME NEW x \in Workers PROVE Own(x)'
  <2>1. Ended(x)'
    BY <1>1, <1>12 DEF Own, Ended
  <2>2. ToManager(x)'
    BY <1>1, <1>2, <1>3, <1>12 DEF Own, ToManager
  <2>3. Staged(x)'
    <3>1. ASSUME NEW k \in Kinds, Counted(x, k)'
          PROVE  (announced[k] = N /\ worker[x].due[k] = dueTo[x][k])'
      <4>1. Counted(x, k)
        BY <1>1, <1>4, <3>1, WorkersStay
      <4>2. k # kind
        BY <1>12, <4>1
      <4> QED
        BY <1>1, <1>8, <1>9, <1>12, <4>1, <4>2 DEF Own, Staged
    <3>2. Told(x)' = Told(x)
      BY <1>1 DEF Told
    <3> QED
      BY <1>1, <1>12, <3>1, <3>2 DEF Own, Staged, Fully
  <2> QED
    BY <1>14, <1>15, <2>1, <2>2, <2>3 DEF Own
<1> QED
  BY <1>1, <1>4, <1>10, <1>11, <1>16, WorkersStay DEF IInv

-----------------------------------------------------------------------------
(* Every step keeps the invariant.                                         *)
LEMMA NextIInv == IInv /\ [Next]_vars => IInv'
<1> SUFFICES ASSUME IInv, [Next]_vars PROVE IInv'
  OBVIOUS
<1>1. CASE UNCHANGED vars
  <2>1. UNCHANGED <<mode, worker, inFlight, toManager, toWorker, listening, verdict,
                    reported, announced, dueTo, printed>>
    BY <1>1 DEF vars, netVars, managerVars
  <2>2. SameWorkers
    BY <2>1 DEF SameWorkers
  <2>3. Types' /\ Heard' = Heard /\ \A kind \in Kinds : HeardCount(kind)' = HeardCount(kind)
    BY <2>1, <2>2, WorkersStay DEF IInv, Types, Heard, HeardCount
  <2>4. ManagerCounts'
    BY <2>1, <2>2, <2>3, CountsStay DEF IInv, ManagerCounts
  <2>5. ASSUME NEW x \in Workers PROVE Own(x)'
    BY <2>1 DEF IInv, Own, Ended, Staged, ToManager, ToWorker, LastHeard, AnswerTo, CountTo,
                Told, Counted, Fully
  <2> QED
    BY <2>1, <2>2, <2>3, <2>4, <2>5, WorkersStay DEF IInv
<1>2. ASSUME NEW w \in Workers, MainStep(w), UNCHANGED mode PROVE IInv'
  BY <1>2, ListenManagerKeeps, ListenUnitKeeps, LeaveStartKeeps, TestManagerKeeps,
     CancelManagerKeeps, TestUnitKeeps, CancelUnitKeeps, ReportKeeps, ReceiveStopKeeps,
     ReceiveAnswerKeeps, StopThreadKeeps, JoinThreadKeeps, AnnounceKeeps, ReceiveCountKeeps,
     DrainKeeps, DrainedKeeps, DisplaySolutionKeeps, KillKeeps
     DEF MainStep
<1>3. ASSUME NEW w \in Workers, ListenerStep(w) \/ SearchStep(w), UNCHANGED mode PROVE IInv'
  BY <1>3, ListenClauseKeeps, ListenerEndsKeeps, EnterRoundKeeps, SolveKeeps,
     AskSubproblemKeeps, ExportKeeps
     DEF ListenerStep, SearchStep
<1>4. ASSUME ManagerStep \/ TreeUNSAT \/ Allgather, UNCHANGED mode PROVE IInv'
  BY <1>4, SolutionFoundKeeps, JobFinishedKeeps, StopComKeeps, TreeUNSATKeeps, AllgatherKeeps
     DEF ManagerStep
<1> QED
  BY <1>1, <1>2, <1>3, <1>4 DEF Next

THEOREM Invariance == Spec => []IInv
<1> QED
  BY InitIInv, NextIInv, PTL DEF Spec

(* Every variable keeps its type; no channel ever holds more than one      *)
(* message to the manager, or two to a worker.                             *)
THEOREM TypeCorrect == Spec => []TypeOK
<1>1. IInv => TypeOK
  <2> SUFFICES ASSUME IInv PROVE TypeOK
    OBVIOUS
  <2>1. ASSUME NEW w \in Workers PROVE Len(toManager[w]) <= 1
    <3>1. toManager[w] = <<>> \/ \E m : toManager[w] = <<m>>
      BY DEF IInv, Own, ToManager
    <3>2. ASSUME toManager[w] = <<>> PROVE Len(toManager[w]) <= 1
      BY <3>2
    <3>3. ASSUME NEW m, toManager[w] = <<m>> PROVE Len(toManager[w]) <= 1
      BY <3>3
    <3> QED
      BY <3>1, <3>2, <3>3, Zenon
  <2>2. ASSUME NEW w \in Workers PROVE Len(toWorker[w]) <= 2
    <3>1. ToWorker(w)
      BY DEF IInv, Own
    <3>2. /\ AnswerTo(w) = <<>> \/ \E m : AnswerTo(w) = <<m>>
          /\ CountTo(w) = <<>> \/ \E m : CountTo(w) = <<m>>
      BY DEF AnswerTo, CountTo
    <3>3. /\ <<StopMessage>> \o <<>> = <<StopMessage>>
          /\ \A m : <<StopMessage>> \o <<m>> = <<StopMessage, m>>
      BY TwoMessages
    <3>4. \/ toWorker[w] = <<>> \/ \E m : toWorker[w] = <<m>>
          \/ \E m : toWorker[w] = <<StopMessage, m>>
      <4>1. CASE worker[w].pc \in Before
        BY <3>1, <4>1 DEF ToWorker
      <4>2. CASE worker[w].pc = "stop"
        BY <3>1, <3>2, <3>3, <4>2 DEF ToWorker
      <4>3. CASE worker[w].pc \in {"answer", "count"}
        BY <3>1, <3>2, <4>3 DEF ToWorker
      <4>4. CASE worker[w].pc \notin Before \cup {"stop", "answer", "count"}
        BY <3>1, <4>4 DEF ToWorker, Told
      <4> QED
        BY <4>1, <4>2, <4>3, <4>4
    <3>5. ASSUME toWorker[w] = <<>> PROVE Len(toWorker[w]) <= 2
      BY <3>5
    <3>6. ASSUME NEW m, toWorker[w] = <<m>> PROVE Len(toWorker[w]) <= 2
      BY <3>6
    <3>7. ASSUME NEW m, toWorker[w] = <<StopMessage, m>> PROVE Len(toWorker[w]) <= 2
      BY <3>7
    <3> QED
      BY <3>4, <3>5, <3>6, <3>7, Zenon
  <2> QED
    BY <2>1, <2>2 DEF IInv, Types, TypeOK, N
<1> QED
  BY <1>1, Invariance, PTL

(* Units and clauses are all received before a worker goes on, because the *)
(* counts it waits for are final when they are made: stopCommunicationsULs *)
(* and stopCommunicationsClauses, messageStopComUls and                    *)
(* messageStopComClauses.  A receive that is matched while it is cancelled *)
(* loses a unit but none of the counts.                                    *)
THEOREM AllSentIsReceivedHolds == Spec => []AllSentIsReceived
<1>1. IInv => AllSentIsReceived
  <2> SUFFICES ASSUME IInv PROVE CountsAreFinal /\ ReceivedBeforePassed
    BY DEF AllSentIsReceived
  <2>1. ReceivedBeforePassed
    BY DEF IInv
  <2>2. ASSUME NEW w \in Workers, NEW kind \in Kinds, announced[kind] = N
        PROVE  dueTo[w][kind] = Cardinality(Exports(Workers \ {w}, kind))
    <3>1. HeardCount(kind) = Workers
      BY <2>2, CountersTell
    <3>2. dueTo[w][kind] = Cardinality(Exports(HeardCount(kind) \ {w}, kind))
      BY DEF IInv, ManagerCounts
    <3> QED
      BY <3>1, <3>2
  <2> QED
    BY <2>1, <2>2 DEF CountsAreFinal, N
<1> QED
  BY <1>1, Invariance, PTL

(* The manager leaves its listener (jobFinished, or the last announcement  *)
(* of clauses after treeUNSAT) when no worker has a message on its way to  *)
(* it or an answer to wait for.                                            *)
THEOREM ManagerOutlivesWorkersHolds == Spec => []ManagerOutlivesWorkers
<1>1. IInv => ManagerOutlivesWorkers
  <2> SUFFICES ASSUME IInv, ~listening, NEW w \in Workers
               PROVE  /\ toManager[w] = <<>>
                      /\ worker[w].pc \in {"count", "drain", "print", "kill", "done"}
                      /\ worker[w].pc = "count" => Answered(w)
    BY DEF ManagerOutlivesWorkers
  <2>1. LastHeard(w) /\ ToWorker(w)
    BY DEF IInv, Own
  <2>2. worker[w].pc = "count" => toWorker[w] # <<>>
    <3>1. worker[w].pc = "count" => toWorker[w] = CountTo(w)
      BY <2>1 DEF ToWorker
    <3>2. announced[worker[w].stage] = N
      BY <2>1 DEF LastHeard
    <3>3. CountTo(w) = <<Message("COUNT", dueTo[w][worker[w].stage])>>
      BY <3>2 DEF CountTo
    <3>4. \A m : <<m>> # <<>>
      OBVIOUS
    <3> QED
      BY <3>1, <3>3, <3>4, Zenon
  <2> QED
    BY <2>1, <2>2 DEF LastHeard, Counting, Answered
<1> QED
  BY <1>1, Invariance, PTL

(* Every message of the manager is received where it is meant, whatever    *)
(* MPI does to a message whose receive is being cancelled, except that a   *)
(* worker whose order to stop was swallowed so takes its answer for it.    *)
THEOREM NoMixedMessagesHolds == Spec => []NoMixedMessages
<1>1. IInv => NoMixedMessages
  <2> SUFFICES ASSUME IInv, NEW w \in Workers
               PROVE  /\ worker[w].pc # "problem"
                      /\ Answered(w) =>
                           CASE worker[w].pc = "count" -> Answer(w).tag = "COUNT"
                             [] worker[w].pc = "answer" -> Answer(w).tag \in Answers
                             [] worker[w].pc = "stop" ->
                                  Answer(w).tag \in {"STOP_AND_KILL"}
                                    \cup (IF "order" \in worker[w].lost THEN Answers ELSE {})
                             [] OTHER -> worker[w].pc \in {"drain", "print", "kill", "done"} => FALSE
    BY DEF NoMixedMessages
  <2>1. Ended(w) /\ ToWorker(w)
    BY DEF IInv, Own
  <2>2. ASSUME worker[w].pc = "count", Answered(w) PROVE Answer(w).tag = "COUNT"
    <3>1. toWorker[w] = <<Message("COUNT", dueTo[w][worker[w].stage])>>
      BY <2>1, <2>2 DEF ToWorker, CountTo, Answered
    <3> QED
      BY <3>1 DEF Answer, Message
  <2>3. ASSUME worker[w].pc = "answer", Answered(w) PROVE Answer(w).tag \in Answers
    <3>1. \/ toWorker[w] = <<Message("PRINT_SOLUTION", 0)>>
          \/ toWorker[w] = <<Message("SOLUTION_IND", 0)>>
      BY <2>1, <2>3 DEF ToWorker, AnswerTo, Answered
    <3> QED
      BY <3>1 DEF Answer, Message, Answers
  <2>4. ASSUME worker[w].pc = "stop", Answered(w)
        PROVE  \/ Answer(w).tag = "STOP_AND_KILL"
               \/ "order" \in worker[w].lost /\ Answer(w).tag \in Answers
    <3>1. ~worker[w].stopped
      BY <2>1, <2>4 DEF Ended
    <3>2. reported = N => verdict # None
      BY CountersTell
    <3>3. CASE toWorker[w] = <<StopMessage>> \o AnswerTo(w)
      <4>1. AnswerTo(w) = <<>> \/ \E m : AnswerTo(w) = <<m>>
        BY DEF AnswerTo
      <4>2. Head(toWorker[w]) = StopMessage
        BY <3>3, <4>1, FirstOfTwo
      <4> QED
        BY <4>2 DEF Answer, StopMessage, Message
    <3>4. CASE toWorker[w] = AnswerTo(w) /\ (verdict # None => "order" \in worker[w].lost)
      <4>1. reported = N /\ "order" \in worker[w].lost
        BY <2>4, <3>2, <3>4 DEF AnswerTo, Answered
      <4>2. \/ toWorker[w] = <<Message("PRINT_SOLUTION", 0)>>
            \/ toWorker[w] = <<Message("SOLUTION_IND", 0)>>
        BY <3>4, <4>1 DEF AnswerTo
      <4> QED
        BY <4>1, <4>2 DEF Answer, Message, Answers
    <3> QED
      BY <2>1, <2>4, <3>1, <3>3, <3>4 DEF ToWorker
  <2>5. worker[w].pc \in {"drain", "print", "kill", "done"} => ~Answered(w)
    BY <2>1 DEF ToWorker, Told, Before, Answered
  <2>6. worker[w].pc # "problem"
    BY <2>1 DEF Ended
  <2> QED
    BY <2>2, <2>3, <2>4, <2>5, <2>6
<1> QED
  BY <1>1, Invariance, PTL

-----------------------------------------------------------------------------
(* One verdict, printed once, by the one who gave it, before that one      *)
(* leaves: each step is a step of Verdict, or changes nothing of it.       *)
LEMMA InitVerdict == Init => V!Init
BY DEF Init, V!Init

(* A step that touches neither who has a solution, nor the verdict, nor    *)
(* who has printed or ended.                                               *)
Silent ==
  /\ UNCHANGED <<verdict, printed>>
  /\ \A x \in Workers : /\ worker'[x].found = worker[x].found
                        /\ worker'[x].pc = "done" <=> worker[x].pc = "done"

LEMMA SilentStutters == Silent => UNCHANGED V!vars
<1> SUFFICES ASSUME Silent PROVE UNCHANGED V!vars
  OBVIOUS
<1>1. {x \in Workers : worker[x].found}' = {x \in Workers : worker[x].found}
  BY DEF Silent
<1>2. {x \in Workers : worker[x].pc = "done"}' = {x \in Workers : worker[x].pc = "done"}
  BY DEF Silent
<1> QED
  BY <1>1, <1>2 DEF Silent, V!vars

LEMMA MainStepVerdict ==
  ASSUME IInv, NEW w \in Workers, MainStep(w)
  PROVE  Silent \/ V!Display(w) \/ V!Leave(w)
<1>1. /\ worker \in [Workers -> WorkerType] /\ worker[w] \in WorkerType /\ Own(w)
      /\ printed \subseteq {verdict} \ {None}
  BY DEF IInv, Types
<1> USE DEF Silent, WorkerType, netVars, managerVars
<1>2. CASE ListenManager(w)
  BY <1>1, <1>2 DEF ListenManager
<1>3. CASE ListenUnit(w)
  BY <1>1, <1>3 DEF ListenUnit
<1>4. CASE LeaveStart(w)
  BY <1>1, <1>4 DEF LeaveStart
<1>5. CASE TestManager(w)
  <2>1. CASE worker' = [worker EXCEPT ![w].pc = "cancel"]
    BY <1>1, <1>5, <2>1 DEF TestManager
  <2>2. CASE ~(worker' = [worker EXCEPT ![w].pc = "cancel"])
    <3>1. /\ worker' = [worker EXCEPT ![w] = worker'[w]]
          /\ worker'[w] = [worker[w] EXCEPT !.stopped = (Answer(w).tag = "STOP_AND_KILL"), !.pc = "testUnit"]
          /\ worker[w].pc # "done" /\ UNCHANGED <<verdict, printed>>
      BY <1>1, <1>5, <2>2 DEF TestManager
    <3>2. worker'[w].pc # "done" /\ worker'[w].found = worker[w].found
      BY <1>1, <3>1
    <3> QED
      BY <1>1, <3>1, <3>2
  <2> QED
    BY <2>1, <2>2
<1>6. CASE CancelManager(w)
  <2>1. CASE worker' = [worker EXCEPT ![w].pc = "testUnit"]
    BY <1>1, <1>6, <2>1 DEF CancelManager
  <2>2. CASE ~(worker' = [worker EXCEPT ![w].pc = "testUnit"])
    <3>1. /\ worker' = [worker EXCEPT ![w] = worker'[w]]
          /\ worker'[w] = [worker[w] EXCEPT !.pc = "testUnit", !.lost = @ \cup {"order"}]
          /\ worker[w].pc # "done" /\ UNCHANGED <<verdict, printed>>
      BY <1>1, <1>6, <2>2 DEF CancelManager
    <3>2. worker'[w].pc # "done" /\ worker'[w].found = worker[w].found
      BY <1>1, <3>1
    <3> QED
      BY <1>1, <3>1, <3>2
  <2> QED
    BY <2>1, <2>2
<1>7. CASE TestUnit(w)
  <2>1. CASE worker' = [worker EXCEPT ![w].pc = "cancelUnit"]
    BY <1>1, <1>7, <2>1 DEF TestUnit
  <2>2. CASE ~(worker' = [worker EXCEPT ![w].pc = "cancelUnit"])
    <3>1. /\ worker' = [worker EXCEPT ![w] = worker'[w]]
          /\ worker'[w] = [worker[w] EXCEPT !.got = [worker[w].got EXCEPT !["unit"] = @ + 1], !.pc = "join"]
          /\ worker[w].pc # "done" /\ UNCHANGED <<verdict, printed>>
      BY <1>1, <1>7, <2>2 DEF TestUnit
    <3>2. worker'[w].pc # "done" /\ worker'[w].found = worker[w].found
      BY <1>1, <3>1
    <3> QED
      BY <1>1, <3>1, <3>2
  <2> QED
    BY <2>1, <2>2
<1>8. CASE CancelUnit(w)
  <2>1. CASE worker' = [worker EXCEPT ![w].pc = "join"]
    BY <1>1, <1>8, <2>1 DEF CancelUnit
  <2>2. CASE ~(worker' = [worker EXCEPT ![w].pc = "join"])
    <3>1. /\ worker' = [worker EXCEPT ![w] = worker'[w]]
          /\ worker'[w] = [worker[w] EXCEPT !.pc = "join", !.lost = @ \cup {"unit"}]
          /\ worker[w].pc # "done" /\ UNCHANGED <<verdict, printed>>
      BY <1>1, <1>8, <2>2 DEF CancelUnit
    <3>2. worker'[w].pc # "done" /\ worker'[w].found = worker[w].found
      BY <1>1, <3>1
    <3> QED
      BY <1>1, <3>1, <3>2
  <2> QED
    BY <2>1, <2>2
<1>9. CASE Report(w)
  BY <1>1, <1>9 DEF Report, AfterReport
<1>10. CASE ReceiveStop(w)
  BY <1>1, <1>10 DEF ReceiveStop
<1>11. CASE ReceiveAnswer(w)
  BY <1>1, <1>11 DEF ReceiveAnswer, AfterAnswer
<1>12. CASE StopThread(w)
  BY <1>1, <1>12 DEF StopThread
<1>13. CASE JoinThread(w)
  BY <1>1, <1>13 DEF JoinThread
<1>14. CASE Announce(w)
  BY <1>1, <1>14 DEF Announce
<1>15. CASE ReceiveCount(w)
  BY <1>1, <1>15 DEF ReceiveCount
<1>16. CASE Drain(w)
  BY <1>1, <1>16 DEF Drain
<1>17. CASE Drained(w)
  BY <1>1, <1>17 DEF Drained
<1>18. CASE DisplaySolution(w)
  <2>1. /\ worker[w].pc = "print" /\ verdict = w /\ printed = {}
        /\ printed' = {w} /\ verdict' = verdict
    <3>1. worker[w].pc = "print" /\ verdict = w /\ w \notin printed
      BY <1>1, <1>18 DEF DisplaySolution, Own, Staged, Told, Before
    <3>2. printed = {}
      BY <1>1, <3>1
    <3> QED
      BY <1>18, <3>1, <3>2 DEF DisplaySolution
  <2>2. \A x \in Workers : /\ worker'[x].found = worker[x].found
                           /\ worker'[x].pc = "done" <=> worker[x].pc = "done"
    BY <1>1, <1>18 DEF DisplaySolution
  <2>3. V!Display(w)
    BY <2>1, <2>2 DEF V!Display
  <2> QED
    BY <2>3
<1>19. CASE Kill(w)
  <2>1. /\ Told(w) /\ (worker[w].pc = "kill" => worker[w].display)
        /\ worker[w].pc \in {"kill", "print"}
        /\ UNCHANGED <<verdict, printed>>
    BY <1>1, <1>19 DEF Kill, Told, Before, Own, Staged
  <2>2. verdict # None /\ (verdict = w => w \in printed)
    BY <1>1, <1>19, <2>1 DEF Kill, Own, Ended, Staged, Before
  <2>3. \A x \in Workers : /\ worker'[x].found = worker[x].found
                           /\ worker'[x].pc = "done" <=> x = w \/ worker[x].pc = "done"
    BY <1>1, <1>19 DEF Kill
  <2>4. V!Leave(w)
    BY <2>1, <2>2, <2>3 DEF V!Leave
  <2> QED
    BY <2>4
<1> QED
  BY <1>2, <1>3, <1>4, <1>5, <1>6, <1>7, <1>8, <1>9, <1>10, <1>11, <1>12, <1>13, <1>14, <1>15, <1>16, <1>17, <1>18, <1>19 DEF MainStep

LEMMA OtherStepVerdict ==
  ASSUME IInv, NEW w \in Workers, ListenerStep(w) \/ SearchStep(w)
  PROVE  Silent \/ V!Solve(w)
<1>1. worker \in [Workers -> WorkerType] /\ worker[w] \in WorkerType
  BY DEF IInv, Types
<1> USE DEF WorkerType, netVars, managerVars
<1>2. CASE ListenClause(w)
  BY <1>1, <1>2 DEF Silent, ListenClause
<1>3. CASE ListenerEnds(w)
  BY <1>1, <1>3 DEF Silent, ListenerEnds
<1>4. CASE EnterRound(w)
  BY <1>1, <1>4 DEF Silent, EnterRound
<1>5. CASE AskSubproblem(w)
  BY <1>1, <1>5 DEF Silent, AskSubproblem
<1>6. ASSUME NEW kind \in Kinds, Export(w, kind) PROVE Silent
  BY <1>1, <1>6 DEF Silent, Export
<1>7. CASE Solve(w)
  <2>1. /\ UNCHANGED <<verdict, printed>> /\ worker[w].pc # "done"
        /\ \A x \in Workers : /\ worker'[x].found <=> x = w \/ worker[x].found
                              /\ worker'[x].pc = "done" <=> worker[x].pc = "done"
    BY <1>1, <1>7 DEF Solve, Searching
  <2>2. {x \in Workers : worker[x].found}' = {x \in Workers : worker[x].found} \cup {w}
    BY <2>1
  <2>3. {x \in Workers : worker[x].pc = "done"}' = {x \in Workers : worker[x].pc = "done"}
    BY <2>1
  <2>4. V!Solve(w)
    BY <2>1, <2>2, <2>3 DEF V!Solve
  <2> QED
    BY <2>4
<1> QED
  BY <1>2, <1>3, <1>4, <1>5, <1>6, <1>7 DEF ListenerStep, SearchStep

LEMMA ManagerStepVerdict ==
  ASSUME IInv, ManagerStep \/ TreeUNSAT
  PROVE  Silent \/ V!DecideTree \/ \E w \in Workers : V!Decide(w)
<1>1. UNCHANGED worker /\ worker \in [Workers -> WorkerType] /\ printed \subseteq {verdict} \ {None}
  BY DEF IInv, Types, ManagerStep, TreeUNSAT, SolutionFound, JobFinished, StopCom
<1>2. CASE TreeUNSAT
  <2>1. verdict = None /\ verdict' = Tree /\ printed' = {Tree}
    BY <1>1, <1>2 DEF TreeUNSAT
  <2>2. V!DecideTree
    BY <1>1, <2>1 DEF V!DecideTree
  <2> QED
    BY <2>2
<1>3. ASSUME NEW w \in Workers, SolutionFound(w)
      PROVE  Silent \/ V!Decide(w)
  <2>1. Value(w) = worker[w].found /\ UNCHANGED printed
    BY <1>3, ManagerReads DEF SolutionFound
  <2>2. CASE IsFirst(w)
    <3>1. verdict = None /\ verdict' = w /\ worker[w].found
      BY <1>3, <2>1, <2>2 DEF SolutionFound, IsFirst
    <3>2. V!Decide(w)
      BY <1>1, <2>1, <3>1 DEF V!Decide
    <3> QED
      BY <3>2
  <2>3. CASE ~IsFirst(w)
    BY <1>1, <1>3, <2>1, <2>3 DEF SolutionFound, Silent
  <2> QED
    BY <2>2, <2>3
<1>4. ASSUME NEW w \in Workers, JobFinished(w) \/ \E kind \in Kinds : StopCom(w, kind)
      PROVE  Silent
  BY <1>1, <1>4 DEF JobFinished, StopCom, Silent
<1> QED
  BY <1>2, <1>3, <1>4 DEF ManagerStep

LEMMA StepVerdict ==
  ASSUME IInv, [Next]_vars
  PROVE  [V!Next]_V!vars
<1>1. CASE UNCHANGED vars
  BY <1>1 DEF vars, netVars, managerVars, V!vars
<1>2. ASSUME NEW w \in Workers, MainStep(w) PROVE [V!Next]_V!vars
  BY <1>2, MainStepVerdict, SilentStutters DEF V!Next
<1>3. ASSUME NEW w \in Workers, ListenerStep(w) \/ SearchStep(w) PROVE [V!Next]_V!vars
  BY <1>3, OtherStepVerdict, SilentStutters DEF V!Next
<1>4. CASE Allgather
  <2>1. worker \in [Workers -> WorkerType]
    BY DEF IInv, Types
  <2>2. Silent
    BY <1>4, <2>1 DEF Allgather, Silent, netVars, managerVars, WorkerType
  <2> QED
    BY <2>2, SilentStutters
<1>5. CASE ManagerStep \/ TreeUNSAT
  BY <1>5, ManagerStepVerdict, SilentStutters DEF V!Next
<1> QED
  BY <1>1, <1>2, <1>3, <1>4, <1>5 DEF Next

(* The end of a run implements Verdict.                                    *)
THEOREM ImplementsVerdictHolds == Spec => ImplementsVerdict
<1>1. Init => V!Init
  BY InitVerdict
<1>2. IInv /\ [Next]_vars => [V!Next]_V!vars
  BY StepVerdict
<1> QED
  BY <1>1, <1>2, Invariance, PTL DEF Spec, ImplementsVerdict, V!Spec
=============================================================================
