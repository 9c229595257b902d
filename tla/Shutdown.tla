------------------------------ MODULE Shutdown ------------------------------
(***************************************************************************)
(* The end of a run, between the manager (Manager.cc and its two           *)
(* subclasses) and the main threads of the workers (MultiSolvers::solve    *)
(* and what follows it in parallel/Main.cc, ComMPI.cc, ComMPIFully.cc,     *)
(* ComMPIPartially.cc).  The first worker to report a solution wins; the   *)
(* manager stops all workers; each of them reports, waits for the answer   *)
(* that says whether it prints, stops its communication threads, announces *)
(* how many units (and clauses) it sent to each of the others, and         *)
(* receives the ones still due to it.                                      *)
(*                                                                         *)
(* MPI orders the messages between two processes, not those of different   *)
(* senders.  A message on TAG_MANAGER and the value sent after it are one  *)
(* message here.  How the threads of one worker stop is SearchEnd.tla.     *)
(***************************************************************************)
EXTENDS Integers, Sequences, FiniteSets

CONSTANTS
  Workers,
  Tree, None,   \* who else may have given the verdict: the tree, nobody
  Modes,        \* the options a run may be started with
  MaxULs,       \* bound: units exported by each worker
  MaxClauses    \* bound: clauses exported by each worker

ASSUME NamesAssumption == Tree \notin Workers /\ None \notin Workers \cup {Tree}
ASSUME SetAssumption == IsFiniteSet(Workers)
ASSUME OptionsAssumption == Modes \subseteq [fully : BOOLEAN, ampharos : BOOLEAN]
ASSUME BoundsAssumption == MaxULs \in Nat /\ MaxClauses \in Nat

VARIABLES
  mode,       \* the options of this run, which never change
  worker,     \* worker[w]: the state of a worker, see WorkerType
  inFlight,   \* inFlight[w][kind]: units or clauses on their way to w
  toManager, toWorker,   \* TAG_MANAGER, one channel each way per worker
  listening,  \* the manager is in its listener
  verdict,    \* rankOfTheFirstSolution, None while solutionOk is false
  reported,   \* nbWorkerFinished
  announced,  \* nbWorkerULs and nbWorkerClauses
  dueTo,      \* nbULsToReceive and nbClausesToReceive
  printed     \* history: who has printed the verdict

netVars == <<inFlight, toManager, toWorker>>
managerVars == <<listening, verdict, reported, announced, dueTo, printed>>
vars == <<mode, worker, netVars, managerVars>>

Fully == mode.fully        \* ComMPIFully, or else ComMPIPartially
Ampharos == mode.ampharos  \* AmpharosManager, or else ConcurrentManager

Kinds == {"unit", "clause"}
Counts == [Kinds -> Nat]
Zero == [k \in Kinds |-> 0]

WorkerType ==
  [pc : {"listen", "test", "cancel", "testUnit", "cancelUnit", "join", "stop",
         "answer", "stopThread", "joinThread", "announce", "count", "drain",
         "print", "kill", "done", "problem"},
   found    : BOOLEAN,   \* SharedCompanion's solution
   finished : BOOLEAN,   \* getAllEndSearchIsFinished
   stopped  : BOOLEAN,   \* stopAndKillReceived
   display  : BOOLEAN,   \* the manager answered PRINT_SOLUTION
   took     : {"STOP_AND_KILL", "PRINT_SOLUTION", "SOLUTION_IND", "COUNT", "nothing"},
   stage    : Kinds,     \* what is announced, counted and drained now
   sent     : Counts,    \* infoExportedULEach, infoExportedClausesEach
   got      : Counts,    \* infoImportedUL, infoImportedClauses
   due      : Counts,    \* the numbers the manager answered
   listener : {"sleep", "go on", "end", "ended"},
   lost     : SUBSET {"order", "unit"}]  \* history: what MPI_Cancel swallowed

(* After linkingOfManager, when every thread has passed startingBarrier.   *)
Init ==
  /\ mode \in Modes
  /\ worker = [w \in Workers |->
       [pc |-> "listen", found |-> FALSE, finished |-> FALSE, stopped |-> FALSE,
        display |-> FALSE, took |-> "nothing", stage |-> "unit", sent |-> Zero,
        got |-> Zero, due |-> Zero, listener |-> "sleep", lost |-> {}]]
  /\ inFlight = [w \in Workers |-> Zero]
  /\ toManager = [w \in Workers |-> <<>>]
  /\ toWorker = [w \in Workers |-> <<>>]
  /\ listening = TRUE
  /\ verdict = None
  /\ reported = 0
  /\ announced = Zero
  /\ dueTo = [w \in Workers |-> Zero]
  /\ printed = {}

-----------------------------------------------------------------------------
Message(tag, value) == [tag |-> tag, value |-> value]

Send(w, tag, value) ==
  toManager' = [toManager EXCEPT ![w] = Append(@, Message(tag, value))]

(* The oldest message of the manager to w.                                 *)
Answered(w) == toWorker[w] # <<>>
Answer(w) == Head(toWorker[w])
Take(w) == Answered(w) /\ toWorker' = [toWorker EXCEPT ![w] = Tail(@)]

(* One unit or clause on its way to w leaves the network.                  *)
Arrives(w, kind) ==
  /\ inFlight[w][kind] > 0
  /\ inFlight' = [inFlight EXCEPT ![w][kind] = @ - 1]

(* The threads of w search until the main thread has joined them, even     *)
(* after they were told to leave.                                          *)
Searching(w) ==
  worker[w].pc \in {"listen", "test", "cancel", "testUnit", "cancelUnit", "join"}

Bound(kind) == IF kind = "unit" THEN MaxULs ELSE MaxClauses

(* sendUL, and sendClause of ComMPIFully: a message to each other worker.  *)
Export(w, kind) ==
  /\ Searching(w)
  /\ kind = "clause" => Fully
  /\ worker[w].sent[kind] < Bound(kind)
  /\ worker' = [worker EXCEPT ![w].sent[kind] = @ + 1]
  /\ inFlight' = [x \in Workers |-> IF x = w THEN inFlight[x]
                                    ELSE [inFlight[x] EXCEPT ![kind] = @ + 1]]
  /\ UNCHANGED <<toManager, toWorker, managerVars>>

(* SharedCompanion::solutionFound.                                         *)
Solve(w) ==
  /\ Searching(w) /\ ~worker[w].found
  /\ worker' = [worker EXCEPT ![w].found = TRUE, ![w].finished = TRUE]
  /\ UNCHANGED <<netVars, managerVars>>

(* A thread asks the manager for a subproblem after the verdict.           *)
AskSubproblem(w) ==
  /\ Ampharos /\ listening /\ verdict # None
  /\ Searching(w) /\ ~worker[w].finished
  /\ worker' = [worker EXCEPT ![w].finished = TRUE]
  /\ UNCHANGED <<netVars, managerVars>>

-----------------------------------------------------------------------------
(* The loop of start().                                                    *)
ListenManager(w) ==
  /\ worker[w].pc = "listen" /\ Take(w)
  /\ worker' = IF Answer(w).tag = "STOP_AND_KILL"
               THEN [worker EXCEPT ![w].stopped = TRUE, ![w].finished = TRUE]
               ELSE [worker EXCEPT ![w].pc = "problem"]
  /\ UNCHANGED <<inFlight, toManager, managerVars>>

ListenUnit(w) ==
  /\ worker[w].pc = "listen" /\ Arrives(w, "unit")
  /\ worker' = [worker EXCEPT ![w].got["unit"] = @ + 1]
  /\ UNCHANGED <<toManager, toWorker, managerVars>>

(* start() ends: each pending receive is tested once more, then cancelled. *)
LeaveStart(w) ==
  /\ worker[w].pc = "listen" /\ worker[w].finished
  /\ worker' = [worker EXCEPT ![w].pc = IF worker[w].stopped THEN "testUnit" ELSE "test"]
  /\ UNCHANGED <<netVars, managerVars>>

TestManager(w) ==
  /\ worker[w].pc = "test"
  /\ \/ /\ Take(w)
        /\ worker' = [worker EXCEPT ![w].stopped = (Answer(w).tag = "STOP_AND_KILL"),
                                    ![w].pc = "testUnit"]
     \/ worker' = [worker EXCEPT ![w].pc = "cancel"] /\ UNCHANGED toWorker
  /\ UNCHANGED <<inFlight, toManager, managerVars>>

(* MPI_Cancel may come too late: then a message is received after all, and *)
(* nobody looks whether that was so.                                       *)
CancelManager(w) ==
  /\ worker[w].pc = "cancel"
  /\ \/ worker' = [worker EXCEPT ![w].pc = "testUnit"] /\ UNCHANGED toWorker
     \/ /\ Take(w)
        /\ worker' = [worker EXCEPT ![w].pc = "testUnit", ![w].lost = @ \cup {"order"}]
  /\ UNCHANGED <<inFlight, toManager, managerVars>>

TestUnit(w) ==
  /\ worker[w].pc = "testUnit"
  /\ \/ /\ Arrives(w, "unit")
        /\ worker' = [worker EXCEPT ![w].got["unit"] = @ + 1, ![w].pc = "join"]
     \/ worker' = [worker EXCEPT ![w].pc = "cancelUnit"] /\ UNCHANGED inFlight
  /\ UNCHANGED <<toManager, toWorker, managerVars>>

CancelUnit(w) ==
  /\ worker[w].pc = "cancelUnit"
  /\ \/ worker' = [worker EXCEPT ![w].pc = "join"] /\ UNCHANGED inFlight
     \/ /\ Arrives(w, "unit")
        /\ worker' = [worker EXCEPT ![w].pc = "join", ![w].lost = @ \cup {"unit"}]
  /\ UNCHANGED <<toManager, toWorker, managerVars>>

(* STOP_AND_KILL is awaited unless start() has received it.                *)
(* Faulty: it is never awaited. *)
AnswerNext(w) == "answer"
AfterReport(w) == IF worker[w].stopped THEN "answer" ELSE "stop"

(* The solver threads are joined; ComMPI::solutionFound reports.           *)
Report(w) ==
  /\ worker[w].pc = "join"
  /\ Send(w, "SOLUTION_FOUND", worker[w].found)
  /\ worker' = [worker EXCEPT ![w].pc = AfterReport(w)]
  /\ UNCHANGED <<inFlight, toWorker, managerVars>>

(* The message is not looked at: its assertion is an assignment.           *)
ReceiveStop(w) ==
  /\ worker[w].pc = "stop" /\ Take(w)
  /\ worker' = [worker EXCEPT ![w].took = Answer(w).tag, ![w].stopped = TRUE,
                              ![w].pc = "answer"]
  /\ UNCHANGED <<inFlight, toManager, managerVars>>

Answers == {"PRINT_SOLUTION", "SOLUTION_IND"}
(* Faulty: the units due are not received before printing. *)
PrintFirst(tag) == IF tag = "PRINT_SOLUTION" THEN "print" ELSE "stopThread"
AfterAnswer(tag) == IF tag \in Answers THEN "stopThread" ELSE "problem"

ReceiveAnswer(w) ==
  /\ worker[w].pc = "answer" /\ Take(w)
  /\ worker' = [worker EXCEPT
       ![w].display = (Answer(w).tag = "PRINT_SOLUTION"),
       ![w].pc = AfterAnswer(Answer(w).tag)]
  /\ UNCHANGED <<inFlight, toManager, managerVars>>

-----------------------------------------------------------------------------
(* ComMPIFully::listenerClause, until it meets the message of its own      *)
(* worker; it may meet it before clauses that were sent earlier.           *)
ListenClause(w) ==
  /\ Fully /\ worker[w].listener # "ended"
  /\ Arrives(w, "clause")
  /\ worker' = [worker EXCEPT ![w].got["clause"] = @ + 1]
  /\ UNCHANGED <<toManager, toWorker, managerVars>>

ListenerEnds(w) ==
  /\ Fully /\ worker[w].pc = "joinThread" /\ worker[w].listener # "ended"
  /\ worker' = [worker EXCEPT ![w].listener = "ended"]
  /\ UNCHANGED <<netVars, managerVars>>

(* ComMPIPartially::collectifClause: each worker reads whether it has a    *)
(* solution and enters the exchange, which ends it everywhere if one has.  *)
EnterRound(w) ==
  /\ ~Fully /\ worker[w].listener = "sleep"
  /\ worker' = [worker EXCEPT ![w].listener = IF worker[w].found THEN "end" ELSE "go on"]
  /\ UNCHANGED <<netVars, managerVars>>

Allgather ==
  /\ ~Fully /\ \A w \in Workers : worker[w].listener \in {"end", "go on"}
  /\ LET ends == \E w \in Workers : worker[w].listener = "end"
     IN worker' = [w \in Workers |->
          [worker[w] EXCEPT !.listener = IF ends THEN "ended" ELSE "sleep"]]
  /\ UNCHANGED <<netVars, managerVars>>

(* stopCommunicationsThreads: a message to oneself (ComMPIFully), then     *)
(* join.                                                                   *)
StopThread(w) ==
  /\ worker[w].pc = "stopThread"
  /\ worker' = [worker EXCEPT ![w].pc = "joinThread"]
  /\ UNCHANGED <<netVars, managerVars>>

JoinThread(w) ==
  /\ worker[w].pc = "joinThread" /\ worker[w].listener = "ended"
  /\ worker' = [worker EXCEPT ![w].pc = "announce"]
  /\ UNCHANGED <<netVars, managerVars>>

(* stopCommunicationsULs, then the same for clauses if they are counted.   *)
StopComTag(kind) == IF kind = "unit" THEN "STOP_COM_ULS" ELSE "STOP_COM_CLAUSES"

Announce(w) ==
  /\ worker[w].pc = "announce"
  /\ Send(w, StopComTag(worker[w].stage), worker[w].sent[worker[w].stage])
  /\ worker' = [worker EXCEPT ![w].pc = "count"]
  /\ UNCHANGED <<inFlight, toWorker, managerVars>>

ReceiveCount(w) ==
  /\ worker[w].pc = "count" /\ Take(w)
  /\ worker' = [worker EXCEPT ![w].due[worker[w].stage] = Answer(w).value,
                              ![w].pc = "drain"]
  /\ UNCHANGED <<inFlight, toManager, managerVars>>

(* Faulty: off by one. *)
AllButOne(w, kind) == worker[w].got[kind] + 1 >= worker[w].due[kind]
Complete(w, kind) == worker[w].got[kind] >= worker[w].due[kind]

Drain(w) ==
  LET kind == worker[w].stage
  IN /\ worker[w].pc = "drain"
     /\ ~Complete(w, kind)
     /\ Arrives(w, kind)
     /\ worker' = [worker EXCEPT ![w].got[kind] = @ + 1]
     /\ UNCHANGED <<toManager, toWorker, managerVars>>

Drained(w) ==
  LET kind == worker[w].stage
  IN /\ worker[w].pc = "drain"
     /\ Complete(w, kind)
     /\ worker' = IF kind = "unit" /\ Fully
                  THEN [worker EXCEPT ![w].stage = "clause", ![w].pc = "announce"]
                  ELSE [worker EXCEPT ![w].pc = "print"]
     /\ UNCHANGED <<netVars, managerVars>>

(* The worker that is to print prints, then tells the manager.             *)
DisplaySolution(w) ==
  /\ worker[w].pc = "print" /\ worker[w].display
  /\ printed' = printed \cup {w}
  /\ Send(w, "JOB_FINISHED", 0)
  /\ worker' = [worker EXCEPT ![w].pc = "kill"]
  /\ UNCHANGED <<inFlight, toWorker, listening, verdict, reported, announced, dueTo>>

Kill(w) ==
  /\ worker[w].pc = "kill" \/ (worker[w].pc = "print" /\ ~worker[w].display)
  /\ worker' = [worker EXCEPT ![w].pc = "done"]
  /\ UNCHANGED <<netVars, managerVars>>

-----------------------------------------------------------------------------
(* The listener of the manager takes the next message of worker w.         *)
Receives(w, tag) ==
  /\ listening /\ toManager[w] # <<>> /\ Head(toManager[w]).tag = tag
  /\ toManager' = [toManager EXCEPT ![w] = Tail(@)]
Value(w) == Head(toManager[w]).value

(* The barriers count the workers whose message was handled.               *)
(* Faulty: off by one, after the last. *)
PastLast(count) == count = Cardinality(Workers)
Last(count) == count + 1 = Cardinality(Workers)

(* Faulty: any worker with a solution wins, also after the first. *)
HasSolution(w) == Value(w)
IsFirst(w) == verdict = None /\ Value(w)

(* Manager::solutionFound.                                                 *)
SolutionFound(w) ==
  LET winner == IF IsFirst(w) THEN w ELSE verdict
      stop   == IF IsFirst(w) THEN <<Message("STOP_AND_KILL", 0)>> ELSE <<>>
      answer == [x \in Workers |->
                   IF ~Last(reported) THEN <<>>
                   ELSE IF x = winner THEN <<Message("PRINT_SOLUTION", 0)>>
                   ELSE <<Message("SOLUTION_IND", 0)>>]
  IN /\ Receives(w, "SOLUTION_FOUND")
     /\ verdict' = winner
     /\ toWorker' = [x \in Workers |-> toWorker[x] \o stop \o answer[x]]
     /\ reported' = reported + 1
     /\ UNCHANGED <<worker, inFlight, listening, announced, dueTo, printed>>

(* messageStopComUls and messageStopComClauses; after the latter the       *)
(* listener of AmpharosManager returns if the tree gave the verdict.       *)
AddToOthers(w, kind) ==
  [x \in Workers |-> IF x = w THEN dueTo[x]
                     ELSE [dueTo[x] EXCEPT ![kind] = @ + Value(w)]]

StopCom(w, kind) ==
  LET counts == AddToOthers(w, kind)
      count  == [x \in Workers |-> IF ~Last(announced[kind]) THEN <<>>
                                   ELSE <<Message("COUNT", counts[x][kind])>>]
  IN /\ Receives(w, StopComTag(kind))
     /\ dueTo' = counts
     /\ announced' = [announced EXCEPT ![kind] = @ + 1]
     /\ toWorker' = [x \in Workers |-> toWorker[x] \o count[x]]
     /\ listening' = ~(Ampharos /\ kind = "clause" /\ Last(announced[kind]) /\ verdict = Tree)
     /\ UNCHANGED <<worker, inFlight, verdict, reported, printed>>

JobFinished(w) ==
  /\ Receives(w, "JOB_FINISHED")
  /\ listening' = FALSE
  /\ UNCHANGED <<worker, inFlight, toWorker, verdict, reported, announced, dueTo, printed>>

(* AmpharosManager::treeUNSAT, when a thread asks for a subproblem and     *)
(* none is left: the manager prints the verdict itself.                    *)
TreeUNSAT ==
  /\ Ampharos /\ listening /\ verdict = None
  /\ \E w \in Workers : Searching(w)
  /\ verdict' = Tree
  /\ printed' = printed \cup {Tree}
  /\ toWorker' = [x \in Workers |-> Append(toWorker[x], Message("STOP_AND_KILL", 0))]
  /\ UNCHANGED <<worker, inFlight, toManager, listening, reported, announced, dueTo>>

-----------------------------------------------------------------------------
(* What the main threads, the communication threads and the manager do;    *)
(* what the searches bring is free.                                        *)
MainStep(w) ==
  \/ ListenManager(w) \/ ListenUnit(w) \/ LeaveStart(w) \/ TestManager(w)
  \/ CancelManager(w) \/ TestUnit(w) \/ CancelUnit(w) \/ Report(w) \/ ReceiveStop(w)
  \/ ReceiveAnswer(w) \/ StopThread(w) \/ JoinThread(w) \/ Announce(w)
  \/ ReceiveCount(w) \/ Drain(w) \/ Drained(w) \/ DisplaySolution(w)
  \/ Kill(w)

ListenerStep(w) == ListenClause(w) \/ ListenerEnds(w) \/ EnterRound(w)

ManagerStep ==
  \E w \in Workers :
    \/ SolutionFound(w) \/ JobFinished(w)
    \/ \E kind \in Kinds : StopCom(w, kind)

SearchStep(w) == Solve(w) \/ AskSubproblem(w) \/ \E kind \in Kinds : Export(w, kind)

Next ==
  /\ \/ \E w \in Workers : MainStep(w) \/ ListenerStep(w) \/ SearchStep(w)
     \/ Allgather
     \/ ManagerStep
     \/ TreeUNSAT
  /\ UNCHANGED mode

Spec == Init /\ [][Next]_vars

Fairness ==
  /\ \A w \in Workers :
       /\ WF_vars(MainStep(w) /\ UNCHANGED mode)
       /\ WF_vars(ListenerStep(w) /\ UNCHANGED mode)
  /\ WF_vars(Allgather /\ UNCHANGED mode)
  /\ WF_vars(ManagerStep /\ UNCHANGED mode)

FairSpec == Spec /\ Fairness
-----------------------------------------------------------------------------
TypeOK ==
  /\ mode \in Modes
  /\ worker \in [Workers -> WorkerType]
  /\ inFlight \in [Workers -> Counts]
  /\ \A w \in Workers : Len(toManager[w]) <= 1 /\ Len(toWorker[w]) <= 2
  /\ listening \in BOOLEAN
  /\ verdict \in Workers \cup {Tree, None}
  /\ reported \in 0..Cardinality(Workers)
  /\ announced \in [Kinds -> 0..Cardinality(Workers)]
  /\ dueTo \in [Workers -> Counts]
  /\ printed \subseteq Workers \cup {Tree}

(* Every message of the manager is received where it is meant: the worker  *)
(* never ends on a message it does not expect ("problem", "unknown"), no   *)
(* count is taken for another message, and an answer only for the order to *)
(* stop, by a worker whose order was swallowed by MPI_Cancel.              *)
NoMixedMessages ==
  \A w \in Workers :
    /\ worker[w].pc # "problem"
    /\ Answered(w) =>
         CASE worker[w].pc = "count" -> Answer(w).tag = "COUNT"
           [] worker[w].pc = "answer" -> Answer(w).tag \in Answers
           [] worker[w].pc = "stop" ->
                Answer(w).tag \in {"STOP_AND_KILL"}
                  \cup (IF "order" \in worker[w].lost THEN Answers ELSE {})
           [] OTHER -> worker[w].pc \in {"drain", "print", "kill", "done"} => FALSE

(* A worker that goes on to the next stage has received exactly the units  *)
(* (and clauses) the others ever sent it, and none reaches it afterwards.  *)
ReceivedBeforePassed ==
  \A w \in Workers : \A kind \in Kinds :
    LET passed ==
          \/ worker[w].pc \in {"print", "kill", "done"}
          \/ kind = "unit" /\ worker[w].stage = "clause"
    IN passed => /\ inFlight[w][kind] = 0
                 /\ \A x \in Workers \ {w} : ~Searching(x)

(* What the workers of S have exported, each unit or clause under the rank *)
(* its worker gave it.                                                     *)
Exports(S, kind) == UNION {{x} \X (1..worker[x].sent[kind]) : x \in S}

(* The counts the manager answers are those of the exports: they were      *)
(* announced when nothing could be exported any more.                      *)
CountsAreFinal ==
  \A w \in Workers : \A kind \in Kinds :
    announced[kind] = Cardinality(Workers)
      => dueTo[w][kind] = Cardinality(Exports(Workers \ {w}, kind))

(* Units and clauses are all received before a worker is gone, because the *)
(* counts it waits for are final when they are made.                       *)
AllSentIsReceived == CountsAreFinal /\ ReceivedBeforePassed

(* The manager listens until every worker has nothing more to ask of it.   *)
ManagerOutlivesWorkers ==
  ~listening => \A w \in Workers :
                  /\ toManager[w] = <<>>
                  /\ worker[w].pc \in {"count", "drain", "print", "kill", "done"}
                  /\ worker[w].pc = "count" => Answered(w)

(* One verdict, given by a worker that has it or by the tree, printed once *)
(* by the one who gave it, before that one leaves.                         *)
V == INSTANCE Verdict WITH
  solved <- {w \in Workers : worker[w].found},
  gone   <- {w \in Workers : worker[w].pc = "done"}
ImplementsVerdict == V!Spec

(* After the first verdict, a worker's or the tree's, every worker ends,   *)
(* and so does the manager, unless MPI_Cancel has swallowed a message that *)
(* a worker goes on to wait for.                                           *)
AllOver == ~listening /\ \A w \in Workers : worker[w].pc = "done"
SomethingLost == \E w \in Workers : worker[w].lost # {}
TreeVerdictEndsEverybody == (verdict = Tree) ~> (AllOver \/ SomethingLost)
EverybodyEnds ==
  /\ (\E w \in Workers : worker[w].found) ~> (AllOver \/ SomethingLost)
  /\ TreeVerdictEndsEverybody

(* ComMPI.cc: "Before, we have to ensure that the message STOP_AND_KILL is *)
(* received".                                                              *)
StopIsReceived ==
  \A w \in Workers : worker[w].took \in {"nothing", "STOP_AND_KILL"}
=============================================================================
