------------------------------ MODULE SearchEnd ------------------------------
(***************************************************************************)
(* How the search of one worker ends.  Every solver thread loops in        *)
(* ParallelSolver::solve_ and has a word, endSearch, that tells it to      *)
(* leave its search.  Three parties write it: the thread itself (to reset  *)
(* it, to end the initialization of Ampharos, to end a subproblem), the    *)
(* thread that finds a solution (SharedCompanion::solutionFound) and the   *)
(* main thread when the manager orders STOP_AND_KILL (start of ComMPIFully *)
(* and ComMPIPartially), which polls until every word is final and then    *)
(* joins the threads.  endSearchMutex protects single writes only: a       *)
(* thread checks the word in one step and writes it in a later one.        *)
(***************************************************************************)
EXTENDS Integers

CONSTANTS
  NbThreads,  \* solver threads of the worker, numbered from 0
  Ampharos,   \* whether the manager distributes subproblems
  Others      \* whether another worker may win

ASSUME ThreadsAssumption == NbThreads \in Nat \ {0}
ASSUME ModeAssumption == Ampharos \in BOOLEAN /\ Others \in BOOLEAN

VARIABLES
  endSearch,  \* endSearch[t], by the names of MessageCoding.h
  pc,         \* where thread t stands in solve_
  phase,      \* "init" while t has its pharusInitialization, else "tree"
  same,       \* sameSubproblem: t stays on its subproblem
  told,       \* how many threads a party in setAllEndSearch has told so far
  solver,     \* solverSolution, None while solution is false
  main,       \* where the main thread stands
  polled,     \* how many final words getAllEndSearchIsFinished has seen
  stop,       \* STOP_AND_KILL: "none", "sent" by the manager, "taken"
  lost        \* history: t wrote over a final word

vars == <<endSearch, pc, phase, same, told, solver, main, polled, stop, lost>>

Threads == 0..(NbThreads - 1)
Main == NbThreads
None == -1

(* SOLUTION_FOUND_STATE and SOLUTION_FOUND_BY_ANOTHER_STATE                *)
(* Faulty: the end of a subproblem is taken for one of them. *)
FinalOrSubproblem == {"solution", "another", "subproblem"}
Final == {"solution", "another"}
States == {"no", "init", "subproblem"} \cup Final

Init ==
  /\ endSearch = [t \in Threads |-> "no"]
  /\ pc = [t \in Threads |-> "pass"]
  /\ phase = [t \in Threads |-> IF Ampharos THEN "init" ELSE "whole"]
  /\ same = [t \in Threads |-> FALSE]
  /\ told = [p \in Threads \cup {Main} |-> 0]
  /\ solver = None
  /\ main = "poll"
  /\ polled = 0
  /\ stop = "none"
  /\ lost = [t \in Threads |-> FALSE]

-----------------------------------------------------------------------------
GoTo(t, place) == pc' = [pc EXCEPT ![t] = place]

(* Thread t writes its own word.                                           *)
Write(t, state) ==
  /\ endSearch' = [endSearch EXCEPT ![t] = state]
  /\ lost' = [lost EXCEPT ![t] = @ \/ endSearch[t] \in Final]

(* The words of all threads are written one by one by party p.             *)
TellNext(p) ==
  /\ told[p] < NbThreads
  /\ endSearch' = [endSearch EXCEPT ![told[p]] = "another"]
  /\ told' = [told EXCEPT ![p] = @ + 1]

AllTold(p) == told[p] = NbThreads

(* The head of the loop of solve_: leave, or start another pass.           *)
StartPass(t) ==
  /\ pc[t] = "pass"
  /\ GoTo(t, IF endSearch[t] \in Final THEN "left" ELSE "reset")
  /\ UNCHANGED <<endSearch, phase, same, told, solver, main, polled, stop, lost>>

ResetEndSearch(t) ==
  /\ pc[t] = "reset"
  /\ Write(t, "no")
  /\ GoTo(t, IF phase[t] = "tree" /\ ~same[t] THEN "ask" ELSE "search")
  /\ UNCHANGED <<phase, same, told, solver, main, polled, stop>>

(* transmissionFromRoot is called until it yields a subproblem or          *)
(* endSearch is set; a manager that has ordered the end answers            *)
(* STOP_AND_KILL.                                                          *)
AskSubproblem(t) ==
  /\ pc[t] = "ask"
  /\ \/ endSearch[t] # "no" /\ GoTo(t, "dispatch")
     \/ endSearch[t] = "no" /\ stop = "none" /\ GoTo(t, "search")
     \/ endSearch[t] = "no" /\ stop # "none" /\ GoTo(t, "stopAll")
  /\ UNCHANGED <<endSearch, phase, same, told, solver, main, polled, stop, lost>>

(* setAllEndSearch called by the thread the manager answered.              *)
StopAll(t) ==
  /\ pc[t] = "stopAll"
  /\ \/ TellNext(t) /\ UNCHANGED pc
     \/ /\ AllTold(t)
        /\ GoTo(t, "dispatch")
        /\ told' = [told EXCEPT ![t] = 0]
        /\ UNCHANGED endSearch
  /\ UNCHANGED <<phase, same, solver, main, polled, stop, lost>>

(* Solver::search: a conflict sees that endSearch is set.                  *)
SeeEndSearch(t) ==
  /\ pc[t] = "search" /\ endSearch[t] # "no"
  /\ GoTo(t, "dispatch")
  /\ UNCHANGED <<endSearch, phase, same, told, solver, main, polled, stop, lost>>

(* The initialization of Ampharos, or the time given to the subproblem, is *)
(* over: endSearch is checked, and set by a later step.                    *)
PhaseEnds(t) ==
  /\ pc[t] = "search" /\ phase[t] \in {"init", "tree"}
  /\ GoTo(t, IF endSearch[t] \in Final THEN "dispatch" ELSE "endPhase")
  /\ UNCHANGED <<endSearch, phase, same, told, solver, main, polled, stop, lost>>

EndPhase(t) ==
  /\ pc[t] = "endPhase"
  /\ Write(t, IF phase[t] = "init" THEN "init" ELSE "subproblem")
  /\ GoTo(t, "dispatch")
  /\ UNCHANGED <<phase, same, told, solver, main, polled, stop>>

(* SAT, or UNSAT without an assumption.                                    *)
Solve(t) ==
  /\ pc[t] = "search"
  /\ GoTo(t, "claim")
  /\ UNCHANGED <<endSearch, phase, same, told, solver, main, polled, stop, lost>>

(* The subproblem is UNSAT: the manager is told, and t changes subproblem. *)
RefuteSubproblem(t) ==
  /\ pc[t] = "search" /\ phase[t] = "tree"
  /\ same' = [same EXCEPT ![t] = FALSE]
  /\ GoTo(t, "pass")
  /\ UNCHANGED <<endSearch, phase, told, solver, main, polled, stop, lost>>

(* SharedCompanion::solutionFound, under mutexSolution: only the first     *)
(* thread to come tells the others.                                        *)
(* Faulty: the others are not told. *)
AcceptSilently(t) == solver' = t /\ GoTo(t, "left")
Accept(t) == solver' = t /\ GoTo(t, "tell")
AcceptFirst(t) == IF solver = None THEN Accept(t) ELSE GoTo(t, "left") /\ UNCHANGED solver

Claim(t) ==
  /\ pc[t] = "claim"
  /\ \A u \in Threads : pc[u] # "tell"
  /\ AcceptFirst(t)
  /\ UNCHANGED <<endSearch, phase, same, told, main, polled, stop, lost>>

(* Faulty: the winner makes another pass. *)
ContinueSearch(t) == GoTo(t, "pass")
LeaveSearch(t) == GoTo(t, "left")

TellOthers(t) ==
  /\ pc[t] = "tell"
  /\ \/ TellNext(t) /\ UNCHANGED pc
     \/ /\ AllTold(t)
        /\ endSearch' = [endSearch EXCEPT ![t] = "solution"]
        /\ LeaveSearch(t)
        /\ UNCHANGED told
  /\ UNCHANGED <<phase, same, solver, main, polled, stop, lost>>

(* The cascade of tests on endSearch after a search without result.        *)
Dispatch(t) ==
  /\ pc[t] = "dispatch"
  /\ GoTo(t, CASE endSearch[t] = "solution" -> "problem531"
               [] endSearch[t] = "another"  -> "left"
               [] OTHER                     -> "act")
  /\ UNCHANGED <<endSearch, phase, same, told, solver, main, polled, stop, lost>>

(* The later tests of the cascade.  If the word changed since the first    *)
(* ones, a build that reads it again falls through to "probleme"; one that *)
(* kept it in a register goes on.                                          *)
Act(t) ==
  /\ pc[t] = "act"
  /\ \/ /\ phase[t] = "init"
        /\ phase' = [phase EXCEPT ![t] = "tree"]
        /\ UNCHANGED same
        /\ GoTo(t, "pass")
     \/ /\ phase[t] = "tree"
        /\ \E keep \in BOOLEAN : same' = [same EXCEPT ![t] = keep]
        /\ UNCHANGED phase
        /\ GoTo(t, "pass")
     \/ /\ endSearch[t] \in Final
        /\ GoTo(t, "problem552")
        /\ UNCHANGED <<phase, same>>
  /\ UNCHANGED <<endSearch, told, solver, main, polled, stop, lost>>

-----------------------------------------------------------------------------
(* The main thread in start(): getAllEndSearchIsFinished reads the words   *)
(* one by one; after one that is not final it tests for STOP_AND_KILL.     *)
Poll ==
  /\ main = "poll"
  /\ IF endSearch[polled] \in Final
     THEN IF polled + 1 = NbThreads
          THEN main' = "join" /\ UNCHANGED polled
          ELSE polled' = polled + 1 /\ UNCHANGED main
     ELSE main' = "test" /\ polled' = 0
  /\ UNCHANGED <<endSearch, pc, phase, same, told, solver, stop, lost>>

TestManager ==
  /\ main = "test"
  /\ \/ stop # "sent" /\ main' = "poll" /\ UNCHANGED stop
     \/ stop = "sent" /\ main' = "stopAll" /\ stop' = "taken"
  /\ UNCHANGED <<endSearch, pc, phase, same, told, solver, polled, lost>>

MainStopsAll ==
  /\ main = "stopAll"
  /\ \/ TellNext(Main) /\ UNCHANGED main
     \/ /\ AllTold(Main)
        /\ main' = "poll"
        /\ UNCHANGED <<endSearch, told>>
  /\ UNCHANGED <<pc, phase, same, solver, polled, stop, lost>>

Join ==
  /\ main = "join" /\ \A t \in Threads : pc[t] = "left"
  /\ main' = "joined"
  /\ UNCHANGED <<endSearch, pc, phase, same, told, solver, polled, stop, lost>>

(* Another worker has won, or the tree of subproblems is UNSAT: the manager *)
(* orders everybody to stop.                                               *)
ManagerStops ==
  /\ Others /\ stop = "none" /\ main # "joined"
  /\ stop' = "sent"
  /\ UNCHANGED <<endSearch, pc, phase, same, told, solver, main, polled, lost>>

(* The branches "probleme" end the process: exit(0).                       *)
Problems == {"problem531", "problem552"}
Running == \A t \in Threads : pc[t] \notin Problems

Proceed(t) ==
  /\ Running
  /\ \/ StartPass(t) \/ ResetEndSearch(t) \/ AskSubproblem(t) \/ StopAll(t)
     \/ SeeEndSearch(t) \/ EndPhase(t) \/ Claim(t) \/ TellOthers(t)
     \/ Dispatch(t) \/ Act(t)

Find(t) == Running /\ (PhaseEnds(t) \/ Solve(t) \/ RefuteSubproblem(t))

MainProceeds == Running /\ (Poll \/ TestManager \/ MainStopsAll \/ Join)

Next ==
  \/ \E t \in Threads : Proceed(t) \/ Find(t)
  \/ MainProceeds
  \/ ManagerStops

Spec == Init /\ [][Next]_vars

(* Threads are scheduled fairly; what a search finds, and when, is free.   *)
Fairness == WF_vars(MainProceeds) /\ \A t \in Threads : WF_vars(Proceed(t))

FairSpec == Spec /\ Fairness
-----------------------------------------------------------------------------
TypeOK ==
  /\ endSearch \in [Threads -> States]
  /\ pc \in [Threads -> {"pass", "reset", "ask", "stopAll", "search", "endPhase",
                         "claim", "tell", "dispatch", "act", "left",
                         "problem531", "problem552"}]
  /\ phase \in [Threads -> {"whole", "init", "tree"}]
  /\ same \in [Threads -> BOOLEAN]
  /\ told \in [Threads \cup {Main} -> 0..NbThreads]
  /\ solver \in Threads \cup {None}
  /\ main \in {"poll", "test", "stopAll", "join", "joined"}
  /\ polled \in Threads
  /\ stop \in {"none", "sent", "taken"}
  /\ lost \in [Threads -> BOOLEAN]

(* Nobody leaves the search, and the main thread does not stop listening   *)
(* to the manager, unless a thread of the worker has a solution or the     *)
(* manager ordered STOP_AND_KILL: ComMPI::solutionFound relies on it when  *)
(* it goes on to wait for that order.                                      *)
LeavesForAReason ==
  (main \in {"join", "joined"} \/ \E t \in Threads : pc[t] = "left")
    => solver # None \/ stop # "none"

(* The thread that MultiSolvers::solve takes the result from never searches     *)
(* again, whatever is written to its word, so the result is not touched.   *)
WinnerIsDone ==
  /\ solver # None => pc[solver] \in {"tell", "left"}
  /\ \A t \in Threads : pc[t] # "problem531"

(* Once the worker has a solution, its threads leave and are joined,       *)
(* unless a thread wrote over its order to leave.                          *)
StopsUnlessLost ==
  (solver # None) ~>
    (main = "joined" \/ ~Running \/ \E t \in Threads : lost[t])

(* ParallelSolver.cc: "We have reinit the variable endSearch, but only if  *)
(* we have not solution !"; Solver.cc: "Warning, not touch this variable   *)
(* if we have a solution !".                                               *)
NotTouchedAfterSolution ==
  [][\A t \in Threads : endSearch[t] \in Final => endSearch'[t] \in Final]_vars
=============================================================================
