---------------------------- MODULE WorkerProofs ----------------------------
(***************************************************************************)
(* The two protocols of one worker, and the order in which its solvers     *)
(* decide.  They share no state and are proved about apart.                *)
(*                                                                         *)
(* SearchEnd: a worker ends its search for a reason, and the thread with   *)
(* the solution has stopped, for any number of solver threads, with or     *)
(* without subproblems, alone or among other workers.  The invariant adds  *)
(* to the two properties where the order to leave may stand: in a word, in *)
(* the hands of a thread that tells the others, or in those of the main    *)
(* thread.                                                                 *)
(*                                                                         *)
(* Collective: the workers stay in step: for any number of workers, two of *)
(* them in the same collective call the same one, although a worker that   *)
(* has its values goes on while others are still in the call; and each     *)
(* clause arrives once.  The calls are counted modulo 3.  At any time      *)
(* there is a call "c" that every worker has entered, and nobody is        *)
(* further than the next one.  What a worker does after "c" depends on the *)
(* values gathered in it, and these are the same whoever looks at them and *)
(* whenever: that is the invariant, with where the clauses of each worker  *)
(* are meanwhile: in its buffer, in its copy, or with the others.          *)
(*                                                                         *)
(* VarOrder: the heap of variables stays one, has every variable that may  *)
(* be decided on, and gives a most active one, for any number of variables *)
(* and any activities.  The lemmas say what each operation of Heap.h makes *)
(* of a heap, by induction over its steps; the invariant adds the types    *)
(* and that the levels are those of the trail.                             *)
(***************************************************************************)
EXTENDS SearchEnd, Collective, VarOrder, FiniteSetTheorems, SequenceTheorems, TLAPS

-----------------------------------------------------------------------------
(* SearchEnd.                                                              *)

(* A thread of the worker has a solution, or the manager ordered the end.  *)
Reason == solver # None \/ stop # "none"

(* The order to leave is never in circulation without a reason: not in a   *)
(* word, not with a party of setAllEndSearch, not in what the main thread  *)
(* has counted.                                                            *)
OrdersHaveAReason ==
  /\ \A t \in Threads : endSearch[t] \in Final => Reason
  /\ \A t \in Threads : pc[t] = "stopAll" => stop # "none"
  /\ main = "stopAll" => stop # "none"
  /\ polled > 0 => Reason

(* Only the first thread with a solution tells the others, and its word    *)
(* says "solution" after it has left for good.                             *)
OneWinner ==
  /\ \A t \in Threads : pc[t] = "tell" => solver = t
  /\ \A t \in Threads : endSearch[t] = "solution" => pc[t] = "left"

IInv == TypeOK /\ LeavesForAReason /\ WinnerIsDone /\ OrdersHaveAReason /\ OneWinner

-----------------------------------------------------------------------------
(* Parties, numbered like the threads with the main thread last.           *)
LEMMA ThreadFacts ==
  /\ 0 \in Threads /\ None \notin Threads /\ Main \notin Threads
  /\ \A k \in 0..NbThreads : k < NbThreads => k \in Threads /\ k + 1 \in 0..NbThreads
BY ThreadsAssumption DEF Threads, None, Main

(* The initial state satisfies the invariant.                              *)
LEMMA InitIInv == Init => IInv
<1> SUFFICES ASSUME Init PROVE IInv
  OBVIOUS
<1> USE ThreadFacts DEF Init
<1>1. TypeOK
  BY ThreadsAssumption, ModeAssumption DEF TypeOK, States, Final
<1>2. LeavesForAReason /\ WinnerIsDone
  BY DEF LeavesForAReason, WinnerIsDone
<1>3. OrdersHaveAReason /\ OneWinner
  BY DEF OrdersHaveAReason, OneWinner, Final
<1> QED
  BY <1>1, <1>2, <1>3 DEF IInv

(* A stuttering step keeps it.                                             *)
LEMMA StutterIInv == IInv /\ UNCHANGED vars => IInv'
BY DEF IInv, TypeOK, LeavesForAReason, WinnerIsDone, OrdersHaveAReason, OneWinner,
       Reason, vars

(* A step of a thread that writes no word, and that neither leaves, tells  *)
(* nor stops the others: it moves, or changes its phase.                   *)
LEMMA MoveIInv ==
  ASSUME IInv, NEW t \in Threads,
         NEW place \in {"pass", "reset", "ask", "search", "endPhase", "claim",
                        "dispatch", "act", "problem552"},
         pc[t] \notin {"tell", "left"}, GoTo(t, place), TypeOK',
         UNCHANGED <<endSearch, told, solver, main, polled, stop, lost>>
  PROVE  IInv'
<1>1. LeavesForAReason'
  BY DEF IInv, TypeOK, LeavesForAReason, GoTo
<1>2. WinnerIsDone'
  BY DEF IInv, TypeOK, WinnerIsDone, GoTo
<1>3. OrdersHaveAReason'
  BY DEF IInv, TypeOK, OrdersHaveAReason, Reason, GoTo
<1>4. OneWinner'
  BY DEF IInv, TypeOK, OneWinner, GoTo
<1> QED
  BY <1>1, <1>2, <1>3, <1>4 DEF IInv

(* The steps of a thread that only move it.                                *)
LEMMA MovingIInv ==
  ASSUME IInv, NEW t \in Threads,
         \/ SeeEndSearch(t) \/ PhaseEnds(t) \/ Solve(t)
         \/ RefuteSubproblem(t) \/ Act(t)
  PROVE  IInv'
<1>1. CASE SeeEndSearch(t)
  BY <1>1, MoveIInv DEF SeeEndSearch, IInv, TypeOK, GoTo
<1>2. CASE PhaseEnds(t)
  BY <1>2, MoveIInv DEF PhaseEnds, IInv, TypeOK, GoTo
<1>3. CASE Solve(t)
  BY <1>3, MoveIInv DEF Solve, IInv, TypeOK, GoTo
<1>4. CASE RefuteSubproblem(t)
  BY <1>4, MoveIInv DEF RefuteSubproblem, IInv, TypeOK, GoTo
<1>5. CASE Act(t)
  BY <1>5, MoveIInv DEF Act, IInv, TypeOK, GoTo
<1> QED
  BY <1>1, <1>2, <1>3, <1>4, <1>5

(* A thread at the head of the loop, or after a search without result,     *)
(* leaves when its word is final: then there is a reason.  The word of a   *)
(* thread that is still here is not "solution", so the branch "probleme"   *)
(* of line 531 is not taken.                                               *)
LEMMA LeavingIInv ==
  ASSUME IInv, NEW t \in Threads, StartPass(t) \/ Dispatch(t)
  PROVE  IInv'
<1>1. endSearch[t] # "solution" /\ endSearch[t] \in States /\ pc[t] \in {"pass", "dispatch"}
  BY DEF IInv, TypeOK, OneWinner, StartPass, Dispatch
<1>2. CASE endSearch[t] \in Final
  <2>1. Reason /\ GoTo(t, "left") /\ UNCHANGED <<endSearch, phase, same, told, solver, main, polled, stop, lost>>
    BY <1>1, <1>2 DEF StartPass, Dispatch, Final, IInv, OrdersHaveAReason
  <2>2. TypeOK' /\ LeavesForAReason'
    BY <2>1 DEF IInv, TypeOK, LeavesForAReason, Reason, GoTo
  <2>3. WinnerIsDone'
    BY <2>1 DEF IInv, TypeOK, WinnerIsDone, GoTo
  <2>4. OrdersHaveAReason' /\ OneWinner'
    BY <2>1 DEF IInv, TypeOK, OrdersHaveAReason, OneWinner, Reason, GoTo
  <2> QED
    BY <2>2, <2>3, <2>4 DEF IInv
<1>3. CASE endSearch[t] \notin Final
  <2>1. /\ GoTo(t, "reset") \/ GoTo(t, "act")
        /\ UNCHANGED <<endSearch, phase, same, told, solver, main, polled, stop, lost>>
    BY <1>1, <1>3 DEF StartPass, Dispatch, Final
  <2>2. TypeOK'
    BY <2>1 DEF IInv, TypeOK, GoTo
  <2> QED
    BY <1>1, <2>1, <2>2, MoveIInv
<1> QED
  BY <1>2, <1>3

(* A thread that still searches writes to its own word: never a final one. *)
LEMMA WritingIInv ==
  ASSUME IInv, NEW t \in Threads, ResetEndSearch(t) \/ EndPhase(t)
  PROVE  IInv'
<1>1. PICK state \in States \ Final, place \in {"ask", "search", "dispatch"} :
        /\ Write(t, state) /\ GoTo(t, place)
        /\ pc[t] \in {"reset", "endPhase"}
        /\ UNCHANGED <<phase, same, told, solver, main, polled, stop>>
  BY DEF ResetEndSearch, EndPhase, States, Final
<1>2. TypeOK'
  BY <1>1 DEF IInv, TypeOK, Write, GoTo
<1>3. LeavesForAReason' /\ WinnerIsDone'
  BY <1>1 DEF IInv, TypeOK, LeavesForAReason, WinnerIsDone, GoTo
<1>4. OrdersHaveAReason'
  BY <1>1 DEF IInv, TypeOK, OrdersHaveAReason, Reason, Write, GoTo
<1>5. OneWinner'
  BY <1>1 DEF IInv, TypeOK, OneWinner, Write, GoTo, Final
<1> QED
  BY <1>2, <1>3, <1>4, <1>5 DEF IInv

(* A manager that has ordered the end is a reason to stop all.             *)
LEMMA AskSubproblemIInv ==
  ASSUME IInv, NEW t \in Threads, AskSubproblem(t)
  PROVE  IInv'
<1>1. TypeOK'
  BY DEF IInv, TypeOK, AskSubproblem, GoTo
<1>2. CASE GoTo(t, "dispatch") \/ GoTo(t, "search")
  BY <1>1, <1>2, MoveIInv DEF AskSubproblem
<1>3. CASE stop # "none" /\ GoTo(t, "stopAll")
  <2>1. LeavesForAReason' /\ WinnerIsDone'
    BY <1>3 DEF IInv, TypeOK, LeavesForAReason, WinnerIsDone, AskSubproblem, GoTo
  <2>2. OrdersHaveAReason' /\ OneWinner'
    BY <1>3 DEF IInv, TypeOK, OrdersHaveAReason, OneWinner, Reason, AskSubproblem, GoTo
  <2> QED
    BY <1>1, <2>1, <2>2 DEF IInv
<1> QED
  BY <1>2, <1>3 DEF AskSubproblem

(* A party with a reason, thread or main thread, writes the next word.     *)
LEMMA TellNextIInv ==
  ASSUME IInv, NEW p \in Threads \cup {Main}, TellNext(p), Reason,
         UNCHANGED <<pc, phase, same, solver, main, polled, stop, lost>>
  PROVE  IInv'
<1>1. told[p] \in Threads /\ told[p] + 1 \in 0..NbThreads
  BY ThreadFacts DEF IInv, TypeOK, TellNext
<1>2. TypeOK'
  BY <1>1 DEF IInv, TypeOK, TellNext, States, Final
<1>3. LeavesForAReason' /\ WinnerIsDone'
  BY DEF IInv, TypeOK, LeavesForAReason, WinnerIsDone
<1>4. OrdersHaveAReason'
  BY DEF IInv, TypeOK, OrdersHaveAReason, Reason
<1>5. OneWinner'
  BY <1>1 DEF IInv, TypeOK, OneWinner, TellNext
<1> QED
  BY <1>2, <1>3, <1>4, <1>5 DEF IInv

(* The thread the manager answered has told all, or tells one more.        *)
LEMMA StopAllIInv ==
  ASSUME IInv, NEW t \in Threads, StopAll(t)
  PROVE  IInv'
<1>1. Reason
  BY DEF StopAll, IInv, OrdersHaveAReason, Reason
<1>2. CASE TellNext(t) /\ UNCHANGED pc
  BY <1>1, <1>2, TellNextIInv DEF StopAll
<1>3. CASE AllTold(t) /\ GoTo(t, "dispatch") /\ told' = [told EXCEPT ![t] = 0] /\ UNCHANGED endSearch
  <2>1. TypeOK'
    BY <1>3, ThreadsAssumption DEF IInv, TypeOK, StopAll, GoTo
  <2>2. LeavesForAReason' /\ WinnerIsDone'
    BY <1>3 DEF IInv, TypeOK, LeavesForAReason, WinnerIsDone, StopAll, GoTo
  <2>3. OrdersHaveAReason' /\ OneWinner'
    BY <1>3 DEF IInv, TypeOK, OrdersHaveAReason, OneWinner, Reason, StopAll, GoTo
  <2> QED
    BY <2>1, <2>2, <2>3 DEF IInv
<1> QED
  BY <1>2, <1>3 DEF StopAll

(* The first thread to come becomes the winner, any other leaves: the      *)
(* solution of the winner is its reason.                                   *)
LEMMA ClaimIInv ==
  ASSUME IInv, NEW t \in Threads, Claim(t)
  PROVE  IInv'
<1>1. CASE solver = None /\ Accept(t)
  <2>1. TypeOK'
    BY <1>1 DEF IInv, TypeOK, Claim, Accept, GoTo
  <2>2. LeavesForAReason' /\ WinnerIsDone'
    BY <1>1, ThreadFacts DEF IInv, TypeOK, LeavesForAReason, WinnerIsDone, Claim, Accept, GoTo
  <2>3. OrdersHaveAReason'
    BY <1>1, ThreadFacts DEF IInv, TypeOK, OrdersHaveAReason, Reason, Claim, Accept, GoTo
  <2>4. OneWinner'
    BY <1>1 DEF IInv, TypeOK, OneWinner, Claim, Accept, GoTo
  <2> QED
    BY <2>1, <2>2, <2>3, <2>4 DEF IInv
<1>2. CASE solver # None /\ GoTo(t, "left") /\ UNCHANGED solver
  <2>1. TypeOK'
    BY <1>2 DEF IInv, TypeOK, Claim, GoTo
  <2>2. LeavesForAReason' /\ WinnerIsDone'
    BY <1>2 DEF IInv, TypeOK, LeavesForAReason, WinnerIsDone, Claim, GoTo
  <2>3. OrdersHaveAReason' /\ OneWinner'
    BY <1>2 DEF IInv, TypeOK, OrdersHaveAReason, OneWinner, Reason, Claim, GoTo
  <2> QED
    BY <2>1, <2>2, <2>3 DEF IInv
<1> QED
  BY <1>1, <1>2 DEF Claim, AcceptFirst

(* The winner tells one more, or writes "solution" and leaves for good.    *)
LEMMA TellOthersIInv ==
  ASSUME IInv, NEW t \in Threads, TellOthers(t)
  PROVE  IInv'
<1>1. solver = t /\ Reason
  BY ThreadFacts DEF TellOthers, IInv, OneWinner, Reason
<1>2. CASE TellNext(t) /\ UNCHANGED pc
  BY <1>1, <1>2, TellNextIInv DEF TellOthers
<1>3. CASE /\ AllTold(t) /\ endSearch' = [endSearch EXCEPT ![t] = "solution"]
           /\ LeaveSearch(t) /\ UNCHANGED told
  <2>1. TypeOK'
    BY <1>3 DEF IInv, TypeOK, TellOthers, LeaveSearch, GoTo, States, Final
  <2>2. LeavesForAReason' /\ WinnerIsDone'
    BY <1>1, <1>3 DEF IInv, TypeOK, LeavesForAReason, WinnerIsDone, TellOthers, LeaveSearch, GoTo, Reason
  <2>3. OrdersHaveAReason' /\ OneWinner'
    BY <1>1, <1>3 DEF IInv, TypeOK, OrdersHaveAReason, OneWinner, Reason, TellOthers, LeaveSearch, GoTo
  <2> QED
    BY <2>1, <2>2, <2>3 DEF IInv
<1> QED
  BY <1>2, <1>3 DEF TellOthers

-----------------------------------------------------------------------------
(* The main thread has counted a word only if it was final; it joins after *)
(* the last one, and stops all on the order of the manager.                *)
LEMMA MainIInv ==
  ASSUME IInv, Poll \/ TestManager \/ MainStopsAll \/ Join
  PROVE  IInv'
<1>1. CASE Poll
  <2>1. TypeOK'
    BY <1>1, ThreadFacts, ThreadsAssumption DEF IInv, TypeOK, Poll, Threads
  <2>2. LeavesForAReason' /\ WinnerIsDone'
    BY <1>1 DEF IInv, TypeOK, LeavesForAReason, WinnerIsDone, OrdersHaveAReason, Reason, Poll
  <2>3. OrdersHaveAReason' /\ OneWinner'
    BY <1>1 DEF IInv, TypeOK, OrdersHaveAReason, OneWinner, Reason, Poll
  <2> QED
    BY <2>1, <2>2, <2>3 DEF IInv
<1>2. CASE TestManager
  <2>1. TypeOK'
    BY <1>2 DEF IInv, TypeOK, TestManager
  <2>2. LeavesForAReason' /\ WinnerIsDone'
    BY <1>2 DEF IInv, LeavesForAReason, WinnerIsDone, TestManager
  <2>3. OrdersHaveAReason' /\ OneWinner'
    BY <1>2 DEF IInv, OrdersHaveAReason, OneWinner, Reason, TestManager
  <2> QED
    BY <2>1, <2>2, <2>3 DEF IInv
<1>3. CASE MainStopsAll
  <2>1. CASE TellNext(Main) /\ UNCHANGED main
    BY <1>3, <2>1, TellNextIInv DEF MainStopsAll, IInv, OrdersHaveAReason, Reason
  <2>2. CASE AllTold(Main) /\ main' = "poll" /\ UNCHANGED <<endSearch, told>>
    <3>1. TypeOK'
      BY <1>3, <2>2 DEF IInv, TypeOK, MainStopsAll
    <3>2. LeavesForAReason' /\ WinnerIsDone' /\ OrdersHaveAReason' /\ OneWinner'
      BY <1>3, <2>2 DEF IInv, LeavesForAReason, WinnerIsDone, OrdersHaveAReason,
                        OneWinner, Reason, MainStopsAll
    <3> QED
      BY <3>1, <3>2 DEF IInv
  <2> QED
    BY <1>3, <2>1, <2>2 DEF MainStopsAll
<1>4. CASE Join
  BY <1>4 DEF IInv, TypeOK, LeavesForAReason, WinnerIsDone, OrdersHaveAReason,
              OneWinner, Reason, Join
<1> QED
  BY <1>1, <1>2, <1>3, <1>4

(* The order of the manager is a reason.                                   *)
LEMMA ManagerStopsIInv == IInv /\ ManagerStops => IInv'
BY DEF IInv, TypeOK, LeavesForAReason, WinnerIsDone, OrdersHaveAReason,
       OneWinner, Reason, ManagerStops

LEMMA NextIInv == IInv /\ [Next]_vars => IInv'
<1> SUFFICES ASSUME IInv, [Next]_vars PROVE IInv'
  OBVIOUS
<1>1. ASSUME NEW t \in Threads, Proceed(t) PROVE IInv'
  BY <1>1, LeavingIInv, WritingIInv, AskSubproblemIInv, StopAllIInv, MovingIInv,
     ClaimIInv, TellOthersIInv DEF Proceed
<1>2. ASSUME NEW t \in Threads, Find(t) PROVE IInv'
  BY <1>2, MovingIInv DEF Find
<1>3. CASE MainProceeds
  BY <1>3, MainIInv DEF MainProceeds
<1>4. CASE ManagerStops
  BY <1>4, ManagerStopsIInv
<1>5. CASE UNCHANGED vars
  BY <1>5, StutterIInv
<1> QED
  BY <1>1, <1>2, <1>3, <1>4, <1>5 DEF Next

(* The conjunction is an invariant of the search of a worker.              *)
LEMMA InductiveInvariant == Spec => []IInv
BY InitIInv, NextIInv, PTL DEF Spec

(* The search keeps its types: the words are those of MessageCoding.h, and *)
(* no party tells a thread that does not exist.                            *)
THEOREM TypeCorrect == Spec => []TypeOK
BY InductiveInvariant, PTL DEF IInv

(* No thread leaves its search, and the main thread does not stop          *)
(* listening to the manager, without a solution or an order to stop.       *)
THEOREM LeavesForAReasonHolds == Spec => []LeavesForAReason
BY InductiveInvariant, PTL DEF IInv

(* The thread with the solution never searches again, and the branch       *)
(* "probleme" that a word "solution" would take is never reached.          *)
THEOREM WinnerIsDoneHolds == Spec => []WinnerIsDone
BY InductiveInvariant, PTL DEF IInv

-----------------------------------------------------------------------------
(* Collective: positions in a message, and what is read between two.       *)
Rows == [from : Ranks, n : Nat, size : Sizes]

(* A set of naturals that is not empty has a least element.  Of the        *)
(* intervals that start at 0 and end in it, one contains no other.         *)
LEMMA LeastNatural ==
  ASSUME NEW T \in SUBSET Nat, T # {}
  PROVE  \E x \in T : \A y \in T : x <= y
<1> DEFINE Starts == {0..m : m \in T}
<1>1. ASSUME NEW m \in T PROVE 0..m \in FiniteSubsetsOf(Nat)
  <2>1. IsFiniteSet(0..m) /\ 0..m \in SUBSET Nat
    BY FS_Interval
  <2> QED
    BY <2>1 DEF FiniteSubsetsOf
<1>2. Starts \subseteq FiniteSubsetsOf(Nat) /\ Starts # {}
  BY <1>1
<1> HIDE DEF Starts
<1>3. PICK A \in Starts : \A B \in Starts : <<B, A>> \notin StrictSubsetOrdering(Nat)
  BY <1>2, FS_StrictSubsetOrderingWellFounded, WFMin, Zenon
<1>4. PICK m \in T : A = 0..m
  BY <1>3 DEF Starts
<1>5. ASSUME NEW y \in T, y < m PROVE FALSE
  <2>1. 0..y \in Starts
    BY DEF Starts
  <2>2. m \in 0..m /\ m \notin 0..y
    BY <1>5
  <2>3. 0..y \subseteq 0..m /\ 0..y \in SUBSET Nat /\ 0..m \in SUBSET Nat
    BY <1>5
  <2> QED
    BY <1>3, <1>4, <2>1, <2>2, <2>3 DEF StrictSubsetOrdering
<1> QED
  BY <1>4, <1>5

(* Induction over the natural numbers.                                     *)
LEMMA SetInduction ==
  ASSUME NEW S, 0 \in S, \A n \in Nat : n \in S => n + 1 \in S
  PROVE  Nat \subseteq S
<1> SUFFICES ASSUME Nat \ S # {} PROVE FALSE
  OBVIOUS
<1>1. PICK m \in Nat \ S : \A y \in Nat \ S : m <= y
  BY LeastNatural, Zenon
<1>2. m # 0 /\ m - 1 \in Nat
  BY <1>1
<1>3. m - 1 \in S
  BY <1>1, <1>2
<1> QED
  BY <1>1, <1>2, <1>3

(* The sums of the first numbers of a list: a function with this equation  *)
(* exists.                                                                 *)
Sums(n, add, f) ==
  /\ f \in [0..n -> Nat] /\ f[0] = 0
  /\ \A i \in 1..n : f[i] = f[i - 1] + add[i]

LEMMA SumsExist ==
  ASSUME NEW n \in Nat, NEW add \in [1..n -> Nat]
  PROVE  \E f : Sums(n, add, f)
<1> DEFINE S == {m \in Nat : m <= n => \E f : Sums(m, add, f)}
<1>1. 0 \in S
  <2> DEFINE g == [i \in 0..0 |-> 0]
  <2>1. Sums(0, add, g)
    BY DEF Sums
  <2> QED
    BY <2>1
<1>2. ASSUME NEW m \in Nat, m \in S PROVE m + 1 \in S
  <2> SUFFICES ASSUME m + 1 <= n PROVE \E f : Sums(m + 1, add, f)
    OBVIOUS
  <2>1. PICK f : Sums(m, add, f)
    BY <1>2
  <2>2. PICK x \in Nat : x = f[m] + add[m + 1]
    <3>1. f[m] \in Nat /\ add[m + 1] \in Nat
      BY <2>1 DEF Sums
    <3> QED
      BY <3>1
  <2>3. PICK g : g = [i \in 0..(m + 1) |-> IF i = m + 1 THEN x ELSE f[i]]
    OBVIOUS
  <2>4. \A i \in 0..m : g[i] = f[i] /\ f[i] \in Nat
    BY <2>1, <2>3 DEF Sums
  <2>5. g[m + 1] = x
    BY <2>3
  <2>6. g \in [0..(m + 1) -> Nat]
    <3>1. \A i \in 0..(m + 1) : i = m + 1 \/ i \in 0..m
      OBVIOUS
    <3>2. \A i \in 0..(m + 1) : g[i] \in Nat
      BY <2>2, <2>4, <2>5, <3>1
    <3> QED
      BY <2>3, <3>2
  <2>7. g[0] = 0
    BY <2>1, <2>4 DEF Sums
  <2>8. ASSUME NEW i \in 1..(m + 1) PROVE g[i] = g[i - 1] + add[i]
    <3>1. CASE i \in 1..m
      <4>1. i \in 0..m /\ i - 1 \in 0..m
        BY <3>1
      <4> QED
        BY <2>1, <2>4, <3>1, <4>1 DEF Sums
    <3>2. CASE i = m + 1
      <4>1. i - 1 = m /\ m \in 0..m
        BY <3>2
      <4> QED
        BY <2>2, <2>4, <2>5, <3>2, <4>1
    <3> QED
      BY <3>1, <3>2
  <2> QED
    BY <2>6, <2>7, <2>8 DEF Sums
<1> HIDE DEF S
<1>3. n \in S
  BY <1>1, <1>2, SetInduction
<1> QED
  BY <1>3 DEF S

(* Sums never fall.                                                        *)
LEMMA SumsGrow ==
  ASSUME NEW n \in Nat, NEW add \in [1..n -> Nat], NEW f, Sums(n, add, f),
         NEW i \in 0..n
  PROVE  \A j \in i..n : f[i] <= f[j]
<1> DEFINE S == {k \in Nat : i + k <= n => f[i] <= f[i + k]}
<1>1. 0 \in S
  BY DEF Sums
<1>2. ASSUME NEW k \in Nat, k \in S PROVE k + 1 \in S
  <2> SUFFICES ASSUME i + (k + 1) <= n PROVE f[i] <= f[i + (k + 1)]
    OBVIOUS
  <2>1. PICK j : j = i + (k + 1)
    OBVIOUS
  <2>2. j \in 1..n /\ j - 1 = i + k /\ j - 1 \in 0..n
    BY <2>1
  <2>3. f[j] = f[j - 1] + add[j] /\ add[j] \in Nat /\ f[j - 1] \in Nat /\ f[i] \in Nat
    BY <2>2 DEF Sums
  <2>4. f[i] <= f[j - 1]
    BY <1>2, <2>2
  <2> QED
    BY <2>1, <2>3, <2>4
<1> HIDE DEF S
<1>3. \A k \in Nat : k \in S
  BY <1>1, <1>2, SetInduction
<1>4. ASSUME NEW j \in i..n PROVE f[i] <= f[j]
  <2>1. j - i \in Nat /\ i + (j - i) = j
    OBVIOUS
  <2>2. j - i \in S
    BY <1>3, <2>1
  <2> QED
    BY <2>1, <2>2 DEF S
<1> QED
  BY <1>4

(* Where the clauses of a message are: each takes a word at least.         *)
LEMMA WordsFacts ==
  ASSUME NEW cs \in Seq(Rows)
  PROVE  /\ Words(cs) \in Nat
         /\ \A i \in 1..Len(cs) : /\ WordsOfFirst(cs)[i - 1] \in Nat
                                  /\ WordsOfFirst(cs)[i - 1] < Words(cs)
         /\ Words(cs) = 0 => cs = <<>>
<1>1. PICK n \in Nat : n = Len(cs)
  OBVIOUS
<1>2. PICK add \in [1..n -> Nat] : \A i \in 1..n : add[i] = 1 + cs[i].size /\ cs[i].size \in Nat
  <2> DEFINE a == [i \in 1..n |-> 1 + cs[i].size]
  <2>1. ASSUME NEW i \in 1..n PROVE cs[i].size \in Nat
    <3>1. cs[i] \in Rows
      BY <1>1
    <3>2. cs[i].size \in Sizes
      BY <3>1 DEF Rows
    <3> QED
      BY <3>2, RanksAssumption
  <2>2. a \in [1..n -> Nat]
    BY <2>1
  <2> QED
    BY <2>1, <2>2
<1>3. PICK f : Sums(n, add, f)
  BY SumsExist
<1>4. f = [i \in 0..n |-> IF i = 0 THEN 0 ELSE f[i - 1] + 1 + cs[i].size]
  <2>1. ASSUME NEW i \in 0..n PROVE f[i] = IF i = 0 THEN 0 ELSE f[i - 1] + 1 + cs[i].size
    <3>1. CASE i = 0
      BY <1>3, <3>1 DEF Sums
    <3>2. CASE i # 0
      <4>1. i \in 1..n /\ i - 1 \in 0..n
        BY <3>2
      <4>2. f[i] = f[i - 1] + add[i] /\ f[i - 1] \in Nat
        BY <1>3, <4>1 DEF Sums
      <4>3. PICK s \in Nat : s = cs[i].size /\ add[i] = 1 + s
        BY <1>2, <4>1
      <4>4. PICK p \in Nat : p = f[i - 1]
        BY <4>2
      <4>5. f[i] = p + 1 + s
        <5>1. p + (1 + s) = p + 1 + s
          OBVIOUS
        <5>2. f[i] = p + (1 + s)
          BY <4>2, <4>3, <4>4, Zenon
        <5> QED
          BY <5>1, <5>2, Zenon
      <4> QED
        BY <3>2, <4>3, <4>4, <4>5
    <3> QED
      BY <3>1, <3>2
  <2>2. f = [i \in 0..n |-> f[i]]
    BY <1>3 DEF Sums
  <2> QED
    BY <2>1, <2>2
<1>5. PICK F : F = CHOOSE g : g = [i \in 0..n |-> IF i = 0 THEN 0 ELSE g[i - 1] + 1 + cs[i].size]
  OBVIOUS
<1>6. F = [i \in 0..n |-> IF i = 0 THEN 0 ELSE F[i - 1] + 1 + cs[i].size]
  BY <1>4, <1>5
<1>7. Sums(n, add, F)
  <2>1. F[0] = 0
    BY <1>6
  <2>2. ASSUME NEW i \in 1..n PROVE F[i] = F[i - 1] + 1 + cs[i].size
    <3>1. i \in 0..n /\ i # 0
      OBVIOUS
    <3> QED
      BY <1>6, <3>1
  <2> DEFINE S == {m \in Nat : m <= n => F[m] \in Nat}
  <2>3. 0 \in S
    BY <2>1
  <2>4. ASSUME NEW m \in Nat, m \in S PROVE m + 1 \in S
    <3> SUFFICES ASSUME m + 1 <= n PROVE F[m + 1] \in Nat
      OBVIOUS
    <3>1. PICK i \in 1..n : i = m + 1 /\ i - 1 = m
      OBVIOUS
    <3>2. PICK s \in Nat : s = cs[i].size
      BY <1>2
    <3>3. PICK p \in Nat : p = F[i - 1]
      BY <2>4, <3>1
    <3>4. F[i] = p + 1 + s
      BY <2>2, <3>2, <3>3
    <3> QED
      BY <3>1, <3>4
  <2> HIDE DEF S
  <2>5. \A m \in Nat : m \in S
    BY <2>3, <2>4, SetInduction
  <2>6. \A m \in 0..n : F[m] \in Nat
    BY <2>5 DEF S
  <2>7. F \in [0..n -> Nat]
    <3>1. F = [i \in 0..n |-> F[i]]
      BY <1>6
    <3> QED
      BY <2>6, <3>1
  <2>8. ASSUME NEW i \in 1..n PROVE F[i] = F[i - 1] + add[i]
    <3>1. i - 1 \in 0..n
      OBVIOUS
    <3>2. PICK s \in Nat : s = cs[i].size /\ add[i] = 1 + s
      BY <1>2
    <3>3. PICK p \in Nat : p = F[i - 1]
      BY <2>6, <3>1
    <3>4. F[i] = p + 1 + s
      BY <2>2, <3>2, <3>3
    <3>5. F[i] = p + add[i]
      <4>1. p + (1 + s) = p + 1 + s
        OBVIOUS
      <4>2. F[i] = p + (1 + s)
        BY <3>4, <4>1, Zenon
      <4> QED
        BY <3>2, <4>2, Zenon
    <3> QED
      BY <3>3, <3>5
  <2> QED
    BY <2>1, <2>7, <2>8 DEF Sums
<1>8. WordsOfFirst(cs) = F /\ Words(cs) = F[n]
  BY <1>1, <1>5 DEF WordsOfFirst, Words
<1>9. ASSUME NEW i \in 1..n PROVE F[i - 1] \in Nat /\ F[i - 1] < F[n]
  <2>1. i - 1 \in 0..n /\ i \in 0..n /\ n \in i..n
    OBVIOUS
  <2>2. F[i] <= F[n]
    BY <1>7, <2>1, SumsGrow
  <2>3. F[i] = F[i - 1] + add[i] /\ F[i - 1] \in Nat /\ F[i] \in Nat /\ F[n] \in Nat
    BY <1>7, <2>1 DEF Sums
  <2>4. add[i] \in Nat /\ add[i] > 0
    <3>1. PICK s \in Nat : add[i] = 1 + s
      BY <1>2
    <3> QED
      BY <3>1
  <2> QED
    BY <2>2, <2>3, <2>4
<1>10. F[n] \in Nat
  BY <1>7 DEF Sums
<1>11. ASSUME F[n] = 0 PROVE cs = <<>>
  <2>1. n = 0
    <3>1. n # 0 => n \in 1..n
      OBVIOUS
    <3> QED
      BY <1>9, <1>11, <3>1
  <2> QED
    BY <1>1, <2>1, EmptySeq
<1> QED
  BY <1>1, <1>8, <1>9, <1>10, <1>11

(* A block starts where the one before it ends.                            *)
LEMMA StartsFacts ==
  ASSUME NEW sizes \in [Ranks -> Nat], NEW r \in Ranks, r # LastRank
  PROVE  /\ StartsOf(sizes)[r] \in Nat
         /\ StartsOf(sizes)[r + 1] = StartsOf(sizes)[r] + sizes[r]
<1>1. PICK n \in Nat : n = LastRank
  BY RanksAssumption
<1>2. PICK add \in [1..n -> Nat] : \A i \in 1..n : add[i] = sizes[i - 1]
  <2> DEFINE a == [i \in 1..n |-> sizes[i - 1]]
  <2>1. ASSUME NEW i \in 1..n PROVE sizes[i - 1] \in Nat
    <3>1. i - 1 \in Ranks
      BY <1>1 DEF Ranks
    <3> QED
      BY <3>1
  <2>2. a \in [1..n -> Nat]
    BY <2>1
  <2> QED
    BY <2>2
<1>3. PICK f : Sums(n, add, f)
  BY SumsExist
<1>4. f = [i \in 0..n |-> IF i = 0 THEN 0 ELSE f[i - 1] + sizes[i - 1]]
  <2>1. ASSUME NEW i \in 0..n PROVE f[i] = IF i = 0 THEN 0 ELSE f[i - 1] + sizes[i - 1]
    <3>1. CASE i = 0
      BY <1>3, <3>1 DEF Sums
    <3>2. CASE i # 0
      <4>1. i \in 1..n
        BY <3>2
      <4>2. f[i] = f[i - 1] + add[i] /\ add[i] = sizes[i - 1]
        BY <1>2, <1>3, <4>1 DEF Sums
      <4> QED
        BY <3>2, <4>2
    <3> QED
      BY <3>1, <3>2
  <2>2. f = [i \in 0..n |-> f[i]]
    BY <1>3 DEF Sums
  <2> QED
    BY <2>1, <2>2
<1>5. PICK F : F = CHOOSE g : g = [i \in 0..n |-> IF i = 0 THEN 0 ELSE g[i - 1] + sizes[i - 1]]
  OBVIOUS
<1>6. F = [i \in 0..n |-> IF i = 0 THEN 0 ELSE F[i - 1] + sizes[i - 1]]
  BY <1>4, <1>5
<1>7. F[0] = 0
  BY <1>6
<1>8. ASSUME NEW i \in 1..n PROVE F[i] = F[i - 1] + sizes[i - 1] /\ sizes[i - 1] \in Nat
  <2>1. i \in 0..n /\ i # 0
    OBVIOUS
  <2>2. add[i] \in Nat /\ add[i] = sizes[i - 1]
    BY <1>2
  <2> QED
    BY <1>6, <2>1, <2>2
<1> DEFINE S == {m \in Nat : m <= n => F[m] \in Nat}
<1>9. 0 \in S
  BY <1>7
<1>10. ASSUME NEW m \in Nat, m \in S PROVE m + 1 \in S
  <2> SUFFICES ASSUME m + 1 <= n PROVE F[m + 1] \in Nat
    OBVIOUS
  <2>1. PICK i \in 1..n : i = m + 1 /\ i - 1 = m
    OBVIOUS
  <2>2. F[i] = F[i - 1] + sizes[i - 1] /\ sizes[i - 1] \in Nat
    BY <1>8
  <2>3. F[m] \in Nat
    BY <1>10
  <2> QED
    BY <2>1, <2>2, <2>3
<1> HIDE DEF S
<1>11. \A m \in Nat : m \in S
  BY <1>9, <1>10, SetInduction
<1>12. r \in 0..n /\ r + 1 \in 1..n /\ (r + 1) - 1 = r
  BY <1>1 DEF Ranks
<1>13. F[r] \in Nat
  BY <1>11, <1>12 DEF S
<1>14. F[r + 1] = F[r] + sizes[r]
  BY <1>8, <1>12
<1>15. StartsOf(sizes) = F
  BY <1>1, <1>5 DEF StartsOf, Ranks
<1> QED
  BY <1>13, <1>14, <1>15

(* Read up to the start of the next one, a block is read whole, and        *)
(* nothing else is.                                                        *)
LEMMA ReadWhole ==
  ASSUME NEW block \in Seq(Rows), NEW start \in Nat,
         NEW end, end = start + Words(block)
  PROVE  ReadBlock(block, start, end) = block
<1>1. PICK n \in Nat : n = Len(block)
  OBVIOUS
<1>2. Words(block) \in Nat
  BY WordsFacts
<1>3. PICK read : read = {i \in 1..Len(block) : start + WordsOfFirst(block)[i - 1] < end}
  OBVIOUS
<1>4. ASSUME NEW i \in 1..Len(block) PROVE start + WordsOfFirst(block)[i - 1] < end
  <2>1. PICK p \in Nat : p = WordsOfFirst(block)[i - 1] /\ p < Words(block)
    BY WordsFacts
  <2>2. PICK k \in Nat : k = Words(block)
    BY <1>2
  <2> QED
    BY <2>1, <2>2
<1>5. read = 1..n
  BY <1>1, <1>3, <1>4
<1>6. Cardinality(read) = n
  BY <1>5, FS_Interval
<1>7. SubSeq(block, 1, n) = block
  BY <1>1, SubSeqFull
<1>8. ~(end > start + Words(block))
  BY <1>2
<1>9. ReadBlock(block, start, end) = SubSeq(block, 1, n) \o <<>>
  BY <1>3, <1>6, <1>8 DEF ReadBlock
<1> QED
  BY <1>7, <1>9, ConcatEmptySeq

(* Messages on their way: a new one, and what is moved along.              *)
LEMMA RowsFacts ==
  ASSUME NEW a \in Seq(Rows), NEW b \in Seq(Rows), NEW c \in Rows
  PROVE  /\ Append(a, c) \in Seq(Rows)
         /\ a \o b \in Seq(Rows)
         /\ a \o <<>> = a /\ <<>> \in Seq(Rows)
         /\ Append(a \o b, c) = a \o Append(b, c)
<1>1. /\ Append(a, c) = a \o <<c>> /\ Append(b, c) = b \o <<c>>
      /\ a \o b \in Seq(Rows) /\ <<c>> \in Seq(Rows) /\ <<>> \in Seq(Rows)
      /\ Append(a, c) \in Seq(Rows)
  BY AppendIsConcat
<1>2. Append(a \o b, c) = (a \o b) \o <<c>>
  BY <1>1, AppendIsConcat
<1>3. (a \o b) \o <<c>> = a \o (b \o <<c>>)
  BY <1>1, ConcatAssociative
<1>4. a \o <<>> = a
  BY ConcatEmptySeq
<1> QED
  BY <1>1, <1>2, <1>3, <1>4

-----------------------------------------------------------------------------
(* Collective: what counts the calls, and where the workers may be.        *)
Succ(c) == (c + 1) % 3

(* What the workers gave to call c, if none is further than the next one.  *)
ValuesOf(c) ==
  [r \in Ranks |-> IF calls[r] = c THEN given[r].last ELSE given[r].before]

Ended(values) == \E r \in Ranks : values[r]
Shared(values) == \E r \in Ranks : values[r] > 0

(* Worker t imports the clauses of f; nothing is said of the last worker.  *)
Awaits(t, f) == f # t /\ f # LastRank

RoundTypes ==
  /\ calls \in [Ranks -> 0..2]
  /\ stage \in [Ranks -> {"sleep", "ends", "sizes", "blocks", "left"}]
  /\ given = [r \in Ranks |-> given[r]]
  /\ sent \in [Ranks -> Seq(Rows)]
  /\ toSend \in [Ranks -> Seq(Rows)]
  /\ copy \in [Ranks -> Seq(Rows)]
  /\ allPos = [r \in Ranks |-> allPos[r]]
  /\ imported = [r \in Ranks |-> imported[r]]
  /\ \A t, f \in Ranks : Awaits(t, f) => imported[t][f] \in Seq(Rows)

(* Where worker w may be, when the call c that all have entered is the one *)
(* that shares who ends, the one that shares sizes, or the one that shares *)
(* blocks (or none: before the first round).                               *)
AfterEnds(w, c) ==
  \/ calls[w] = c /\ stage[w] = "ends"
  \/ calls[w] = c /\ stage[w] = "left" /\ Ended(ValuesOf(c))
  \/ calls[w] = Succ(c) /\ stage[w] = "sizes" /\ ~Ended(ValuesOf(c))

AfterSizes(w, c) ==
  \/ calls[w] = c /\ stage[w] = "sizes"
  \/ calls[w] = c /\ stage[w] = "sleep" /\ ~Shared(ValuesOf(c))
  \/ calls[w] = Succ(c) /\ stage[w] = "ends" /\ ~Shared(ValuesOf(c))
  \/ calls[w] = Succ(c) /\ stage[w] = "blocks" /\ Shared(ValuesOf(c))

AfterBlocks(w, c) ==
  \/ calls[w] = c /\ stage[w] \in {"blocks", "sleep"}
  \/ calls[w] = Succ(c) /\ stage[w] = "ends"

(* All clauses of f that are not in its buffer are with t, or all but      *)
(* those f has copied.                                                     *)
Delivered(t, f) == Awaits(t, f) => sent[f] = imported[t][f] \o toSend[f]
OnTheirWay(t, f) ==
  Awaits(t, f) => sent[f] = (imported[t][f] \o copy[f]) \o toSend[f]

Starts == StartsOf([r \in Ranks |-> Words(copy[r])])

(* Where the clauses are, and what the values are: after the call that     *)
(* shares who ends, a worker that goes on copies its buffer; after the one *)
(* that shares sizes all have; after the one that shares blocks, a worker  *)
(* that goes on has imported the copies of the others.                     *)
EndsData(f) ==
  IF stage[f] = "sizes"
  THEN given[f].last = Words(copy[f]) /\ \A t \in Ranks : OnTheirWay(t, f)
  ELSE \A t \in Ranks : Delivered(t, f)

SizesData(r, c) ==
  /\ ValuesOf(c)[r] = Words(copy[r])
  /\ \A t \in Ranks : OnTheirWay(t, r)
  /\ stage[r] = "blocks" => given[r].last = copy[r] /\ allPos[r] = Starts

BlocksData(t, c) ==
  IF stage[t] = "blocks"
  THEN /\ allPos[t] = Starts
       /\ \A f \in Ranks : ValuesOf(c)[f] = copy[f] /\ OnTheirWay(t, f)
  ELSE \A f \in Ranks : Delivered(t, f)

InStepAt(c) ==
  \/ \A w \in Ranks : AfterEnds(w, c) /\ EndsData(w)
  \/ \A w \in Ranks : AfterSizes(w, c) /\ SizesData(w, c)
  \/ \A w \in Ranks : AfterBlocks(w, c) /\ BlocksData(w, c)

InStep == RoundTypes /\ \E c \in 0..2 : InStepAt(c)

-----------------------------------------------------------------------------
(* Counting modulo 3 tells a call, the one before and the next apart.      *)
LEMMA CountFacts ==
  \A c \in 0..2 : /\ Succ(c) \in 0..2 /\ Succ(c) # c
                  /\ Succ(Succ(c)) # c /\ Succ(Succ(c)) # Succ(c)
                  /\ \A d \in 0..2 : Succ(d) = Succ(c) => d = c
BY DEF Succ

(* If no worker has anything to share, nothing is on its way.              *)
LEMMA NothingOnTheWay ==
  ASSUME RoundTypes, NEW c, \A r \in Ranks : SizesData(r, c), ~Shared(ValuesOf(c))
  PROVE  \A t, f \in Ranks : Delivered(t, f)
<1> SUFFICES ASSUME NEW t \in Ranks, NEW f \in Ranks, Awaits(t, f)
             PROVE  sent[f] = imported[t][f] \o toSend[f]
  BY DEF Delivered
<1>1. /\ copy[f] \in Seq(Rows) /\ imported[t][f] \in Seq(Rows)
      /\ sent[f] = (imported[t][f] \o copy[f]) \o toSend[f]
  BY DEF RoundTypes, SizesData, OnTheirWay
<1>2. PICK k \in Nat : k = Words(copy[f]) /\ (k = 0 => copy[f] = <<>>)
  BY <1>1, WordsFacts
<1>3. ~(k > 0)
  BY <1>2 DEF SizesData, Shared
<1>4. copy[f] = <<>>
  BY <1>2, <1>3
<1>5. imported[t][f] \o copy[f] = imported[t][f]
  BY <1>1, <1>4, ConcatEmptySeq
<1> QED
  BY <1>1, <1>5

(* The invariant is what the properties need.                              *)
LEMMA InStepCallsMatch == InStep => CallsMatch
<1>1. ASSUME NEW c \in 0..2, InStepAt(c)
      PROVE  \/ \A w \in Ranks : AfterEnds(w, c)
             \/ \A w \in Ranks : AfterSizes(w, c)
             \/ \A w \in Ranks : AfterBlocks(w, c)
  BY <1>1 DEF InStepAt
<1> QED
  BY <1>1, CountFacts DEF InStep, AfterEnds, AfterSizes, AfterBlocks, CallsMatch, InCall

LEMMA InStepArrivesOnce == InStep => ClausesArriveOnce
<1> SUFFICES ASSUME InStep, NEW f \in Ranks, NEW t \in Ranks, Awaits(t, f)
             PROVE  ArrivesOnce(t, f)
  BY DEF ClausesArriveOnce, Awaits
<1>1. PICK c \in 0..2 : InStepAt(c) /\ RoundTypes
  BY DEF InStep
<1>2. CASE \A w \in Ranks : AfterEnds(w, c) /\ EndsData(w)
  <2>1. stage[f] # "sleep" /\ (Delivered(t, f) \/ OnTheirWay(t, f))
    BY <1>2 DEF AfterEnds, EndsData
  <2> QED
    BY <2>1 DEF ArrivesOnce, Delivered, OnTheirWay
<1>3. CASE \A w \in Ranks : AfterSizes(w, c) /\ SizesData(w, c)
  <2>1. OnTheirWay(t, f)
    BY <1>3 DEF SizesData
  <2>2. ASSUME stage[t] = "sleep" PROVE Delivered(t, f)
    <3>1. ~Shared(ValuesOf(c))
      BY <1>3, <2>2 DEF AfterSizes
    <3> QED
      BY <1>1, <1>3, <3>1, NothingOnTheWay
  <2> QED
    BY <2>1, <2>2 DEF ArrivesOnce, Delivered, OnTheirWay
<1>4. CASE \A w \in Ranks : AfterBlocks(w, c) /\ BlocksData(w, c)
  <2>1. Delivered(t, f) \/ (stage[t] # "sleep" /\ OnTheirWay(t, f))
    BY <1>4 DEF BlocksData
  <2> QED
    BY <2>1 DEF ArrivesOnce, Delivered, OnTheirWay
<1> QED
  BY <1>1, <1>2, <1>3, <1>4 DEF InStepAt

(* A worker in a call all have entered is in the earlier one of the two    *)
(* there are, or nobody is: one may take its call for "c".                 *)
LEMMA Rebase ==
  ASSUME RoundTypes, NEW c \in 0..2, InStepAt(c), NEW w \in Ranks, AllEntered(w)
  PROVE  InStepAt(calls[w])
<1>1. \A r \in Ranks : calls[r] \in {c, Succ(c)} /\ calls[r] \in 0..2
  BY DEF InStepAt, AfterEnds, AfterSizes, AfterBlocks, RoundTypes
<1>2. CASE calls[w] = c
  BY <1>2
<1>3. CASE calls[w] = Succ(c)
  <2>1. \A r \in Ranks : calls[r] = Succ(c) /\ Succ(c) # c
    BY <1>1, <1>3, CountFacts DEF AllEntered, Succ
  <2>2. \A r \in Ranks : ValuesOf(Succ(c))[r] = given[r].last
    BY <2>1 DEF ValuesOf
  <2>3. CASE \A r \in Ranks : AfterEnds(r, c) /\ EndsData(r)
    <3>1. \A r \in Ranks : stage[r] = "sizes"
      BY <2>1, <2>3 DEF AfterEnds
    <3>2. \A r \in Ranks : AfterSizes(r, Succ(c))
      BY <2>1, <3>1 DEF AfterSizes
    <3>3. \A r \in Ranks : SizesData(r, Succ(c))
      BY <2>2, <2>3, <3>1 DEF EndsData, SizesData
    <3> QED
      BY <1>3, <3>2, <3>3 DEF InStepAt
  <2>4. CASE (\A r \in Ranks : AfterSizes(r, c) /\ SizesData(r, c)) /\ Shared(ValuesOf(c))
    <3>1. \A r \in Ranks : stage[r] = "blocks"
      BY <2>1, <2>4 DEF AfterSizes
    <3>2. \A r \in Ranks : AfterBlocks(r, Succ(c))
      BY <2>1, <3>1 DEF AfterBlocks
    <3>3. \A r \in Ranks : BlocksData(r, Succ(c))
      BY <2>2, <2>4, <3>1 DEF SizesData, BlocksData
    <3> QED
      BY <1>3, <3>2, <3>3 DEF InStepAt
  <2>5. CASE (\A r \in Ranks : AfterSizes(r, c) /\ SizesData(r, c)) /\ ~Shared(ValuesOf(c))
    <3>1. \A r \in Ranks : stage[r] = "ends"
      BY <2>1, <2>5 DEF AfterSizes
    <3>2. \A r \in Ranks : AfterEnds(r, Succ(c))
      BY <2>1, <3>1 DEF AfterEnds
    <3>3. \A r \in Ranks : EndsData(r)
      BY <2>5, <3>1, NothingOnTheWay DEF EndsData
    <3> QED
      BY <1>3, <3>2, <3>3 DEF InStepAt
  <2>6. CASE \A r \in Ranks : AfterBlocks(r, c) /\ BlocksData(r, c)
    <3>1. \A r \in Ranks : stage[r] = "ends"
      BY <2>1, <2>6 DEF AfterBlocks
    <3>2. \A r \in Ranks : AfterEnds(r, Succ(c))
      BY <2>1, <3>1 DEF AfterEnds
    <3>3. \A r \in Ranks : EndsData(r)
      BY <2>6, <3>1 DEF EndsData, BlocksData
    <3> QED
      BY <1>3, <3>2, <3>3 DEF InStepAt
  <2> QED
    BY <2>3, <2>4, <2>5, <2>6 DEF InStepAt
<1> QED
  BY <1>1, <1>2, <1>3

(* What w has gathered is what all gave to its call.                       *)
LEMMA GatheredValues ==
  ASSUME NEW w \in Ranks
  PROVE  /\ Gathered(w) = ValuesOf(calls[w])
         /\ SomeoneEnds(w) <=> Ended(ValuesOf(calls[w]))
         /\ SomethingToShare(w) <=> Shared(ValuesOf(calls[w]))
BY DEF Gathered, ValuesOf, SomeoneEnds, SomethingToShare, Ended, Shared

(* A worker in call c enters the next one: what all gave to c stays.       *)
LEMMA EnterKeepsValues ==
  ASSUME RoundTypes, NEW w \in Ranks, NEW value, Enter(w, value)
  PROVE  /\ calls' = [calls EXCEPT ![w] = Succ(calls[w])]
         /\ given' = [r \in Ranks |-> given'[r]]
         /\ given'[w].last = value
         /\ \A r \in Ranks \ {w} : given'[r] = given[r]
         /\ calls' \in [Ranks -> 0..2]
         /\ \A c \in 0..2 : calls[w] = c => ValuesOf(c)' = ValuesOf(c)
<1>1. calls' = [calls EXCEPT ![w] = Succ(calls[w])]
  BY DEF Enter, Succ
<1>2. calls[w] \in 0..2 /\ Succ(calls[w]) \in 0..2 /\ Succ(calls[w]) # calls[w]
  BY CountFacts DEF RoundTypes
<1>3. /\ given'[w].before = given[w].last
      /\ given'[w].last = value
      /\ \A r \in Ranks \ {w} : given'[r] = given[r]
      /\ given' = [r \in Ranks |-> given'[r]]
  BY DEF Enter, RoundTypes
<1>4. \A r \in Ranks \ {w} : calls'[r] = calls[r]
  BY <1>1 DEF RoundTypes
<1>5. calls'[w] = Succ(calls[w])
  BY <1>1 DEF RoundTypes
<1>6. ASSUME NEW c \in 0..2, calls[w] = c PROVE ValuesOf(c)' = ValuesOf(c)
  BY <1>2, <1>3, <1>4, <1>5, <1>6 DEF ValuesOf
<1> QED
  BY <1>1, <1>2, <1>3, <1>6 DEF RoundTypes

-----------------------------------------------------------------------------
(* All sleep before the first call, and there are no clauses.              *)
LEMMA InitInStep == CollectiveInit => InStep
<1> SUFFICES ASSUME CollectiveInit PROVE InStep
  OBVIOUS
<1>1. <<>> \in Seq(Rows) /\ <<>> \o <<>> = <<>>
  BY ConcatEmptySeq, EmptySeq
<1>2. RoundTypes
  BY <1>1 DEF CollectiveInit, RoundTypes
<1>3. \A t, f \in Ranks : Delivered(t, f)
  BY <1>1 DEF CollectiveInit, Delivered
<1>4. \A w \in Ranks : AfterBlocks(w, 0) /\ BlocksData(w, 0)
  BY <1>3 DEF CollectiveInit, AfterBlocks, BlocksData
<1> QED
  BY <1>2, <1>4 DEF InStep, InStepAt

(* The steps that do not touch the calls and leave every clause where it   *)
(* is, or where a new one is in the buffer of its worker.                  *)
LEMMA OthersInStep ==
  ASSUME InStep, RoundTypes', UNCHANGED <<calls, given, stage, copy, allPos>>,
         \A t, f \in Ranks : /\ Delivered(t, f) => Delivered(t, f)'
                             /\ OnTheirWay(t, f) => OnTheirWay(t, f)'
  PROVE  InStep'
<1>1. PICK c \in 0..2 : InStepAt(c)
  BY DEF InStep
<1>2. ValuesOf(c)' = ValuesOf(c) /\ Starts' = Starts
  BY DEF ValuesOf, Starts
<1>3. CASE \A r \in Ranks : AfterEnds(r, c) /\ EndsData(r)
  <2>1. \A r \in Ranks : AfterEnds(r, c)'
    BY <1>2, <1>3 DEF AfterEnds
  <2>2. \A r \in Ranks : EndsData(r)'
    BY <1>3 DEF EndsData
  <2> QED
    BY <2>1, <2>2 DEF InStep, InStepAt
<1>4. CASE \A r \in Ranks : AfterSizes(r, c) /\ SizesData(r, c)
  <2>1. \A r \in Ranks : AfterSizes(r, c)'
    BY <1>2, <1>4 DEF AfterSizes
  <2>2. \A r \in Ranks : SizesData(r, c)'
    BY <1>2, <1>4 DEF SizesData
  <2> QED
    BY <2>1, <2>2 DEF InStep, InStepAt
<1>5. CASE \A r \in Ranks : AfterBlocks(r, c) /\ BlocksData(r, c)
  <2>1. \A r \in Ranks : AfterBlocks(r, c)'
    BY <1>5 DEF AfterBlocks
  <2>2. \A r \in Ranks : BlocksData(r, c)'
    BY <1>2, <1>5 DEF BlocksData
  <2> QED
    BY <2>1, <2>2 DEF InStep, InStepAt
<1> QED
  BY <1>1, <1>3, <1>4, <1>5 DEF InStepAt

(* A new clause is the last of those sent and of those to send.            *)
LEMMA SendClauseInStep ==
  ASSUME InStep, NEW w \in Ranks, SendClause(w)
  PROVE  InStep'
<1>1. PICK c : /\ c \in Rows
               /\ sent' = [sent EXCEPT ![w] = Append(@, c)]
               /\ toSend' = [toSend EXCEPT ![w] = Append(@, c)]
  <2>1. PICK s \in Sizes :
          LET c == [from |-> w, n |-> Len(sent[w]) + 1, size |-> s]
          IN  /\ sent' = [sent EXCEPT ![w] = Append(@, c)]
              /\ toSend' = [toSend EXCEPT ![w] = Append(@, c)]
    BY DEF SendClause
  <2>2. Len(sent[w]) + 1 \in Nat
    BY DEF InStep, RoundTypes
  <2>3. [from |-> w, n |-> Len(sent[w]) + 1, size |-> s] \in Rows
    BY <2>2 DEF Rows
  <2> QED
    BY <2>1, <2>3
<1>2. UNCHANGED <<copy, stage, calls, given, allPos, imported>> /\ RoundTypes
  BY DEF SendClause, InStep
<1>3. \A f \in Ranks : /\ sent[f] \in Seq(Rows) /\ toSend[f] \in Seq(Rows) /\ copy[f] \in Seq(Rows)
                       /\ Append(sent[f], c) \in Seq(Rows) /\ Append(toSend[f], c) \in Seq(Rows)
  BY <1>1, <1>2, RowsFacts DEF RoundTypes
<1>4. RoundTypes'
  <2>1. sent' \in [Ranks -> Seq(Rows)] /\ toSend' \in [Ranks -> Seq(Rows)]
    BY <1>1, <1>2, <1>3 DEF RoundTypes
  <2> QED
    BY <1>2, <2>1 DEF RoundTypes, Awaits
<1>5. ASSUME NEW t \in Ranks, NEW f \in Ranks
      PROVE  /\ Delivered(t, f) => Delivered(t, f)'
             /\ OnTheirWay(t, f) => OnTheirWay(t, f)'
  <2>1. CASE f # w
    <3>1. sent'[f] = sent[f] /\ toSend'[f] = toSend[f]
      BY <1>1, <1>2, <2>1 DEF RoundTypes
    <3> QED
      BY <1>2, <3>1 DEF Delivered, OnTheirWay, Awaits
  <2>2. CASE f = w /\ Awaits(t, f)
    <3>1. sent'[f] = Append(sent[f], c) /\ toSend'[f] = Append(toSend[f], c)
      BY <1>1, <1>2, <2>2 DEF RoundTypes
    <3>2. imported[t][f] \in Seq(Rows) /\ imported[t][f] \o copy[f] \in Seq(Rows)
      BY <1>2, <1>3, <2>2, RowsFacts DEF RoundTypes
    <3>3. /\ Append(imported[t][f] \o toSend[f], c) = imported[t][f] \o Append(toSend[f], c)
          /\ Append((imported[t][f] \o copy[f]) \o toSend[f], c)
               = (imported[t][f] \o copy[f]) \o Append(toSend[f], c)
      <4>1. \A a, b \in Seq(Rows) : Append(a \o b, c) = a \o Append(b, c)
        BY <1>1, RowsFacts
      <4> QED
        BY <1>3, <3>2, <4>1
    <3> QED
      BY <1>2, <2>2, <3>1, <3>3 DEF Delivered, OnTheirWay
  <2>3. CASE ~Awaits(t, f)
    BY <2>3 DEF Delivered, OnTheirWay, Awaits
  <2> QED
    BY <2>1, <2>2, <2>3
<1> QED
  BY <1>2, <1>4, <1>5, OthersInStep

(* A worker wakes up to share whether it ends: it was asleep after the     *)
(* sizes, none of which asks for an exchange, or after the blocks.         *)
LEMMA WakeUpInStep ==
  ASSUME InStep, NEW w \in Ranks, WakeUp(w)
  PROVE  InStep'
<1>1. PICK c \in 0..2 : InStepAt(c)
  BY DEF InStep
<1>2. calls[w] = c
  BY <1>1 DEF InStepAt, AfterEnds, AfterSizes, AfterBlocks, WakeUp
<1>3. /\ RoundTypes /\ Enter(w, solution[w])
      /\ stage[w] = "sleep" /\ stage' = [stage EXCEPT ![w] = "ends"]
      /\ UNCHANGED <<sent, toSend, copy, allPos, imported>>
  BY DEF InStep, WakeUp
<1>4. /\ ValuesOf(c)' = ValuesOf(c)
      /\ calls' = [calls EXCEPT ![w] = Succ(c)]
      /\ \A r \in Ranks \ {w} : given'[r] = given[r]
      /\ RoundTypes'
  BY <1>2, <1>3, EnterKeepsValues DEF RoundTypes, Awaits
<1>5. /\ \A t, f \in Ranks : /\ Delivered(t, f)' <=> Delivered(t, f)
                             /\ OnTheirWay(t, f)' <=> OnTheirWay(t, f)
      /\ Starts' = Starts
  BY <1>3 DEF Delivered, OnTheirWay, Awaits, Starts
<1>6. \A r \in Ranks : stage'[r] = IF r = w THEN "ends" ELSE stage[r]
  BY <1>3 DEF RoundTypes
<1>7. CASE \A r \in Ranks : AfterSizes(r, c) /\ SizesData(r, c)
  <2>1. ~Shared(ValuesOf(c))
    BY <1>2, <1>3, <1>7, CountFacts DEF AfterSizes
  <2>2. \A r \in Ranks : AfterSizes(r, c)'
    BY <1>2, <1>3, <1>4, <1>7, <2>1 DEF AfterSizes, RoundTypes
  <2>3. \A r \in Ranks : SizesData(r, c)'
    BY <1>3, <1>4, <1>5, <1>6, <1>7 DEF SizesData
  <2> QED
    BY <1>4, <2>2, <2>3 DEF InStep, InStepAt
<1>8. CASE \A r \in Ranks : AfterBlocks(r, c) /\ BlocksData(r, c)
  <2>1. \A r \in Ranks : AfterBlocks(r, c)'
    BY <1>2, <1>3, <1>4, <1>8 DEF AfterBlocks, RoundTypes
  <2>2. \A r \in Ranks : BlocksData(r, c)'
    BY <1>3, <1>4, <1>5, <1>6, <1>8 DEF BlocksData
  <2> QED
    BY <1>4, <2>1, <2>2 DEF InStep, InStepAt
<1> QED
  BY <1>1, <1>3, <1>7, <1>8, <1>2, CountFacts DEF InStepAt, AfterEnds

(* A worker leaves a call that all have entered, for the next one or to    *)
(* sleep or to end, as the gathered values say.                            *)
LEMMA PassFacts ==
  ASSUME InStep, NEW w \in Ranks, AllEntered(w)
  PROVE  /\ RoundTypes /\ calls[w] \in 0..2 /\ InStepAt(calls[w])
         /\ Succ(calls[w]) \in 0..2 /\ Succ(calls[w]) # calls[w]
         /\ Gathered(w) = ValuesOf(calls[w])
         /\ SomeoneEnds(w) <=> Ended(ValuesOf(calls[w]))
         /\ SomethingToShare(w) <=> Shared(ValuesOf(calls[w]))
BY Rebase, CountFacts, GatheredValues DEF InStep, RoundTypes

(* Where it went is all that changes when it enters nothing.               *)
LEMMA StageOnly ==
  ASSUME RoundTypes, NEW w \in Ranks, NEW c, NEW place,
         place \in {"sleep", "ends", "sizes", "blocks", "left"},
         stage' = [stage EXCEPT ![w] = place],
         UNCHANGED <<sent, toSend, copy, calls, given, allPos, imported>>
  PROVE  /\ RoundTypes'
         /\ ValuesOf(c)' = ValuesOf(c) /\ Starts' = Starts
         /\ \A r \in Ranks : stage'[r] = IF r = w THEN place ELSE stage[r]
         /\ \A t, f \in Ranks : /\ Delivered(t, f)' <=> Delivered(t, f)
                                /\ OnTheirWay(t, f)' <=> OnTheirWay(t, f)
<1>1. RoundTypes'
  BY DEF RoundTypes, Awaits
<1>2. ValuesOf(c)' = ValuesOf(c) /\ Starts' = Starts
  BY DEF ValuesOf, Starts
<1>3. \A r \in Ranks : stage'[r] = IF r = w THEN place ELSE stage[r]
  BY DEF RoundTypes
<1>4. \A t, f \in Ranks : /\ Delivered(t, f)' <=> Delivered(t, f)
                          /\ OnTheirWay(t, f)' <=> OnTheirWay(t, f)
  BY DEF Delivered, OnTheirWay, Awaits
<1> QED
  BY <1>1, <1>2, <1>3, <1>4

(* It ends for good.                                                       *)
LEMMA LeaveInStep ==
  ASSUME InStep, NEW w \in Ranks, Leave(w)
  PROVE  InStep'
<1>1. PICK c \in 0..2 : c = calls[w] /\ InStepAt(c) /\ RoundTypes /\ Succ(c) # c
  BY PassFacts DEF Leave
<1>2. /\ stage[w] = "ends" /\ Ended(ValuesOf(c))
      /\ stage' = [stage EXCEPT ![w] = "left"]
      /\ UNCHANGED <<sent, toSend, copy, calls, given, allPos, imported>>
  BY <1>1, PassFacts DEF Leave
<1>3. /\ RoundTypes'
      /\ ValuesOf(c)' = ValuesOf(c) /\ Starts' = Starts
      /\ \A r \in Ranks : stage'[r] = IF r = w THEN "left" ELSE stage[r]
      /\ \A t, f \in Ranks : /\ Delivered(t, f)' <=> Delivered(t, f)
                             /\ OnTheirWay(t, f)' <=> OnTheirWay(t, f)
  BY <1>1, <1>2, StageOnly
<1>4. \A r \in Ranks : AfterEnds(r, c) /\ EndsData(r)
  BY <1>1, <1>2 DEF InStepAt, AfterSizes, AfterBlocks
<1>5. \A r \in Ranks : AfterEnds(r, c)'
  BY <1>1, <1>2, <1>3, <1>4 DEF AfterEnds
<1>6. \A r \in Ranks : EndsData(r)'
  BY <1>2, <1>3, <1>4 DEF EndsData
<1> QED
  BY <1>3, <1>5, <1>6 DEF InStep, InStepAt

(* It goes on: all that was to send is on its way.                         *)
LEMMA CopyToSendInStep ==
  ASSUME InStep, NEW w \in Ranks, CopyToSend(w)
  PROVE  InStep'
<1>1. PICK c \in 0..2 : c = calls[w] /\ InStepAt(c) /\ RoundTypes /\ Succ(c) # c
  BY PassFacts DEF CopyToSend
<1>2. /\ stage[w] = "ends" /\ ~Ended(ValuesOf(c))
      /\ stage' = [stage EXCEPT ![w] = "sizes"]
      /\ copy' = [copy EXCEPT ![w] = toSend[w]]
      /\ toSend' = [toSend EXCEPT ![w] = <<>>]
      /\ Enter(w, Words(toSend[w]))
      /\ UNCHANGED <<sent, allPos, imported>>
  BY <1>1, PassFacts DEF CopyToSend, LeftAfterCopy
<1>3. /\ ValuesOf(c)' = ValuesOf(c) /\ calls' = [calls EXCEPT ![w] = Succ(c)]
      /\ given'[w].last = Words(toSend[w])
      /\ \A r \in Ranks \ {w} : given'[r] = given[r]
  BY <1>1, <1>2, EnterKeepsValues
<1>4. RoundTypes'
  <2>1. <<>> \in Seq(Rows)
    BY EmptySeq
  <2>2. copy' \in [Ranks -> Seq(Rows)] /\ toSend' \in [Ranks -> Seq(Rows)]
    BY <1>1, <1>2, <2>1 DEF RoundTypes
  <2>3. calls' \in [Ranks -> 0..2] /\ given' = [r \in Ranks |-> given'[r]]
    BY <1>1, <1>2, EnterKeepsValues
  <2> QED
    BY <1>1, <1>2, <2>2, <2>3 DEF RoundTypes, Awaits
<1>5. \A r \in Ranks : /\ stage'[r] = IF r = w THEN "sizes" ELSE stage[r]
                       /\ copy'[r] = IF r = w THEN toSend[w] ELSE copy[r]
                       /\ toSend'[r] = IF r = w THEN <<>> ELSE toSend[r]
  BY <1>1, <1>2 DEF RoundTypes
<1>6. \A r \in Ranks : AfterEnds(r, c) /\ EndsData(r)
  BY <1>1, <1>2 DEF InStepAt, AfterSizes, AfterBlocks
<1>7. \A r \in Ranks : AfterEnds(r, c)'
  BY <1>1, <1>2, <1>3, <1>5, <1>6 DEF AfterEnds, RoundTypes
<1>8. ASSUME NEW f \in Ranks PROVE EndsData(f)'
  <2>1. CASE f = w
    <3>1. stage'[f] = "sizes" /\ given'[f].last = Words(copy'[f])
      BY <1>3, <1>5, <2>1
    <3>2. ASSUME NEW t \in Ranks, Awaits(t, f)
          PROVE  sent'[f] = (imported'[t][f] \o copy'[f]) \o toSend'[f]
      <4>1. sent[f] = imported[t][f] \o toSend[f]
        BY <1>2, <1>6, <2>1, <3>2 DEF EndsData, Delivered
      <4>2. imported[t][f] \in Seq(Rows) /\ toSend[f] \in Seq(Rows)
        BY <1>1, <3>2 DEF RoundTypes
      <4>3. (imported[t][f] \o toSend[f]) \o <<>> = imported[t][f] \o toSend[f]
        BY <4>2, ConcatProperties, ConcatEmptySeq
      <4>4. copy'[f] = toSend[f] /\ toSend'[f] = <<>>
        BY <1>5, <2>1
      <4> QED
        BY <1>2, <4>1, <4>3, <4>4
    <3>3. \A t \in Ranks : OnTheirWay(t, f)'
      BY <3>2 DEF OnTheirWay, Awaits
    <3> QED
      BY <3>1, <3>3 DEF EndsData
  <2>2. CASE f # w
    <3>1. /\ stage'[f] = stage[f] /\ copy'[f] = copy[f]
          /\ toSend'[f] = toSend[f] /\ given'[f] = given[f]
      BY <1>3, <1>5, <2>2
    <3>2. \A t \in Ranks : /\ Delivered(t, f)' <=> Delivered(t, f)
                           /\ OnTheirWay(t, f)' <=> OnTheirWay(t, f)
      BY <1>2, <3>1 DEF Delivered, OnTheirWay, Awaits
    <3> QED
      BY <1>6, <3>1, <3>2 DEF EndsData
  <2> QED
    BY <2>1, <2>2
<1> QED
  BY <1>4, <1>7, <1>8 DEF InStep, InStepAt

(* No worker has a clause to share: it sleeps again.                       *)
LEMMA NothingToShareInStep ==
  ASSUME InStep, NEW w \in Ranks, NothingToShare(w)
  PROVE  InStep'
<1>1. PICK c \in 0..2 : c = calls[w] /\ InStepAt(c) /\ RoundTypes /\ Succ(c) # c
  BY PassFacts DEF NothingToShare
<1>2. /\ stage[w] = "sizes" /\ ~Shared(ValuesOf(c))
      /\ stage' = [stage EXCEPT ![w] = "sleep"]
      /\ UNCHANGED <<sent, toSend, copy, calls, given, allPos, imported>>
  BY <1>1, PassFacts DEF NothingToShare
<1>3. /\ RoundTypes'
      /\ ValuesOf(c)' = ValuesOf(c) /\ Starts' = Starts
      /\ \A r \in Ranks : stage'[r] = IF r = w THEN "sleep" ELSE stage[r]
      /\ \A t, f \in Ranks : /\ Delivered(t, f)' <=> Delivered(t, f)
                             /\ OnTheirWay(t, f)' <=> OnTheirWay(t, f)
  BY <1>1, <1>2, StageOnly
<1>4. \A r \in Ranks : AfterSizes(r, c) /\ SizesData(r, c)
  BY <1>1, <1>2 DEF InStepAt, AfterEnds, AfterBlocks
<1>5. \A r \in Ranks : AfterSizes(r, c)'
  BY <1>1, <1>2, <1>3, <1>4 DEF AfterSizes
<1>6. \A r \in Ranks : SizesData(r, c)'
  BY <1>2, <1>3, <1>4 DEF SizesData
<1> QED
  BY <1>3, <1>5, <1>6 DEF InStep, InStepAt

(* It shares its copy, and knows where the blocks of all will be.          *)
LEMMA ShareInStep ==
  ASSUME InStep, NEW w \in Ranks, Share(w)
  PROVE  InStep'
<1>1. PICK c \in 0..2 : c = calls[w] /\ InStepAt(c) /\ RoundTypes /\ Succ(c) # c
  BY PassFacts DEF Share
<1>2. /\ stage[w] = "sizes" /\ Shared(ValuesOf(c))
      /\ stage' = [stage EXCEPT ![w] = "blocks"]
      /\ allPos' = [allPos EXCEPT ![w] = StartsOf(ValuesOf(c))]
      /\ Enter(w, copy[w])
      /\ UNCHANGED <<sent, toSend, copy, imported>>
  BY <1>1, PassFacts DEF Share
<1>3. /\ ValuesOf(c)' = ValuesOf(c) /\ calls' = [calls EXCEPT ![w] = Succ(c)]
      /\ given'[w].last = copy[w]
      /\ \A r \in Ranks \ {w} : given'[r] = given[r]
  BY <1>1, <1>2, EnterKeepsValues
<1>4. RoundTypes'
  <2>1. calls' \in [Ranks -> 0..2] /\ given' = [r \in Ranks |-> given'[r]]
    BY <1>1, <1>2, EnterKeepsValues
  <2> QED
    BY <1>1, <1>2, <2>1 DEF RoundTypes, Awaits
<1>5. \A r \in Ranks : /\ stage'[r] = IF r = w THEN "blocks" ELSE stage[r]
                       /\ allPos'[r] = IF r = w THEN StartsOf(ValuesOf(c)) ELSE allPos[r]
  BY <1>1, <1>2 DEF RoundTypes
<1>6. /\ \A t, f \in Ranks : OnTheirWay(t, f)' <=> OnTheirWay(t, f)
      /\ Starts' = Starts
  BY <1>2 DEF OnTheirWay, Awaits, Starts
<1>7. \A r \in Ranks : AfterSizes(r, c) /\ SizesData(r, c)
  BY <1>1, <1>2 DEF InStepAt, AfterEnds, AfterBlocks
<1>8. \A r \in Ranks : AfterSizes(r, c)'
  BY <1>1, <1>2, <1>3, <1>5, <1>7 DEF AfterSizes, RoundTypes
<1>9. StartsOf(ValuesOf(c)) = Starts
  <2>1. ValuesOf(c) = [r \in Ranks |-> Words(copy[r])]
    <3>1. ValuesOf(c) = [r \in Ranks |-> ValuesOf(c)[r]]
      BY DEF ValuesOf
    <3>2. \A r \in Ranks : ValuesOf(c)[r] = Words(copy[r])
      BY <1>7 DEF SizesData
    <3> QED
      BY <3>1, <3>2
  <2> QED
    BY <2>1 DEF Starts
<1>10. \A r \in Ranks : SizesData(r, c)'
  BY <1>2, <1>3, <1>5, <1>6, <1>7, <1>9 DEF SizesData
<1> QED
  BY <1>4, <1>8, <1>10 DEF InStep, InStepAt

(* It imports what the others shared.                                      *)
LEMMA ReceiveBlocksInStep ==
  ASSUME InStep, NEW w \in Ranks, ReceiveBlocks(w)
  PROVE  InStep'
<1>1. PICK c \in 0..2 : c = calls[w] /\ InStepAt(c) /\ RoundTypes /\ Succ(c) # c
  BY PassFacts DEF ReceiveBlocks
<1>2. PICK past \in PastEnds :
        imported' = [imported EXCEPT ![w] = [r \in Ranks |->
          IF r = w THEN imported[w][r]
          ELSE imported[w][r] \o ReadBlock(ValuesOf(c)[r], allPos[w][r], EndOf(w, r, past))]]
  BY <1>1, PassFacts DEF ReceiveBlocks
<1>3. /\ stage[w] = "blocks" /\ stage' = [stage EXCEPT ![w] = "sleep"]
      /\ allPos' = [allPos EXCEPT ![w] = NoPositions]
      /\ UNCHANGED <<sent, toSend, copy, calls, given>>
  BY DEF ReceiveBlocks
<1>4. \A r \in Ranks : AfterBlocks(r, c) /\ BlocksData(r, c)
  BY <1>1, <1>3 DEF InStepAt, AfterEnds, AfterSizes
<1>5. /\ \A r \in Ranks : /\ stage'[r] = IF r = w THEN "sleep" ELSE stage[r]
                          /\ r # w => allPos'[r] = allPos[r]
                          /\ r # w => imported'[r] = imported[r]
      /\ allPos' = [r \in Ranks |-> allPos'[r]]
      /\ imported' = [r \in Ranks |-> imported'[r]]
  BY <1>1, <1>2, <1>3 DEF RoundTypes
<1>6. ASSUME NEW f \in Ranks, Awaits(w, f)
      PROVE  imported'[w][f] = imported[w][f] \o copy[f]
  <2>1. imported'[w][f] = imported[w][f] \o ReadBlock(ValuesOf(c)[f], allPos[w][f], EndOf(w, f, past))
    BY <1>1, <1>2, <1>6 DEF RoundTypes, Awaits
  <2>2. ValuesOf(c)[f] = copy[f] /\ allPos[w] = Starts
    BY <1>3, <1>4 DEF BlocksData
  <2>3. f < LastRank /\ f # LastRank
    BY <1>6, RanksAssumption DEF Awaits, Ranks
  <2>4. EndOf(w, f, past) = Starts[f + 1]
    BY <2>2, <2>3 DEF EndOf
  <2>5. PICK sizes : sizes = [r \in Ranks |-> Words(copy[r])]
    OBVIOUS
  <2>6. sizes \in [Ranks -> Nat]
    BY <1>1, <2>5, WordsFacts DEF RoundTypes
  <2>7. Starts[f] \in Nat /\ Starts[f + 1] = Starts[f] + Words(copy[f])
    BY <2>3, <2>5, <2>6, StartsFacts DEF Starts
  <2>8. copy[f] \in Seq(Rows)
    BY <1>1 DEF RoundTypes
  <2>9. ReadBlock(copy[f], Starts[f], Starts[f + 1]) = copy[f]
    BY <2>7, <2>8, ReadWhole
  <2> QED
    BY <2>1, <2>2, <2>4, <2>9
<1>7. RoundTypes'
  <2>1. ASSUME NEW t \in Ranks, NEW f \in Ranks, Awaits(t, f)
        PROVE  imported'[t][f] \in Seq(Rows)
    <3>1. imported[t][f] \in Seq(Rows) /\ copy[f] \in Seq(Rows)
      BY <1>1, <2>1 DEF RoundTypes
    <3>2. imported[t][f] \o copy[f] \in Seq(Rows)
      BY <3>1, ConcatProperties
    <3> QED
      BY <1>5, <1>6, <2>1, <3>1, <3>2
  <2> QED
    BY <1>1, <1>3, <1>5, <2>1 DEF RoundTypes, Awaits
<1>8. \A r \in Ranks : AfterBlocks(r, c)'
  BY <1>1, <1>3, <1>4, <1>5 DEF AfterBlocks
<1>9. ASSUME NEW t \in Ranks PROVE BlocksData(t, c)'
  <2>1. CASE t = w
    <3>1. ASSUME NEW f \in Ranks, Awaits(w, f)
          PROVE  sent'[f] = imported'[w][f] \o toSend'[f]
      BY <1>3, <1>4, <1>6, <3>1 DEF BlocksData, OnTheirWay
    <3>2. \A f \in Ranks : Delivered(t, f)'
      BY <2>1, <3>1 DEF Delivered, Awaits
    <3> QED
      BY <1>5, <2>1, <3>2 DEF BlocksData
  <2>2. CASE t # w
    <3>1. /\ stage'[t] = stage[t] /\ allPos'[t] = allPos[t]
          /\ imported'[t] = imported[t]
      BY <1>5, <2>2
    <3>2. \A f \in Ranks : /\ Delivered(t, f)' <=> Delivered(t, f)
                           /\ OnTheirWay(t, f)' <=> OnTheirWay(t, f)
      BY <1>3, <3>1 DEF Delivered, OnTheirWay, Awaits
    <3>3. ValuesOf(c)' = ValuesOf(c) /\ Starts' = Starts
      BY <1>3 DEF ValuesOf, Starts
    <3> QED
      BY <1>3, <1>4, <3>1, <3>2, <3>3 DEF BlocksData
  <2> QED
    BY <2>1, <2>2
<1> QED
  BY <1>7, <1>8, <1>9 DEF InStep, InStepAt

LEMMA NextInStep == InStep /\ [CollectiveNext]_collectiveVars => InStep'
<1> SUFFICES ASSUME InStep, [CollectiveNext]_collectiveVars PROVE InStep'
  OBVIOUS
<1>1. ASSUME UNCHANGED <<sent, toSend, copy, stage, calls, given, allPos, imported>>
      PROVE  InStep'
  <2>1. RoundTypes'
    BY <1>1 DEF InStep, RoundTypes, Awaits
  <2>2. \A t, f \in Ranks : /\ Delivered(t, f) => Delivered(t, f)'
                            /\ OnTheirWay(t, f) => OnTheirWay(t, f)'
    BY <1>1 DEF Delivered, OnTheirWay, Awaits
  <2> QED
    BY <1>1, <2>1, <2>2, OthersInStep
<1>2. ASSUME NEW w \in Ranks, SendClause(w) \/ SolutionFound(w) PROVE InStep'
  BY <1>1, <1>2, SendClauseInStep DEF SolutionFound
<1>3. ASSUME NEW w \in Ranks, Collectif(w) PROVE InStep'
  BY <1>3, WakeUpInStep, LeaveInStep, CopyToSendInStep, NothingToShareInStep,
     ShareInStep, ReceiveBlocksInStep DEF Collectif
<1>4. CASE UNCHANGED collectiveVars
  BY <1>1, <1>4 DEF collectiveVars
<1> QED
  BY <1>2, <1>3, <1>4 DEF CollectiveNext

(* Workers in the same call make the same one: MPI, which matches the      *)
(* calls by their order alone, never mixes a size with a block of clauses. *)
THEOREM CallsMatchHolds == CollectiveSpec => []CallsMatch
BY InitInStep, NextInStep, InStepCallsMatch, PTL DEF CollectiveSpec

(* Each clause a thread gives to sendClause is imported once by each other *)
(* worker, in this order, whatever rounds it is sent in and whoever sends  *)
(* others meanwhile; those of the last worker are left out, see            *)
(* ClausesOfAllArrive.                                                     *)
THEOREM ClausesArriveOnceHolds == CollectiveSpec => []ClausesArriveOnce
BY InitInStep, NextInStep, InStepArrivesOnce, PTL DEF CollectiveSpec

-----------------------------------------------------------------------------
(* VarOrder.                                                               *)

(* A function defined by recursion on an interval exists.                  *)
IsRecursive(f, n, x0, step) ==
  f = [i \in 0..n |-> IF i = 0 THEN x0 ELSE step[<<i, f[i - 1]>>]]

LEMMA Recursion ==
  ASSUME NEW n \in Nat, NEW X, NEW x0 \in X, NEW step \in [(1..n) \X X -> X]
  PROVE  \E f \in [0..n -> X] : IsRecursive(f, n, x0, step)
<1> DEFINE S == {m \in Nat : m <= n => \E f \in [0..m -> X] :
                   f = [i \in 0..m |-> IF i = 0 THEN x0 ELSE step[<<i, f[i - 1]>>]]}
<1>1. 0 \in S
  <2> DEFINE g == [i \in 0..0 |-> x0]
  <2>1. /\ g \in [0..0 -> X]
        /\ g = [i \in 0..0 |-> IF i = 0 THEN x0 ELSE step[<<i, g[i - 1]>>]]
    OBVIOUS
  <2> QED
    BY <2>1
<1>2. ASSUME NEW m \in Nat, m \in S PROVE m + 1 \in S
  <2> SUFFICES ASSUME m + 1 <= n
               PROVE  \E f \in [0..(m + 1) -> X] :
                        f = [i \in 0..(m + 1) |->
                               IF i = 0 THEN x0 ELSE step[<<i, f[i - 1]>>]]
    OBVIOUS
  <2>1. PICK f \in [0..m -> X] :
          f = [i \in 0..m |-> IF i = 0 THEN x0 ELSE step[<<i, f[i - 1]>>]]
    BY <1>2
  <2>2. PICK x \in X : x = step[<<m + 1, f[m]>>]
    <3>1. m + 1 \in 1..n /\ m \in 0..m
      OBVIOUS
    <3>2. <<m + 1, f[m]>> \in (1..n) \X X
      BY <2>1, <3>1
    <3> QED
      BY <3>2
  <2>3. PICK g : g = [i \in 0..(m + 1) |-> IF i = m + 1 THEN x ELSE f[i]]
    OBVIOUS
  <2>4. g \in [0..(m + 1) -> X]
    <3>1. \A i \in 0..(m + 1) : i = m + 1 \/ i \in 0..m
      OBVIOUS
    <3> QED
      BY <2>1, <2>2, <2>3, <3>1
  <2>5. ASSUME NEW i \in 0..(m + 1)
        PROVE  g[i] = IF i = 0 THEN x0 ELSE step[<<i, g[i - 1]>>]
    <3>1. CASE i = 0
      <4>1. g[0] = f[0] /\ f[0] = x0
        BY <2>1, <2>3
      <4> QED
        BY <3>1, <4>1
    <3>2. CASE i # 0 /\ i # m + 1
      <4>1. i \in 0..m /\ i - 1 \in 0..m
        BY <3>2
      <4>2. g[i] = f[i] /\ g[i - 1] = f[i - 1]
        BY <2>3, <3>2, <4>1
      <4>3. f[i] = step[<<i, f[i - 1]>>]
        BY <2>1, <3>2, <4>1
      <4> QED
        BY <3>2, <4>2, <4>3
    <3>3. CASE i = m + 1
      <4>1. g[i] = x /\ g[i - 1] = f[m] /\ i # 0
        BY <2>3, <3>3
      <4> QED
        BY <2>2, <3>3, <4>1
    <3> QED
      BY <3>1, <3>2, <3>3
  <2>6. g = [i \in 0..(m + 1) |-> IF i = 0 THEN x0 ELSE step[<<i, g[i - 1]>>]]
    <3>1. g = [i \in 0..(m + 1) |-> g[i]]
      BY <2>3
    <3> QED
      BY <2>5, <3>1
  <2> QED
    BY <2>4, <2>6
<1> HIDE DEF S
<1>3. n \in S
  BY <1>1, <1>2, SetInduction
<1> QED
  BY <1>3 DEF S, IsRecursive

(* A property of the first value that each value has when the one before   *)
(* has it is one of the last.                                              *)
LEMMA ValuesOfRecursion ==
  ASSUME NEW n \in Nat, NEW X, NEW F, F[0] \in X,
         \A i \in 1..n : F[i - 1] \in X => F[i] \in X
  PROVE  F[n] \in X
<1> DEFINE S == {m \in Nat : m <= n => F[m] \in X}
<1>1. 0 \in S
  OBVIOUS
<1>2. ASSUME NEW m \in Nat, m \in S PROVE m + 1 \in S
  <2>1. m + 1 <= n => m + 1 \in 1..n /\ (m + 1) - 1 = m
    OBVIOUS
  <2> QED
    BY <1>2, <2>1
<1> HIDE DEF S
<1>3. n \in S
  BY <1>1, <1>2, SetInduction
<1> QED
  BY <1>3 DEF S

-----------------------------------------------------------------------------
(* VarOrder: a heap, ordered or not: the indices are those of the heap.    *)
Sound(h) ==
  /\ h \in [heap : Seq(Vars), indices : [Vars -> Nat]]
  /\ \A v \in Vars : h.indices[v] <= Len(h.heap)
  /\ \A v \in Vars, i \in 1..Len(h.heap) : h.indices[v] = i <=> h.heap[i] = v

(* From place s on, no variable is more active than the one above it.      *)
OrderedFrom(h, act, s) ==
  \A j \in 2..Len(h.heap) : j \div 2 >= s => act[h.heap[j]] <= act[h.heap[j \div 2]]
IsHeap(h, act) == Sound(h) /\ OrderedFrom(h, act, 1)

(* Another heap of the same variables.                                     *)
SameVars(h, g) ==
  Len(g.heap) = Len(h.heap) /\ \A v \in Vars : InHeap(g, v) <=> InHeap(h, v)

(* All is ordered but n, which may be more active than the one above it;   *)
(* those below it are not more active than that one.                       *)
ButUp(h, act, n) ==
  \A j \in 2..Len(h.heap) :
    /\ j # h.indices[n] => act[h.heap[j]] <= act[h.heap[j \div 2]]
    /\ j \div 2 = h.indices[n] /\ h.indices[n] > 1
         => act[h.heap[j]] <= act[h.heap[h.indices[n] \div 2]]

(* From place s on, all is ordered but n, which may be less active than    *)
(* those below it.                                                         *)
ButDown(h, act, n, s) ==
  /\ h.indices[n] >= s
  /\ \A j \in 2..Len(h.heap) :
       /\ j \div 2 >= s /\ j \div 2 # h.indices[n]
            => act[h.heap[j]] <= act[h.heap[j \div 2]]
       /\ j \div 2 = h.indices[n] /\ h.indices[n] \div 2 >= s
            => act[h.heap[j]] <= act[h.heap[h.indices[n] \div 2]]

-----------------------------------------------------------------------------
(* The place above, and the two below.                                     *)
LEMMA HalfFacts ==
  ASSUME NEW i \in Nat
  PROVE  /\ i \div 2 \in Nat
         /\ i > 1 => i \div 2 >= 1 /\ i \div 2 < i
         /\ \A j \in Nat : j \div 2 = i <=> j = 2 * i \/ j = 2 * i + 1
OBVIOUS

(* The variable at a place.                                                *)
LEMMA PlaceFacts ==
  ASSUME NEW h, Sound(h)
  PROVE  /\ Len(h.heap) \in Nat /\ h.heap \in Seq(Vars) /\ h.indices \in [Vars -> Nat]
         /\ \A i \in 1..Len(h.heap) : /\ h.heap[i] \in Vars
                                      /\ h.indices[h.heap[i]] = i
                                      /\ InHeap(h, h.heap[i])
         /\ \A v \in Vars : InHeap(h, v) => /\ h.indices[v] \in 1..Len(h.heap)
                                            /\ h.heap[h.indices[v]] = v
<1>1. Len(h.heap) \in Nat /\ h.heap \in Seq(Vars) /\ h.indices \in [Vars -> Nat]
  BY DEF Sound
<1>2. ASSUME NEW i \in 1..Len(h.heap)
      PROVE  h.heap[i] \in Vars /\ h.indices[h.heap[i]] = i /\ InHeap(h, h.heap[i])
  <2>1. h.heap[i] \in Vars
    BY <1>1
  <2>2. h.indices[h.heap[i]] = i
    BY <2>1 DEF Sound
  <2> QED
    BY <1>1, <2>1, <2>2 DEF InHeap
<1>3. ASSUME NEW v \in Vars, InHeap(h, v)
      PROVE  h.indices[v] \in 1..Len(h.heap) /\ h.heap[h.indices[v]] = v
  <2>1. h.indices[v] \in 1..Len(h.heap)
    BY <1>1, <1>3 DEF Sound, InHeap
  <2> QED
    BY <2>1 DEF Sound
<1> QED
  BY <1>1, <1>2, <1>3

LEMMA SwapFacts ==
  ASSUME NEW h, Sound(h), NEW i \in 1..Len(h.heap), NEW j \in 1..Len(h.heap), i # j,
         NEW g, g = Swap(h, i, j)
  PROVE  /\ Sound(g) /\ SameVars(h, g)
         /\ g.heap[i] = h.heap[j] /\ g.heap[j] = h.heap[i]
         /\ \A k \in 1..Len(h.heap) : k # i /\ k # j => g.heap[k] = h.heap[k]
         /\ g.indices[h.heap[i]] = j
<1>1. PICK x \in Vars, y \in Vars : /\ x = h.heap[i] /\ y = h.heap[j] /\ x # y
                                    /\ h.indices[x] = i /\ h.indices[y] = j
  BY PlaceFacts
<1>2. /\ Len(h.heap) \in Nat /\ h.heap \in Seq(Vars) /\ h.indices \in [Vars -> Nat]
      /\ i \in Nat /\ j \in Nat
  BY PlaceFacts
<1>3. /\ g.heap = [h.heap EXCEPT ![i] = y, ![j] = x]
      /\ g.indices = [h.indices EXCEPT ![x] = j, ![y] = i]
      /\ g = [heap |-> g.heap, indices |-> g.indices]
  BY <1>1 DEF Swap
<1>4. g.heap \in Seq(Vars) /\ Len(g.heap) = Len(h.heap)
  BY <1>1, <1>2, <1>3
<1>5. /\ g.heap[i] = y /\ g.heap[j] = x
      /\ \A k \in 1..Len(h.heap) : k # i /\ k # j => g.heap[k] = h.heap[k]
  BY <1>2, <1>3
<1>6. /\ g.indices \in [Vars -> Nat]
      /\ g.indices[x] = j /\ g.indices[y] = i
      /\ \A v \in Vars : v # x /\ v # y => g.indices[v] = h.indices[v]
  BY <1>1, <1>2, <1>3
<1>7. ASSUME NEW v \in Vars
      PROVE  /\ g.indices[v] <= Len(g.heap)
             /\ InHeap(g, v) <=> InHeap(h, v)
             /\ \A k \in 1..Len(g.heap) : g.indices[v] = k <=> g.heap[k] = v
  <2>1. i # 0 /\ j # 0 /\ i <= Len(h.heap) /\ j <= Len(h.heap)
    OBVIOUS
  <2>2. ASSUME NEW k \in 1..Len(h.heap)
        PROVE  h.heap[k] \in Vars /\ h.indices[h.heap[k]] = k
    BY PlaceFacts
  <2>3. CASE v = x
    <3>1. g.indices[v] = j /\ h.indices[v] = i
      BY <1>1, <1>6, <2>3
    <3>2. ASSUME NEW k \in 1..Len(h.heap) PROVE j = k <=> g.heap[k] = x
      <4>1. CASE k = j
        BY <1>5, <4>1
      <4>2. CASE k = i
        BY <1>1, <1>5, <4>2
      <4>3. CASE k # i /\ k # j
        BY <1>1, <1>5, <2>2, <4>3
      <4> QED
        BY <4>1, <4>2, <4>3
    <3> QED
      BY <1>4, <2>1, <2>3, <3>1, <3>2 DEF InHeap
  <2>4. CASE v = y
    <3>1. g.indices[v] = i /\ h.indices[v] = j
      BY <1>1, <1>6, <2>4
    <3>2. ASSUME NEW k \in 1..Len(h.heap) PROVE i = k <=> g.heap[k] = y
      <4>1. CASE k = j
        BY <1>1, <1>5, <4>1
      <4>2. CASE k = i
        BY <1>5, <4>2
      <4>3. CASE k # i /\ k # j
        BY <1>1, <1>5, <2>2, <4>3
      <4> QED
        BY <4>1, <4>2, <4>3
    <3> QED
      BY <1>4, <2>1, <2>4, <3>1, <3>2 DEF InHeap
  <2>5. CASE v # x /\ v # y
    <3>1. g.indices[v] = h.indices[v]
      BY <1>6, <2>5
    <3>2. \A k \in 1..Len(h.heap) : h.indices[v] = k <=> h.heap[k] = v
      BY DEF Sound
    <3>3. h.indices[v] # i /\ h.indices[v] # j
      BY <1>1, <2>5, <3>2
    <3>4. ASSUME NEW k \in 1..Len(h.heap) PROVE g.indices[v] = k <=> g.heap[k] = v
      <4>1. CASE k = j
        BY <1>5, <2>5, <3>1, <3>3, <4>1
      <4>2. CASE k = i
        BY <1>5, <2>5, <3>1, <3>3, <4>2
      <4>3. CASE k # i /\ k # j
        BY <1>5, <3>1, <3>2, <4>3
      <4> QED
        BY <4>1, <4>2, <4>3
    <3>5. h.indices[v] <= Len(h.heap)
      BY DEF Sound
    <3> QED
      BY <1>4, <3>1, <3>4, <3>5 DEF InHeap
  <2> QED
    BY <2>3, <2>4, <2>5
<1>8. Sound(g)
  BY <1>3, <1>4, <1>6, <1>7 DEF Sound
<1> QED
  BY <1>1, <1>4, <1>5, <1>6, <1>7, <1>8 DEF SameVars

(* How active the variables of a heap are, by place.                       *)
LEMMA ActivityAt ==
  ASSUME NEW h, Sound(h), NEW act \in [Vars -> Nat]
  PROVE  \E A \in [1..Len(h.heap) -> Nat] : \A k \in 1..Len(h.heap) : A[k] = act[h.heap[k]]
<1> DEFINE A == [k \in 1..Len(h.heap) |-> act[h.heap[k]]]
<1>1. \A k \in 1..Len(h.heap) : h.heap[k] \in Vars
  BY PlaceFacts
<1>2. A \in [1..Len(h.heap) -> Nat]
  BY <1>1
<1> QED
  BY <1>2

Exchanges(h, g, act, i, j) ==
  \E A \in [1..Len(h.heap) -> Nat], B \in [1..Len(h.heap) -> Nat] :
    /\ \A k \in 1..Len(h.heap) : A[k] = act[h.heap[k]] /\ B[k] = act[g.heap[k]]
    /\ B[i] = A[j] /\ B[j] = A[i]
    /\ \A k \in 1..Len(h.heap) : k # i /\ k # j => B[k] = A[k]

LEMMA SwapActivity ==
  ASSUME NEW h, Sound(h), NEW act \in [Vars -> Nat],
         NEW i \in 1..Len(h.heap), NEW j \in 1..Len(h.heap), i # j,
         NEW g, g = Swap(h, i, j)
  PROVE  Exchanges(h, g, act, i, j)
<1>1. /\ Sound(g) /\ Len(g.heap) = Len(h.heap)
      /\ g.heap[i] = h.heap[j] /\ g.heap[j] = h.heap[i]
      /\ \A k \in 1..Len(h.heap) : k # i /\ k # j => g.heap[k] = h.heap[k]
  BY SwapFacts DEF SameVars
<1>2. PICK A \in [1..Len(h.heap) -> Nat] : \A k \in 1..Len(h.heap) : A[k] = act[h.heap[k]]
  BY ActivityAt
<1>3. PICK B \in [1..Len(h.heap) -> Nat] : \A k \in 1..Len(h.heap) : B[k] = act[g.heap[k]]
  <2>1. \E B \in [1..Len(g.heap) -> Nat] : \A k \in 1..Len(g.heap) : B[k] = act[g.heap[k]]
    BY <1>1, ActivityAt, Zenon
  <2>2. Len(g.heap) = Len(h.heap)
    BY <1>1
  <2> QED
    BY <2>1, <2>2
<1>4. B[i] = A[j] /\ B[j] = A[i]
  <2>1. B[i] = act[g.heap[i]] /\ B[j] = act[g.heap[j]]
    BY <1>3, Zenon
  <2>2. A[i] = act[h.heap[i]] /\ A[j] = act[h.heap[j]]
    BY <1>2, Zenon
  <2> QED
    BY <1>1, <2>1, <2>2, Zenon
<1>5. \A k \in 1..Len(h.heap) : k # i /\ k # j => B[k] = A[k]
  BY <1>1, <1>2, <1>3
<1> QED
  BY <1>2, <1>3, <1>4, <1>5 DEF Exchanges

(* One step up: all is ordered, or n is at a place nearer to the root, and *)
(* again all but n is ordered.                                             *)
LEMMA UpFacts ==
  ASSUME NEW h, Sound(h), NEW act \in [Vars -> Nat], NEW n \in Vars, InHeap(h, n),
         ButUp(h, act, n), NEW g, g = Up(h, act, n)
  PROVE  /\ Sound(g) /\ SameVars(h, g) /\ ButUp(g, act, n)
         /\ \/ g = h /\ OrderedFrom(h, act, 1)
            \/ g.indices[n] < h.indices[n]
         /\ OrderedFrom(h, act, 1) => g = h
<1>1. PICK p \in 1..Len(h.heap) : p = h.indices[n] /\ h.heap[p] = n
  BY PlaceFacts
<1>2. Len(h.heap) \in Nat /\ p \in Nat
  BY PlaceFacts
<1>3. CASE ~(p > 1 /\ act[n] > act[h.heap[p \div 2]])
  <2>1. g = h
    BY <1>1, <1>3 DEF Up
  <2>2. ASSUME NEW j \in 2..Len(h.heap), j \div 2 >= 1
        PROVE  act[h.heap[j]] <= act[h.heap[j \div 2]]
    <3>1. CASE j # p
      BY <1>1, <3>1 DEF ButUp
    <3>2. CASE j = p
      <4>1. p \div 2 \in 1..Len(h.heap)
        BY <1>2, <3>2, HalfFacts
      <4>2. PICK q \in Vars : q = h.heap[p \div 2]
        BY <4>1, PlaceFacts
      <4>3. act[n] \in Nat /\ act[q] \in Nat /\ ~(act[n] > act[q])
        BY <1>2, <1>3, <3>2, <4>2
      <4>4. act[n] <= act[q]
        BY <4>3
      <4> QED
        BY <1>1, <3>2, <4>2, <4>4
    <3> QED
      BY <3>1, <3>2
  <2>3. OrderedFrom(h, act, 1)
    BY <2>2 DEF OrderedFrom
  <2> QED
    BY <2>1, <2>3 DEF SameVars
<1>4. CASE p > 1 /\ act[n] > act[h.heap[p \div 2]]
  <2>1. PICK q \in 1..Len(h.heap) : q = p \div 2 /\ q < p
    BY <1>2, <1>4, HalfFacts
  <2>2. g = Swap(h, p, q)
    BY <1>1, <1>4, <2>1 DEF Up
  <2>3. /\ Sound(g) /\ SameVars(h, g) /\ Len(g.heap) = Len(h.heap)
        /\ g.indices[n] = q
    BY <1>1, <2>1, <2>2, SwapFacts DEF SameVars
  <2>4. PICK A \in [1..Len(h.heap) -> Nat], B \in [1..Len(h.heap) -> Nat] :
           /\ \A k \in 1..Len(h.heap) : A[k] = act[h.heap[k]] /\ B[k] = act[g.heap[k]]
           /\ B[p] = A[q] /\ B[q] = A[p]
           /\ \A k \in 1..Len(h.heap) : k # p /\ k # q => B[k] = A[k]
    <3>1. p # q /\ p \in 1..Len(h.heap) /\ q \in 1..Len(h.heap)
      BY <1>2, <2>1
    <3>2. Exchanges(h, g, act, p, q)
      BY <2>2, <3>1, SwapActivity, Zenon
    <3> QED
      BY <3>2, Zenon DEF Exchanges
  <2>5. A[p] > A[q]
    BY <1>1, <1>4, <2>1, <2>4
  <2>6. ASSUME NEW j \in 2..Len(h.heap)
        PROVE  /\ j \in 1..Len(h.heap) /\ j \div 2 \in 1..Len(h.heap) /\ j \div 2 < j
               /\ j # p => A[j] <= A[j \div 2]
               /\ j \div 2 = p => A[j] <= A[q]
    <3>1. j \in 1..Len(h.heap) /\ j \div 2 \in 1..Len(h.heap) /\ j \div 2 < j
      BY <1>2, HalfFacts
    <3>2. ASSUME j # p PROVE A[j] <= A[j \div 2]
      <4>1. act[h.heap[j]] <= act[h.heap[j \div 2]]
        BY <1>1, <3>2 DEF ButUp
      <4> QED
        BY <2>4, <3>1, <4>1
    <3>3. ASSUME j \div 2 = p PROVE A[j] <= A[q]
      <4>1. act[h.heap[j]] <= act[h.heap[q]]
        BY <1>1, <1>4, <2>1, <3>3 DEF ButUp
      <4> QED
        BY <2>4, <3>1, <4>1
    <3> QED
      BY <3>1, <3>2, <3>3
  <2>7. ASSUME NEW j \in 2..Len(h.heap)
        PROVE  /\ j # q => B[j] <= B[j \div 2]
               /\ j \div 2 = q /\ q > 1 => B[j] <= B[q \div 2]
    <3>1. PICK i \in 1..Len(h.heap) : i = j \div 2 /\ i < j
      BY <2>6
    <3>2. ASSUME j # q PROVE B[j] <= B[i]
      <4>1. CASE j = p
        BY <2>1, <2>4, <2>5, <3>1, <4>1
      <4>2. CASE j # p /\ i = p
        <5>1. A[j] <= A[q] /\ B[j] = A[j] /\ B[p] = A[q]
          BY <2>4, <2>6, <3>1, <3>2, <4>2
        <5> QED
          BY <4>2, <5>1
      <4>3. CASE j # p /\ i = q
        <5>1. A[j] <= A[q] /\ B[j] = A[j] /\ B[q] = A[p]
          BY <2>4, <2>6, <3>1, <3>2, <4>3
        <5>2. A[j] \in Nat /\ A[q] \in Nat /\ A[p] \in Nat
          BY <2>6
        <5> QED
          BY <2>5, <4>3, <5>1, <5>2
      <4>4. CASE j # p /\ i # p /\ i # q
        BY <2>4, <2>6, <3>1, <3>2, <4>4
      <4> QED
        BY <4>1, <4>2, <4>3, <4>4
    <3>3. ASSUME i = q, q > 1 PROVE B[j] <= B[q \div 2]
      <4>1. PICK r \in 1..Len(h.heap) : r = q \div 2 /\ r < q
        BY <2>1, <3>3, HalfFacts
      <4>2. A[q] <= A[r]
        <5>1. q \in 2..Len(h.heap) /\ q # p
          BY <2>1, <3>3
        <5> QED
          BY <2>6, <4>1, <5>1, Zenon
      <4>3. B[r] = A[r]
        BY <2>1, <2>4, <4>1
      <4>4. B[j] = A[q] \/ (B[j] = A[j] /\ A[j] <= A[q])
        <5>1. CASE j = p
          BY <2>4, <5>1
        <5>2. CASE j # p
          <6>1. j # q /\ j \in 1..Len(h.heap)
            BY <2>1, <3>1, <3>3
          <6> QED
            BY <2>4, <2>6, <3>1, <3>3, <5>2, <6>1
        <5> QED
          BY <5>1, <5>2
      <4>5. A[q] \in Nat /\ A[r] \in Nat /\ A[j] \in Nat
        BY <2>6
      <4> QED
        BY <4>1, <4>2, <4>3, <4>4, <4>5
    <3> QED
      BY <3>1, <3>2, <3>3
  <2>8. ButUp(g, act, n)
    <3>1. ASSUME NEW j \in 2..Len(g.heap)
          PROVE  /\ j # q => act[g.heap[j]] <= act[g.heap[j \div 2]]
                 /\ j \div 2 = q /\ q > 1 => act[g.heap[j]] <= act[g.heap[q \div 2]]
      <4>1. j \in 1..Len(h.heap) /\ j \div 2 \in 1..Len(h.heap)
        BY <2>3, <2>6
      <4>2. q > 1 => q \div 2 \in 1..Len(h.heap)
        BY <2>6
      <4> QED
        BY <2>3, <2>4, <2>7, <4>1, <4>2
    <3> QED
      BY <2>3, <3>1 DEF ButUp
  <2>9. ~OrderedFrom(h, act, 1)
    <3>1. p \in 2..Len(h.heap) /\ p \div 2 >= 1
      BY <1>2, <1>4, <2>1
    <3>2. SUFFICES ASSUME act[h.heap[p]] <= act[h.heap[q]] PROVE FALSE
      BY <2>1, <3>1, Zenon DEF OrderedFrom
    <3>3. A[p] <= A[q]
      BY <1>1, <2>1, <2>4, <3>2, Zenon
    <3> QED
      BY <1>1, <2>1, <2>5, <3>3
  <2> QED
    BY <1>1, <2>1, <2>3, <2>8, <2>9
<1> QED
  BY <1>3, <1>4

(* One step down: all is ordered, or n is at a place further from the      *)
(* root, and again all but n is ordered.                                   *)
LEMMA DownIs ==
  ASSUME NEW h, Sound(h), NEW act \in [Vars -> Nat], NEW n \in Vars, InHeap(h, n),
         NEW g, g = Down(h, act, n)
  PROVE  \E p \in 1..Len(h.heap) :
           /\ p = h.indices[n] /\ h.heap[p] = n
           /\ \/ /\ g = h
                 /\ \A j \in 2..Len(h.heap) : j \div 2 = p => act[h.heap[j]] <= act[n]
              \/ \E c \in 2..Len(h.heap) :
                   /\ c \div 2 = p /\ c > p /\ g = Swap(h, p, c)
                   /\ act[h.heap[c]] > act[n]
                   /\ \A j \in 2..Len(h.heap) : j \div 2 = p => act[h.heap[j]] <= act[h.heap[c]]
<1>1. PICK p \in 1..Len(h.heap) : p = h.indices[n] /\ h.heap[p] = n
  BY PlaceFacts
<1>2. PICK len \in Nat : len = Len(h.heap)
  BY PlaceFacts
<1>3. PICK A \in [1..len -> Nat] : \A k \in 1..len : A[k] = act[h.heap[k]]
  BY <1>2, ActivityAt
<1>4. p \in 1..len /\ p \in Nat /\ A[p] = act[n] /\ A[p] \in Nat
  BY <1>1, <1>2, <1>3
<1>5. \A j \in 2..len : j \div 2 = p => j = 2 * p \/ j = 2 * p + 1
  BY <1>4, HalfFacts
<1>6. PICK c : c = MostActiveChild(h, act, p)
  OBVIOUS
<1>7. CASE 2 * p > len
  <2>1. \A j \in 2..len : j \div 2 # p
    BY <1>2, <1>4, <1>5, <1>7
  <2>2. g = h
    BY <1>1, <1>2, <1>4, <1>7 DEF Down
  <2> QED
    BY <1>1, <1>2, <2>1, <2>2
<1>8. CASE 2 * p <= len
  <2>1. /\ c \in 2..len /\ c \div 2 = p /\ c > p
        /\ \A j \in 2..len : j \div 2 = p => A[j] <= A[c]
    <3>1. 2 * p \in 1..len /\ 2 * p \in 2..len /\ (2 * p) \div 2 = p
      BY <1>4, <1>8
    <3>2. CASE 2 * p + 1 <= len /\ A[2 * p + 1] > A[2 * p]
      <4>1. 2 * p + 1 \in 2..len /\ (2 * p + 1) \div 2 = p /\ 2 * p + 1 > p
        BY <1>2, <1>4, <3>2
      <4>2. c = 2 * p + 1
        <5>1. /\ A[2 * p] = act[h.heap[2 * p]] /\ A[2 * p + 1] = act[h.heap[2 * p + 1]]
          <6>1. 2 * p + 1 \in 1..len
            BY <4>1
          <6> QED
            BY <1>3, <3>1, <6>1, Zenon
        <5>2. 2 * p + 1 <= Len(h.heap) /\ act[h.heap[2 * p + 1]] > act[h.heap[2 * p]]
          BY <1>2, <3>2, <5>1
        <5> QED
          BY <1>6, <5>2, Zenon DEF MostActiveChild
      <4>3. A[2 * p] \in Nat /\ A[2 * p + 1] \in Nat
        BY <3>1, <4>1
      <4>4. A[2 * p] <= A[c] /\ A[2 * p + 1] <= A[c]
        BY <3>2, <4>2, <4>3
      <4> QED
        BY <1>5, <4>1, <4>2, <4>4
    <3>3. CASE ~(2 * p + 1 <= len /\ A[2 * p + 1] > A[2 * p])
      <4>1. c = 2 * p
        <5>1. CASE 2 * p + 1 <= len
          <6>1. 2 * p + 1 \in 1..len
            BY <1>2, <1>4, <5>1
          <6> QED
            BY <1>2, <1>3, <1>6, <3>1, <3>3, <6>1 DEF MostActiveChild
        <5>2. CASE ~(2 * p + 1 <= len)
          BY <1>2, <1>6, <5>2 DEF MostActiveChild
        <5> QED
          BY <5>1, <5>2
      <4>2. c > p /\ c \in 2..len /\ c \div 2 = p
        BY <1>4, <3>1, <4>1
      <4>3. ASSUME NEW j \in 2..len, j \div 2 = p PROVE A[j] <= A[c]
        <5>1. A[2 * p] \in Nat /\ A[j] \in Nat
          BY <3>1
        <5>2. CASE j = 2 * p
          BY <4>1, <5>1, <5>2
        <5>3. CASE j = 2 * p + 1
          <6>1. ~(A[j] > A[2 * p])
            BY <3>3, <5>3
          <6> QED
            BY <4>1, <5>1, <6>1
        <5> QED
          BY <1>5, <4>3, <5>2, <5>3
      <4> QED
        BY <4>2, <4>3
    <3> QED
      BY <3>2, <3>3
  <2>2. c \in 1..len /\ A[c] = act[h.heap[c]] /\ A[c] \in Nat
    BY <1>3, <2>1
  <2>3. ASSUME NEW j \in 2..len, j \div 2 = p PROVE act[h.heap[j]] <= act[h.heap[c]]
    <3>1. A[j] <= A[c]
      BY <2>1, <2>3, Zenon
    <3>2. j \in 1..len
      OBVIOUS
    <3>3. A[j] = act[h.heap[j]]
      BY <1>3, <3>2, Zenon
    <3> QED
      BY <2>2, <3>1, <3>3, Zenon
  <2>4. CASE act[h.heap[c]] > act[n]
    <3>1. g = Swap(h, p, c)
      BY <1>1, <1>2, <1>6, <1>8, <2>4 DEF Down
    <3> QED
      BY <1>1, <1>2, <2>1, <2>3, <2>4, <3>1
  <2>5. CASE ~(act[h.heap[c]] > act[n])
    <3>1. g = h
      BY <1>1, <1>2, <1>6, <1>8, <2>5 DEF Down
    <3>2. A[c] <= A[p]
      BY <1>4, <2>2, <2>5
    <3>3. ASSUME NEW j \in 2..len, j \div 2 = p PROVE act[h.heap[j]] <= act[n]
      <4>1. A[j] <= A[c] /\ A[j] \in Nat /\ A[j] = act[h.heap[j]]
        BY <1>3, <2>1, <3>3
      <4>2. A[j] <= A[p]
        BY <1>4, <2>2, <3>2, <4>1
      <4> QED
        BY <1>4, <4>1, <4>2
    <3> QED
      BY <1>1, <1>2, <3>1, <3>3
  <2> QED
    BY <2>4, <2>5
<1>9. 2 * p > len \/ 2 * p <= len
  BY <1>2, <1>4
<1> QED
  BY <1>7, <1>8, <1>9, Zenon

LEMMA DownKeeps ==
  ASSUME NEW h, Sound(h), NEW act \in [Vars -> Nat], NEW n \in Vars, InHeap(h, n),
         NEW g, g = Down(h, act, n)
  PROVE  Sound(g) /\ SameVars(h, g) /\ InHeap(g, n)
<1>1. PICK p \in 1..Len(h.heap) :
        \/ g = h
        \/ \E c \in 2..Len(h.heap) : c > p /\ g = Swap(h, p, c)
  BY DownIs
<1>2. CASE g = h
  BY <1>2 DEF SameVars
<1>3. ASSUME NEW c \in 2..Len(h.heap), c > p, g = Swap(h, p, c)
      PROVE  Sound(g) /\ SameVars(h, g) /\ InHeap(g, n)
  <2>1. c \in 1..Len(h.heap) /\ p \in 1..Len(h.heap) /\ p # c
    BY <1>1, <1>3
  <2>2. Sound(g) /\ SameVars(h, g)
    BY <1>3, <2>1, SwapFacts, SMTT(20)
  <2> QED
    BY <2>2 DEF SameVars
<1> QED
  BY <1>1, <1>2, <1>3

LEMMA DownFacts ==
  ASSUME NEW h, Sound(h), NEW act \in [Vars -> Nat], NEW n \in Vars, InHeap(h, n),
         NEW s \in Nat, s >= 1, ButDown(h, act, n, s), NEW g, g = Down(h, act, n)
  PROVE  \/ g = h /\ OrderedFrom(h, act, s)
         \/ g.indices[n] > h.indices[n] /\ ButDown(g, act, n, s) /\ ~OrderedFrom(h, act, s)
<1>1. PICK p \in 1..Len(h.heap) :
        /\ p = h.indices[n] /\ h.heap[p] = n
        /\ \/ /\ g = h
              /\ \A j \in 2..Len(h.heap) : j \div 2 = p => act[h.heap[j]] <= act[n]
           \/ \E c \in 2..Len(h.heap) :
                /\ c \div 2 = p /\ c > p /\ g = Swap(h, p, c)
                /\ act[h.heap[c]] > act[n]
                /\ \A j \in 2..Len(h.heap) : j \div 2 = p => act[h.heap[j]] <= act[h.heap[c]]
  BY DownIs, SMTT(20)
<1>2. Len(h.heap) \in Nat /\ p \in Nat /\ p >= 1
  BY <1>1, PlaceFacts
<1>3. CASE g = h /\ \A j \in 2..Len(h.heap) : j \div 2 = p => act[h.heap[j]] <= act[n]
  <2>1. ASSUME NEW j \in 2..Len(h.heap), j \div 2 >= s
        PROVE  act[h.heap[j]] <= act[h.heap[j \div 2]]
    <3>1. CASE j \div 2 = p
      BY <1>1, <1>3, <3>1, Zenon
    <3>2. CASE j \div 2 # p
      BY <1>1, <2>1, <3>2, Zenon DEF ButDown
    <3> QED
      BY <3>1, <3>2
  <2> QED
    BY <1>3, <2>1, Zenon DEF OrderedFrom
<1>4. ASSUME NEW c \in 2..Len(h.heap), c \div 2 = p, c > p, g = Swap(h, p, c),
             act[h.heap[c]] > act[n],
             \A j \in 2..Len(h.heap) : j \div 2 = p => act[h.heap[j]] <= act[h.heap[c]]
      PROVE  g.indices[n] > h.indices[n] /\ ButDown(g, act, n, s) /\ ~OrderedFrom(h, act, s)
  <2>1. c \in 1..Len(h.heap) /\ p # c /\ p \in 1..Len(h.heap) /\ c \in Nat
    BY <1>1, <1>2, <1>4
  <2>2. /\ Sound(g) /\ SameVars(h, g) /\ Len(g.heap) = Len(h.heap)
        /\ g.indices[n] = c
    <3>1. Sound(g) /\ SameVars(h, g) /\ g.indices[h.heap[p]] = c
      BY <1>4, <2>1, SwapFacts, SMTT(20)
    <3> QED
      BY <1>1, <3>1, Zenon DEF SameVars
  <2>3. PICK A \in [1..Len(h.heap) -> Nat], B \in [1..Len(h.heap) -> Nat] :
           /\ \A k \in 1..Len(h.heap) : A[k] = act[h.heap[k]] /\ B[k] = act[g.heap[k]]
           /\ B[p] = A[c] /\ B[c] = A[p]
           /\ \A k \in 1..Len(h.heap) : k # p /\ k # c => B[k] = A[k]
    <3>1. Exchanges(h, g, act, p, c)
      BY <1>4, <2>1, SwapActivity, Zenon
    <3> QED
      BY <3>1, Zenon DEF Exchanges
  <2>4. p >= s
    BY <1>1 DEF ButDown
  <2>5. A[c] > A[p]
    BY <1>1, <1>4, <2>1, <2>3
  <2>6. ASSUME NEW j \in 2..Len(h.heap)
        PROVE  /\ j \in 1..Len(h.heap) /\ j \div 2 \in 1..Len(h.heap) /\ j \div 2 < j
               /\ j \div 2 \in Nat
               /\ j \div 2 >= s /\ j \div 2 # p => A[j] <= A[j \div 2]
               /\ j \div 2 = p /\ p \div 2 >= s => A[j] <= A[p \div 2]
               /\ j \div 2 = p => A[j] <= A[c]
    <3>1. j \in 1..Len(h.heap) /\ j \div 2 \in 1..Len(h.heap) /\ j \div 2 < j
      BY <1>2, HalfFacts
    <3>2. ASSUME j \div 2 >= s, j \div 2 # p PROVE A[j] <= A[j \div 2]
      <4>1. act[h.heap[j]] <= act[h.heap[j \div 2]]
        BY <1>1, <3>2, Zenon DEF ButDown
      <4> QED
        BY <2>3, <3>1, <4>1
    <3>3. ASSUME j \div 2 = p, p \div 2 >= s PROVE A[j] <= A[p \div 2]
      <4>1. act[h.heap[j]] <= act[h.heap[p \div 2]]
        BY <1>1, <3>3, Zenon DEF ButDown
      <4>2. p \div 2 \in 1..Len(h.heap)
        BY <1>2, <2>1, <3>3
      <4> QED
        BY <2>3, <3>1, <4>1, <4>2
    <3>4. ASSUME j \div 2 = p PROVE A[j] <= A[c]
      <4>1. act[h.heap[j]] <= act[h.heap[c]]
        BY <1>4, <3>4, Zenon
      <4> QED
        BY <2>1, <2>3, <3>1, <4>1
    <3> QED
      BY <3>1, <3>2, <3>3, <3>4
  <2>7. ASSUME NEW j \in 2..Len(h.heap)
        PROVE  /\ j \div 2 >= s /\ j \div 2 # c => B[j] <= B[j \div 2]
               /\ j \div 2 = c => B[j] <= B[p]
    <3>1. PICK i \in 1..Len(h.heap) : i = j \div 2 /\ i < j
      BY <2>6
    <3>2. A[j] \in Nat /\ A[i] \in Nat /\ A[p] \in Nat /\ A[c] \in Nat
      BY <2>1, <2>3, <2>6, <3>1
    <3>3. ASSUME i >= s, i # c PROVE B[j] <= B[i]
      <4>1. CASE j = c
        BY <1>4, <2>3, <2>5, <3>1, <3>2, <4>1
      <4>2. CASE j = p
        <5>1. i = p \div 2 /\ i # p
          BY <3>1, <4>2
        <5>2. A[c] <= A[i]
          BY <1>4, <2>6, <3>3, <5>1
        <5> QED
          BY <2>3, <3>3, <4>2, <5>1, <5>2
      <4>3. CASE j # c /\ j # p /\ i = p
        BY <2>3, <2>6, <3>1, <4>3
      <4>4. CASE j # c /\ j # p /\ i # p
        BY <2>3, <2>6, <3>1, <3>3, <4>4
      <4> QED
        BY <4>1, <4>2, <4>3, <4>4
    <3>4. ASSUME i = c PROVE B[j] <= B[p]
      <4>1. j # c /\ j # p /\ c >= s
        BY <1>2, <1>4, <2>1, <2>4, <3>1, <3>4
      <4>2. A[j] <= A[c]
        BY <2>1, <2>6, <3>1, <3>4, <4>1
      <4> QED
        BY <2>3, <2>6, <4>1, <4>2
    <3> QED
      BY <3>1, <3>3, <3>4
  <2>8. ButDown(g, act, n, s)
    <3>1. ASSUME NEW j \in 2..Len(g.heap)
          PROVE  /\ j \div 2 >= s /\ j \div 2 # c
                      => act[g.heap[j]] <= act[g.heap[j \div 2]]
                 /\ j \div 2 = c => act[g.heap[j]] <= act[g.heap[p]]
      <4>1. j \in 1..Len(h.heap) /\ j \div 2 \in 1..Len(h.heap) /\ j \in 2..Len(h.heap)
        BY <2>2, <2>6
      <4> QED
        BY <2>1, <2>3, <2>7, <4>1
    <3>2. c >= s
      BY <1>2, <1>4, <2>1, <2>4
    <3> QED
      BY <1>4, <2>2, <3>1, <3>2 DEF ButDown
  <2>9. ~OrderedFrom(h, act, s)
    <3>1. SUFFICES ASSUME act[h.heap[c]] <= act[h.heap[p]] PROVE FALSE
      BY <1>4, <2>4, Zenon DEF OrderedFrom
    <3>2. A[c] <= A[p]
      BY <2>1, <2>3, <3>1, Zenon
    <3> QED
      BY <2>1, <2>5, <3>2
  <2> QED
    BY <1>1, <1>4, <2>2, <2>8, <2>9
<1> QED
  BY <1>1, <1>3, <1>4, Zenon

-----------------------------------------------------------------------------
Heaps == [heap : Seq(Vars), indices : [Vars -> Nat]]

LEMMA SameVarsFacts ==
  ASSUME NEW h, NEW g, NEW f, SameVars(h, g), SameVars(g, f)
  PROVE  SameVars(h, f) /\ SameVars(h, h)
BY DEF SameVars

(* Percolating up orders a heap in which all but n is ordered.             *)
LEMMA PercolateUpFacts ==
  ASSUME NEW h, Sound(h), NEW act \in [Vars -> Nat], NEW n \in Vars, InHeap(h, n),
         ButUp(h, act, n), NEW g, g = PercolateUp(h, act, n)
  PROVE  IsHeap(g, act) /\ SameVars(h, g)
<1>1. PICK len \in Nat : len = Len(h.heap)
  BY PlaceFacts
<1> DEFINE X == {x \in Heaps : Sound(x) /\ SameVars(h, x) /\ ButUp(x, act, n)}
<1>2. h \in X
  BY DEF Sound, Heaps, SameVars
<1>3. ASSUME NEW x \in X
      PROVE  /\ Up(x, act, n) \in X
             /\ \/ Up(x, act, n) = x /\ OrderedFrom(x, act, 1)
                \/ Up(x, act, n).indices[n] < x.indices[n] /\ ~OrderedFrom(x, act, 1)
             /\ x.indices[n] \in 1..len
  <2>1. Sound(x) /\ SameVars(h, x) /\ ButUp(x, act, n) /\ InHeap(x, n)
    BY DEF SameVars
  <2>2. PICK y : y = Up(x, act, n)
    OBVIOUS
  <2>3. /\ Sound(y) /\ SameVars(x, y) /\ ButUp(y, act, n)
        /\ \/ y = x /\ OrderedFrom(x, act, 1)
           \/ y.indices[n] < x.indices[n]
        /\ OrderedFrom(x, act, 1) => y = x
    BY <2>1, <2>2, UpFacts
  <2>4. y \in X
    BY <2>1, <2>3, SameVarsFacts, Zenon DEF Sound, Heaps
  <2>5. x.indices[n] \in 1..len
    BY <1>1, <2>1, PlaceFacts DEF SameVars
  <2>6. y.indices[n] < x.indices[n] => y # x
    BY <2>5
  <2> QED
    BY <2>2, <2>3, <2>4, <2>5, <2>6, Zenon
<1> HIDE DEF X
<1>4. PICK f \in [0..len -> X] : f = [k \in 0..len |-> IF k = 0 THEN h ELSE Up(f[k - 1], act, n)]
  <2> DEFINE step == [kx \in (1..len) \X X |-> Up(kx[2], act, n)]
  <2>1. step \in [(1..len) \X X -> X]
    BY <1>3
  <2> HIDE DEF step
  <2>2. PICK f \in [0..len -> X] : IsRecursive(f, len, h, step)
    BY <1>1, <1>2, <2>1, Recursion
  <2>3. ASSUME NEW k \in 0..len, k # 0 PROVE step[<<k, f[k - 1]>>] = Up(f[k - 1], act, n)
    <3>1. k \in 1..len /\ k - 1 \in 0..len
      BY <2>3
    <3>2. f[k - 1] \in X
      BY <2>2, <3>1
    <3> QED
      BY <3>1, <3>2 DEF step
  <2>4. f = [k \in 0..len |-> IF k = 0 THEN h ELSE Up(f[k - 1], act, n)]
    BY <2>2, <2>3 DEF IsRecursive
  <2> QED
    BY <2>2, <2>4
<1>5. PICK F : /\ F = [k \in 0..len |-> IF k = 0 THEN h ELSE Up(F[k - 1], act, n)]
               /\ g = F[len]
  BY <1>1, <1>4 DEF PercolateUp
<1> DEFINE S == {k \in Nat : k <= len =>
                   /\ F[k] \in X
                   /\ OrderedFrom(F[k], act, 1) \/ F[k].indices[n] + k <= len}
<1>6. 0 \in S
  <2>1. F[0] = h
    BY <1>1, <1>5
  <2>2. PICK i \in 1..len : i = h.indices[n]
    BY <1>2, <1>3
  <2>3. F[0].indices[n] + 0 <= len
    BY <2>1, <2>2
  <2> QED
    BY <1>2, <2>1, <2>3
<1>7. ASSUME NEW k \in Nat, k \in S PROVE k + 1 \in S
  <2> SUFFICES ASSUME k + 1 <= len
               PROVE  /\ F[k + 1] \in X
                      /\ OrderedFrom(F[k + 1], act, 1) \/ F[k + 1].indices[n] + (k + 1) <= len
    OBVIOUS
  <2>1. PICK x \in X : /\ x = F[k]
                       /\ OrderedFrom(x, act, 1) \/ x.indices[n] + k <= len
    BY <1>7
  <2>2. PICK y : y = F[k + 1] /\ y = Up(x, act, n)
    <3>1. k + 1 \in 0..len /\ k + 1 # 0 /\ (k + 1) - 1 = k
      BY <1>1
    <3> QED
      BY <1>5, <2>1, <3>1, Zenon
  <2>3. /\ y \in X
        /\ \/ y = x /\ OrderedFrom(x, act, 1)
           \/ y.indices[n] < x.indices[n] /\ ~OrderedFrom(x, act, 1)
    BY <1>3, <2>1, <2>2, Zenon
  <2>4. CASE y = x /\ OrderedFrom(x, act, 1)
    BY <2>2, <2>3, <2>4, Zenon
  <2>5. CASE y.indices[n] < x.indices[n] /\ ~OrderedFrom(x, act, 1)
    <3>1. PICK i \in 1..len, j \in 1..len : i = x.indices[n] /\ j = y.indices[n]
      BY <1>3, <2>1, <2>3, Zenon
    <3>2. i + k <= len /\ j < i
      BY <2>1, <2>5, <3>1, Zenon
    <3>3. j + (k + 1) <= len
      <4>1. i \in Nat /\ j \in Nat /\ len \in Nat /\ k \in Nat
        BY <1>1, <3>1
      <4> HIDE DEF S
      <4> QED
        BY <3>2, <4>1
    <3> QED
      BY <2>2, <2>3, <3>1, <3>3, Zenon
  <2> QED
    BY <2>3, <2>4, <2>5, Zenon
<1>8. g \in X /\ (OrderedFrom(g, act, 1) \/ g.indices[n] + len <= len)
  <2> HIDE DEF S
  <2>1. len \in S
    BY <1>1, <1>6, <1>7, SetInduction
  <2> QED
    BY <1>1, <1>5, <2>1 DEF S
<1>9. ~(g.indices[n] + len <= len)
  <2>1. PICK i \in 1..len : i = g.indices[n]
    BY <1>3, <1>8, Zenon
  <2> QED
    BY <1>1, <2>1
<1> QED
  BY <1>8, <1>9 DEF X, IsHeap

(* Percolating down is a sequence of steps down.                           *)
StepsDown(F, h, act, n, g) ==
  /\ F[0] = h /\ g = F[Len(h.heap)]
  /\ \A k \in 1..Len(h.heap) : F[k] = Down(F[k - 1], act, n)
  /\ \A k \in 0..Len(h.heap) : Sound(F[k]) /\ SameVars(h, F[k])

LEMMA PercolateDownIs ==
  ASSUME NEW h, Sound(h), NEW act \in [Vars -> Nat], NEW n \in Vars, InHeap(h, n),
         NEW g, g = PercolateDown(h, act, n)
  PROVE  \E F : StepsDown(F, h, act, n, g)
<1>1. PICK len \in Nat : len = Len(h.heap)
  BY PlaceFacts
<1> DEFINE X == {x \in Heaps : Sound(x) /\ SameVars(h, x)}
<1>2. h \in X
  BY DEF Sound, Heaps, SameVars
<1>3. ASSUME NEW x \in X PROVE Down(x, act, n) \in X
  <2>1. Sound(x) /\ SameVars(h, x) /\ InHeap(x, n)
    BY DEF SameVars
  <2>2. PICK y : y = Down(x, act, n)
    OBVIOUS
  <2>3. Sound(y) /\ SameVars(x, y)
    BY <2>1, <2>2, DownKeeps, Zenon
  <2>4. y \in X
    BY <2>1, <2>3, SameVarsFacts, Zenon DEF Sound, Heaps
  <2> QED
    BY <2>2, <2>4, Zenon
<1> HIDE DEF X
<1>4. PICK f \in [0..len -> X] : f = [k \in 0..len |-> IF k = 0 THEN h ELSE Down(f[k - 1], act, n)]
  <2> DEFINE step == [kx \in (1..len) \X X |-> Down(kx[2], act, n)]
  <2>1. step \in [(1..len) \X X -> X]
    BY <1>3
  <2> HIDE DEF step
  <2>2. PICK f \in [0..len -> X] : IsRecursive(f, len, h, step)
    BY <1>1, <1>2, <2>1, Recursion
  <2>3. ASSUME NEW k \in 0..len, k # 0 PROVE step[<<k, f[k - 1]>>] = Down(f[k - 1], act, n)
    <3>1. k \in 1..len /\ k - 1 \in 0..len
      BY <2>3
    <3>2. f[k - 1] \in X
      BY <2>2, <3>1
    <3> QED
      BY <3>1, <3>2 DEF step
  <2>4. f = [k \in 0..len |-> IF k = 0 THEN h ELSE Down(f[k - 1], act, n)]
    BY <2>2, <2>3 DEF IsRecursive
  <2> QED
    BY <2>2, <2>4
<1>5. PICK F : /\ F = [k \in 0..len |-> IF k = 0 THEN h ELSE Down(F[k - 1], act, n)]
               /\ g = F[len]
  BY <1>1, <1>4 DEF PercolateDown
<1>6. F[0] = h
  BY <1>1, <1>5
<1>7. ASSUME NEW k \in 1..len PROVE F[k] = Down(F[k - 1], act, n)
  <2>1. k \in 0..len /\ k # 0
    BY <1>1
  <2> QED
    BY <1>5, <2>1, Zenon
<1>8. ASSUME NEW k \in 0..len PROVE F[k] \in X
  <2>1. \A i \in 1..k : F[i - 1] \in X => F[i] \in X
    <3>1. \A i \in 1..k : i \in 1..len
      BY <1>1
    <3> QED
      BY <1>3, <1>7, <3>1, Zenon
  <2>2. k \in Nat
    OBVIOUS
  <2> QED
    BY <1>2, <1>6, <2>1, <2>2, ValuesOfRecursion, Zenon
<1>9. \A k \in 0..len : Sound(F[k]) /\ SameVars(h, F[k])
  BY <1>8 DEF X
<1> QED
  BY <1>1, <1>5, <1>6, <1>7, <1>9, Zenon DEF StepsDown

LEMMA PercolateDownKeeps ==
  ASSUME NEW h, Sound(h), NEW act \in [Vars -> Nat], NEW n \in Vars, InHeap(h, n),
         NEW g, g = PercolateDown(h, act, n)
  PROVE  Sound(g) /\ SameVars(h, g)
<1>1. PICK F : StepsDown(F, h, act, n, g)
  BY PercolateDownIs, Zenon
<1>2. Len(h.heap) \in 0..Len(h.heap)
  BY PlaceFacts
<1> QED
  BY <1>1, <1>2, Zenon DEF StepsDown

(* It orders a heap in which all but n is ordered from place s on.         *)
LEMMA PercolateDownFacts ==
  ASSUME NEW h, Sound(h), NEW act \in [Vars -> Nat], NEW n \in Vars, InHeap(h, n),
         NEW s \in Nat, s >= 1, ButDown(h, act, n, s),
         NEW g, g = PercolateDown(h, act, n)
  PROVE  OrderedFrom(g, act, s)
<1>1. PICK len \in Nat : len = Len(h.heap)
  BY PlaceFacts
<1>2. PICK F : /\ F[0] = h /\ g = F[len]
               /\ \A k \in 1..len : F[k] = Down(F[k - 1], act, n)
               /\ \A k \in 0..len : Sound(F[k]) /\ SameVars(h, F[k])
  <2>1. PICK F : StepsDown(F, h, act, n, g)
    BY PercolateDownIs, Zenon
  <2> QED
    BY <1>1, <2>1, Zenon DEF StepsDown
<1>3. ASSUME NEW k \in 0..len PROVE F[k].indices[n] \in 1..len
  BY <1>1, <1>2, PlaceFacts DEF SameVars
<1> DEFINE S == {k \in Nat : k <= len =>
                   /\ ButDown(F[k], act, n, s)
                   /\ OrderedFrom(F[k], act, s) \/ F[k].indices[n] > k}
<1>4. 0 \in S
  <2>1. PICK i \in 1..len : i = F[0].indices[n]
    BY <1>1, <1>3
  <2>2. F[0].indices[n] > 0
    BY <2>1
  <2> QED
    BY <1>2, <2>2
<1>5. ASSUME NEW k \in Nat, k \in S PROVE k + 1 \in S
  <2> SUFFICES ASSUME k + 1 <= len
               PROVE  /\ ButDown(F[k + 1], act, n, s)
                      /\ OrderedFrom(F[k + 1], act, s) \/ F[k + 1].indices[n] > k + 1
    OBVIOUS
  <2>1. /\ ButDown(F[k], act, n, s)
        /\ OrderedFrom(F[k], act, s) \/ F[k].indices[n] > k
    BY <1>5
  <2> HIDE DEF S
  <2>2. k \in 0..len /\ k + 1 \in 0..len /\ k + 1 \in 1..len /\ (k + 1) - 1 = k
    BY <1>1
  <2>3. F[k + 1] = Down(F[k], act, n) /\ Sound(F[k]) /\ InHeap(F[k], n)
    BY <1>2, <2>2, Zenon DEF SameVars
  <2>4. \/ F[k + 1] = F[k] /\ OrderedFrom(F[k], act, s)
        \/ /\ F[k + 1].indices[n] > F[k].indices[n]
           /\ ButDown(F[k + 1], act, n, s) /\ ~OrderedFrom(F[k], act, s)
    BY <2>1, <2>3, DownFacts, Zenon
  <2>5. CASE F[k + 1] = F[k] /\ OrderedFrom(F[k], act, s)
    BY <2>1, <2>5, Zenon
  <2>6. CASE /\ F[k + 1].indices[n] > F[k].indices[n]
             /\ ButDown(F[k + 1], act, n, s) /\ ~OrderedFrom(F[k], act, s)
    <3>1. PICK i \in Nat, j \in Nat : i = F[k].indices[n] /\ j = F[k + 1].indices[n]
      BY <1>3, <2>2
    <3>2. j > i /\ i > k
      BY <2>1, <2>6, <3>1, Zenon
    <3>3. j > k + 1
      BY <3>2
    <3> QED
      BY <2>6, <3>1, <3>3, Zenon
  <2> QED
    BY <2>4, <2>5, <2>6, Zenon
<1>6. OrderedFrom(g, act, s) \/ g.indices[n] > len
  <2> HIDE DEF S
  <2>1. len \in S
    BY <1>1, <1>4, <1>5, SetInduction
  <2> QED
    BY <1>1, <1>2, <2>1 DEF S
<1>7. ~(g.indices[n] > len)
  <2>1. PICK i \in 1..len : i = g.indices[n]
    <3>1. len \in 0..len
      BY <1>1
    <3> QED
      BY <1>2, <1>3, <3>1, Zenon
  <2> QED
    BY <1>1, <2>1
<1> QED
  BY <1>6, <1>7, Zenon

-----------------------------------------------------------------------------
(* A part of a sequence.                                                   *)
LEMMA PartFacts ==
  ASSUME NEW S, NEW q \in Seq(S), NEW a \in Nat, NEW b \in Nat, a <= b, b <= Len(q),
         NEW s, s = SubSeq(q, a + 1, b)
  PROVE  /\ s \in Seq(S) /\ Len(s) = b - a
         /\ \A i \in 1..(b - a) : s[i] = q[a + i]
<1>1. PICK c \in Int : c = a + 1
  OBVIOUS
<1>2. b \in Int /\ \A i \in c..b : q[i] \in S
  BY <1>1
<1>3. /\ SubSeq(q, c, b) \in Seq(S)
      /\ Len(SubSeq(q, c, b)) = IF c <= b THEN b - c + 1 ELSE 0
      /\ \A i \in 1..(b - c + 1) : SubSeq(q, c, b)[i] = q[c + i - 1]
  BY <1>1, <1>2, SubSeqProperties
<1>4. s = SubSeq(q, c, b) /\ b - c + 1 = b - a /\ (~(c <= b) => b - a = 0)
  BY <1>1
<1>5. ASSUME NEW i \in 1..(b - a) PROVE s[i] = q[a + i]
  <2>1. c + i - 1 = a + i
    BY <1>1
  <2> QED
    BY <1>3, <1>4, <2>1
<1> QED
  BY <1>3, <1>4, <1>5

(* A variable put in at the end and moved up.                              *)
LEMMA InsertFacts ==
  ASSUME NEW act \in [Vars -> Nat], NEW h, IsHeap(h, act), NEW n \in Vars, ~InHeap(h, n),
         NEW g, g = Insert(h, act, n)
  PROVE  /\ IsHeap(g, act)
         /\ \A v \in Vars : InHeap(g, v) <=> InHeap(h, v) \/ v = n
<1>1. Sound(h) /\ OrderedFrom(h, act, 1)
  BY DEF IsHeap
<1>2. PICK len \in Nat : len = Len(h.heap)
  BY <1>1, PlaceFacts
<1>3. h.heap \in Seq(Vars) /\ h.indices \in [Vars -> Nat]
  BY <1>1, PlaceFacts
<1>4. PICK k : k = [heap    |-> Append(h.heap, n),
                    indices |-> [h.indices EXCEPT ![n] = Len(h.heap) + 1]]
  OBVIOUS
<1>5. /\ k = [heap |-> k.heap, indices |-> k.indices]
      /\ k.heap = Append(h.heap, n) /\ k.indices = [h.indices EXCEPT ![n] = len + 1]
  BY <1>2, <1>4
<1>6. /\ k.heap \in Seq(Vars) /\ Len(k.heap) = len + 1
      /\ k.heap[len + 1] = n /\ \A i \in 1..len : k.heap[i] = h.heap[i]
  BY <1>2, <1>3, <1>5
<1>7. /\ k.indices \in [Vars -> Nat] /\ k.indices[n] = len + 1
      /\ \A v \in Vars : v # n => k.indices[v] = h.indices[v]
  BY <1>2, <1>3, <1>5
<1>8. ASSUME NEW v \in Vars
      PROVE  /\ k.indices[v] <= len + 1
             /\ \A i \in 1..(len + 1) : k.indices[v] = i <=> k.heap[i] = v
  <2>1. CASE v = n
    <3>1. ASSUME NEW i \in 1..(len + 1) PROVE k.indices[v] = i <=> k.heap[i] = v
      <4>1. CASE i = len + 1
        BY <1>6, <1>7, <2>1, <4>1
      <4>2. CASE i # len + 1
        <5>1. i \in 1..len
          BY <4>2
        <5>2. k.heap[i] # n
          <6>1. InHeap(h, h.heap[i])
            BY <1>1, <1>2, <5>1, PlaceFacts
          <6> QED
            BY <1>6, <5>1, <6>1, Zenon
        <5> QED
          BY <1>7, <2>1, <4>2, <5>2
      <4> QED
        BY <4>1, <4>2
    <3> QED
      BY <1>2, <1>7, <2>1, <3>1
  <2>2. CASE v # n
    <3>1. PICK x \in Nat : x = k.indices[v] /\ x = h.indices[v] /\ x <= len
      BY <1>1, <1>2, <1>3, <1>7, <2>2 DEF Sound
    <3>2. ASSUME NEW i \in 1..(len + 1) PROVE x = i <=> k.heap[i] = v
      <4>1. CASE i = len + 1
        BY <1>6, <2>2, <3>1, <4>1
      <4>2. CASE i # len + 1
        <5>1. i \in 1..len
          BY <4>2
        <5>2. h.indices[v] = i <=> h.heap[i] = v
          BY <1>1, <1>2, <5>1 DEF Sound
        <5> QED
          BY <1>6, <3>1, <5>1, <5>2
      <4> QED
        BY <4>1, <4>2
    <3> QED
      BY <3>1, <3>2
  <2> QED
    BY <2>1, <2>2
<1>9. Sound(k)
  <2>1. k \in [heap : Seq(Vars), indices : [Vars -> Nat]]
    BY <1>5, <1>6, <1>7
  <2> QED
    BY <1>6, <1>8, <2>1 DEF Sound
<1>10. \A v \in Vars : InHeap(k, v) <=> InHeap(h, v) \/ v = n
  BY <1>7 DEF InHeap
<1>11. ButUp(k, act, n)
  <2>1. ASSUME NEW j \in 2..(len + 1)
        PROVE  /\ j # len + 1 => act[k.heap[j]] <= act[k.heap[j \div 2]]
               /\ j \div 2 # len + 1
    <3>1. j \div 2 # len + 1
      OBVIOUS
    <3>2. ASSUME j # len + 1 PROVE act[k.heap[j]] <= act[k.heap[j \div 2]]
      <4>1. j \in 2..len /\ j \in 1..len /\ j \div 2 >= 1 /\ j \div 2 \in 1..len
        BY <3>2
      <4>2. act[h.heap[j]] <= act[h.heap[j \div 2]]
        BY <1>1, <1>2, <4>1 DEF OrderedFrom
      <4> QED
        BY <1>6, <4>1, <4>2
    <3> QED
      BY <3>1, <3>2
  <2> QED
    BY <1>6, <1>7, <2>1 DEF ButUp
<1>12. InHeap(k, n) /\ g = PercolateUp(k, act, n)
  BY <1>4, <1>10 DEF Insert
<1>13. IsHeap(g, act) /\ SameVars(k, g)
  BY <1>9, <1>11, <1>12, PercolateUpFacts, Zenon
<1> QED
  BY <1>10, <1>13, Zenon DEF SameVars

(* The root taken off: the last one takes its place and is moved down.     *)
LEMMA RemoveMinFacts ==
  ASSUME NEW act \in [Vars -> Nat], NEW h, IsHeap(h, act), h.heap # <<>>,
         NEW g, g = RemoveMin(h, act)
  PROVE  /\ IsHeap(g, act)
         /\ \A v \in Vars : InHeap(g, v) <=> InHeap(h, v) /\ v # h.heap[1]
<1>1. Sound(h) /\ OrderedFrom(h, act, 1)
  BY DEF IsHeap
<1>2. h.heap \in Seq(Vars) /\ h.indices \in [Vars -> Nat]
  BY <1>1, PlaceFacts
<1>3. PICK len \in Nat : len = Len(h.heap) /\ len > 0
  BY <1>2
<1>4. PICK x \in Vars, l \in Vars : /\ x = h.heap[1] /\ l = h.heap[len]
                                    /\ h.indices[x] = 1 /\ h.indices[l] = len
  <2>1. 1 \in 1..Len(h.heap) /\ len \in 1..Len(h.heap)
    BY <1>3
  <2> QED
    BY <1>1, <2>1, PlaceFacts
<1>5. l = Last(h.heap)
  BY <1>3, <1>4 DEF Last
<1>6. PICK k : k = [heap    |-> Front([h.heap EXCEPT ![1] = l]),
                    indices |-> [h.indices EXCEPT ![l] = 1, ![x] = 0]]
  OBVIOUS
<1>7. g = IF Len(k.heap) > 1 THEN PercolateDown(k, act, l) ELSE k
  BY <1>4, <1>5, <1>6 DEF RemoveMin
<1>8. /\ k = [heap |-> k.heap, indices |-> k.indices]
      /\ k.heap = Front([h.heap EXCEPT ![1] = l])
      /\ k.indices = [h.indices EXCEPT ![l] = 1, ![x] = 0]
  BY <1>6
<1>9. /\ k.heap \in Seq(Vars) /\ Len(k.heap) = len - 1
      /\ \A i \in 1..(len - 1) : k.heap[i] = IF i = 1 THEN l ELSE h.heap[i]
  <2>1. PICK s : s = [h.heap EXCEPT ![1] = l]
    OBVIOUS
  <2>2. /\ s \in Seq(Vars) /\ Len(s) = len
        /\ \A i \in 1..len : s[i] = IF i = 1 THEN l ELSE h.heap[i]
    BY <1>2, <1>3, <2>1
  <2>3. PICK m \in Nat : m = len - 1 /\ m <= len
    <3>1. len - 1 \in Nat /\ len - 1 <= len
      BY <1>3
    <3> QED
      BY <3>1, Zenon
  <2>4. k.heap = SubSeq(s, 0 + 1, m)
    BY <1>8, <2>1, <2>2, <2>3 DEF Front
  <2>5. k.heap \in Seq(Vars) /\ Len(k.heap) = m - 0 /\ \A i \in 1..(m - 0) : k.heap[i] = s[0 + i]
    <3>1. 0 \in Nat /\ 0 <= m /\ m <= Len(s)
      BY <2>2, <2>3
    <3> QED
      BY <2>2, <2>3, <2>4, <3>1, PartFacts
  <2>6. ASSUME NEW i \in 1..m PROVE k.heap[i] = IF i = 1 THEN l ELSE h.heap[i]
    <3>1. i \in 1..(m - 0) /\ 0 + i = i /\ i \in 1..len
      BY <1>3, <2>3
    <3> QED
      BY <2>2, <2>5, <3>1
  <2> QED
    BY <2>3, <2>5, <2>6
<1>10. /\ k.indices \in [Vars -> Nat]
       /\ k.indices[x] = 0
       /\ l # x => k.indices[l] = 1
       /\ \A v \in Vars : v # x /\ v # l => k.indices[v] = h.indices[v]
  <2>1. PICK f : f = [h.indices EXCEPT ![l] = 1]
    OBVIOUS
  <2>2. /\ f \in [Vars -> Nat] /\ f[l] = 1
        /\ \A v \in Vars : v # l => f[v] = h.indices[v]
    BY <1>2, <1>4, <2>1
  <2>3. k.indices = [f EXCEPT ![x] = 0]
    BY <1>8, <2>1
  <2>4. /\ k.indices \in [Vars -> Nat] /\ k.indices[x] = 0
        /\ \A v \in Vars : v # x => k.indices[v] = f[v]
    BY <1>4, <2>2, <2>3
  <2> QED
    BY <1>4, <2>2, <2>4, Zenon
<1>11. \A i \in 1..len : h.heap[i] \in Vars /\ h.indices[h.heap[i]] = i
  BY <1>1, <1>3, PlaceFacts
<1>12. ASSUME NEW v \in Vars
       PROVE  /\ k.indices[v] <= len - 1
              /\ \A i \in 1..(len - 1) : k.indices[v] = i <=> k.heap[i] = v
              /\ InHeap(k, v) <=> InHeap(h, v) /\ v # x
  <2>1. CASE v = x
    <3>1. ASSUME NEW i \in 1..(len - 1) PROVE k.heap[i] # x
      <4>1. i \in 1..len /\ i # len
        BY <1>3
      <4>2. CASE i = 1
        <5>1. k.heap[i] = l
          BY <1>9, <4>2
        <5>2. l # x
          BY <1>4, <4>1, <4>2
        <5> QED
          BY <5>1, <5>2
      <4>3. CASE i # 1
        <5>1. k.heap[i] = h.heap[i]
          BY <1>9, <4>3
        <5> QED
          BY <1>4, <1>11, <4>1, <4>3, <5>1
      <4> QED
        BY <4>2, <4>3
    <3> QED
      BY <1>3, <1>10, <2>1, <3>1 DEF InHeap
  <2>2. CASE v = l /\ v # x
    <3>1. len > 1 /\ k.indices[v] = 1
      BY <1>3, <1>4, <1>10, <2>2
    <3>2. ASSUME NEW i \in 1..(len - 1) PROVE k.heap[i] = l <=> i = 1
      <4>1. i \in 1..len /\ i # len
        BY <1>3
      <4>2. ASSUME i # 1 PROVE k.heap[i] # l
        <5>1. k.heap[i] = h.heap[i]
          BY <1>9, <4>2
        <5> QED
          BY <1>4, <1>11, <4>1, <5>1
      <4> QED
        BY <1>9, <4>2
    <3>3. InHeap(h, v)
      BY <1>3, <1>4, <2>2 DEF InHeap
    <3> QED
      BY <2>2, <3>1, <3>2, <3>3 DEF InHeap
  <2>3. CASE v # l /\ v # x
    <3>1. PICK y \in Nat : y = k.indices[v] /\ y = h.indices[v] /\ y <= len
      BY <1>1, <1>2, <1>3, <1>10, <2>3 DEF Sound
    <3>2. \A i \in 1..len : y = i <=> h.heap[i] = v
      BY <1>1, <1>3, <3>1 DEF Sound
    <3>3. y # len /\ y # 1
      BY <1>3, <1>4, <2>3, <3>2
    <3>4. ASSUME NEW i \in 1..(len - 1) PROVE y = i <=> k.heap[i] = v
      <4>1. CASE i = 1
        BY <1>9, <2>3, <3>3, <4>1
      <4>2. CASE i # 1
        <5>1. k.heap[i] = h.heap[i]
          BY <1>9, <4>2, Zenon
        <5>2. i \in 1..len
          BY <1>3
        <5> QED
          BY <3>2, <5>1, <5>2, Zenon
      <4> QED
        BY <4>1, <4>2
    <3>5. y <= len - 1
      BY <3>1, <3>3
    <3> QED
      BY <2>3, <3>1, <3>4, <3>5 DEF InHeap
  <2> QED
    BY <2>1, <2>2, <2>3
<1>13. Sound(k)
  <2>1. k \in [heap : Seq(Vars), indices : [Vars -> Nat]]
    BY <1>8, <1>9, <1>10
  <2>2. Len(k.heap) = len - 1
    BY <1>9
  <2>3. \A v \in Vars : k.indices[v] <= Len(k.heap)
    BY <1>12, <2>2
  <2>4. ASSUME NEW v \in Vars, NEW i \in 1..Len(k.heap) PROVE k.indices[v] = i <=> k.heap[i] = v
    BY <1>12, <2>2
  <2> QED
    BY <2>1, <2>3, <2>4 DEF Sound
<1>14. CASE Len(k.heap) > 1
  <2>1. len - 1 > 1 /\ g = PercolateDown(k, act, l)
    BY <1>7, <1>9, <1>14
  <2>2. l # x /\ k.indices[l] = 1
    BY <1>4, <1>10, <2>1
  <2>3. ButDown(k, act, l, 1)
    <3>1. ASSUME NEW j \in 2..(len - 1), j \div 2 # 1
          PROVE  act[k.heap[j]] <= act[k.heap[j \div 2]]
      <4>1. /\ j \in 1..(len - 1) /\ j # 1 /\ j \in 2..len /\ j \div 2 >= 1
            /\ j \div 2 \in 1..(len - 1)
        BY <1>3
      <4>2. act[h.heap[j]] <= act[h.heap[j \div 2]]
        BY <1>1, <1>3, <4>1 DEF OrderedFrom
      <4>3. k.heap[j] = h.heap[j] /\ k.heap[j \div 2] = h.heap[j \div 2]
        BY <1>9, <3>1, <4>1
      <4> QED
        BY <4>2, <4>3, Zenon
    <3>2. ~(1 \div 2 >= 1) /\ k.indices[l] >= 1
      BY <2>2
    <3> QED
      BY <1>9, <2>2, <3>1, <3>2, Zenon DEF ButDown
  <2>4. InHeap(k, l)
    BY <2>2 DEF InHeap
  <2>5. Sound(g) /\ SameVars(k, g)
    BY <1>13, <2>1, <2>4, PercolateDownKeeps, Zenon
  <2>6. OrderedFrom(g, act, 1)
    <3>1. 1 \in Nat /\ 1 >= 1
      OBVIOUS
    <3> QED
      BY <1>13, <2>1, <2>3, <2>4, <3>1, PercolateDownFacts, Zenon
  <2> QED
    BY <1>4, <1>12, <2>5, <2>6, Zenon DEF IsHeap, SameVars
<1>15. CASE ~(Len(k.heap) > 1)
  <2>1. g = k
    BY <1>7, <1>15
  <2>2. OrderedFrom(k, act, 1)
    <3>1. \A j \in 2..Len(k.heap) : FALSE
      BY <1>3, <1>9, <1>15
    <3> QED
      BY <3>1 DEF OrderedFrom
  <2>3. IsHeap(g, act)
    BY <1>13, <2>1, <2>2 DEF IsHeap
  <2>4. \A v \in Vars : InHeap(g, v) <=> InHeap(h, v) /\ v # h.heap[1]
    BY <1>4, <1>12, <2>1
  <2> QED
    BY <2>3, <2>4
<1> QED
  BY <1>14, <1>15

(* No variable is more active than the root.                               *)
LEMMA RootIsMostActive ==
  ASSUME NEW act \in [Vars -> Nat], NEW h, IsHeap(h, act), NEW v \in Vars, InHeap(h, v)
  PROVE  h.heap # <<>> /\ h.heap[1] \in Vars /\ act[v] <= act[h.heap[1]]
<1>1. Sound(h) /\ OrderedFrom(h, act, 1)
  BY DEF IsHeap
<1>2. PICK len \in Nat : len = Len(h.heap)
  BY <1>1, PlaceFacts
<1>3. PICK p \in 1..len : h.heap[p] = v
  BY <1>1, <1>2, PlaceFacts
<1>4. 1 \in 1..len
  BY <1>3
<1>5. PICK A \in [1..len -> Nat] : \A i \in 1..len : A[i] = act[h.heap[i]]
  BY <1>1, <1>2, ActivityAt
<1> DEFINE S == {m \in Nat : \A i \in 1..len : i <= m => A[i] <= A[1]}
<1>6. 0 \in S
  OBVIOUS
<1>7. ASSUME NEW m \in Nat, m \in S PROVE m + 1 \in S
  <2>1. \A i \in 1..len : i <= m => A[i] <= A[1]
    BY <1>7
  <2> HIDE DEF S
  <2>2. ASSUME NEW i \in 1..len, i <= m + 1 PROVE A[i] <= A[1]
    <3>1. CASE i = 1
      <4>1. A[1] \in Nat
        BY <1>4, <1>5
      <4> QED
        BY <3>1, <4>1
    <3>2. CASE i # 1
      <4>1. PICK j \in 1..len : j = i \div 2 /\ j <= m
        <5>1. i \div 2 \in 1..len /\ i \div 2 <= m
          BY <1>2, <2>2, <3>2
        <5> QED
          BY <5>1
      <4>2. A[j] <= A[1]
        BY <2>1, <4>1
      <4>3. A[i] <= A[j]
        <5>1. i \in 2..len /\ j >= 1
          BY <3>2
        <5>2. act[h.heap[i]] <= act[h.heap[i \div 2]]
          BY <1>1, <1>2, <4>1, <5>1, Zenon DEF OrderedFrom
        <5> QED
          BY <1>5, <4>1, <5>2, Zenon
      <4>4. A[i] \in Nat /\ A[j] \in Nat /\ A[1] \in Nat
        BY <1>4, <1>5
      <4> QED
        BY <4>2, <4>3, <4>4
    <3> QED
      BY <3>1, <3>2
  <2> QED
    BY <2>2 DEF S
<1>8. p \in S
  <2> HIDE DEF S
  <2>1. p \in Nat
    BY <1>3
  <2> QED
    BY <1>6, <1>7, <2>1, SetInduction
<1>9. A[p] <= A[1]
  BY <1>3, <1>8
<1>10. act[v] <= act[h.heap[1]]
  BY <1>3, <1>4, <1>5, <1>9, Zenon
<1>11. h.heap # <<>> /\ h.heap[1] \in Vars
  BY <1>1, <1>2, <1>4, PlaceFacts
<1> QED
  BY <1>10, <1>11

(* Ascending lists a set of numbers, each once.                            *)
LEMMA AscendingFacts ==
  ASSUME NEW S \in SUBSET Nat, IsFiniteSet(S)
  PROVE  /\ Ascending(S) \in Seq(S) /\ Len(Ascending(S)) = Cardinality(S)
         /\ \A x \in S : \E i \in 1..Cardinality(S) : Ascending(S)[i] = x
         /\ \A i \in 1..Cardinality(S), j \in 1..Cardinality(S) :
              Ascending(S)[i] = Ascending(S)[j] => i = j
<1> DEFINE n == Cardinality(S)
           Upto(x) == {y \in S : y <= x}
           rank == [x \in S |-> Cardinality(Upto(x))]
<1>1. n \in Nat /\ IsFiniteSet(1..n) /\ Cardinality(1..n) = n
  BY FS_CardinalityType, FS_Interval
<1>2. ASSUME NEW x \in S
      PROVE  IsFiniteSet(Upto(x)) /\ Cardinality(Upto(x)) \in 1..n
  <2>1. IsFiniteSet(Upto(x)) /\ Cardinality(Upto(x)) <= n
    BY FS_Subset
  <2>2. Cardinality(Upto(x)) \in Nat /\ x \in Upto(x)
    BY <2>1, FS_CardinalityType
  <2>3. Cardinality(Upto(x)) # 0
    BY <2>1, <2>2, FS_EmptySet
  <2> QED
    BY <1>1, <2>1, <2>2, <2>3
<1>3. ASSUME NEW x \in S, NEW y \in S, x < y
      PROVE  Cardinality(Upto(x)) < Cardinality(Upto(y))
  <2>1. Upto(x) \in SUBSET Upto(y) /\ y \in Upto(y) /\ y \notin Upto(x)
    <3>1. x \in Nat /\ y \in Nat /\ \A z \in S : z \in Nat
      OBVIOUS
    <3>2. \A z \in S : z <= x => z <= y
      BY <1>3, <3>1
    <3>3. ~(y <= x) /\ y <= y
      BY <1>3, <3>1
    <3> QED
      BY <3>2, <3>3
  <2>2. Cardinality(Upto(x)) <= Cardinality(Upto(y))
        /\ (Cardinality(Upto(y)) = Cardinality(Upto(x)) => Upto(y) = Upto(x))
    BY <1>2, <2>1, FS_Subset
  <2> HIDE DEF Upto
  <2> QED
    BY <1>2, <2>1, <2>2
<1>4. rank \in Injection(S, 1..n)
  <2>1. rank \in [S -> 1..n]
    BY <1>2
  <2>2. ASSUME NEW x \in S, NEW y \in S, rank[x] = rank[y] PROVE x = y
    <3>1. ~(x < y) /\ ~(y < x)
      BY <1>2, <1>3, <2>2
    <3> QED
      BY <3>1
  <2> HIDE DEF rank
  <2> QED
    BY <2>1, <2>2 DEF Injection, IsInjective
<1>5. rank \in Surjection(S, 1..n)
  BY <1>1, <1>4, FS_Injection
<1>6. \A i \in 1..n : \E x \in S : Cardinality(Upto(x)) = i
  <2>1. \A i \in 1..n : \E x \in S : rank[x] = i
    BY <1>5 DEF Surjection
  <2> QED
    BY <2>1
<1>7. ASSUME NEW i \in 1..n
      PROVE  Ascending(S)[i] \in S /\ Cardinality(Upto(Ascending(S)[i])) = i
  <2>1. Ascending(S)[i] = CHOOSE x \in S : Cardinality(Upto(x)) = i
    BY DEF Ascending
  <2> HIDE DEF Upto
  <2> QED
    BY <1>6, <2>1
<1>8. Ascending(S) \in Seq(S) /\ Len(Ascending(S)) = n
  <2>1. Ascending(S) = [i \in 1..n |-> Ascending(S)[i]]
    BY DEF Ascending
  <2>2. Ascending(S) \in [1..n -> S]
    BY <1>7, <2>1
  <2> QED
    BY <1>1, <2>2
<1>9. ASSUME NEW x \in S PROVE \E i \in 1..n : Ascending(S)[i] = x
  <2>1. PICK i \in 1..n : i = Cardinality(Upto(x))
    BY <1>2
  <2>2. PICK y \in S : y = Ascending(S)[i] /\ Cardinality(Upto(y)) = i
    BY <1>7
  <2>3. ~(x < y) /\ ~(y < x)
    <3> HIDE DEF Upto
    <3> QED
      BY <1>1, <1>3, <2>1, <2>2
  <2> QED
    BY <2>2, <2>3
<1>10. ASSUME NEW i \in 1..n, NEW j \in 1..n, Ascending(S)[i] = Ascending(S)[j]
       PROVE  i = j
  <2> HIDE DEF Upto
  <2> QED
    BY <1>7, <1>10
<1> QED
  BY <1>8, <1>9, <1>10

(* The least and the greatest of a set of numbers.                         *)
LEMMA MinIs ==
  ASSUME NEW S \in SUBSET Nat, S # {}
  PROVE  Min(S) \in S /\ \A x \in S : Min(S) <= x
<1>1. \E x \in S : \A y \in S : x <= y
  BY LeastNatural
<1> QED
  BY <1>1 DEF Min

LEMMA MaxIs ==
  ASSUME NEW n \in Nat, NEW S \in SUBSET (0..n), S # {}
  PROVE  Max(S) \in S /\ \A x \in S : x <= Max(S)
<1> DEFINE T == {n - x : x \in S}
<1>1. T \in SUBSET Nat /\ T # {}
  <2>1. \A x \in S : n - x \in Nat
    OBVIOUS
  <2>2. \E x \in S : n - x \in T
    BY Zenon
  <2> QED
    BY <2>1, <2>2, Zenon
<1>2. PICK t \in T : \A y \in T : t <= y
  BY <1>1, LeastNatural
<1>3. PICK m \in S : t = n - m
  BY <1>2
<1>4. ASSUME NEW x \in S PROVE m >= x
  <2>1. n - x \in T
    OBVIOUS
  <2>2. n - m <= n - x
    <3> HIDE DEF T
    <3> QED
      BY <1>2, <1>3, <2>1
  <2>3. m \in Int /\ x \in Int
    OBVIOUS
  <2> QED
    BY <2>2, <2>3
<1>5. \E x \in S : \A y \in S : x >= y
  BY <1>4
<1>6. Max(S) \in S /\ \A y \in S : Max(S) >= y
  BY <1>5 DEF Max
<1> QED
  BY <1>6

(* Building: from half the length down to the root, each is moved down.    *)
LEMMA BuildFacts ==
  ASSUME NEW act \in [Vars -> Nat], NEW ns \in Seq(Vars),
         \A i \in 1..Len(ns), j \in 1..Len(ns) : ns[i] = ns[j] => i = j,
         NEW g, g = Build(ns, act)
  PROVE  /\ IsHeap(g, act)
         /\ \A v \in Vars : InHeap(g, v) <=> \E i \in 1..Len(ns) : ns[i] = v
<1>1. PICK len \in Nat : len = Len(ns)
  OBVIOUS
<1>2. PICK half \in Nat : half = len \div 2 /\ half <= len
  BY <1>1
<1>3. PICK h : h = [heap    |-> ns,
                    indices |-> [v \in Vars |-> IF v \in ToSet(ns)
                                                THEN CHOOSE i \in DOMAIN ns : ns[i] = v ELSE 0]]
  OBVIOUS
<1>4. /\ h = [heap |-> h.heap, indices |-> h.indices] /\ h.heap = ns
      /\ h.indices = [v \in Vars |-> IF v \in ToSet(ns)
                                     THEN CHOOSE i \in DOMAIN ns : ns[i] = v ELSE 0]
  BY <1>3
<1>5. ASSUME NEW v \in Vars
      PROVE  \/ /\ h.indices[v] = 0 /\ \A i \in 1..len : ns[i] # v
             \/ /\ h.indices[v] \in 1..len /\ ns[h.indices[v]] = v
  <2>1. h.indices[v] = IF v \in ToSet(ns) THEN CHOOSE i \in DOMAIN ns : ns[i] = v ELSE 0
    BY <1>4
  <2>2. DOMAIN ns = 1..len
    BY <1>1
  <2>3. v \in ToSet(ns) <=> \E i \in 1..len : ns[i] = v
    BY <2>2 DEF ToSet
  <2>4. CASE v \in ToSet(ns)
    <3>1. h.indices[v] = CHOOSE i \in 1..len : ns[i] = v
      BY <2>1, <2>2, <2>4
    <3> QED
      BY <2>3, <2>4, <3>1
  <2>5. CASE v \notin ToSet(ns)
    BY <2>1, <2>3, <2>5
  <2> QED
    BY <2>4, <2>5
<1>6. Sound(h)
  <2>1. h \in [heap : Seq(Vars), indices : [Vars -> Nat]]
    <3>1. \A v \in Vars : h.indices[v] \in Nat
      BY <1>5
    <3>2. h.indices = [v \in Vars |-> h.indices[v]]
      BY <1>4
    <3>3. h.indices \in [Vars -> Nat]
      BY <3>1, <3>2
    <3> QED
      BY <1>4, <3>3
  <2>2. ASSUME NEW v \in Vars
        PROVE  /\ h.indices[v] <= len
               /\ \A i \in 1..len : h.indices[v] = i <=> ns[i] = v
    <3>1. CASE h.indices[v] = 0 /\ \A i \in 1..len : ns[i] # v
      BY <1>1, <3>1
    <3>2. CASE h.indices[v] \in 1..len /\ ns[h.indices[v]] = v
      BY <1>1, <3>2
    <3> QED
      BY <1>5, <3>1, <3>2
  <2> QED
    <3>1. h.heap = ns /\ Len(h.heap) = len
      BY <1>1, <1>4
    <3>2. \A v \in Vars : h.indices[v] <= Len(h.heap)
      BY <2>2, <3>1
    <3>3. ASSUME NEW v \in Vars, NEW i \in 1..Len(h.heap)
          PROVE  h.indices[v] = i <=> h.heap[i] = v
      BY <2>2, <3>1
    <3> QED
      BY <2>1, <3>2, <3>3 DEF Sound
<1>7. \A v \in Vars : InHeap(h, v) <=> \E i \in 1..len : ns[i] = v
  <2>1. ASSUME NEW v \in Vars PROVE InHeap(h, v) <=> \E i \in 1..len : ns[i] = v
    <3>1. CASE h.indices[v] = 0 /\ \A i \in 1..len : ns[i] # v
      BY <3>1 DEF InHeap
    <3>2. CASE h.indices[v] \in 1..len /\ ns[h.indices[v]] = v
      BY <3>2 DEF InHeap
    <3> QED
      BY <1>5, <3>1, <3>2
  <2> QED
    BY <2>1
<1> DEFINE X == {x \in Heaps : Sound(x) /\ SameVars(h, x)}
           MoveDown(x, k) == PercolateDown(x, act, x.heap[half + 1 - k])
<1>8. h \in X
  BY <1>6 DEF Sound, Heaps, SameVars
<1>9. ASSUME NEW x \in X, NEW k \in 1..half
      PROVE  /\ MoveDown(x, k) \in X
             /\ OrderedFrom(x, act, half + 1 - (k - 1)) => OrderedFrom(MoveDown(x, k), act, half + 1 - k)
  <2>1. Sound(x) /\ SameVars(h, x) /\ Len(x.heap) = len
    BY <1>1, <1>4 DEF SameVars
  <2>2. PICK s \in Nat : s = half + 1 - k /\ s >= 1 /\ s \in 1..len /\ half + 1 - (k - 1) = s + 1
    <3>1. half + 1 - k \in Nat /\ half + 1 - k >= 1 /\ half + 1 - k \in 1..len
          /\ half + 1 - (k - 1) = (half + 1 - k) + 1
      BY <1>2
    <3> QED
      BY <3>1
  <2>3. PICK n \in Vars : n = x.heap[s] /\ x.indices[n] = s /\ InHeap(x, n)
    BY <2>1, <2>2, PlaceFacts
  <2>4. PICK y : y = MoveDown(x, k) /\ y = PercolateDown(x, act, n)
    BY <2>2, <2>3
  <2>5. Sound(y) /\ SameVars(x, y)
    BY <2>1, <2>3, <2>4, PercolateDownKeeps, Zenon
  <2>6. y \in X
    BY <2>1, <2>5, SameVarsFacts, Zenon DEF Sound, Heaps
  <2>7. ASSUME OrderedFrom(x, act, s + 1) PROVE OrderedFrom(y, act, s)
    <3>1. ButDown(x, act, n, s)
      <4>1. ASSUME NEW j \in 2..Len(x.heap), j \div 2 >= s, j \div 2 # s
            PROVE  act[x.heap[j]] <= act[x.heap[j \div 2]]
        <5>1. j \div 2 >= s + 1
          BY <2>1, <4>1
        <5> QED
          BY <2>7, <5>1, Zenon DEF OrderedFrom
      <4>2. ~(s \div 2 >= s) /\ s >= s
        BY <2>2
      <4> QED
        BY <2>3, <4>1, <4>2, Zenon DEF ButDown
    <3> QED
      BY <2>1, <2>2, <2>3, <2>4, <3>1, PercolateDownFacts, Zenon
  <2> QED
    BY <2>2, <2>4, <2>6, <2>7, Zenon
<1> HIDE DEF X
<1>10. PICK f \in [0..half -> X] :
         f = [k \in 0..half |-> IF k = 0 THEN h ELSE MoveDown(f[k - 1], k)]
  <2> DEFINE step == [kx \in (1..half) \X X |-> MoveDown(kx[2], kx[1])]
  <2>1. step \in [(1..half) \X X -> X]
    <3> HIDE DEF MoveDown
    <3> QED
      BY <1>9
  <2> HIDE DEF step
  <2>2. PICK f \in [0..half -> X] : IsRecursive(f, half, h, step)
    BY <1>2, <1>8, <2>1, Recursion
  <2>3. ASSUME NEW k \in 0..half, k # 0 PROVE step[<<k, f[k - 1]>>] = MoveDown(f[k - 1], k)
    <3>1. k \in 1..half /\ k - 1 \in 0..half
      BY <2>3
    <3>2. f[k - 1] \in X
      BY <2>2, <3>1
    <3> HIDE DEF MoveDown
    <3> QED
      BY <3>1, <3>2 DEF step
  <2>4. f = [k \in 0..half |-> IF k = 0 THEN h ELSE MoveDown(f[k - 1], k)]
    <3> HIDE DEF MoveDown
    <3> QED
      BY <2>2, <2>3 DEF IsRecursive
  <2> QED
    BY <2>2, <2>4
<1>11. PICK F : /\ F = [k \in 0..half |-> IF k = 0 THEN h ELSE MoveDown(F[k - 1], k)]
                /\ g = F[half]
  <2>1. PICK F : F = CHOOSE b : b = [k \in 0..half |-> IF k = 0 THEN h ELSE MoveDown(b[k - 1], k)]
    OBVIOUS
  <2>2. F = [k \in 0..half |-> IF k = 0 THEN h ELSE MoveDown(F[k - 1], k)]
    BY <1>10, <2>1
  <2>3. half = Len(ns) \div 2
    BY <1>1, <1>2
  <2>4. g = F[half]
    BY <1>3, <2>1, <2>3 DEF Build
  <2> QED
    BY <2>2, <2>4
<1> HIDE DEF MoveDown
<1> DEFINE S == {k \in Nat : k <= half => F[k] \in X /\ OrderedFrom(F[k], act, half + 1 - k)}
<1>12. 0 \in S
  <2>1. F[0] = h
    BY <1>2, <1>11
  <2>2. OrderedFrom(h, act, half + 1 - 0)
    <3>1. ASSUME NEW j \in 2..len PROVE ~(j \div 2 >= half + 1 - 0)
      BY <1>2
    <3> QED
      BY <1>1, <1>4, <3>1 DEF OrderedFrom
  <2> QED
    BY <1>8, <2>1, <2>2
<1>13. ASSUME NEW k \in Nat, k \in S PROVE k + 1 \in S
  <2> SUFFICES ASSUME k + 1 <= half
               PROVE  F[k + 1] \in X /\ OrderedFrom(F[k + 1], act, half + 1 - (k + 1))
    OBVIOUS
  <2>1. F[k] \in X /\ OrderedFrom(F[k], act, half + 1 - k)
    BY <1>13
  <2> HIDE DEF S
  <2>2. k + 1 \in 0..half /\ k + 1 # 0 /\ k + 1 \in 1..half /\ (k + 1) - 1 = k
    BY <1>2
  <2>3. F[k + 1] = MoveDown(F[k], k + 1)
    BY <1>11, <2>2, Zenon
  <2> QED
    <3>1. PICK j \in 1..half : j = k + 1 /\ j - 1 = k
      BY <2>2
    <3>2. OrderedFrom(F[k], act, half + 1 - (j - 1))
      BY <2>1, <3>1, Zenon
    <3>3. MoveDown(F[k], j) \in X /\ OrderedFrom(MoveDown(F[k], j), act, half + 1 - j)
      BY <1>9, <2>1, <3>2
    <3> QED
      BY <2>3, <3>1, <3>3, Zenon
<1>14. half \in S
  <2> HIDE DEF S
  <2> QED
    BY <1>2, <1>12, <1>13, SetInduction
<1>15. g \in X /\ OrderedFrom(g, act, 1)
  <2>1. half + 1 - half = 1
    BY <1>2
  <2> QED
    BY <1>2, <1>11, <1>14, <2>1
<1> QED
  BY <1>1, <1>7, <1>15 DEF X, IsHeap, SameVars

-----------------------------------------------------------------------------
(* What is put back is in the heap, with all that was there.               *)
LEMMA PutBackFacts ==
  ASSUME activity \in [Vars -> Nat], IsHeap(order, activity), NEW vs \in Seq(Vars),
         NEW g, g = PutBack(vs)
  PROVE  /\ IsHeap(g, activity)
         /\ \A v \in Vars : InHeap(order, v) => InHeap(g, v)
         /\ \A i \in 1..Len(vs) : vs[i] \in decision => InHeap(g, vs[i])
<1>1. PICK n \in Nat : n = Len(vs)
  OBVIOUS
<1> DEFINE X == {x \in Heaps : IsHeap(x, activity)}
<1>2. order \in X
  BY DEF IsHeap, Sound, Heaps
<1>3. ASSUME NEW x \in X, NEW k \in 1..n
      PROVE  /\ InsertVarOrder(x, vs[k]) \in X
             /\ \A v \in Vars : InHeap(x, v) => InHeap(InsertVarOrder(x, vs[k]), v)
             /\ vs[k] \in decision => InHeap(InsertVarOrder(x, vs[k]), vs[k])
  <2>1. PICK u \in Vars : u = vs[k]
    BY <1>1
  <2>2. PICK y : y = InsertVarOrder(x, u)
    OBVIOUS
  <2>3. IsHeap(x, activity)
    OBVIOUS
  <2>4. CASE ~InHeap(x, u) /\ u \in decision
    <3>1. y = Insert(x, activity, u)
      BY <2>2, <2>4 DEF InsertVarOrder
    <3>2. IsHeap(y, activity) /\ \A v \in Vars : InHeap(y, v) <=> InHeap(x, v) \/ v = u
      BY <2>3, <2>4, <3>1, InsertFacts, Zenon
    <3>3. y \in X
      BY <3>2, Zenon DEF IsHeap, Sound, Heaps
    <3> QED
      BY <2>1, <2>2, <3>2, <3>3, Zenon
  <2>5. CASE ~(~InHeap(x, u) /\ u \in decision)
    <3>1. y = x
      BY <2>2, <2>5, Zenon DEF InsertVarOrder
    <3> QED
      BY <2>1, <2>2, <2>5, <3>1, Zenon
  <2> QED
    BY <2>4, <2>5, Zenon
<1> HIDE DEF X
<1>4. PICK f \in [0..n -> X] :
        f = [k \in 0..n |-> IF k = 0 THEN order ELSE InsertVarOrder(f[k - 1], vs[k])]
  <2> DEFINE step == [kx \in (1..n) \X X |-> InsertVarOrder(kx[2], vs[kx[1]])]
  <2>1. step \in [(1..n) \X X -> X]
    BY <1>3
  <2> HIDE DEF step
  <2>2. PICK f \in [0..n -> X] : IsRecursive(f, n, order, step)
    BY <1>1, <1>2, <2>1, Recursion
  <2>3. ASSUME NEW k \in 0..n, k # 0
        PROVE  step[<<k, f[k - 1]>>] = InsertVarOrder(f[k - 1], vs[k])
    <3>1. k \in 1..n /\ k - 1 \in 0..n
      BY <2>3
    <3>2. f[k - 1] \in X
      BY <2>2, <3>1
    <3> QED
      BY <3>1, <3>2 DEF step
  <2>4. f = [k \in 0..n |-> IF k = 0 THEN order ELSE InsertVarOrder(f[k - 1], vs[k])]
    BY <2>2, <2>3 DEF IsRecursive
  <2> QED
    BY <2>2, <2>4
<1>5. PICK F : /\ F = [k \in 0..n |-> IF k = 0 THEN order ELSE InsertVarOrder(F[k - 1], vs[k])]
               /\ g = F[n]
  BY <1>1, <1>4 DEF PutBack
<1> DEFINE S == {k \in Nat : k <= n =>
                   /\ F[k] \in X
                   /\ \A v \in Vars : InHeap(order, v) => InHeap(F[k], v)
                   /\ \A i \in 1..k : vs[i] \in decision => InHeap(F[k], vs[i])}
<1>6. 0 \in S
  <2>1. F[0] = order
    BY <1>1, <1>5
  <2> QED
    BY <1>2, <2>1
<1>7. ASSUME NEW k \in Nat, k \in S PROVE k + 1 \in S
  <2> SUFFICES ASSUME k + 1 <= n
               PROVE  /\ F[k + 1] \in X
                      /\ \A v \in Vars : InHeap(order, v) => InHeap(F[k + 1], v)
                      /\ \A i \in 1..(k + 1) : vs[i] \in decision => InHeap(F[k + 1], vs[i])
    OBVIOUS
  <2>1. /\ F[k] \in X
        /\ \A v \in Vars : InHeap(order, v) => InHeap(F[k], v)
        /\ \A i \in 1..k : vs[i] \in decision => InHeap(F[k], vs[i])
    BY <1>7
  <2> HIDE DEF S
  <2>2. k + 1 \in 0..n /\ k + 1 # 0 /\ k + 1 \in 1..n /\ (k + 1) - 1 = k
    BY <1>1
  <2>3. F[k + 1] = InsertVarOrder(F[k], vs[k + 1])
    BY <1>5, <2>2, Zenon
  <2>4. /\ F[k + 1] \in X
        /\ \A v \in Vars : InHeap(F[k], v) => InHeap(F[k + 1], v)
        /\ vs[k + 1] \in decision => InHeap(F[k + 1], vs[k + 1])
    BY <1>3, <2>1, <2>2, <2>3, Zenon
  <2>5. ASSUME NEW i \in 1..(k + 1), vs[i] \in decision PROVE InHeap(F[k + 1], vs[i])
    <3>1. CASE i = k + 1
      BY <2>4, <2>5, <3>1, Zenon
    <3>2. CASE i # k + 1
      <4>1. i \in 1..k /\ i \in 1..n
        BY <1>1, <3>2
      <4>2. vs[i] \in Vars
        BY <1>1, <4>1
      <4> QED
        BY <2>1, <2>4, <2>5, <4>1, <4>2, Zenon
    <3> QED
      BY <3>1, <3>2, Zenon
  <2> QED
    BY <2>1, <2>4, <2>5, Zenon
<1>8. n \in S
  <2> HIDE DEF S
  <2> QED
    BY <1>1, <1>6, <1>7, SetInduction
<1> QED
  BY <1>1, <1>5, <1>8 DEF X

-----------------------------------------------------------------------------
(* The invariant: the levels are those of the trail, the heap is a heap of *)
(* the activities, and everything that may be decided on is in it.         *)
LevelsInOrder ==
  \A i \in 1..Len(lim) :
    /\ lim[i] <= Len(trail)
    /\ \A j \in 1..Len(lim) : i <= j => lim[i] <= lim[j]

OrderInv ==
  /\ activity \in [Vars -> Nat] /\ varInc \in Nat
  /\ decision \in SUBSET Vars
  /\ trail \in Seq(Vars) /\ lim \in Seq(Nat)
  /\ LevelsInOrder
  /\ IsHeap(order, activity)
  /\ NobodyForgotten

LEMMA OrderInvIsSound == OrderInv => OrderIsSound
<1> SUFFICES ASSUME OrderInv PROVE OrderIsSound
  OBVIOUS
<1>1. Sound(order) /\ OrderedFrom(order, activity, 1) /\ NobodyForgotten
  BY DEF OrderInv, IsHeap
<1>2. PICK len \in Nat : len = Len(order.heap)
  BY <1>1, PlaceFacts
<1>3. ASSUME NEW v \in Vars
      PROVE  /\ InHeap(order, v) => order.indices[v] \in 1..Len(order.heap)
             /\ \A i \in 1..Len(order.heap) : order.indices[v] = i <=> order.heap[i] = v
  <2>1. InHeap(order, v) => order.indices[v] \in 1..Len(order.heap)
    BY <1>1, PlaceFacts
  <2>2. \A i \in 1..Len(order.heap) : order.indices[v] = i <=> order.heap[i] = v
    BY <1>1, Zenon DEF Sound
  <2> QED
    BY <2>1, <2>2
<1>4. ASSUME NEW i \in 2..Len(order.heap)
      PROVE  activity[order.heap[i]] <= activity[order.heap[i \div 2]]
  <2>1. i \div 2 >= 1
    OBVIOUS
  <2> QED
    BY <1>1, <2>1, Zenon DEF OrderedFrom
<1> QED
  BY <1>1, <1>3, <1>4, Zenon DEF OrderIsSound, HeapIsSound

LEMMA AppendFacts ==
  ASSUME NEW s \in Seq(Vars), NEW v \in Vars, NEW t, t = Append(s, v)
  PROVE  /\ t \in Seq(Vars) /\ Len(t) = Len(s) + 1 /\ Last(t) = v
         /\ \A x : x \notin ToSet(t) => x \notin ToSet(s) /\ x # v
<1>1. PICK n \in Nat : n = Len(s)
  OBVIOUS
<1>2. /\ t \in Seq(Vars) /\ Len(t) = n + 1 /\ t[n + 1] = v
      /\ \A i \in 1..n : t[i] = s[i]
  BY <1>1
<1>3. ASSUME NEW x, x \notin ToSet(t) PROVE x \notin ToSet(s) /\ x # v
  <2>1. \A i \in 1..(n + 1) : t[i] # x
    BY <1>2, <1>3 DEF ToSet
  <2>2. \A i \in 1..n : s[i] # x
    BY <1>2, <2>1
  <2>3. n + 1 \in 1..(n + 1)
    BY <1>1
  <2> QED
    BY <1>1, <1>2, <2>1, <2>2, <2>3 DEF ToSet
<1> QED
  BY <1>1, <1>2, <1>3 DEF Last

LEMMA UnassignedIn ==
  ASSUME OrderInv
  PROVE  /\ Unassigned \in SUBSET Vars /\ Unassigned \in SUBSET Nat /\ IsFiniteSet(Unassigned)
         /\ decision \in SUBSET Nat /\ IsFiniteSet(decision)
<1>1. decision \in SUBSET Vars /\ Unassigned \in SUBSET Vars
  BY DEF OrderInv, Unassigned
<1>2. IsFiniteSet(Vars) /\ Vars \in SUBSET Nat
  BY SizesAssumption, FS_Interval DEF Vars
<1> QED
  BY <1>1, <1>2, FS_Subset

LEMMA LevelsAppend ==
  ASSUME trail \in Seq(Vars), lim \in Seq(Nat), LevelsInOrder, NEW v \in Vars,
         trail' = Append(trail, v), lim' = Append(lim, Len(trail))
  PROVE  lim' \in Seq(Nat) /\ LevelsInOrder'
<1>1. PICK n \in Nat : n = Len(lim)
  OBVIOUS
<1>2. /\ lim' \in Seq(Nat) /\ Len(lim') = n + 1 /\ lim'[n + 1] = Len(trail)
      /\ \A i \in 1..n : lim'[i] = lim[i]
  BY <1>1
<1>3. ASSUME NEW i \in 1..(n + 1) PROVE lim'[i] \in Nat /\ lim'[i] <= Len(trail)
  <2>1. CASE i = n + 1
    BY <1>2, <2>1
  <2>2. CASE i # n + 1
    <3>1. i \in 1..n
      BY <2>2
    <3> QED
      BY <1>1, <1>2, <3>1 DEF LevelsInOrder
  <2> QED
    BY <2>1, <2>2
<1>4. ASSUME NEW i \in 1..(n + 1), NEW j \in 1..(n + 1), i <= j PROVE lim'[i] <= lim'[j]
  <2>1. CASE j = n + 1
    BY <1>2, <1>3, <2>1
  <2>2. CASE j # n + 1
    <3>1. i \in 1..n /\ j \in 1..n
      BY <1>4, <2>2
    <3> QED
      BY <1>1, <1>2, <1>4, <3>1 DEF LevelsInOrder
  <2> QED
    BY <2>1, <2>2
<1>5. Len(trail) \in Nat /\ Len(trail') = Len(trail) + 1
  BY AppendFacts
<1>6. ASSUME NEW i \in 1..(n + 1) PROVE lim'[i] <= Len(trail')
  <2>1. PICK a \in Nat : a = lim'[i] /\ a <= Len(trail)
    BY <1>3, Zenon
  <2>2. \A x \in Nat, y \in Nat : x <= y => x <= y + 1
    OBVIOUS
  <2> QED
    BY <1>5, <2>1, <2>2, Zenon
<1> QED
  BY <1>2, <1>4, <1>6 DEF LevelsInOrder

(* A variable is assigned: the heap is not changed.                        *)
LEMMA AssignedInv ==
  ASSUME OrderInv, NEW v \in Vars, trail' = Append(trail, v),
         lim' = lim \/ lim' = Append(lim, Len(trail)),
         UNCHANGED <<order, activity, varInc, decision>>
  PROVE  OrderInv'
<1>1. /\ trail \in Seq(Vars) /\ lim \in Seq(Nat) /\ LevelsInOrder /\ NobodyForgotten
      /\ decision \in SUBSET Vars
  BY DEF OrderInv
<1>2. /\ trail' \in Seq(Vars) /\ Len(trail') = Len(trail) + 1
      /\ \A x : x \notin ToSet(trail') => x \notin ToSet(trail)
  BY <1>1, AppendFacts
<1>3. lim' \in Seq(Nat) /\ LevelsInOrder'
  <2>1. CASE lim' = lim
    BY <1>1, <1>2, <2>1 DEF LevelsInOrder
  <2>2. CASE lim' = Append(lim, Len(trail))
    BY <1>1, <2>2, LevelsAppend
  <2> QED
    BY <2>1, <2>2
<1>4. NobodyForgotten'
  <2>1. Unassigned' \in SUBSET Unassigned
    BY <1>2 DEF Unassigned
  <2>2. \A x \in Unassigned' : InHeap(order, x)
    BY <1>1, <2>1, Zenon DEF NobodyForgotten
  <2>3. order' = order
    OBVIOUS
  <2> QED
    BY <2>2, <2>3 DEF NobodyForgotten, InHeap
<1>5. IsHeap(order', activity')
  BY DEF OrderInv
<1> QED
  BY <1>1, <1>2, <1>3, <1>4, <1>5 DEF OrderInv

(* What is on the trail above a level.                                     *)
LEMMA UndoneFacts ==
  ASSUME OrderInv, NEW l \in 0..(Level - 1)
  PROVE  /\ l + 1 \in 1..Len(lim) /\ lim[l + 1] \in Nat /\ lim[l + 1] <= Len(trail)
         /\ UpTo(l) \in Seq(Vars) /\ Len(UpTo(l)) = lim[l + 1]
         /\ \A i \in 1..lim[l + 1] : UpTo(l)[i] = trail[i]
         /\ Undone(l) \in Seq(Vars)
         /\ \A k \in 1..Len(trail) :
              k > lim[l + 1] => \E i \in 1..Len(Undone(l)) : Undone(l)[i] = trail[k]
<1>1. trail \in Seq(Vars) /\ lim \in Seq(Nat) /\ LevelsInOrder
  BY DEF OrderInv
<1>2. PICK n \in Nat : n = Len(trail)
  BY <1>1
<1>3. l + 1 \in 1..Len(lim) /\ l < Level
  BY <1>1 DEF Level
<1>4. PICK m \in Nat : m = lim[l + 1] /\ m <= n
  BY <1>1, <1>2, <1>3 DEF LevelsInOrder
<1>5. UpTo(l) = SubSeq(trail, 1, m)
  BY <1>3, <1>4 DEF UpTo
<1>6. /\ UpTo(l) \in Seq(Vars) /\ Len(UpTo(l)) = m
      /\ \A i \in 1..m : UpTo(l)[i] = trail[i]
  BY <1>1, <1>2, <1>4, <1>5
<1>7. PICK s : s = SubSeq(trail, m + 1, n)
  OBVIOUS
<1>8. /\ s \in Seq(Vars) /\ Len(s) = n - m
      /\ \A i \in 1..(n - m) : s[i] = trail[m + i]
  <2>1. n <= Len(trail) /\ trail \in Seq(Vars) /\ m \in Nat /\ n \in Nat /\ m <= n
    BY <1>1, <1>2, <1>4
  <2> QED
    <3>1. s \in Seq(Vars)
      BY <1>7, <2>1, PartFacts, SMTT(20)
    <3>2. Len(s) = n - m
      BY <1>7, <2>1, PartFacts, SMTT(20)
    <3>3. \A i \in 1..(n - m) : s[i] = trail[m + i]
      BY <1>7, <2>1, PartFacts, SMTT(20)
    <3> QED
      BY <3>1, <3>2, <3>3, Zenon
<1>9. Undone(l) = [i \in 1..(n - m) |-> s[((n - m) - i) + 1]]
  BY <1>2, <1>6, <1>7, <1>8 DEF Undone, Reverse
<1>10. /\ Undone(l) \in Seq(Vars) /\ Len(Undone(l)) = n - m
       /\ \A i \in 1..(n - m) : Undone(l)[i] = s[((n - m) - i) + 1]
  <2>1. \A i \in 1..(n - m) : ((n - m) - i) + 1 \in 1..(n - m)
    BY <1>2, <1>4
  <2>2. Undone(l) \in [1..(n - m) -> Vars]
    BY <1>8, <1>9, <2>1
  <2>3. n - m \in Nat
    BY <1>4
  <2> QED
    BY <1>9, <2>2, <2>3
<1>11. ASSUME NEW k \in 1..n, k > m PROVE \E i \in 1..(n - m) : Undone(l)[i] = trail[k]
  <2>1. PICK i \in 1..(n - m), j \in 1..(n - m) : i = n - k + 1 /\ j = ((n - m) - i) + 1 /\ m + j = k
    <3>1. n \in Nat /\ m \in Nat /\ m <= n /\ k \in Nat /\ k <= n /\ k > m
      BY <1>2, <1>4, <1>11
    <3>2. n - k + 1 \in 1..(n - m)
      BY <3>1, SMTT(20)
    <3>3. ((n - m) - (n - k + 1)) + 1 = k - m
      BY <3>1, SMTT(20)
    <3>4. k - m \in 1..(n - m) /\ m + (k - m) = k
      BY <3>1, SMTT(20)
    <3> QED
      BY <3>2, <3>3, <3>4, Zenon
  <2>2. Undone(l)[i] = s[j] /\ s[j] = trail[k]
    BY <1>8, <1>10, <2>1
  <2> QED
    BY <2>2
<1> QED
  BY <1>2, <1>3, <1>4, <1>6, <1>10, <1>11

(* Back to a level: some are left assigned, and perhaps one more.          *)
LEMMA CancelInv ==
  ASSUME OrderInv, NEW l \in 0..(Level - 1), CancelUntil(l),
         \/ trail' = UpTo(l)
         \/ \E v \in Vars : trail' = Append(UpTo(l), v),
         varInc' \in Nat, UNCHANGED <<activity, decision>>
  PROVE  OrderInv' /\ Len(lim') = l
<1>1. /\ activity \in [Vars -> Nat] /\ decision \in SUBSET Vars
      /\ trail \in Seq(Vars) /\ lim \in Seq(Nat) /\ LevelsInOrder
      /\ IsHeap(order, activity) /\ NobodyForgotten
  BY DEF OrderInv
<1>2. PICK n \in Nat, m \in Nat : n = Len(trail) /\ m = lim[l + 1] /\ m <= n
  <2>1. Len(trail) \in Nat
    BY <1>1
  <2> QED
    BY <2>1, UndoneFacts, Zenon
<1>3. PICK vs : vs = Undone(l)
  OBVIOUS
<1>4. /\ vs \in Seq(Vars)
      /\ \A k \in 1..n : k > m => \E i \in 1..Len(vs) : vs[i] = trail[k]
  BY <1>2, <1>3, UndoneFacts
<1>5. PICK g : g = order' /\ g = PutBack(vs)
  BY <1>3 DEF CancelUntil
<1>6. /\ IsHeap(g, activity)
      /\ \A v \in Vars : InHeap(order, v) => InHeap(g, v)
      /\ \A i \in 1..Len(vs) : vs[i] \in decision => InHeap(g, vs[i])
  BY <1>1, <1>4, <1>5, PutBackFacts, Zenon
<1>7. PICK s \in Seq(Vars) : s = UpTo(l) /\ Len(s) = m /\ \A i \in 1..m : s[i] = trail[i]
  BY <1>2, UndoneFacts
<1>8. /\ trail' \in Seq(Vars) /\ Len(trail') >= m
      /\ \A x : x \notin ToSet(trail') => x \notin ToSet(s)
  <2>1. CASE trail' = s
    BY <1>2, <1>7, <2>1
  <2>2. ASSUME NEW v \in Vars, trail' = Append(s, v)
        PROVE  /\ trail' \in Seq(Vars) /\ Len(trail') >= m
               /\ \A x : x \notin ToSet(trail') => x \notin ToSet(s)
    <3>1. /\ trail' \in Seq(Vars) /\ Len(trail') = Len(s) + 1
          /\ \A x : x \notin ToSet(trail') => x \notin ToSet(s)
      BY <1>7, <2>2, AppendFacts
    <3> QED
      BY <1>2, <1>7, <3>1
  <2> QED
    BY <1>7, <2>1, <2>2
<1>9. /\ l \in Nat /\ l <= Len(lim) /\ l + 1 \in 1..Len(lim)
      /\ lim' \in Seq(Nat) /\ Len(lim') = l /\ \A i \in 1..l : lim'[i] = lim[i]
  <2>1. PICK d \in Nat : d = Level /\ d = Len(lim) /\ l < d
    BY <1>1 DEF Level
  <2>2. Min({l, d}) = l
    <3>1. {l, d} \in SUBSET Nat /\ {l, d} # {}
      BY <2>1
    <3>2. Min({l, d}) \in {l, d} /\ Min({l, d}) <= l
      BY <3>1, MinIs
    <3> QED
      BY <2>1, <3>2
  <2>3. lim' = SubSeq(lim, 1, l)
    BY <2>1, <2>2 DEF CancelUntil
  <2>4. PICK t : t = lim' /\ t = SubSeq(lim, 0 + 1, l)
    BY <2>3
  <2>5. t \in Seq(Nat) /\ Len(t) = l - 0 /\ \A i \in 1..(l - 0) : t[i] = lim[0 + i]
    <3>1. 0 \in Nat /\ l \in Nat /\ 0 <= l /\ l <= Len(lim)
      BY <2>1
    <3> QED
      BY <1>1, <2>4, <3>1, PartFacts, SMTT(20)
  <2> QED
    BY <2>1, <2>4, <2>5
<1>10. LevelsInOrder'
  <2>1. ASSUME NEW i \in 1..l
        PROVE  lim'[i] <= Len(trail') /\ \A j \in 1..l : i <= j => lim'[i] <= lim'[j]
    <3>1. \A j \in 1..l : j \in 1..Len(lim)
      BY <1>1, <1>9
    <3>2. i <= l + 1
      BY <1>9
    <3>3. lim[i] <= lim[l + 1] /\ \A j \in 1..l : i <= j => lim[i] <= lim[j]
      BY <1>1, <1>9, <3>1, <3>2, Zenon DEF LevelsInOrder
    <3>4. lim[i] \in Nat /\ lim[i] <= m
      <4>1. i \in 1..Len(lim)
        BY <3>1
      <4>2. lim[i] \in Nat
        BY <1>1, <4>1
      <4> QED
        BY <1>2, <3>3, <4>2, Zenon
    <3>5. lim[i] <= Len(trail')
      BY <1>2, <1>8, <3>4
    <3> QED
      BY <1>9, <3>3, <3>5
  <2> QED
    BY <1>9, <2>1 DEF LevelsInOrder
<1>11. NobodyForgotten'
  <2>1. ASSUME NEW x \in decision, x \notin ToSet(trail') PROVE InHeap(g, x)
    <3>1. x \in Vars /\ \A i \in 1..m : s[i] # x
      <4>1. x \notin ToSet(s) /\ DOMAIN s = 1..m
        BY <1>2, <1>7, <1>8, <2>1
      <4> QED
        BY <1>1, <4>1 DEF ToSet
    <3>2. CASE x \in ToSet(trail)
      <4>1. PICK k \in 1..n : trail[k] = x
        BY <1>1, <1>2, <3>2 DEF ToSet
      <4>2. k > m
        <5>1. CASE k <= m
          <6>1. k \in 1..m
            BY <1>2, <5>1
          <6> QED
            BY <1>7, <3>1, <4>1, <6>1, Zenon
        <5> QED
          BY <1>2, <5>1
      <4> QED
        BY <1>4, <1>6, <2>1, <4>1, <4>2, Zenon
    <3>3. CASE x \notin ToSet(trail)
      BY <1>1, <1>6, <2>1, <3>1, <3>3, Zenon DEF NobodyForgotten, Unassigned
    <3> QED
      BY <3>2, <3>3
  <2>2. \A x \in Unassigned' : InHeap(g, x)
    BY <2>1 DEF Unassigned
  <2> QED
    BY <1>5, <2>2 DEF NobodyForgotten, InHeap
<1>12. IsHeap(order', activity')
  BY <1>5, <1>6
<1> QED
  BY <1>1, <1>8, <1>9, <1>10, <1>11, <1>12 DEF OrderInv

LEMMA OrderInitInv == OrderInit => OrderInv
<1> SUFFICES ASSUME OrderInit PROVE OrderInv
  OBVIOUS
<1>1. decision \in SUBSET Vars
  BY DEF OrderInit
<1>2. activity \in [Vars -> Nat] /\ varInc \in Nat
  BY DEF OrderInit
<1>3. decision \in SUBSET Nat /\ IsFiniteSet(decision)
  <2>1. IsFiniteSet(Vars) /\ Vars \in SUBSET Nat
    BY SizesAssumption, FS_Interval DEF Vars
  <2> QED
    BY <1>1, <2>1, FS_Subset
<1>4. PICK ns : ns = Ascending(decision)
  OBVIOUS
<1>5. /\ ns \in Seq(Vars)
      /\ \A x \in decision : \E i \in 1..Len(ns) : ns[i] = x
      /\ \A i \in 1..Len(ns), j \in 1..Len(ns) : ns[i] = ns[j] => i = j
  <2>1. PICK n : n = Cardinality(decision)
    OBVIOUS
  <2>2. /\ ns \in Seq(decision) /\ Len(ns) = n
        /\ \A x \in decision : \E i \in 1..n : ns[i] = x
        /\ \A i \in 1..n, j \in 1..n : ns[i] = ns[j] => i = j
    BY <1>3, <1>4, <2>1, AscendingFacts, Zenon
  <2>3. ns \in Seq(Vars)
    BY <1>1, <2>2
  <2> QED
    BY <2>2, <2>3
<1>6. order = Build(ns, activity)
  BY <1>4 DEF OrderInit
<1>7. /\ IsHeap(order, activity)
      /\ \A v \in Vars : InHeap(order, v) <=> \E i \in 1..Len(ns) : ns[i] = v
  BY <1>2, <1>5, <1>6, BuildFacts, Zenon
<1>8. NobodyForgotten
  BY <1>1, <1>5, <1>7, Zenon DEF NobodyForgotten, Unassigned
<1>9. trail \in Seq(Vars) /\ lim \in Seq(Nat) /\ LevelsInOrder
  BY DEF OrderInit, LevelsInOrder
<1> QED
  BY <1>1, <1>2, <1>7, <1>8, <1>9 DEF OrderInv

LEMMA OrderStutterInv == OrderInv /\ UNCHANGED <<order, activity, varInc, decision, trail, lim>> => OrderInv'
<1> SUFFICES ASSUME OrderInv, UNCHANGED <<order, activity, varInc, decision, trail, lim>>
             PROVE  OrderInv'
  OBVIOUS
<1>1. LevelsInOrder'
  BY DEF OrderInv, LevelsInOrder
<1>2. NobodyForgotten'
  BY DEF OrderInv, NobodyForgotten, Unassigned, InHeap
<1> QED
  BY <1>1, <1>2 DEF OrderInv

LEMMA PropagateInv == OrderInv /\ Propagate => OrderInv'
<1> SUFFICES ASSUME OrderInv, Propagate PROVE OrderInv'
  OBVIOUS
<1>1. PICK v \in Vars : trail' = Append(trail, v)
  BY UnassignedIn DEF Propagate
<1> QED
  BY <1>1, AssignedInv DEF Propagate

LEMMA AssumeInv == OrderInv /\ Assume => OrderInv'
<1> SUFFICES ASSUME OrderInv, Assume PROVE OrderInv'
  OBVIOUS
<1>1. PICK v \in Vars : trail' = Append(trail, v)
  BY UnassignedIn DEF Assume
<1> QED
  BY <1>1, AssignedInv DEF Assume

LEMMA DecideRandomlyInv == OrderInv /\ DecideRandomly => OrderInv'
<1> SUFFICES ASSUME OrderInv, DecideRandomly PROVE OrderInv'
  OBVIOUS
<1>1. PICK v \in Vars : trail' = Append(trail, v)
  BY UnassignedIn DEF DecideRandomly
<1> QED
  BY <1>1, AssignedInv DEF DecideRandomly

(* What is taken off is decided on, or was not to be.                      *)
LEMMA DecideInv == OrderInv /\ Decide => OrderInv'
<1> SUFFICES ASSUME OrderInv, Decide PROVE OrderInv'
  OBVIOUS
<1>1. /\ activity \in [Vars -> Nat] /\ decision \in SUBSET Vars
      /\ trail \in Seq(Vars) /\ lim \in Seq(Nat) /\ LevelsInOrder
      /\ IsHeap(order, activity) /\ NobodyForgotten
  BY DEF OrderInv
<1>2. PICK x : x = order.heap[1]
  OBVIOUS
<1>3. PICK g : g = order' /\ g = RemoveMin(order, activity) /\ order.heap # <<>>
  BY DEF Decide
<1>4. /\ IsHeap(g, activity)
      /\ \A v \in Vars : InHeap(g, v) <=> InHeap(order, v) /\ v # x
  BY <1>1, <1>2, <1>3, RemoveMinFacts, Zenon
<1>5. \/ x \in Unassigned /\ trail' = Append(trail, x) /\ lim' = Append(lim, Len(trail))
      \/ x \notin Unassigned /\ UNCHANGED <<trail, lim>>
  BY <1>2 DEF Decide, Picks
<1>6. UNCHANGED <<activity, varInc, decision>>
  BY DEF Decide
<1>7. IsHeap(order', activity')
  BY <1>3, <1>4, <1>6
<1>8. CASE x \in Unassigned /\ trail' = Append(trail, x) /\ lim' = Append(lim, Len(trail))
  <2>1. x \in Vars
    BY <1>8, UnassignedIn
  <2>2. /\ trail' \in Seq(Vars)
        /\ \A y : y \notin ToSet(trail') => y \notin ToSet(trail) /\ y # x
    BY <1>1, <1>8, <2>1, AppendFacts
  <2>3. lim' \in Seq(Nat) /\ LevelsInOrder'
    BY <1>1, <1>8, <2>1, LevelsAppend
  <2>4. NobodyForgotten'
    <3>1. \A y \in Unassigned' : y \in Unassigned /\ y # x /\ y \in Vars
      BY <1>1, <1>6, <2>2 DEF Unassigned
    <3>2. \A y \in Unassigned' : InHeap(g, y)
      BY <1>1, <1>4, <3>1, Zenon DEF NobodyForgotten
    <3> QED
      BY <1>3, <3>2 DEF NobodyForgotten, InHeap
  <2> QED
    BY <1>1, <1>6, <1>7, <2>2, <2>3, <2>4 DEF OrderInv
<1>9. CASE x \notin Unassigned /\ UNCHANGED <<trail, lim>>
  <2>1. LevelsInOrder'
    BY <1>1, <1>9 DEF LevelsInOrder
  <2>2. NobodyForgotten'
    <3>1. \A y \in Unassigned' : y \in Unassigned /\ y # x /\ y \in Vars
      BY <1>1, <1>6, <1>9 DEF Unassigned
    <3>2. \A y \in Unassigned' : InHeap(g, y)
      BY <1>1, <1>4, <3>1, Zenon DEF NobodyForgotten
    <3> QED
      BY <1>3, <3>2 DEF NobodyForgotten, InHeap
  <2> QED
    BY <1>1, <1>6, <1>7, <1>9, <2>1, <2>2 DEF OrderInv
<1> QED
  BY <1>5, <1>8, <1>9

-----------------------------------------------------------------------------
(* Activities that are scaled keep their order.                            *)
LEMMA RescaledFacts ==
  ASSUME NEW act \in [Vars -> Nat]
  PROVE  /\ Rescaled(act) \in [Vars -> Nat]
         /\ \A x \in Vars, y \in Vars : act[x] <= act[y] => Rescaled(act)[x] <= Rescaled(act)[y]
<1>1. \A x \in Nat, y \in Nat : x \div Huge \in Nat /\ (x <= y => x \div Huge <= y \div Huge)
  BY SizesAssumption
<1>2. \A x \in Vars : act[x] \in Nat /\ Rescaled(act)[x] = act[x] \div Huge
  BY DEF Rescaled
<1>3. Rescaled(act) \in [Vars -> Nat]
  BY <1>1 DEF Rescaled
<1>4. ASSUME NEW x \in Vars, NEW y \in Vars, act[x] <= act[y]
      PROVE  Rescaled(act)[x] <= Rescaled(act)[y]
  BY <1>1, <1>2, <1>4, Zenon
<1> QED
  BY <1>3, <1>4, Zenon

LEMMA OrderIsKept ==
  ASSUME NEW h, Sound(h), NEW act, NEW new, NEW n \in Vars,
         \A x \in Vars, y \in Vars : act[x] <= act[y] => new[x] <= new[y]
  PROVE  /\ ButUp(h, act, n) => ButUp(h, new, n)
         /\ OrderedFrom(h, act, 1) => OrderedFrom(h, new, 1)
<1>1. PICK len \in Nat : len = Len(h.heap) /\ \A i \in 1..len : h.heap[i] \in Vars
  BY PlaceFacts
<1>2. ASSUME NEW j \in 2..len
      PROVE  h.heap[j] \in Vars /\ h.heap[j \div 2] \in Vars
  <2>1. j \in 1..len /\ j \div 2 \in 1..len
    BY <1>1
  <2> QED
    BY <1>1, <2>1
<1>3. ASSUME OrderedFrom(h, act, 1) PROVE OrderedFrom(h, new, 1)
  BY <1>1, <1>2, <1>3, Zenon DEF OrderedFrom
<1>4. ASSUME ButUp(h, act, n) PROVE ButUp(h, new, n)
  <2>1. ASSUME NEW j \in 2..len, j # h.indices[n]
        PROVE  new[h.heap[j]] <= new[h.heap[j \div 2]]
    BY <1>1, <1>2, <1>4, <2>1, Zenon DEF ButUp
  <2>2. ASSUME NEW j \in 2..len, j \div 2 = h.indices[n], h.indices[n] > 1
        PROVE  new[h.heap[j]] <= new[h.heap[h.indices[n] \div 2]]
    <3>1. h.indices[n] \in 2..len
      <4>1. j \div 2 \in Nat /\ j \div 2 <= len
        BY <1>1
      <4> QED
        BY <1>1, <2>2, <4>1
    <3>2. act[h.heap[j]] <= act[h.heap[h.indices[n] \div 2]]
      BY <1>1, <1>4, <2>2, Zenon DEF ButUp
    <3> QED
      BY <1>2, <3>1, <3>2, Zenon
  <2> QED
    BY <1>1, <2>1, <2>2, Zenon DEF ButUp
<1> QED
  BY <1>3, <1>4

(* A variable whose activity grows may be out of order, no other is.       *)
LEMMA GrownFacts ==
  ASSUME NEW act \in [Vars -> Nat], NEW h, IsHeap(h, act), NEW n \in Vars, NEW new \in [Vars -> Nat],
         new[n] >= act[n], \A v \in Vars : v # n => new[v] = act[v]
  PROVE  /\ InHeap(h, n) => ButUp(h, new, n)
         /\ ~InHeap(h, n) => OrderedFrom(h, new, 1)
<1>1. Sound(h) /\ OrderedFrom(h, act, 1)
  BY DEF IsHeap
<1>2. PICK len \in Nat : len = Len(h.heap)
  BY <1>1, PlaceFacts
<1>3. PICK A \in [1..len -> Nat] : \A i \in 1..len : A[i] = act[h.heap[i]]
  BY <1>1, <1>2, ActivityAt
<1>4. PICK B \in [1..len -> Nat] : \A i \in 1..len : B[i] = new[h.heap[i]]
  BY <1>1, <1>2, ActivityAt
<1>5. ASSUME NEW j \in 2..len
      PROVE  j \in 1..len /\ j \div 2 \in 1..len /\ j \div 2 < j /\ A[j] <= A[j \div 2]
  <2>1. j \in 1..len /\ j \div 2 \in 1..len /\ j \div 2 < j /\ j \div 2 >= 1
    BY <1>2
  <2>2. act[h.heap[j]] <= act[h.heap[j \div 2]]
    BY <1>1, <1>2, <2>1, Zenon DEF OrderedFrom
  <2> QED
    BY <1>3, <2>1, <2>2
<1>6. ASSUME NEW i \in 1..len
      PROVE  /\ h.indices[n] # i => B[i] = A[i]
             /\ B[i] >= A[i]
  <2>1. PICK x \in Vars : x = h.heap[i] /\ h.indices[x] = i
    BY <1>1, <1>2, PlaceFacts
  <2>2. A[i] = act[x] /\ B[i] = new[x] /\ A[i] \in Nat /\ B[i] \in Nat
    BY <1>3, <1>4, <2>1
  <2>3. CASE x = n
    BY <2>1, <2>2, <2>3
  <2>4. CASE x # n
    BY <2>1, <2>2, <2>4
  <2> QED
    BY <2>3, <2>4
<1>7. ASSUME NEW j \in 2..len, j # h.indices[n]
      PROVE  new[h.heap[j]] <= new[h.heap[j \div 2]]
  <2>1. PICK i \in 1..len : i = j \div 2 /\ A[j] <= A[i] /\ j \in 1..len
    BY <1>5
  <2>2. B[j] = A[j] /\ B[i] >= A[i]
    BY <1>6, <1>7, <2>1
  <2>3. B[j] <= B[i]
    <3>1. A[i] \in Nat /\ A[j] \in Nat /\ B[i] \in Nat
      BY <1>3, <1>4, <2>1
    <3> QED
      BY <2>1, <2>2, <3>1
  <2> QED
    BY <1>4, <2>1, <2>3, Zenon
<1>8. ASSUME InHeap(h, n) PROVE ButUp(h, new, n)
  <2>1. PICK p \in 1..len : p = h.indices[n]
    BY <1>1, <1>2, <1>8, PlaceFacts
  <2>2. ASSUME NEW j \in 2..len, j \div 2 = p, p > 1
        PROVE  new[h.heap[j]] <= new[h.heap[p \div 2]]
    <3>1. PICK i \in 1..len : i = p \div 2 /\ i # p /\ A[p] <= A[i]
      <4>1. p \in 2..len
        BY <2>2
      <4>2. p \div 2 \in 1..len /\ p \div 2 < p /\ A[p] <= A[p \div 2]
        BY <1>5, <4>1
      <4> QED
        BY <4>2
    <3>2. j \in 1..len /\ j # p /\ A[j] <= A[p]
      <4>1. j \in 1..len /\ p < j /\ A[j] <= A[p]
        BY <1>5, <2>2, Zenon
      <4> QED
        BY <2>1, <4>1
    <3>3. B[j] = A[j] /\ B[i] = A[i]
      BY <1>6, <2>1, <3>1, <3>2
    <3>4. B[j] <= B[i]
      <4>1. A[i] \in Nat /\ A[j] \in Nat /\ A[p] \in Nat
        BY <1>3, <2>1, <3>1, <3>2
      <4> QED
        BY <3>1, <3>2, <3>3, <4>1
    <3> QED
      BY <1>4, <3>1, <3>2, <3>4, Zenon
  <2> QED
    BY <1>2, <1>7, <2>1, <2>2, Zenon DEF ButUp
<1>9. ASSUME ~InHeap(h, n) PROVE OrderedFrom(h, new, 1)
  <2>1. \A j \in 2..len : j # h.indices[n]
    BY <1>9 DEF InHeap
  <2> QED
    BY <1>2, <1>7, <2>1, Zenon DEF OrderedFrom
<1> QED
  BY <1>8, <1>9

(* A bump: the variable is moved up, and with scaled activities as well.   *)
LEMMA BumpInv == OrderInv /\ Bump => OrderInv'
<1> SUFFICES ASSUME OrderInv, Bump PROVE OrderInv'
  OBVIOUS
<1>1. /\ activity \in [Vars -> Nat] /\ varInc \in Nat /\ decision \in SUBSET Vars
      /\ trail \in Seq(Vars) /\ lim \in Seq(Nat) /\ LevelsInOrder
      /\ IsHeap(order, activity) /\ NobodyForgotten
  BY DEF OrderInv
<1>2. PICK v \in ToSet(trail) \ ToSet(UpTo(0)) :
        LET act == [activity EXCEPT ![v] = @ + varInc] IN
        /\ IF act[v] > Huge
           THEN activity' = Rescaled(act) /\ varInc' = Max({1, varInc \div Huge})
           ELSE activity' = act /\ UNCHANGED varInc
        /\ order' = IF InHeap(order, v) THEN PercolateUp(order, activity', v) ELSE order
  BY Zenon DEF Bump
<1>3. v \in Vars
  BY <1>1 DEF ToSet
<1>4. PICK act \in [Vars -> Nat] : /\ act = [activity EXCEPT ![v] = @ + varInc]
                                   /\ act[v] >= activity[v]
                                   /\ \A x \in Vars : x # v => act[x] = activity[x]
  <2>1. PICK a \in Nat, s \in Nat : a = activity[v] /\ s = activity[v] + varInc /\ s >= a
    <3>1. activity[v] \in Nat
      BY <1>1, <1>3
    <3> QED
      BY <1>1, <3>1
  <2>2. PICK act : act = [activity EXCEPT ![v] = @ + varInc]
    OBVIOUS
  <2>3. act = [activity EXCEPT ![v] = s]
    BY <2>1, <2>2
  <2>4. /\ act \in [Vars -> Nat] /\ act[v] = s
        /\ \A x \in Vars : x # v => act[x] = activity[x]
    BY <1>1, <1>3, <2>1, <2>3
  <2> QED
    BY <2>1, <2>2, <2>4, Zenon
<1>5. PICK new, g : /\ new = activity' /\ g = order'
                    /\ \/ new = Rescaled(act) /\ varInc' = Max({1, varInc \div Huge})
                       \/ new = act /\ varInc' = varInc
                    /\ g = IF InHeap(order, v) THEN PercolateUp(order, new, v) ELSE order
  BY <1>2, <1>4
<1>6. new \in [Vars -> Nat] /\ \A x \in Vars, y \in Vars : act[x] <= act[y] => new[x] <= new[y]
  BY <1>5, RescaledFacts, Zenon
<1>7. varInc' \in Nat
  <2>1. PICK k \in Nat : k = varInc \div Huge
    <3>1. \A x \in Nat : x \div Huge \in Nat
      BY SizesAssumption
    <3> QED
      BY <1>1, <3>1, Zenon
  <2>2. {1, k} \in SUBSET (0..(k + 1)) /\ {1, k} # {} /\ k + 1 \in Nat
    BY <2>1
  <2>3. Max({1, k}) \in {1, k}
    BY <2>2, MaxIs, Zenon
  <2> QED
    BY <1>1, <1>5, <2>1, <2>3
<1>8. Sound(order)
  BY <1>1 DEF IsHeap
<1>9. /\ InHeap(order, v) => ButUp(order, new, v)
      /\ ~InHeap(order, v) => OrderedFrom(order, new, 1)
  <2>1. /\ InHeap(order, v) => ButUp(order, act, v)
        /\ ~InHeap(order, v) => OrderedFrom(order, act, 1)
    BY <1>1, <1>3, <1>4, GrownFacts, Zenon
  <2> QED
    BY <1>3, <1>6, <1>8, <2>1, OrderIsKept, Zenon
<1>10. IsHeap(g, new) /\ SameVars(order, g)
  <2>1. CASE InHeap(order, v)
    <3>1. g = PercolateUp(order, new, v)
      BY <1>5, <2>1
    <3> QED
      BY <1>3, <1>6, <1>8, <1>9, <2>1, <3>1, PercolateUpFacts, Zenon
  <2>2. CASE ~InHeap(order, v)
    <3>1. g = order
      BY <1>5, <2>2
    <3> QED
      BY <1>8, <1>9, <2>2, <3>1 DEF IsHeap, SameVars
  <2> QED
    BY <2>1, <2>2
<1>11. UNCHANGED <<decision, trail, lim>>
  BY DEF Bump
<1>12. LevelsInOrder'
  BY <1>1, <1>11 DEF LevelsInOrder
<1>13. NobodyForgotten'
  <2>1. Unassigned' = Unassigned /\ Unassigned \in SUBSET Vars
    BY <1>1, <1>11 DEF Unassigned
  <2>2. \A x \in Unassigned' : InHeap(g, x)
    BY <1>1, <1>10, <2>1 DEF NobodyForgotten, SameVars
  <2> QED
    BY <1>5, <2>2 DEF NobodyForgotten, InHeap
<1>14. IsHeap(order', activity')
  BY <1>5, <1>10
<1> QED
  BY <1>1, <1>5, <1>6, <1>7, <1>11, <1>12, <1>13, <1>14 DEF OrderInv

LEMMA BackjumpInv == OrderInv /\ Backjump => OrderInv' /\ Len(lim') <= Level
<1> SUFFICES ASSUME OrderInv, Backjump PROVE OrderInv' /\ Len(lim') <= Level
  OBVIOUS
<1>1. trail \in Seq(Vars) /\ lim \in Seq(Nat) /\ varInc \in Nat
  BY DEF OrderInv
<1>2. PICK l \in 0..(Level - 1) :
        /\ CancelUntil(l)
        /\ \E v \in ToSet(trail) \ ToSet(UpTo(Level - 1)) : trail' = Append(UpTo(l), v)
  BY DEF Backjump
<1>3. \E v \in Vars : trail' = Append(UpTo(l), v)
  <2>1. \A v \in ToSet(trail) : v \in Vars
    BY <1>1 DEF ToSet
  <2> QED
    BY <1>2, <2>1
<1>4. varInc' \in Nat /\ UNCHANGED <<activity, decision>>
  <2>1. varInc * Growth \in Nat
    BY <1>1, SizesAssumption
  <2> QED
    BY <2>1 DEF Backjump
<1>5. OrderInv' /\ Len(lim') = l
  BY <1>2, <1>3, <1>4, CancelInv
<1>6. l <= Level
  BY <1>1, <1>2 DEF Level
<1> QED
  BY <1>5, <1>6

LEMMA RestartInv == OrderInv /\ Restart => OrderInv' /\ Len(lim') <= Level
<1> SUFFICES ASSUME OrderInv, Restart PROVE OrderInv' /\ Len(lim') <= Level
  OBVIOUS
<1>1. lim \in Seq(Nat) /\ varInc \in Nat
  BY DEF OrderInv
<1>2. PICK l \in 0..(Level - 1) : CancelUntil(l) /\ trail' = UpTo(l)
  BY DEF Restart
<1>3. varInc' \in Nat /\ UNCHANGED <<activity, decision>>
  BY <1>1 DEF Restart
<1>4. OrderInv' /\ Len(lim') = l
  BY <1>2, <1>3, CancelInv
<1>5. l <= Level
  BY <1>1, <1>2 DEF Level
<1> QED
  BY <1>4, <1>5

LEMMA RebuildInv == OrderInv /\ RebuildOrderHeap => OrderInv'
<1> SUFFICES ASSUME OrderInv, RebuildOrderHeap PROVE OrderInv'
  OBVIOUS
<1>1. /\ activity \in [Vars -> Nat] /\ LevelsInOrder
      /\ UNCHANGED <<activity, varInc, decision, trail, lim>>
  BY DEF OrderInv, RebuildOrderHeap
<1>2. /\ Unassigned \in SUBSET Vars /\ Unassigned \in SUBSET Nat /\ IsFiniteSet(Unassigned)
  BY UnassignedIn
<1>3. PICK ns : ns = Ascending(Unassigned)
  OBVIOUS
<1>4. /\ ns \in Seq(Vars)
      /\ \A x \in Unassigned : \E i \in 1..Len(ns) : ns[i] = x
      /\ \A i \in 1..Len(ns), j \in 1..Len(ns) : ns[i] = ns[j] => i = j
  <2>1. PICK U : U = Unassigned
    OBVIOUS
  <2>2. PICK n : n = Cardinality(U)
    OBVIOUS
  <2>3. /\ ns \in Seq(U) /\ Len(ns) = n
        /\ \A x \in U : \E i \in 1..n : ns[i] = x
        /\ \A i \in 1..n, j \in 1..n : ns[i] = ns[j] => i = j
    BY <1>2, <1>3, <2>1, <2>2, AscendingFacts, Zenon
  <2>4. ns \in Seq(Vars)
    <3>1. U \in SUBSET Vars
      BY <1>2, <2>1, Zenon
    <3> QED
      BY <2>3, <3>1
  <2> QED
    BY <2>1, <2>3, <2>4
<1>5. PICK g : g = order' /\ g = Build(ns, activity)
  BY <1>3 DEF RebuildOrderHeap
<1>6. /\ IsHeap(g, activity)
      /\ \A v \in Vars : InHeap(g, v) <=> \E i \in 1..Len(ns) : ns[i] = v
  BY <1>1, <1>4, <1>5, BuildFacts, Zenon
<1>7. LevelsInOrder'
  BY <1>1 DEF LevelsInOrder
<1>8. NobodyForgotten'
  <2>1. Unassigned' = Unassigned
    BY <1>1 DEF Unassigned
  <2>2. \A x \in Unassigned' : InHeap(g, x)
    BY <1>2, <1>4, <1>6, <2>1
  <2> QED
    BY <1>5, <2>2 DEF NobodyForgotten, InHeap
<1>9. IsHeap(order', activity')
  BY <1>1, <1>5, <1>6
<1> QED
  BY <1>1, <1>7, <1>8, <1>9 DEF OrderInv

LEMMA OrderNextInv == OrderInv /\ [OrderNext]_orderVars => OrderInv'
<1> SUFFICES ASSUME OrderInv, [OrderNext]_orderVars PROVE OrderInv'
  OBVIOUS
<1>1. CASE Propagate
  BY <1>1, PropagateInv
<1>2. CASE Assume
  BY <1>2, AssumeInv
<1>3. CASE DecideRandomly
  BY <1>3, DecideRandomlyInv
<1>4. CASE Decide
  BY <1>4, DecideInv
<1>5. CASE Model
  BY <1>5, OrderStutterInv DEF Model
<1>6. CASE Conflict
  BY <1>6, OrderStutterInv DEF Conflict
<1>7. CASE Bump
  BY <1>7, BumpInv
<1>8. CASE Backjump
  BY <1>8, BackjumpInv
<1>9. CASE Restart
  BY <1>9, RestartInv
<1>10. CASE RebuildOrderHeap
  BY <1>10, RebuildInv
<1>11. CASE UNCHANGED orderVars
  BY <1>11, OrderStutterInv DEF orderVars
<1> QED
  BY <1>1, <1>2, <1>3, <1>4, <1>5, <1>6, <1>7, <1>8, <1>9, <1>10, <1>11 DEF OrderNext

LEMMA OrderInductiveInvariant == OrderSpec => []OrderInv
<1>1. OrderInit => OrderInv
  BY OrderInitInv
<1>2. OrderInv /\ [OrderNext]_orderVars => OrderInv'
  BY OrderNextInv
<1> QED
  BY <1>1, <1>2, PTL DEF OrderSpec

(* The order heap is a heap of the activities with exact indices, and      *)
(* every unassigned variable that may be decided on is in it (Heap.h;      *)
(* cancelUntil, pickBranchLit, varBumpActivity and rebuildOrderHeap of     *)
(* Solver.cc), for any number of variables and without the bounds of TLC.  *)
THEOREM OrderIsAlwaysSound == OrderSpec => []OrderIsSound
<1>1. OrderInv => OrderIsSound
  BY OrderInvIsSound
<1> QED
  BY <1>1, OrderInductiveInvariant, PTL

(* Only a decision takes from the heap and opens a level.                  *)
LEMMA BestIsPickedByStep ==
  ASSUME OrderInv, [OrderNext]_orderVars, order'.heap # order.heap, Len(lim') > Level
  PROVE  \A v \in Unassigned : activity[v] <= activity[Last(trail')]
<1>1. /\ activity \in [Vars -> Nat] /\ trail \in Seq(Vars) /\ lim \in Seq(Nat)
      /\ IsHeap(order, activity) /\ NobodyForgotten /\ Unassigned \in SUBSET Vars
  BY UnassignedIn DEF OrderInv
<1>2. order' # order /\ lim' # lim
  BY <1>1 DEF Level
<1>3. ~(Len(lim') <= Level)
  <2>1. Len(lim') \in Nat /\ Level \in Nat
    BY <1>1, OrderNextInv DEF OrderInv, Level
  <2> QED
    BY <2>1
<1>4. Decide
  BY <1>2, <1>3, BackjumpInv, RestartInv
     DEF OrderNext, orderVars, Propagate, Assume, DecideRandomly, Model, Conflict, Bump,
         RebuildOrderHeap
<1>5. PICK x : x = order.heap[1] /\ x \in Unassigned /\ trail' = Append(trail, x)
  BY <1>2, <1>4 DEF Decide, Picks
<1>6. Last(trail') = x
  <2>1. x \in Vars
    BY <1>1, <1>5
  <2>2. PICK q \in Seq(Vars) : q = trail
    BY <1>1
  <2>3. PICK t : t = trail' /\ t = Append(q, x)
    BY <1>5, <2>2
  <2>4. Last(t) = x
    BY <2>1, <2>2, <2>3, AppendFacts
  <2> QED
    BY <2>3, <2>4
<1>7. ASSUME NEW v \in Unassigned PROVE activity[v] <= activity[x]
  <2>1. v \in Vars /\ InHeap(order, v)
    BY <1>1 DEF NobodyForgotten
  <2> QED
    BY <1>1, <1>5, <2>1, RootIsMostActive
<1> QED
  BY <1>6, <1>7

(* A decision that is not random is on a most active variable of all that  *)
(* are unassigned and may be decided on (pickBranchLit).                   *)
THEOREM TheBestIsAlwaysPicked == OrderSpec => BestIsPicked
<1>1. OrderInv /\ [OrderNext]_orderVars
        => [order'.heap # order.heap /\ Len(lim') > Level =>
              \A v \in Unassigned : activity[v] <= activity[Last(trail')]]_orderVars
  BY BestIsPickedByStep
<1> QED
  BY <1>1, OrderInductiveInvariant, PTL DEF OrderSpec, BestIsPicked
=============================================================================
