-------------------------------- MODULE Units --------------------------------
(***************************************************************************)
(* Unit clauses between the threads of a worker (SharedCompanion: a list,  *)
(* a mutex, and a cursor per thread) and between workers (sendUL, called   *)
(* with the mutex held, and the thread of a worker that receives).         *)
(*                                                                         *)
(* MPI keeps up to Room messages from a worker to another; a send waits    *)
(* when there is no room.  With Room = 0 it waits for a posted receive.    *)
(***************************************************************************)
EXTENDS Integers, Sequences, FiniteSets, SequencesExt

CONSTANTS
  NbWorkers, MaxVar,
  NbThreads,  \* of each worker
  Room,       \* what MPI buffers
  Formulas    \* each as the set of unit clauses that follow from it

ASSUME SizesAssumption ==
  /\ NbWorkers \in Nat /\ NbThreads \in [0..(NbWorkers - 1) -> Nat] /\ MaxVar \in Nat /\ Room \in Nat
  /\ \A f \in Formulas : f \subseteq -MaxVar..MaxVar

Workers == 0..(NbWorkers - 1)
Threads(w) == 1..NbThreads[w]
Vars == 1..MaxVar
Var(l) == IF l < 0 THEN -l ELSE l
None == 0

VARIABLES
  formula,
  unitLit,   \* the list of a worker; isUnary has the variables on it
  nextUnit,  \* how many of them a thread has taken
  level0,    \* what is true at level 0 for a thread
  holder,    \* the thread that sends, with the mutex
  sending,   \* its literal, and the workers it has yet to send to
  network,   \* messages from a worker to another, oldest first
  received   \* what the listener of a worker took, None when it waits

vars == <<formula, unitLit, nextUnit, level0, holder, sending, network, received>>

Init ==
  /\ formula \in Formulas
  /\ unitLit = [w \in Workers |-> <<>>]
  /\ nextUnit = [w \in Workers |-> [t \in Threads(w) |-> 0]]
  /\ level0 = [w \in Workers |-> [t \in Threads(w) |-> {}]]
  /\ holder = [w \in Workers |-> None]
  /\ sending = [w \in Workers |-> [lit |-> None, to |-> {}]]
  /\ network = [f \in Workers |-> [w \in Workers |-> <<>>]]
  /\ received = [w \in Workers |-> None]

-----------------------------------------------------------------------------
IsUnary(w, v) == \E i \in DOMAIN unitLit[w] : Var(unitLit[w][i]) = v
Assigned(w, t, v) == {v, -v} \cap level0[w][t] # {}

(* Faulty: the workers of lower rank only.                                 *)
LowerRanks(w) == {u \in Workers : u < w}
(* The two loops of sendUL.                                                *)
Targets(w) == Workers \ {w}

(* A thread learns a unit at a conflict, is at level 0 then, and exports   *)
(* it: addLearnt, up to the first send.                                    *)
Learn(w, t) ==
  /\ holder[w] = None
  /\ \E l \in formula :
       /\ ~Assigned(w, t, Var(l))
       /\ level0' = [level0 EXCEPT ![w][t] = @ \cup {l}]
       /\ IF IsUnary(w, Var(l)) THEN UNCHANGED <<unitLit, holder, sending>>
          ELSE /\ unitLit' = [unitLit EXCEPT ![w] = Append(@, l)]
               /\ holder' = [holder EXCEPT ![w] = t]
               /\ sending' = [sending EXCEPT ![w] = [lit |-> l, to |-> Targets(w)]]
  /\ UNCHANGED <<formula, nextUnit, network, received>>

(* One MPI_Send, to the lowest rank left.                                  *)
SendUL(w) ==
  /\ holder[w] # None /\ sending[w].to # {}
  /\ LET u == CHOOSE u \in sending[w].to : \A x \in sending[w].to : u <= x IN
     /\ sending' = [sending EXCEPT ![w].to = @ \ {u}]
     /\ \/ /\ Len(network[w][u]) < Room
           /\ network' = [network EXCEPT ![w][u] = Append(@, sending[w].lit)]
           /\ UNCHANGED received
        \/ /\ Room = 0 /\ received[u] = None
           /\ received' = [received EXCEPT ![u] = sending[w].lit]
           /\ UNCHANGED network
  /\ UNCHANGED <<formula, unitLit, nextUnit, level0, holder>>

Unlock(w) ==
  /\ holder[w] # None /\ sending[w].to = {}
  /\ holder' = [holder EXCEPT ![w] = None]
  /\ sending' = [sending EXCEPT ![w].lit = None]
  /\ UNCHANGED <<formula, unitLit, nextUnit, level0, network, received>>

-----------------------------------------------------------------------------
(* The listener.                                                           *)
Receive(w, f) ==
  /\ received[w] = None /\ network[f][w] # <<>>
  /\ received' = [received EXCEPT ![w] = Head(network[f][w])]
  /\ network' = [network EXCEPT ![f][w] = Tail(@)]
  /\ UNCHANGED <<formula, unitLit, nextUnit, level0, holder, sending>>

(* addLearntHightLevel.  A literal of a variable that is on the list is    *)
(* dropped, whatever its sign.                                             *)
AddLearntHightLevel(w) ==
  /\ received[w] # None /\ holder[w] = None
  /\ IF IsUnary(w, Var(received[w])) THEN UNCHANGED unitLit
     ELSE unitLit' = [unitLit EXCEPT ![w] = Append(@, received[w])]
  /\ received' = [received EXCEPT ![w] = None]
  /\ UNCHANGED <<formula, nextUnit, level0, holder, sending, network>>

-----------------------------------------------------------------------------
(* Faulty: the newest unit waits for one more.                             *)
AllButNewest(w) == Len(unitLit[w]) - 1
(* unitLit.size().                                                         *)
NbUnits(w) == Len(unitLit[w])

(* A thread comes to level 0: parallelImportUnaryClauses, a getUnary after *)
(* another until there is none.  What is pushed between two of them is     *)
(* taken as if it had been there at first.                                 *)
Import(w, t) ==
  /\ holder[w] = None /\ nextUnit[w][t] < NbUnits(w)
  /\ nextUnit' = [nextUnit EXCEPT ![w][t] = NbUnits(w)]
  /\ level0' = [level0 EXCEPT ![w][t] = @ \cup
       {l \in ToSet(SubSeq(unitLit[w], nextUnit[w][t] + 1, NbUnits(w))) :
          ~Assigned(w, t, Var(l))}]
  /\ UNCHANGED <<formula, unitLit, holder, sending, network, received>>

Listen(w) == (\E f \in Workers : Receive(w, f)) \/ AddLearntHightLevel(w)

Next ==
  \E w \in Workers :
    \/ SendUL(w) \/ Unlock(w) \/ Listen(w)
    \/ \E t \in Threads(w) : Learn(w, t) \/ Import(w, t)

Spec == Init /\ [][Next]_vars

(* Threads run, and come back to level 0 again and again; whoever waits for *)
(* the mutex gets it in the end; nobody has to learn anything.             *)
FairSpec ==
  /\ Spec
  /\ \A w \in Workers :
       /\ WF_vars(SendUL(w) \/ Unlock(w)) /\ WF_vars(Listen(w))
       /\ \A t \in Threads(w) : WF_vars(Import(w, t))

-----------------------------------------------------------------------------
TypeOK ==
  LET Lits == -MaxVar..MaxVar IN
  /\ formula \in Formulas
  /\ \A w \in Workers :
       /\ unitLit[w] \in Seq(Lits) /\ received[w] \in Lits
       /\ nextUnit[w] \in [Threads(w) -> 0..Len(unitLit[w])]
       /\ level0[w] \in [Threads(w) -> SUBSET Lits]
       /\ holder[w] \in Threads(w) \cup {None}
       /\ sending[w] \in [lit : Lits, to : SUBSET Workers]
       /\ network[w] \in [Workers -> Seq(Lits)]

(* A unit about v is on its way to worker u.                               *)
OnItsWay(v, u) ==
  \/ received[u] \in {v, -v}
  \/ \E f \in Workers :
       \/ {v, -v} \cap ToSet(network[f][u]) # {}
       \/ holder[f] # None /\ Var(sending[f].lit) = v /\ u \in sending[f].to

(* A worker knows no variable that another one neither knows nor will hear *)
(* of, whoever learnt it and whatever messages crossed.                    *)
NoUnitLost ==
  \A w, u \in Workers, v \in Vars :
    IsUnary(w, v) => IsUnary(u, v) \/ OnItsWay(v, u)

(* A variable fixed by a thread of a worker is fixed by all of them in the *)
(* end: no mutex that is held while sending keeps a listener from a message*)
(* for ever, provided that MPI buffers enough.                             *)
EveryUnitArrives ==
  \A v \in Vars :
    (\E w \in Workers : \E t \in Threads(w) : Assigned(w, t, v))
      ~> (\A w \in Workers : \A t \in Threads(w) : Assigned(w, t, v))
=============================================================================
