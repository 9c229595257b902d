------------------------------ MODULE MCWorker ------------------------------
(***************************************************************************)
(* Inside a worker: how the searches of its threads end (SearchEnd), and   *)
(* the order in which one of them decides (VarOrder).  What a search finds *)
(* is free in the first, and when it stops in the second: a behaviour is   *)
(* one of the first or one of the second, and the other rests in an        *)
(* initial state.                                                          *)
(***************************************************************************)
EXTENDS SearchEnd, VarOrder

(* Preprocessing eliminates nothing, or one variable.                      *)
NoneOrFirst == {{}, {1}}

VARIABLE part  \* what runs

workerVars == <<part, vars, orderVars>>

WorkerInit ==
  /\ part \in {"end", "order"}
  /\ Init /\ OrderInit
  /\ part = "end" => decision = Vars

WorkerNext ==
  /\ \/ part = "end" /\ Next /\ UNCHANGED orderVars
     \/ part = "order" /\ OrderNext /\ UNCHANGED vars
  /\ UNCHANGED part

(* The fairness of SearchEnd, as far as it runs.                           *)
FairEnd ==
  /\ WF_vars(part = "end" /\ MainProceeds)
  /\ \A t \in Threads : WF_vars(part = "end" /\ Proceed(t))

WorkerSpec == WorkerInit /\ [][WorkerNext]_workerVars /\ FairEnd

(* Once the worker has a solution its threads leave and are joined, unless *)
(* one wrote over its order to leave.                                      *)
SearchStops == part = "end" => StopsUnlessLost
=============================================================================
