------------------------------ MODULE MCClauses ------------------------------
(***************************************************************************)
(* The two exchanges of learnt clauses: ClauseExchange, between the        *)
(* threads of a worker, and Collective, between workers.  Neither sees     *)
(* more of the other than clauses that come and are taken at any time, so  *)
(* that nothing is gained by interleaving them: a behaviour is one of the  *)
(* first or one of the second, and the other rests in its initial state.   *)
(***************************************************************************)
EXTENDS ClauseExchange, Collective

(* The first worker sends a clause after another, also while the block of  *)
(* the one before is on its way.                                           *)
TwoFromFirst == [w \in Ranks |-> IF w = 0 THEN 2 ELSE 1]

VARIABLE part  \* the exchange that runs

clausesVars == <<part, vars, collectiveVars>>

ClausesInit == part \in {"threads", "workers"} /\ Init /\ CollectiveInit

ClausesNext ==
  /\ \/ part = "threads" /\ Next /\ UNCHANGED collectiveVars
     \/ part = "workers" /\ CollectiveNext /\ UNCHANGED vars
  /\ UNCHANGED part

(* The fairness of each, as far as it runs.                                *)
FairThreads == \A t \in Threads : WF_vars(part = "threads" /\ Import(t))
FairRounds == \A w \in Ranks : WF_collectiveVars(part = "workers" /\ Collectif(w))

ClausesSpec == ClausesInit /\ [][ClausesNext]_clausesVars /\ FairThreads /\ FairRounds

(* Clauses reach every thread, and the FIFO of a worker drains.            *)
ThreadsGoOn == part = "threads" => ExchangeGoesOn

(* No worker stays in a collective.                                        *)
RoundsGoOn == part = "workers" => EveryRoundEnds
=============================================================================
