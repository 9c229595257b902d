----------------------------- MODULE Collective -----------------------------
(***************************************************************************)
(* The exchange of clauses between workers in rounds of MPI collectives:   *)
(* ComMPIPartially::sendClause, which the threads of a worker call, and    *)
(* collectifClause, one thread of each worker.                             *)
(*                                                                         *)
(* A collective is a call that every worker makes; a worker enters it with *)
(* a value and leaves it, with the values of all, when all have entered.   *)
(* MPI matches the calls of the workers by their order alone.              *)
(*                                                                         *)
(* A clause is what sendClause writes: its size and its literals.  The     *)
(* literals are left out; "from" and "n" tell the clauses apart.           *)
(*                                                                         *)
(* The names differ from those of SearchEnd, the other protocol of one     *)
(* worker, because WorkerProofs is about both.                             *)
(***************************************************************************)
EXTENDS Integers, Sequences, FiniteSets, SequencesExt

CONSTANTS
  LastRank,    \* the ranks of the workers are 0..LastRank
  Sizes,       \* the sizes of clauses
  MaxClauses,  \* bound on the clauses a worker sends
  Finders,     \* the workers that may find a solution
  PastEnds     \* the values that may lie behind allPos

ASSUME RanksAssumption == LastRank \in Nat /\ Sizes \subseteq Nat

Ranks == 0..LastRank

VARIABLES
  sent,      \* what the threads gave to sendClause, oldest first
  toSend,    \* tableClausesToSend
  copy,      \* tableClausesToSendTMP
  solution,  \* SharedCompanion's solution
  stage,     \* what the thread of a worker does
  calls,     \* the collectives it has entered, modulo 3
  given,     \* what it gave to the last one, and to the one before
  allPos,    \* where the blocks start in tableClausesToReceive
  imported   \* what it gave to addLearntHightLevel from the block of each other

collectiveVars == <<sent, toSend, copy, solution, stage, calls, given, allPos, imported>>

Clauses == [from : Ranks, n : Nat, size : Sizes]
Junk == [from |-> LastRank + 1]   \* a clause nobody sent
NoPositions == [r \in Ranks |-> 0]

CollectiveInit ==
  /\ sent = [w \in Ranks |-> <<>>]
  /\ toSend = [w \in Ranks |-> <<>>]
  /\ copy = [w \in Ranks |-> <<>>]
  /\ solution = [w \in Ranks |-> FALSE]
  /\ stage = [w \in Ranks |-> "sleep"]
  /\ calls = [w \in Ranks |-> 0]
  /\ given = [w \in Ranks |-> [last |-> 0, before |-> 0]]
  /\ allPos = [w \in Ranks |-> NoPositions]
  /\ imported = [w \in Ranks |-> [r \in Ranks |-> <<>>]]

-----------------------------------------------------------------------------
(* The size of messages in words: of the first n, and of all.              *)
WordsOfFirst(cs) ==
  LET words[n \in 0..Len(cs)] ==
        IF n = 0 THEN 0 ELSE words[n - 1] + 1 + cs[n].size
  IN words
Words(cs) == WordsOfFirst(cs)[Len(cs)]

(* sendClause, under the mutex.                                            *)
SendClause(w) ==
  /\ Len(sent[w]) < MaxClauses[w]
  /\ \E s \in Sizes :
       LET c == [from |-> w, n |-> Len(sent[w]) + 1, size |-> s] IN
       /\ sent' = [sent EXCEPT ![w] = Append(@, c)]
       /\ toSend' = [toSend EXCEPT ![w] = Append(@, c)]
  /\ UNCHANGED <<copy, solution, stage, calls, given, allPos, imported>>

(* solutionFound, by a thread of w.                                        *)
SolutionFound(w) ==
  /\ w \in Finders /\ ~solution[w]
  /\ solution' = [solution EXCEPT ![w] = TRUE]
  /\ UNCHANGED <<sent, toSend, copy, stage, calls, given, allPos, imported>>

-----------------------------------------------------------------------------
(* Collectives.                                                            *)
Enter(w, value) ==
  /\ calls' = [calls EXCEPT ![w] = (@ + 1) % 3]
  /\ given' = [given EXCEPT ![w] = [last |-> value, before |-> @.last]]

(* All have entered the call w is in.  Some may be in the next already, but *)
(* not further, which is why calls are told apart modulo 3.                *)
AllEntered(w) == \A r \in Ranks : (calls[r] + 1) % 3 # calls[w]
Gathered(w) ==
  [r \in Ranks |-> IF calls[r] = calls[w] THEN given[r].last ELSE given[r].before]

-----------------------------------------------------------------------------
(* The round of a worker.                                                  *)
WakeUp(w) ==
  /\ stage[w] = "sleep"
  /\ Enter(w, solution[w])
  /\ stage' = [stage EXCEPT ![w] = "ends"]
  /\ UNCHANGED <<sent, toSend, copy, solution, allPos, imported>>

(* Faulty: a worker leaves for its own solution only.                      *)
OwnEnd(w) == solution[w]
(* allEnd has a worker that has a solution.                                *)
SomeoneEnds(w) == \E r \in Ranks : Gathered(w)[r]

Leave(w) ==
  /\ stage[w] = "ends" /\ AllEntered(w) /\ SomeoneEnds(w)
  /\ stage' = [stage EXCEPT ![w] = "left"]
  /\ UNCHANGED <<sent, toSend, copy, solution, calls, given, allPos,
                 imported>>

(* Faulty: the buffer is not emptied when it is copied.                    *)
KeptAfterCopy(w) == toSend[w]
(* posClausesToSend = 0.                                                   *)
LeftAfterCopy(w) == <<>>

(* The copy of the buffer, under the mutex, and the call that shares sizes.*)
CopyToSend(w) ==
  /\ stage[w] = "ends" /\ AllEntered(w) /\ ~SomeoneEnds(w)
  /\ copy' = [copy EXCEPT ![w] = toSend[w]]
  /\ toSend' = [toSend EXCEPT ![w] = LeftAfterCopy(w)]
  /\ Enter(w, Words(toSend[w]))
  /\ stage' = [stage EXCEPT ![w] = "sizes"]
  /\ UNCHANGED <<sent, solution, allPos, imported>>

(* Faulty: a worker with nothing to send skips the exchange.               *)
OwnToShare(w) == given[w].last > 0
(* maxAllSend # 0.                                                         *)
SomethingToShare(w) == \E r \in Ranks : Gathered(w)[r] > 0

NothingToShare(w) ==
  /\ stage[w] = "sizes" /\ AllEntered(w) /\ ~SomethingToShare(w)
  /\ stage' = [stage EXCEPT ![w] = "sleep"]
  /\ UNCHANGED <<sent, toSend, copy, solution, calls, given, allPos, imported>>

(* allPos: the sum of the sizes before.                                    *)
StartsOf(sizes) ==
  LET start[r \in Ranks] == IF r = 0 THEN 0 ELSE start[r - 1] + sizes[r - 1]
  IN start

Share(w) ==
  /\ stage[w] = "sizes" /\ AllEntered(w) /\ SomethingToShare(w)
  /\ allPos' = [allPos EXCEPT ![w] = StartsOf(Gathered(w))]
  /\ Enter(w, copy[w])
  /\ stage' = [stage EXCEPT ![w] = "blocks"]
  /\ UNCHANGED <<sent, toSend, copy, solution, imported>>

(* The clauses of a block that start before an end, which are its first    *)
(* ones; behind the last block lie words that are no clause of this round. *)
ReadBlock(block, start, end) ==
  LET read == {i \in 1..Len(block) : start + WordsOfFirst(block)[i - 1] < end}
  IN SubSeq(block, 1, Cardinality(read))
       \o (IF end > start + Words(block) THEN <<Junk>> ELSE <<>>)

(* endPosCurrentBloc = allPos[currentRank + 1], which for the last rank    *)
(* lies behind the array: "past" is what lies there.                       *)
EndOf(w, r, past) == IF r < LastRank THEN allPos[w][r + 1] ELSE past

(* The blocks of the others go to addLearntHightLevel; the order of blocks *)
(* is left out.  Nobody else sees the thread do it.                        *)
ReceiveBlocks(w) ==
  /\ stage[w] = "blocks" /\ AllEntered(w)
  /\ \E past \in PastEnds :
       imported' = [imported EXCEPT ![w] = [r \in Ranks |->
         IF r = w THEN imported[w][r]
         ELSE imported[w][r] \o ReadBlock(Gathered(w)[r], allPos[w][r], EndOf(w, r, past))]]
  /\ allPos' = [allPos EXCEPT ![w] = NoPositions]
  /\ stage' = [stage EXCEPT ![w] = "sleep"]
  /\ UNCHANGED <<sent, toSend, copy, solution, calls, given>>

Collectif(w) ==
  \/ WakeUp(w) \/ Leave(w) \/ CopyToSend(w) \/ NothingToShare(w) \/ Share(w)
  \/ ReceiveBlocks(w)

CollectiveNext == \E w \in Ranks : SendClause(w) \/ SolutionFound(w) \/ Collectif(w)

CollectiveSpec == CollectiveInit /\ [][CollectiveNext]_collectiveVars

(* The thread of each worker runs; nobody has to find a solution.          *)
FairCollectiveSpec == CollectiveSpec /\ \A w \in Ranks : WF_collectiveVars(Collectif(w))

-----------------------------------------------------------------------------
CollectiveTypeOK ==
  /\ \A w \in Ranks : \A s \in {sent[w], toSend[w], copy[w]} :
       s \in Seq(Clauses) /\ Len(s) <= MaxClauses[w]
  /\ solution \in [Ranks -> BOOLEAN]
  /\ stage \in [Ranks -> {"sleep", "ends", "sizes", "blocks", "left"}]
  /\ calls \in [Ranks -> 0..2]
  /\ allPos \in [Ranks -> [Ranks -> Nat]]
  /\ \A w, r \in Ranks : ToSet(imported[w][r]) \subseteq Clauses \cup {Junk}

(* MPI matches collectives by their order: workers in the same call make   *)
(* the same one.                                                           *)
InCall == {"ends", "sizes", "blocks"}
CallsMatch ==
  \A w, r \in Ranks :
    /\ stage[w] \in InCall /\ stage[r] \in InCall /\ calls[w] = calls[r]
    => stage[w] = stage[r]

(* Between sendClause, the copy, and the import everywhere else, a clause  *)
(* of any worker but the last one is never lost, doubled or overtaken.     *)
ArrivesOnce(t, f) ==
  /\ \/ sent[f] = imported[t][f] \o toSend[f]
     \/ sent[f] = imported[t][f] \o copy[f] \o toSend[f]
  /\ stage[t] = "sleep" /\ stage[f] = "sleep" /\ calls[t] = calls[f]
     => sent[f] = imported[t][f] \o toSend[f]
ClausesArriveOnce ==
  \A f \in Ranks \ {LastRank}, t \in Ranks : f # t => ArrivesOnce(t, f)

(* The comment "To put received clauses in CDCL solvers" is about those of *)
(* every worker.                                                           *)
ClausesOfAllArrive == \A f, t \in Ranks : f # t => ArrivesOnce(t, f)

(* No worker stays in a collective: it comes back to sleep, or leaves.     *)
EveryRoundEnds == \A w \in Ranks : []<>(stage[w] \in {"sleep", "left"})
=============================================================================
