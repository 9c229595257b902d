------------------------------- MODULE Verdict -------------------------------
(***************************************************************************)
(* What the end of a run of D-Syrup promises to the user: one verdict,     *)
(* given by a worker that has a solution or by the manager when its tree   *)
(* of subproblems is UNSAT, is printed once, by the one who gave it, and   *)
(* nobody leaves before there is a verdict or without printing its own.    *)
(* Shutdown.tla is the protocol that implements it.                        *)
(***************************************************************************)
(* Tree and None are no workers.                                          *)
CONSTANTS Workers, Tree, None

VARIABLES
  solved,   \* the workers that have a solution of their own
  verdict,  \* who gave the verdict
  printed,  \* who printed it
  gone      \* the workers that have ended

vars == <<solved, verdict, printed, gone>>

Init ==
  /\ solved = {}
  /\ verdict = None
  /\ printed = {}
  /\ gone = {}

Solve(w) ==
  /\ w \notin gone
  /\ solved' = solved \cup {w}
  /\ UNCHANGED <<verdict, printed, gone>>

Decide(w) ==
  /\ verdict = None /\ w \in solved
  /\ verdict' = w
  /\ UNCHANGED <<solved, printed, gone>>

(* The manager prints its verdict at once.                                 *)
DecideTree ==
  /\ verdict = None
  /\ verdict' = Tree
  /\ printed' = {Tree}
  /\ UNCHANGED <<solved, gone>>

Display(w) ==
  /\ verdict = w /\ printed = {}
  /\ printed' = {w}
  /\ UNCHANGED <<solved, verdict, gone>>

Leave(w) ==
  /\ verdict # None /\ (verdict = w => w \in printed)
  /\ gone' = gone \cup {w}
  /\ UNCHANGED <<solved, verdict, printed>>

Next ==
  \/ DecideTree
  \/ \E w \in Workers : Solve(w) \/ Decide(w) \/ Display(w) \/ Leave(w)

Spec == Init /\ [][Next]_vars
=============================================================================
