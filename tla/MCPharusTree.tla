---------------------------- MODULE MCPharusTree ----------------------------
(* PharusTree with interchangeable threads and variables: no operator of   *)
(* it chooses among them by name.  The runs that use Symmetry check no     *)
(* liveness.                                                               *)
EXTENDS PharusTree

Symmetry == Permutations(Threads) \cup Permutations(Vars)
=============================================================================
