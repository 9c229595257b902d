---------------------------- MODULE MCClauseMemory ----------------------------
(* Small formulas, and what follows from some of them.                     *)
EXTENDS ClauseMemory

(* A decision of -3 falsifies {1, 2, 3} at one level, before propagation   *)
(* sees the conflict of the formula; then 3 is learnt.                     *)
Hidden == <<<<1, 2, 4>>, <<1, 2, -4>>, <<-1, 3>>, <<-2, 3>>>>
(* The same with -4 decided before: {3, 4} is learnt.                      *)
Deeper == <<<<1, 2, 4>>, <<1, 2, -4>>, <<-1, 3, 4>>, <<-2, 3>>>>
(* A unit is learnt, and implies the second literal of a binary clause.    *)
Binary == <<<<1, 2>>, <<1, -2>>, <<-1, 3>>, <<-3, 2, 4>>, <<-3, -2, 4>>>>
(* A clause of three levels is learnt, and false at one level later.      *)
Narrow == <<<<3, 4>>, <<2, -3, -4>>, <<1, 2, -3, 4>>, <<2, 3, -4>>, <<-1, 2, -3>>, <<-2, -4>>>>
(* A learnt clause is used by two conflicts more.                         *)
Used == <<<<1, 2, -3>>, <<1, 2, 3>>, <<-2, 3, 4>>, <<-1, 2, 3>>, <<-1, 2, -3>>>>

Small == {Hidden, Deeper, Binary, Narrow, Used}
LearntElsewhere == {<<3, 1, 2>>, <<1, 4>>}
=============================================================================
