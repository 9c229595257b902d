------------------------------- MODULE MCCdcl -------------------------------
(* Small formulas over the variables 1 to 5, and what some of them imply.  *)
EXTENDS Cdcl

Five == 1..5

AtMostOne(S) == {{-a, -b} : <<a, b>> \in {p \in S \X S : p[1] < p[2]}}

(* One conflict, and one at level 0 after it: no model.                    *)
NoModel  == {{1, 2}, {1, -2}, {-1, 3, 4}, {-1, -3}, {-4, 3}}
(* A conflict teaches a clause of three literals, of three levels.         *)
Ternary  == {{2, 3, 4, 5}, {2, 3, 4, -5}} \cup AtMostOne({2, 3, 4})
(* {1, 2, 3} follows from a conflict: it may leave the purgatory.          *)
Hidden   == {{1, 2, 4}, {-4, 5}, {-4, -5}, {-1, 3}, {-3, 1}, {-1, -2}}
(* {2, 3} follows, but not by propagation: a walk down to -2, -3 sees no   *)
(* conflict, and the clause may come from elsewhere afterwards.            *)
Split    == {{1, 4}, {-1, -4}, {2, 1, -4}, {3, -1, 4}, {-2, -3}}

Small    == {NoModel, Ternary, Hidden, Split}
LearntElsewhere == {{2}, {2, 3}, {1, 2, 3}}
=============================================================================
