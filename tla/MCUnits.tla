------------------------------- MODULE MCUnits -------------------------------
(* What can follow from a formula, up to the signs: one that has a model,  *)
(* and one that has none.                                                  *)
EXTENDS Units

Satisfiable == Vars
Unsatisfiable == Vars \cup {-1}
TwoAndOne == [w \in Workers |-> IF w = 0 THEN 2 ELSE 1]
Both == {Satisfiable, Unsatisfiable}
=============================================================================
