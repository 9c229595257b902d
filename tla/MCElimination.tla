---------------------------- MODULE MCElimination ----------------------------
(* Every file of SmallSize clauses of two or three literals over the       *)
(* variables 1 to 3, in one order (a clause is coded by three digits:      *)
(* absent, positive or negative), and some larger files.                   *)
EXTENDS Elimination

CONSTANT SmallSize

Digit(n, v) == (n \div 3^(v - 1)) % 3
Coded(n) == {v \in 1..3 : Digit(n, v) = 1} \cup
            {-v : v \in {w \in 1..3 : Digit(n, w) = 2}}
Codes == {n \in 0..26 : Cardinality(Coded(n)) \in {2, 3}}
Files(k) == {[i \in 1..k |-> Coded(s[i])] :
               s \in {t \in [1..k -> Codes] :
                        \A i \in 1..(k - 1) : t[i] < t[i + 1]}}

(* Units, repeated and trivial clauses, an empty clause.                   *)
Units == {<<{1, 2}, {-1}, {2, -2}, {3, -2}>>, <<{1}, {1, 2}, {-1, 3}, {-3}>>,
          <<{1, 2, 3}, {1, 2, 3}, {-1}, {-2}>>, <<{2}, {}>>}
(* Six clauses with the variable 1: six resolvents, or too long ones.      *)
Wide == {<<{1, 2, 4}, {1, 3, -5}, {1, -4, 5}, {-1, 2, -3}, {-1, -2, 5},
           {-1, 4, 3}, {2, -4, -5}, {-2, -3, 4}>>,
         <<{1, 2}, {1, 3}, {1, 4}, {-1, 5}, {-1, -2, -3}, {-5, -4, 2},
           {-5, -2, 4}, {5, -3, -4}>>,
         <<{1, 2, 3}, {-1, 4, 5}, {-2, -4, 1}, {-3, -5, 2}, {-1, 3, -4},
           {5, -2, -3}>>,
         <<{1, 2, 3}, {1, -3}, {1, 2, 4}, {-4, -2}>>}
(* A parity on each corner of a tetrahedron, over the edges that meet      *)
(* there, and the four do not agree: no model, and nothing to eliminate.   *)
Parity(a, b, c, sign) ==
  <<{sign * a, b, c}, {sign * a, -b, -c}, {-sign * a, b, -c},
    {-sign * a, -b, c}>>
NoModel == {Parity(1, 2, 3, -1) \o Parity(1, 4, 5, 1) \o Parity(2, 4, 6, 1)
              \o Parity(3, 5, 6, 1)}
Rcheck == {{"rcheck"}}
PlainOrAsymm == {{}, {"asymm"}}
SmallFiles == Files(SmallSize) \cup Units \cup Wide \cup NoModel
=============================================================================
