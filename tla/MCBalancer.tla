------------------------------- MODULE MCBalancer -------------------------------
(* Instances of Balancer for TLC. *)
EXTENDS Balancer, TLC

CONSTANTS r1, r2, c1, c2, c3, k1, k2, k3

Requests == {r1, r2}
Connections == {c1, c2, c3}
TwoKeys == {k1, k2}
\* k1 and k2 collide
Collide == [k \in Key |-> IF k = k3 THEN 1 ELSE 0]
OneOrNoLimit == {0, 1}
Symmetry == Permutations(Requests) \cup Permutations(Connections)

===============================================================================
