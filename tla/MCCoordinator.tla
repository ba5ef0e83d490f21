--------------------------- MODULE MCCoordinator ---------------------------
EXTENDS Coordinator, TLC

CONSTANTS n1, n2, v1, c1, c2, c3

TwoRing == n1 :> 1 @@ n2 :> 2
Symmetry == Permutations(Requests) \cup Permutations(Calls \ Requests)
=============================================================================
