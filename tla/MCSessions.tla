---------------------------- MODULE MCSessions ----------------------------
EXTENDS Sessions, TLC

CONSTANTS c1, c2, c3, r1, r2

\* The clock of r2 is one reading ahead.
SkewR2 == [r \in Replicas |-> IF r = r2 THEN 1 ELSE 0]
Symmetric == Permutations(Calls)
=============================================================================
