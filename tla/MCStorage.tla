----------------------------- MODULE MCStorage -----------------------------
EXTENDS StorageEngine, TLC

CONSTANTS k1, k2, w1, w2, g1

Symmetry == Permutations(Keys) \cup Permutations(Writers)
=============================================================================
