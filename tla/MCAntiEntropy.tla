--------------------------- MODULE MCAntiEntropy ---------------------------
EXTENDS AntiEntropy

CONSTANTS n1, n2

\* Two keys in the halves of a tree of four buckets; the empty string shares
\* the half of the first.
BucketOf == [v \in Strings |-> CASE v = "x" -> 0 [] v = "y" -> 3 [] OTHER -> 1]
=============================================================================
