------------------------------- MODULE MCRing -------------------------------
EXTENDS Ring, TLC

\* b and c share position 5.
Virtual == ("a" :> <<7, 2>>) @@ ("b" :> <<1, 5>>) @@ ("c" :> <<5, 3>>) @@ ("d" :> <<6, 0>>)
=============================================================================
