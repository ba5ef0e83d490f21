------------------------------ MODULE MCHints ------------------------------
EXTENDS HintedHandoff

CONSTANTS p1, p2
=============================================================================
