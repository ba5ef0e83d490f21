--------------------------- MODULE MCVersioning ---------------------------
EXTENDS Versioning
=============================================================================
