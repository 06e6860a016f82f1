--------------------------- MODULE MCRegimeHistory ---------------------------
EXTENDS RegimeHistory
=============================================================================
