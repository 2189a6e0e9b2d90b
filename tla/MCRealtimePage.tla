--------------------------- MODULE MCRealtimePage ---------------------------
EXTENDS RealtimePage

CONSTANTS a1, a2, a3, a4

FourAttempts == {a1, a2, a3, a4}
OnePage == {Page}
=============================================================================
