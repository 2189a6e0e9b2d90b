------------------------- MODULE MCModelJobClients -------------------------
EXTENDS ModelJobClients

CONSTANTS a, b

TwoPages == {a, b}
=============================================================================
