--------------------------- MODULE MCSettingsSync ---------------------------
(* Instances of SettingsSync for TLC. *)
EXTENDS SettingsSync, TLC

CONSTANTS a, b, k1, k2

TwoClients == {a, b}
OneKey     == {k1}
TwoKeys    == {k1, k2}

Symmetry == Permutations(TwoClients)
=============================================================================
