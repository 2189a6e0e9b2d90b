---------------------------- MODULE MCGenerations ----------------------------
(* Instances of Generations for TLC. *)
EXTENDS Generations, TLC

CONSTANTS a, b

TwoClients == {a, b}

Symmetry == Permutations(TwoClients)
=============================================================================
