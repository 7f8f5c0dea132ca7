------------------------------ MODULE MCTestEnv ------------------------------
(* Shells and names are interchangeable.                                   *)
EXTENDS TestEnv, TLC

Symmetry == Permutations(Shells) \cup Permutations(Names)
=============================================================================
