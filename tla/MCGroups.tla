------------------------------- MODULE MCGroups --------------------------------
(* What TLC needs to check Groups.                                         *)
EXTENDS Groups, TLC

CONSTANTS a, b, me, c1, c2

Symmetry == Permutations(Others) \cup Permutations(Callers)
===============================================================================
