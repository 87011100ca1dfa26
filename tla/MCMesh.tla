-------------------------------- MODULE MCMesh ---------------------------------
(* What TLC needs to check Mesh.                                           *)
EXTENDS Mesh, TLC

Symmetry == Permutations(Clients) \cup Permutations(Names)
===============================================================================
