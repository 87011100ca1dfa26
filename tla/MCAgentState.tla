----------------------------- MODULE MCAgentState ------------------------------
(* What TLC needs to check AgentState.                                     *)
EXTENDS AgentState, TLC

CONSTANTS c1, c2

Symmetry == Permutations(Callers)
===============================================================================
