------------------------------ MODULE MCInbound -------------------------------
(* What TLC needs to check Inbound.                                        *)
EXTENDS Inbound, TLC

CONSTANTS p1, m1, m2, m3, m4, r1, r2

OneSender == [m \in Messages |-> p1]
MixedKinds == (m1 :> "dm") @@ (m2 :> "dm") @@ (m3 :> "reaction") @@ (m4 :> "forged")

\* The relay sends the first again.
FirstAgain == [m \in Messages |-> IF m = m1 THEN 2 ELSE 1]

Symmetry == Permutations(Requests)
===============================================================================
