------------------------------- MODULE MCHermes --------------------------------
(* What TLC needs to check Hermes.                                         *)
EXTENDS Hermes, TLC

CONSTANTS m1, m2, m3, p1, p2

TwoSenders == (m1 :> p1) @@ (m2 :> p2) @@ (m3 :> p2)
===============================================================================
