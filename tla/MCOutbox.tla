------------------------------- MODULE MCOutbox -------------------------------
(* What TLC needs to check Outbox.                                         *)
EXTENDS Outbox, TLC

MessageSymmetry == Permutations(Messages)
===============================================================================
