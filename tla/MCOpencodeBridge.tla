--------------------------- MODULE MCOpencodeBridge ----------------------------
(* What TLC needs to check OpencodeBridge.                                 *)
EXTENDS OpencodeBridge
===============================================================================
