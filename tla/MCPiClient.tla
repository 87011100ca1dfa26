------------------------------ MODULE MCPiClient -------------------------------
(* What TLC needs to check PiClient.                                       *)
EXTENDS PiClient
===============================================================================
