---------------------------- MODULE MCRelaySession ----------------------------
(* RelaySession as TLC checks it: the callers, slots and bounds are given  *)
(* by its configurations.                                                  *)
EXTENDS RelaySession
===============================================================================
