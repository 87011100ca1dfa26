SPECIFICATION Spec
CONSTANTS
  Calls = {c1}
  Kinds = {"key"}
  Names = {n1}
  MaxConns = 2
  MaxBackoff = 1
INVARIANTS
  NobodySleepsThroughReady
CHECK_DEADLOCK FALSE
