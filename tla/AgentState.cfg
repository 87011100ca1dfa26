SPECIFICATION Spec
CONSTANTS
  c1 = c1
  c2 = c2
  Callers = {c1, c2}
  MaxMessages = 2
  InGroup = {1}
  MaxCalls = 3
  MaxConns = 2
  MaxCrashes = 1
  Unset = Unset
SYMMETRY Symmetry
INVARIANTS
  ReplyIsToOneMessage
  RelayHasTheStatus
CHECK_DEADLOCK FALSE
