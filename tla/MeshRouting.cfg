SPECIFICATION Spec
CONSTANTS
  Clients = {c1, c2}
  Targets = {}
  Requests = {}
  Relay = Relay
  Names = {n1, n2}
  Self = Self
  None = None
  Buffer = 2
  MaxSends = 2
SYMMETRY Symmetry
INVARIANTS
  TypeOK
  AcceptedUnlessGone
  InOrder
CHECK_DEADLOCK FALSE
