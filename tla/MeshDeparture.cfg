SPECIFICATION FairSpec
CONSTANTS
  Clients = {c1, c2}
  Targets = {t1}
  Requests = {}
  Relay = Relay
  Names = {n1}
  Self = Self
  None = None
  Buffer = 1
  MaxSends = 1

INVARIANTS
  NewestIsRoutable
  NoDanglingEntry
PROPERTIES
  GoneIsRemoved
CHECK_DEADLOCK FALSE
