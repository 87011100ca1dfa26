SPECIFICATION FairSpec
CONSTANTS
  Buffer = 2
  MaxSends = 5
  MaxInbound = 2
  MaxFailures = 3
INVARIANTS
  OneLossPerConnection
PROPERTIES
  ImplementsChannel
  CancelledReturns
CHECK_DEADLOCK FALSE
