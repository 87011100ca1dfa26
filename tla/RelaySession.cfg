SPECIFICATION FairSpec
CONSTANTS
  Calls = {c1, c2}
  Kinds = {"key"}
  Names = {n1}
  MaxConns = 2
  MaxBackoff = 1
INVARIANTS
  TypeOK
  FanOutNeverBlocks
  BlockedCallIsReachable
  LiveWaitersHaveRequest
  RequestsOnlyAfterAuth
  OnlyRepeatedAuthOkPanics
  ReadyChannelMirrorsAuth
  SingleFlight
PROPERTIES
  BadConnectionIsLeft
CHECK_DEADLOCK FALSE
