SPECIFICATION FairSpec
CONSTANTS
  m1 = m1
  m2 = m2
  m3 = m3
  p1 = p1
  p2 = p2
  Messages = {m1, m2, m3}
  Peers = {p1, p2}
  Sender <- TwoSenders
  None = None
  SeenCap = 1
  ReceiverMax = 2
  MaxSurfaced = 4
  MaxFailures = 3
INVARIANTS
  SecondTurnIsForgotten
  SeenWasAccepted
  ReplyIsNotStale
PROPERTIES
  DrainsInTheEnd
CHECK_DEADLOCK FALSE
