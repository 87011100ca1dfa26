SPECIFICATION FairClientSpec
CONSTANTS
  Sockets = {s1, s2, s3, s4}
  Peers = {p1}
  Calls = {c1}
  Self = Self
  None = None
  MaxStarts = 2
  MaxOutages = 1
  MaxErrors = 1
  MaxChanges = 2
INVARIANTS
  NeverIdle
  UntrackedAreTaken
  LocalTargetWasThere
PROPERTIES
  ConnectedInTheEnd
CHECK_DEADLOCK FALSE
