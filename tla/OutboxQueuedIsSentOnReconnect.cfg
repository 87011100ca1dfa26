SPECIFICATION FairSpec
CONSTANTS
  Messages = {m1}
  NoMessage = NoMessage
  MaxConns = 2
  MaxCrashes = 0
  MaxAttempts = 2
PROPERTY QueuedIsSentOnReconnect
CHECK_DEADLOCK FALSE
