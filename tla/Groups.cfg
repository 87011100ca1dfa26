SPECIFICATION Spec
CONSTANTS
  a = a
  b = b
  me = me
  c1 = c1
  c2 = c2
  Others = {a, b}
  Me = me
  Callers = {c1, c2}
  MaxCalls = 3
  MaxEvents = 3
  MaxFailures = 1
  MaxCrashes = 1
  MaxRedelivered = 1
SYMMETRY Symmetry
INVARIANTS
  MembershipIsKnown
  OpenInviteIsKept
  HistoryWasTaken
CHECK_DEADLOCK FALSE
