SPECIFICATION Spec
CONSTANTS
  p1 = p1
  m1 = m1
  m2 = m2
  m3 = m3
  m4 = m4
  r1 = r1
  r2 = r2
  Peers = {p1}
  Messages = {m1, m2, m3, m4}
  Sender <- OneSender
  Kind <- MixedKinds
  Requests = {r1, r2}
  Nothing = Nothing
  MaxOps = 2
  MaxDeliveries <- FirstAgain
  MaxCrashes = 1
SYMMETRY Symmetry
INVARIANTS
  TypeOK
  AckedIsKept
  NoSilentPending
  OnlyApprovedInHistory
CHECK_DEADLOCK FALSE
