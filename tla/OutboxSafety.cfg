SPECIFICATION Spec
CONSTANTS
  Messages = {m1, m2}
  NoMessage = NoMessage
  MaxConns = 2
  MaxCrashes = 1
  MaxAttempts = 1
INVARIANTS
  TypeOK
  QueuedIsNotForgotten
  WrittenOncePerLife
  HistoryIsOfWrittenOrQueued
PROPERTIES
  ImplementsQueue
CHECK_DEADLOCK FALSE
