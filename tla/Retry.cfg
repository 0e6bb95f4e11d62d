CONSTANTS
  Waiters = {d1, d2}
  Publishers = {p1, p2}
  MaxLevel = 2
  MaxAttempts = 2
SPECIFICATION RSpec
INVARIANTS
  NoLostWakeup
  FailingHasOwner
PROPERTIES
  BackoffIsCut
CHECK_DEADLOCK FALSE
