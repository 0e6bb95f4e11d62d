CONSTANTS
  MaxLSN = 3
  Inherited = 1
  Gaps = {2}
  Undecodable = {1}
  Slots = {s1}
  FlushRecords = 2
  MaxAttempts = 2
  DLQAttempts = 0
  HasDLQ = TRUE
  Faults = {"read", "stop", "fatal", "panic", "handler"}
  Drops = FALSE
  Calls = {"Flush", "Close"}
  CloseExpires = TRUE
SPECIFICATION LiveSpec
CHECK_DEADLOCK FALSE
PROPERTIES
  ShutdownDisposesNothing
  EverythingResolved
  FlushReturnsWhileDelivering
  CloseReturns
