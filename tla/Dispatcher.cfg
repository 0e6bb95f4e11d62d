CONSTANTS
  Writers = {w1}
  Settlers = {s1}
  Deliveries = {d1}
  Callers = {c1, c2}
  Hook = hk
  None = none
  Queue = 2
  MaxEvents = 4
SPECIFICATION DSpec
INVARIANTS
  NoSendOnClosed
  CloseReportsAll
PROPERTIES
  CloseReturns
CHECK_DEADLOCK FALSE
