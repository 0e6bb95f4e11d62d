CONSTANTS
  MaxLSN = 4
  Inherited = 3
  Gaps = {2}
  Undecodable = {}
  Slots = {s1, s2}
  FlushRecords = 2
  MaxAttempts = 1
  DLQAttempts = 1
  HasDLQ = TRUE
  Faults = {"read", "fatal", "panic", "handler"}
  Drops = TRUE
  Calls = {"Close"}
  CloseExpires = FALSE
SPECIFICATION Spec
CHECK_DEADLOCK FALSE
SYMMETRY SlotSymmetry
INVARIANTS
  AckedResolved
  BatchesConsecutive
  RangesTile
  DrainedMeansResolved
PROPERTIES
  ResolvedOnce
