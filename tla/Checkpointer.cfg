CONSTANTS
  Workers = {w1, w2}
  MaxLSN = 3
  NoRange = NoRange
  NoOne = NoOne
  MaxFaults = 2
  MaxCrashes = 2
SPECIFICATION CSpec
INVARIANTS CapacityExact CheckpointCovered DeletedCovered
PROPERTIES TruncationCatchesUp ImplementsRestarts
CHECK_DEADLOCK FALSE
