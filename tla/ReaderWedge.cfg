CONSTANTS
  MaxLSN = 5
  MaxSegments = 3
  EmptyGaps = TRUE
SPECIFICATION Spec
CHECK_DEADLOCK FALSE
INVARIANT
  NoDataMeansCaughtUp
