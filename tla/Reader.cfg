CONSTANTS
  MaxLSN = 5
  MaxSegments = 3
  EmptyGaps = FALSE
SPECIFICATION Spec
CHECK_DEADLOCK FALSE
INVARIANTS
  ReadsWhatItNames
  NoSkip
  NoDataMeansCaughtUp
PROPERTY
  EverythingRead
