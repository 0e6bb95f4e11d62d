CONSTANTS
  Writers = {w1, w2}
  Sizes = {1}
  Capacity = 2
  Inherited = 3
  Policies = {{"block"}, {"dropOldest"}}
  Sinks = {TRUE, FALSE}
  CtxExpires = FALSE
  CommitErrors = {"diskFull"}
  MaxFaults = 1
  CanFail = TRUE
  CanClose = TRUE
SPECIFICATION LiveSpec
CHECK_DEADLOCK FALSE
PROPERTIES
  WriteReturns
  CloseDrains
