CONSTANTS
  Writers = {w1, w2}
  Sizes = {1, 2, 3}
  Capacity = 2
  Inherited = 3
  Policies = {{"block", "reject", "dropNewest", "dropOldest"}}
  Sinks = {TRUE}
  CtxExpires = TRUE
  CommitErrors = {"diskFull", "io", "broken"}
  MaxFaults = 2
  CanFail = TRUE
  CanClose = TRUE
SPECIFICATION Spec
CHECK_DEADLOCK FALSE
SYMMETRY WriterSymmetry
INVARIANTS
  WithinCapacity
  PendingExact
  NoWriterBehindClose
  AnswersHonest
