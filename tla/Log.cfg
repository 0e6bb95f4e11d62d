CONSTANTS
  SyncModes = {TRUE, FALSE}
  MaxSegment = 2
  ReserveBlock = 2
  MaxRecords = 3
  MaxCrashes = 2
  MaxFaults = 2
  MaxCloses = 1
  MaxMishaps = 3
SPECIFICATION Spec
CHECK_DEADLOCK FALSE
INVARIANTS
  AckedReadable
  LSNNamesOneRecord
  FailedNeverDelivered
  OpenSucceeds
  StagedHeld
