CONSTANTS
  HeaderSize = 2
  Lengths = {0, 1}
  Fields = {0, 1, 2}
  Limits = {0, 1}
  MaxSegment = 2
  ReserveBlock = 2
  MaxRecords = 4
  MaxDamage = 2
  MaxCrashes = 1
SPECIFICATION Spec
INVARIANTS
  NameIsUnique
  SalvageOpens
PROPERTIES
  OpenCutsDamageOnly
