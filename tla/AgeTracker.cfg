CONSTANTS
  Accepters = {w1, w2}
  Completers = {c1, c2}
  Granularity = 2
  MaxMarks = 2
  Inherited = 1
  MaxLSN = 4
  MaxTime = 5
SYMMETRY Symmetry
SPECIFICATION Spec
CHECK_DEADLOCK FALSE
INVARIANTS
  NeverUnderstated
  NoPhantomBacklog
