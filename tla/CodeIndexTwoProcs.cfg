SPECIFICATION Spec
CONSTANTS
  a = a
  b = b
  empty = empty
  irregular = irregular
  NumFiles = 1
  Workers = {w1, w2}
  Procs = {w1, w2}
  ProcOf <- OwnProcess
  Bodies = {a, b, irregular}
  EmptyBody = empty
  Irregular = irregular
  MaxIndexableFiles = 2
  None = None
  MaxClock = 1
  MaxHead = 0
  MaxOps = 2
SYMMETRY Symmetry
INVARIANTS StampSound CacheCoherent GobComplete ServedCurrent
CHECK_DEADLOCK FALSE
