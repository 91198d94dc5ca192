SPECIFICATION FairSpec
CONSTANTS
  a = a
  b = b
  empty = empty
  irregular = irregular
  NumFiles = 1
  Workers = {w1, w2, w3}
  Procs = {p, q}
  ProcOf <- TwoAndOne
  Bodies = {a}
  EmptyBody = empty
  Irregular = irregular
  MaxIndexableFiles = 2
  None = None
  MaxClock = 0
  MaxHead = 0
  MaxOps = 2
PROPERTIES RequestsReturn
CHECK_DEADLOCK FALSE
