SPECIFICATION Spec
CONSTANTS
  a = a
  b = b
  empty = empty
  irregular = irregular
  NumFiles = 2
  Workers = {w1}
  Procs = {w1}
  ProcOf <- OwnProcess
  Bodies = {a, empty}
  EmptyBody = empty
  Irregular = irregular
  MaxIndexableFiles = 2
  None = None
  MaxClock = 1
  MaxHead = 1
  MaxOps = 2
INVARIANTS RefreshEqualsRebuild DurableCurrent
CHECK_DEADLOCK FALSE
