SPECIFICATION GFairSpec
CONSTANTS
    j1 = j1
    j2 = j2
    p1 = p1
    p2 = p2
    Jobs = {j1, j2}
    Procs = {p1, p2}
    MaxConcurrent = 2
    Results = {"ok", "failed"}
    MaxFaults = 2
    None = None
INVARIANTS LeaseExclusive ReceiptAgrees 
PROPERTIES EndedStays JobsEnd
