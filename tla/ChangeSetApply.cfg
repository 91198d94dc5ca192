SPECIFICATION FairSpec
CONSTANTS
    a1 = a1
    a2 = a2
    Appliers = {a1, a2}
    NumFiles = 2
    NumPaths = 2
    Base = base
    Others = {other}
    Missing = missing
    MaxEdits = 2
INVARIANTS Transactional NoResidue CrashLeavesPrefix
PROPERTIES ReplacesBase Returns
CHECK_DEADLOCK FALSE
