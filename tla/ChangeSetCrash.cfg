SPECIFICATION FairSpec
CONSTANTS
    a1 = a1
    a2 = a2
    Appliers = {a1}
    NumFiles = 2
    NumPaths = 2
    Base = base
    Others = {other}
    Missing = missing
    MaxEdits = 0
INVARIANTS NeverMixture
CHECK_DEADLOCK FALSE
