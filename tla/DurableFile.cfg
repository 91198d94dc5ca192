SPECIFICATION Spec
CONSTANTS
    w1 = w1
    w2 = w2
    x = x
    y = y
    Writers = {w1, w2}
    Contents = {x, y}
    Absent = Absent
    Torn = Torn
    None = None
    DirSync = TRUE
    MaxWrites = 3
    MaxFaults = 2
INVARIANTS AckedStable TempsOwned
PROPERTY ImplementsAtomicFile
SYMMETRY FileSymmetry
CHECK_DEADLOCK FALSE
