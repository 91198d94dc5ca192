SPECIFICATION Spec
CONSTANTS
    c1 = c1
    c2 = c2
    c3 = c3
    x = x
    y = y
    Callers = {c1, c2, c3}
    Generations = {1, 2}
    Contents = {x, y}
    FrameCount = 2
    None = None
    MaxStages = 2
    MaxFaults = 1
SYMMETRY VaultSymmetry
INVARIANTS StagedKept PurgedGone NoOrphan CurrentComplete
PROPERTY ForwardOnly
CHECK_DEADLOCK FALSE
