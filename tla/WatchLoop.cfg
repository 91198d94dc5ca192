SPECIFICATION FairSpec
CONSTANTS
    root = root
    sub = sub
    leaf = leaf
    a = a
    b = b
    Dirs = {root, sub, leaf}
    Root = root
    Parent <- Nested
    Files = {a, b}
    DirOf <- InRootAndLeaf
    TooDeep = {}
    QueueSize = 1
    KernelQueue = 1
    MaxCycles = 0
    MaxEdits = 2
    MaxIgnoreEdits = 1
    MaxFails = 2
INVARIANTS ChangeTracked
PROPERTIES CatchesUp
CHECK_DEADLOCK FALSE
