SPECIFICATION FairSpec
CONSTANTS
    c1 = c1
    c2 = c2
    Callers = {c1, c2}
    Bundles = {"b1", "b2"}
    None = None
    MaxAttempts = 3
INVARIANTS OneCompletion CleanupComplete
PROPERTIES TerminalStays CleanupReturns ImplementsTask
CHECK_DEADLOCK FALSE
