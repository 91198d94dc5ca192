CONSTANTS
    a = a
    b = b
    t = t
    u = u
    p1 = p1
    p2 = p2
    Docs = {a, b}
    Texts = {t, u}
    Procs = {p1, p2}
    Calls <- MCCalls
    Limit = 2
    MaxCalls = 3
    MaxFaults = 1
    None = None
    Unknown = Unknown
SPECIFICATION Spec
INVARIANTS Owed Kept
SYMMETRY CorpusSymmetry
