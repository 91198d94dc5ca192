SPECIFICATION PRSpec
CONSTANTS
    w1 = w1
    w2 = w2
    p = p
    q = q
    Workers = {w1, w2}
    Procs = {p, q}
    Requests <- TwoRequests
    MaxFaults = 2
    MaxOutside = 1
    Nothing = Nothing
INVARIANTS PRTypeOK NoDuplicate OneReceipt ReceiptRepeats HeadExact
PROPERTY CallSettles
CHECK_DEADLOCK FALSE
