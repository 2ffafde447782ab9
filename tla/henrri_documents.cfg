\* The bounds run out: nothing is left to upload.
SPECIFICATION MCSpec
CONSTANTS
    Invoices = {i1, i2}
    Customers = {c1, c2}
    Products = {p1, p2}
    Workers = {w1}
    None = none
    MaxLogs = 2
    MaxRemote = 2
    i1 = i1
    i2 = i2
    c1 = c1
    p1 = p1
    p2 = p2
    w1 = w1
    w2 = w2
INVARIANTS
    NoDuplicates
    SuccessMeansFinalized
CHECK_DEADLOCK FALSE
