\* The bounds run out: then nothing is left to do.
SPECIFICATION MCSpec
CONSTANTS
    Products = {e1}
    Glns = {}
    Rates = {r1}
    Clerks = {t1}
    Prices = {1, 2}
    MaxDay = 2
    MaxRows = 4
    MaxImports = 1
    MaxLines = 2
    MaxSaves = 2
    e1 = e1
    e2 = e2
    g1 = g1
    g2 = g2
    r1 = r1
    r2 = r2
    t1 = t1
INVARIANTS
    PricesAreSound
    BatchIsWhole
    SuppliersFollowTheirLines
PROPERTIES
    FuturePricesKept
CHECK_DEADLOCK FALSE
