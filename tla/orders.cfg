\* The orders run out: the users then have nothing left to do.
SPECIFICATION MCSpec
CONSTANTS
    Orders = {o1, o2}
    Kinds = {"CMD", "RET", "RES"}
    Objects = {b1, b2}
    Counted = {b1}
    Tabs = {t1, t2}
    InitialStock = 1
    MaxQty = 2
    MaxLines = 3
SYMMETRY Symmetry
INVARIANTS
    PendingBacked
    UnsharedMovements
    StockIsExplained
    OpenOrdersWait
    ReservationsAreCovered
CHECK_DEADLOCK FALSE
