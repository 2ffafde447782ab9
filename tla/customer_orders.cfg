\* The bounds run out: the users then have nothing left to do.
SPECIFICATION MCSpec
CONSTANTS
    Orders = {o1, r1}
    TypedIn = {o1}
    Absent = absent
    Addresses = {a1, a2}
    Prices = 1
    MaxQty = 2
    MaxLines = 3
    MaxReserved = 6
    MaxShipped = 2
    MaxInvoices = 2
    Discounts = {FALSE}
    Fees = {TRUE, FALSE}
    Tabs = {t1, t2}
    o1 = o1
    a1 = a1
    t1 = t1
    t2 = t2
SYMMETRY Symmetry
INVARIANTS
    LinesMatchDocuments
    ReservationsMatchLines
    NothingWithoutInvoice
    NumbersAreGapless
CHECK_DEADLOCK FALSE
