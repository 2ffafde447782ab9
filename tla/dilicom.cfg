SPECIFICATION MCSpec
CONSTANTS
    Eans = {e1, e2}
    Tabs = {t1, t2}
    Tasks = {k1}
    Imports = FALSE
    Faults = TRUE
    Exclusive = TRUE
    e1 = e1
    k1 = k1
    k2 = k2
INVARIANTS
    StatusIsTrue
    OneRowPerEan
PROPERTY FreeChangesAreSent
