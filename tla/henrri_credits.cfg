\* The tokens run out, and a request then waits for one: a bound of the model.
SPECIFICATION MCSpec
CONSTANTS
    Callers = {c1, c2, c3}
    Tokens = {t1, t2, t3, t4}
    LastMonth = 2
    Limit = 2
    InitialPeriod = 1
    InitialUsed = 1
    Faults = TRUE
    c1 = c1
    c2 = c2
    t1 = t1
    t2 = t2
    t3 = t3
INVARIANTS
    TypeOK
    QuotaNeverExceeded
    WritesHoldTheirCredit
    ChargedOnlyForWrites
PROPERTIES
    ImplementsBudget
    CalmReservationsAreSettled
CHECK_DEADLOCK FALSE
