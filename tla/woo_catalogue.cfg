\* Runs, identifiers and edits are counted: the system stops at the bounds.
SPECIFICATION MCSpec
CONSTANTS
    Products = {1, 2}
    Varied = {1}
    Tasks = {1}
    Own = 9
    Batch = 1
    MaxId = 4
    MaxEdits = 1
    MaxRuns = 2
    Faults = TRUE
    Codes = {1}
    Amounts = {5}
    Labels = {"a", "b"}
    VatTasks = {"admin", "night"}
    Night = "night"
    MaxTime = 3
    MaxRates = 3
    MaxRequests = 3
    VatFaults = FALSE
INVARIANTS
    LinkedToOwnCopy
    PushIsTrue
    SyncIsMirror
    OneRateInForce
PROPERTIES
    NightsReconcile
CHECK_DEADLOCK FALSE
