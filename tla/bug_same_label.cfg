SPECIFICATION FairSpec
CONSTANTS
    Codes = {1}
    Amounts = {5, 10}
    Labels = {"a"}
    Tasks = {"admin", "night"}
    Night = "night"
    MaxTime = 2
    MaxRates = 2
    MaxEdits = 2
    Faults = FALSE
INVARIANT OnlySlugsClash
CHECK_DEADLOCK FALSE
