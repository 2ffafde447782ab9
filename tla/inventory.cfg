SPECIFICATION FairSpec
CONSTANTS
    Objects = {b1}
    Tabs = {t1, t2}
    InitialStock = 1
    MaxMoves = 1
    MaxCopies = 2
    Closed = TRUE
    Careful = TRUE
    Faults = TRUE
INVARIANTS
    StockIsShelf
PROPERTY CommitsAreReported
