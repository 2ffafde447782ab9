\* The bounds run out: then nothing is left to do but to start tasks.
SPECIFICATION MCSpec
CONSTANTS
    Orders = {o1, i1}
    TypedIn = {o1}
    Absent = absent
    MaxRemote = 2
    MaxLines = 2
    MaxLineId = 3
    Fees = {TRUE, FALSE}
    Replaces = FALSE
    o1 = o1
    i1 = i1
INVARIANTS
    PushedMatches
    OneToOne
    CancellationIsSeen
CHECK_DEADLOCK FALSE
