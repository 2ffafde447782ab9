\* The bounds run out: then nothing is left to do.
SPECIFICATION MCSpec
CONSTANTS
    Users = {u1, u2}
    First = {u1}
    Browsers = {b1, b2}
    Requests = {r1, r2}
    MaxPasswords = 3
    MaxSessions = 2
    MaxFailures = 3
    u1 = u1
    u2 = u2
    b1 = b1
    b2 = b2
SYMMETRY Symmetry
INVARIANTS
    EveryoneKeepsAPassword
    SessionsFollowPassword
    FailuresLock
CHECK_DEADLOCK FALSE
