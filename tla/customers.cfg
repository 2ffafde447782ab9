\* The bounds run out: then nothing is left to do.
SPECIFICATION MCSpec
CONSTANTS
    Mails = {m1, m2}
    Names = {"own"}
    Syncers = {tab, task}
    Tabs = {tab}
    MaxCustomers = 2
    MaxAccounts = 2
    MaxCopies = 3
    MaxPushes = 1
    m1 = m1
    m2 = m2
    tab = tab
    task = task
INVARIANTS
    LinkedByMail
    OneCopy
    ResultsAreLogged
CHECK_DEADLOCK FALSE
