CONSTANTS
    t1 = t1
    Loads = {t1}
    Limit = 2
    Attempts = 2
    PollMax = 2
    MaxTxs = 2
    MaxFaults = 0
SPECIFICATION Spec
INVARIANTS
    NothingSentIsTrue
CHECK_DEADLOCK FALSE
