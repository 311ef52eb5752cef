CONSTANTS
    Threads = {t1, t2}
    NoThread = NoThread
    Limit = 1
    MaxIssued = 2
    MaxLost = 1
    MaxCalls = 3
SPECIFICATION Spec
INVARIANT RequestsWithinCeiling
CHECK_DEADLOCK FALSE
