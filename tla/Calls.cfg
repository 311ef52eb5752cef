CONSTANTS
    Callers = {c1, c2, c3, c4}
    FreeCallers = {f1, f2, f3}
    Threads = {t1, t2, t3}
    NoThread = NoThread
    Limit = 2
    ZeroIsUnbounded = TRUE
    VaultLimit = 1
    MaxIssued = 2
    MaxLost = 2
    MaxCalls = 4
SPECIFICATION MCSpec
INVARIANT CountIsExact
INVARIANT PermitsBalance
PROPERTY KeepsTheCeiling
PROPERTY CallsEnd
CHECK_DEADLOCK FALSE
