CONSTANTS
    PolledKinds = {"vault", "s3", "firestore", "git"}
    Contents = {1, 2}
    PolledWrites = 4
    PolledFaults = 2
    EtcdShapes = {"key", "prefix"}
    Announcing = {TRUE, FALSE}
    MaxRevision = 3
    MaxExpiries = 4
    ConsulShapes = {"key", "prefix"}
    Documents = {d1, d2}
    ConsulWrites = 3
    MaxRestarts = 1
    ConsulFaults = 1
    SubscribedKinds = {"redis_key", "redis_list", "nats"}
    Keys = {k1, k2}
    Values = {d1, d2}
    SubscribedWrites = 3
    SubscribedFaults = 1
    Commits = {1, 2}
    Theirs = 0
    Sources = {s1, s2}
    Threads = {t1, t2}
    NoThread = NoThread
    CompactAfter = 1
    MaxCrashes = 1
SPECIFICATION MCSpec
INVARIANT FailuresAreReported
INVARIANT DeliveriesGoForward
INVARIANT NothingIsSkipped
INVARIANT NothingNeededIsRemoved
INVARIANT TheirsIsKept
PROPERTY ChangesAreDelivered
CHECK_DEADLOCK FALSE
