CONSTANTS
    Requests = {r1, r2}
    MaxEdits = 2
    MaxCalls = 2
    MaxStarts = 2
    Asks <- MCAsks
    Scripts <- MCScripts
    Applications = {"shop", "billing", "gone"}
    Malformed = "bad"
    Served = {"shop", "billing"}
    Granted <- MCGranted
    Anonymous = TRUE
    Ceilings = {0, 1}
    Ttl = 2
    ReviewTime = 1
    MaxTime = 3
    MaxOutages = 1
    Configurations <- MCConfigurations
    Features = {"tls", "kubernetes-auth"}
    Names = {"shop", "prod", "dev", "billing"}
    WeakTokens = {"abc"}
    MaxRotations = 1
    Connections = {"c1", "c2"}
    Paths = {"tls", "plain"}
    HANDSHAKE_TIMEOUT = 2
    HEADER_TIMEOUT = 2
    DRAIN_TIMEOUT = 3
    Streams <- MCStreams
    TIMEOUT = 2
    IDLE = 3
    SLICE = 1
    MOST_EVENT_BYTES = 9
    MaxTokens = 2
    MaxChunk = 7
SPECIFICATION MCSpec
INVARIANT TypesOK
INVARIANT LabelNeverLeads
INVARIANT ReadyIsTruthful
INVARIANT NotYoursIsNoSuchThing
INVARIANT EveryAnswerIsRecorded
INVARIANT NothingIsOpenedForTheWorld
INVARIANT ServesAsConfigured
INVARIANT KeyIsPrivateAndMatches
INVARIANT NothingIsHeldForEver
INVARIANT EventsAreAsWritten
INVARIANT DeadlinesAreKept
PROPERTY EditIsServed
PROPERTY VerdictsAreRecent
PROPERTY InFlightIsAnswered
PROPERTY ShutdownEnds
CHECK_DEADLOCK FALSE
