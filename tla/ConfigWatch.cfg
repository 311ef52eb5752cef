CONSTANTS
    Clients = {c1}
    MaxStreams = 1
    Buffer = 2
    MaxFaults = 2
    MaxEdits = 1
    MaxCalls = 2
    MaxStarts = 2
SPECIFICATION FairSpec
INVARIANT ResumeMeansRead
INVARIANT AtRestIsCurrent
PROPERTY ChangeReachesClient
CHECK_DEADLOCK FALSE
