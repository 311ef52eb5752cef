CONSTANTS
    Clients = {c1, c2}
    MaxStreams = 2
    Buffer = 1
    MaxFaults = 1
    MaxEdits = 2
    MaxCalls = 0
    MaxStarts = 1
SPECIFICATION FairSpec
INVARIANT PermitsMatchStreams
PROPERTY KeepsTheContract
CHECK_DEADLOCK FALSE
