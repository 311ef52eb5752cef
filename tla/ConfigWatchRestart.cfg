CONSTANTS
    Clients = {c1}
    MaxStreams = 1
    Buffer = 1
    MaxFaults = 0
    MaxEdits = 2
    MaxCalls = 0
    MaxStarts = 2
SPECIFICATION Spec
INVARIANT NoChangeReconnectedPast
CHECK_DEADLOCK FALSE
