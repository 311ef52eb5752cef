CONSTANTS
    Kinds = {"git"}
    Contents = {1, 2}
    MaxWrites = 2
    MaxFaults = 1
SPECIFICATION Spec
INVARIANT GitFailuresAreRecorded
CHECK_DEADLOCK FALSE
