CONSTANTS
    Shapes = {"key"}
    Announcing = {FALSE}
    MaxRevision = 2
    MaxExpiries = 1
SPECIFICATION Spec
INVARIANT ReplayedRatherThanLost
CHECK_DEADLOCK FALSE
