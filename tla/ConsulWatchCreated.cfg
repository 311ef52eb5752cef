CONSTANTS
    Shapes = {"key"}
    Documents = {d1}
    MaxWrites = 2
    MaxRestarts = 0
    MaxFaults = 0
SPECIFICATION Spec
INVARIANT CreatedKeyIsDelivered
CHECK_DEADLOCK FALSE
