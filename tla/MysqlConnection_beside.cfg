SPECIFICATION Spec
CONSTANTS
    Query = {q1, q2}
    Ping = {p1, p2}
    HighWater = 2
    LowWater = 1
    MaxRows = 4
    Wire = 2
    Chunk = 2
    Beside = TRUE
    none = none
INVARIANTS
    OneCommand
CHECK_DEADLOCK FALSE
