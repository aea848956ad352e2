SPECIFICATION Spec
CONSTANTS
    Worker = {w1, w2, w3}
    Request = {r1, r2}
    MaxCrashes = 1
    none = none
INVARIANTS
    StopEndsWorkers
CHECK_DEADLOCK FALSE
