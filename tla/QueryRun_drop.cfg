SPECIFICATION Spec
CONSTANTS
    PageRows = 2
    Lookahead = 1
    Initial = 1
    DiskPages = 2
    MaxBatch = 3
    MaxRows = 7
    MaxResults = 1
INVARIANTS
    NoQuietDrop
CHECK_DEADLOCK FALSE
