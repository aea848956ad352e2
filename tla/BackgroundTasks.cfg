SPECIFICATION FairSpec
CONSTANTS
    Task = {1, 2, 3}
    MaxConcurrent = 1
    KeepFinished = 1
    Reporting = {1}
INVARIANTS
    TypeOK
    PoolFair
    EachIsWatched
PROPERTIES
    NoWayBack
    EverythingEnds
CHECK_DEADLOCK FALSE
