SPECIFICATION Transfers
CONSTANTS
    p1 = p1
    p2 = p2
    p3 = p3
    a = a
    b = b
    d = d
    k1 = k1
    Records = 9
    Chunk = 5
    BatchSize = 2
    QueueSize = 2
    Imports <- MCImports
    Callers = {p1, p2, p3}
    GivingUp = {p1, p2}
    Tabs = {a, b, d}
    Conn = k1
    Calls = {1, 2}
    Asks <- MCAsks
    MaxRuns = 3
    Statements = 4
    MaxErrors = 2
    CanLose = TRUE
    Pages = 4
    HighWater = 4
    PageRows = 2
    Lookahead = 1
    Initial = 1
    DiskPages = 2
    MaxBatch = 2
    MaxRows = 5
    MaxResults = 2
INVARIANTS
    TypesOK
    ResumesExactly
    BadCostsItself
    AllOrNothing
    ShownIsDone
    OneStatement
PROPERTIES
    InOrder
    KeepsPromise
    EveryoneIsHeard
CHECK_DEADLOCK FALSE
