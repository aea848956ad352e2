SPECIFICATION Drivers
CONSTANTS
    q1 = q1
    q2 = q2
    b1 = b1
    b2 = b2
    h1 = h1
    h2 = h2
    h3 = h3
    keepAlive = p1
    none = none
    Stmt <- MCStmt
    Stops <- MCStops
    MaxRows = 2
    Wire = 2
    Query = {q1, q2}
    Pings = {p1}
    HighWater = 2
    LowWater = 1
    AnswerRows = 4
    PacketsOut = 2
    PacketChunk = 2
    Statements = {1, 2}
    Browse = {b1, b2}
    Kills <- MCStops
    Commands = {1, 2, 3}
    TooLarge = {2}
    Pieces = 2
    MongoStmt = {1, 2}
    Taggable = {1}
    MongoStops <- MCMongoStops
    Batches = 2
    Job = {1, 2, 3}
    About <- About123
    Host = {h1, h2, h3}
    Seeds <- SeedLists
    Strangers = {h3}
    MaxMoves = 2
    PumpHigh = 4
    PumpChunk = 2
    MaxNeed = 6
    Total = 12
INVARIANTS
    TypeOK
    InStep
    OnlyOwnInterrupted
    EachInStep
PROPERTIES
    SecondInTurn
    EveryoneIsTold
CHECK_DEADLOCK FALSE
