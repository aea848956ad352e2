SPECIFICATION App
CONSTANTS
    Workspaces = {1, 2, 3}
    Default = 1
    Requests = {1}
    Slots = {1, 2}
    First <- MCFirst
    Plans <- MCPlans
    Limit = 2
    Clock = 4
    OpensOfTerminal = 3
    CallsOfTerminal = {1, 2, 3}
    StartsOfTunnel = 3
    StopsOfTunnel = 2
    ConnectsOfSocket = 2
    UsesOfSocket = 3
    SocketRetries = TRUE
    ConnectsOfMqtt = 2
    LeavesOfMqtt = 3
    LossesOfMqtt = 1
    SendsOfRequest = 2
    c1 = c1
    c2 = c2
    f1 = f1
    f2 = f2
    r1 = r1
    r2 = r2
    w1 = w1
    e1 = e1
    e2 = e2
    s1 = s1
    s2 = s2
    p1 = p1
    p2 = p2
    t1 = t1
    t2 = t2
    None = None
INVARIANTS
    TypesOK
    ListedIsThere
    Isolated
    AtRestItIsWritten
    NothingDangles
    TabShowsTheFile
    DirtyIsKept
    NothingLeftAtWork
    ShownAsItIs
PROPERTIES
    NothingOverwritten
CHECK_DEADLOCK FALSE
