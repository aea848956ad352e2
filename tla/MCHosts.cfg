SPECIFICATION Hosts
CONSTANTS
    Worker = {w1, w2, w3}
    Request = {r1, r2}
    MaxCrashes = 1
    Entry = {e1, e2}
    Session = {s1, s2}
    Caller = {c1, c2}
    Early = {c2}
    Attempts = 2
    none = none
INVARIANTS
    TypeOK
    Tracked
    ManagerAccounted
PROPERTIES
    NothingAfterTheEnd
    EveryoneIsAnswered
CHECK_DEADLOCK FALSE
