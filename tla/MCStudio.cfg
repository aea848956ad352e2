SPECIFICATION Studio
CONSTANTS
    Inputs <- MCInputs
    Pieces = {1, 2, 5}
    MaxHits = 2
    MaxCarry = 4
    None = None
INVARIANTS
    TypesOK
    WrittenIsRead
    ReadTheSame
    DesignIsTrue
PROPERTIES
    DocumentIsKept
CHECK_DEADLOCK FALSE
