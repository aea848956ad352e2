SPECIFICATION Spec
CONSTANTS
    Tabs = {1}
    Paths = {"a"}
    Plans <- OneSave
    Clock = 2
    None = None
INVARIANTS
    DirtyIsTrue
CHECK_DEADLOCK FALSE
