SPECIFICATION Spec
CONSTANTS
    Statements = 4
    MaxErrors = 100
    CanInterrupt = TRUE
    Deadlocks = {}
    CanLose = FALSE
INVARIANTS
    AllOrNothing
CHECK_DEADLOCK FALSE
