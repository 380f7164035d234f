CONSTANTS
    Budgets <- Dialup
SPECIFICATION Spec
INVARIANTS WaitingIsIdle
CHECK_DEADLOCK FALSE
