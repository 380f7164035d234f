CONSTANTS
    Budgets <- Everything
SPECIFICATION Spec
INVARIANTS TypeOK PowerOffInOrder
PROPERTIES HandsOverAfterClosing RequestsKept
CHECK_DEADLOCK FALSE
