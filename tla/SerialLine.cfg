SPECIFICATION FairSpec
CONSTANTS
  Parts = 2
  MaxEvents = 3
INVARIANTS TypeOK AnswersInStep
PROPERTIES CheckEnds
CHECK_DEADLOCK FALSE
