SPECIFICATION FairSpec
CONSTANTS
  Cases <- All
INVARIANTS TypeOK PowerStateTrue ListenerAnswers
PROPERTIES RestartsForAReason Recovers
CHECK_DEADLOCK FALSE
