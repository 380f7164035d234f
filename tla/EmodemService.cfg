CONSTANTS
    Budgets <- Service
SPECIFICATION FairSpec
INVARIANTS LockReleased SendsOnOpenLink ChannelAsDocumented NothingLeftBehind
PROPERTIES Connects SuspensionEnds ShutsDown
CHECK_DEADLOCK FALSE
