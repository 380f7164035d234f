SPECIFICATION Spec
CONSTANTS
  Cases <- All
  MAX_URC_ARRAY_LEN = 20
  CHAR_REPORTS = 6
INVARIANTS TypeOK LastReportCounts IdleOncePoweredDown
PROPERTIES HandledOnce
CHECK_DEADLOCK FALSE
