SPECIFICATION Spec
CONSTANTS
  MaxTraffic = 5
  MaxDay = 1
  Slots = 4
  FLU_COUNT_VALUE = 2
  MaxRestarts = 2
  MaxOffs = 1
  MaxFailures = 1
  BookModes <- Both
  Total = 2
  Mega = 1
  Width = 100
  Hasty = {}
  Data <- Limits
INVARIANTS TypeOK Counted LimitHolds
PROPERTIES RecordKept EndsWhenUsedUp
CHECK_DEADLOCK FALSE
