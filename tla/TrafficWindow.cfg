SPECIFICATION Spec
CONSTANTS
  MaxTraffic = 3
  MaxDay = 1
  Slots = 3
  FLU_COUNT_VALUE = 2
  MaxRestarts = 0
  MaxOffs = 0
  MaxFailures = 0
  BookModes <- Daily
  Total = 2
  Mega = 1
  Width = 100
  Hasty = {"midnight"}
  Data <- NoLimits
INVARIANTS Counted
CHECK_DEADLOCK FALSE
