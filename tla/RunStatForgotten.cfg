SPECIFICATION Spec
CONSTANTS
  Threads = {"Listener", "SockListener"}
  MaxReports = 2
  MaxChecks = 2
  Hasty = {}
  EventsOf <- Events
PROPERTIES CardKept
CHECK_DEADLOCK FALSE
