SPECIFICATION Spec
CONSTANTS
  Threads = {"Listener", "SockListener"}
  MaxReports = 3
  MaxChecks = 2
  Hasty = {}
  EventsOf <- Events
INVARIANTS TypeOK LastEventsShown OutOfTrafficStays
CHECK_DEADLOCK FALSE
