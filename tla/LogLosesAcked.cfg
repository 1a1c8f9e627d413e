SPECIFICATION Spec
CONSTANTS
  collector = collector
  request = request
  Writers <- TwoHandles
  MaxEvents = 2
  MaxRound = 1
  MaxFailures = 1
CHECK_DEADLOCK FALSE
INVARIANTS
  AckedEventsAreRead
