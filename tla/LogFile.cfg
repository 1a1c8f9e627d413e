SPECIFICATION Spec
CONSTANTS
  collector = collector
  request = request
  Writers <- TwoHandles
  MaxEvents = 3
  MaxRound = 2
  MaxFailures = 2
CHECK_DEADLOCK FALSE
INVARIANTS
  TypeOK
  LossesAreAccountedFor
  ReportMeansWhatItSays
  RestartOwesWhatTheLogLacks
