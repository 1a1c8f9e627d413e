SPECIFICATION FairSpec
CONSTANTS
  MaxLines = 3
  MaxInterruptions = 2
CHECK_DEADLOCK FALSE
INVARIANTS
  TypeOK
  EveryLinePassedIsInALog
  EventsAreInOrder
  RestartRepeatsOneFrame
  VerdictIsTheRounds
PROPERTIES
  CancelledCollectionEnds
