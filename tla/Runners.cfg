CONSTANTS
  PerSecond = 2
  ReconnectsAllowed = 1
  MaxLines = 3
  MaxInstant = 3
  MaxRestarts = 1
SPECIFICATION RunnersFairSpec
INVARIANTS RunnersTypeOK LinesAreReadOnce CommandsAreSupervised
PROPERTIES StreamsAreTheRounds RoundsAreEndedForCause EndsAreSeen
CHECK_DEADLOCK FALSE
