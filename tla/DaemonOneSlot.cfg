SPECIFICATION Spec
CONSTANTS
  j1 = j1
  j2 = j2
  repo1 = repo1
  repo2 = repo2
  NoJob = NoJob
  Jobs = {j1, j2}
  Repos = {repo1}
  RepoOf <- OneRepo
  MaxJobs = 1
  MaxRequests = 3
  MaxStarts = 2
  MaxUnclean = 1
CHECK_DEADLOCK FALSE
SYMMETRY Symmetry
INVARIANTS
  TypeOK
  CapHolds
  GracefulStopLosesNoRound
  QueuedJobIsOwedALaunch
  LineIsInRequestOrder
