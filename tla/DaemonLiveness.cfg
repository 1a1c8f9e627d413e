SPECIFICATION FairSpec
CONSTANTS
  j1 = j1
  j2 = j2
  repo1 = repo1
  repo2 = repo2
  NoJob = NoJob
  Jobs = {j1, j2}
  Repos = {repo1}
  RepoOf <- OneRepo
  MaxJobs = 1
  MaxRequests = 2
  MaxStarts = 2
  MaxUnclean = 0
CHECK_DEADLOCK FALSE
PROPERTIES
  CancelEndsTheRound
  StopCompletes
  EveryQueuedJobLeavesTheQueue
