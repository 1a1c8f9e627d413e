SPECIFICATION Spec
CONSTANTS
  j1 = j1
  j2 = j2
  repo1 = repo1
  repo2 = repo2
  NoJob = NoJob
  Jobs = {j1, j2}
  Repos = {repo1, repo2}
  RepoOf <- OwnRepos
  MaxJobs = 2
  MaxRequests = 2
  MaxStarts = 2
  MaxUnclean = 1
CHECK_DEADLOCK FALSE
INVARIANTS
  OneVerdictPerRequest
  EntryLeadsToTheUnjudgedTask
  RunningJobIsCollected
  TalliesAreExact
PROPERTIES
  JobsFollowTheirLifecycle
