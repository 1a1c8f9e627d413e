SPECIFICATION Spec
CONSTANTS
  j1 = j1
  j2 = j2
  repo1 = repo1
  repo2 = repo2
  NoJob = NoJob
  Jobs = {j1, j2}
  Repos = {repo1}
  RepoOf <- OneRepo
  MaxJobs = 2
  MaxRequests = 2
  MaxStarts = 1
  MaxUnclean = 0
CHECK_DEADLOCK FALSE
SYMMETRY Symmetry
INVARIANTS
  NoJobIsLeftQueued
