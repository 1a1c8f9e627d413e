SPECIFICATION Spec
CONSTANTS
  root1 = root1
  run1 = run1
  Somebody = Somebody
  Daemons = {root1}
  Runs = {run1}
  MaxId = 2
  Bases = {1}
  ClaimAttempts = 2
  MaxCreations = 2
  MaxDeletions = 1
CHECK_DEADLOCK FALSE
INVARIANTS
  RevisesContinueTheirOwnBranch
