CONSTANTS
  round1 = round1
  round2 = round2
  Rounds = {round1, round2}
  HasVerify = TRUE
  Delivers = TRUE
  PushAttempts = 1
  MaxDeletions = 0
SPECIFICATION Spec
INVARIANTS VerifyJudgesTheBranch
CHECK_DEADLOCK FALSE
