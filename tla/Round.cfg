CONSTANTS
  round1 = round1
  round2 = round2
  Rounds = {round1, round2}
  HasVerify = TRUE
  Delivers = TRUE
  PushAttempts = 2
  MaxDeletions = 1
SPECIFICATION FairSpec
INVARIANTS TypeOK RecordedWorkIsPublished RecordedWorkStays PassedRoundsLoseNothing VerdictIsAboutTheRecordedWork
PROPERTIES PullRequestsFollowAPass CancelledRoundsEnd
CHECK_DEADLOCK FALSE
