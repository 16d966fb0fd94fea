SPECIFICATION SupervisedSpec
CONSTANTS
  old = old
  a = a
  b = b
  NoPlan = NoPlan
  NoJob = NoJob
  Plans <- MCNewPlans
  ValidPlans <- MCNewPlans
  OldReleases = {}
  CommitOf <- MCNewCommit
  Checks <- MCOneCheck
  VerifyErrors <- MCOneError
  Attempts = 1
  Upgraded = TRUE
  MaxCommit = 0
  MaxFaults = 1
  MaxBadWrites = 0
PROPERTIES Settles PublishedIsRecorded
