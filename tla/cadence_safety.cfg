SPECIFICATION Spec
CONSTANTS
  Daily = 3
  MinimumGap = 1
  Quiet = 1
  Burst = 2
  BurstWindow = 2
  RetryDelay = 2
  TriageTimeout = 1
  Poll = 1
  Triage = TRUE
  NoTime = NoTime
  NoJob = NoJob
  Histories <- MCHistories
  MaxReleases = 2
  MaxTime = 5
  MaxCommits = 3
  MaxOwn = 1
  MaxFaults = 1
INVARIANTS DeadlineKept
PROPERTIES EarlyReleaseIsQuiet DecisionIsInformed
