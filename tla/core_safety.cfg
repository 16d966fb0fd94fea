SPECIFICATION Spec
CONSTANTS
  old = old
  a = a
  b = b
  NoPlan = NoPlan
  NoJob = NoJob
  Plans <- MCOldAndNew
  ValidPlans <- MCOldAndNew
  OldReleases <- MCOld
  CommitOf <- MCOldThenNew
  Checks <- MCChecks
  VerifyErrors <- MCOneError
  Attempts = 2
  Upgraded = FALSE
  MaxCommit = 1
  MaxFaults = 2
  MaxBadWrites = 1
INVARIANTS TypeOK GateBeforePublishing AttemptsAccounted ReconciledFirst
PROPERTIES RejectedNeedsPreparation LedgerSpec
