SPECIFICATION FairSpec
CONSTANTS
  k1 = k1
  k2 = k2
  Keys = {k1, k2}
  Required = {k1}
  Assets = {"binary"}
  Destinations = {"registry"}
  PageSize = 1
  PageLimit = 3
  MaxRuns = 2
  MaxAttempts = 2
  MaxDeletes = 1
  MaxFaults = 1
INVARIANTS TypeOK VerifiedIsPublic RefusalIsReal
PROPERTIES HealthyIsVerified
CHECK_DEADLOCK FALSE
