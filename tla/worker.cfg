SPECIFICATION FairSpec
CONSTANTS
  None = None
  Retry = Retry
  Streams = {"first", "second"}
  Workspaces = {"one", "two"}
  MaxProgress = 1
INVARIANTS EndsWithOutcome
PROPERTIES StopsInTheEnd
CHECK_DEADLOCK FALSE
