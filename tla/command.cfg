SPECIFICATION FairSpec
CONSTANTS
  Leader = leader
  Members = {one, two}
  Daemons = {daemon}
  Capacity = 3
  MaxWritten = 5
INVARIANTS TailIsLatest SuccessIsComplete CancelledLeavesNothing
PROPERTIES RunReturns
CHECK_DEADLOCK FALSE
