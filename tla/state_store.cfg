SPECIFICATION Spec
CONSTANTS
  daemon = daemon
  retry = retry
  sameCheckout = sameCheckout
  sameState = sameState
  None = None
  Torn = Torn
  Procs = {daemon, retry, sameCheckout, sameState}
  Retries = {retry}
  StateDir <- MCStateDir
  Checkout <- MCCheckout
  MaxWrites = 3
  MaxFaults = 2
INVARIANTS TypeOK MutualExclusion RecordIsWhole AcknowledgedIsDurable
PROPERTIES NoLostUpdate
