SPECIFICATION KeysSpec
CONSTANTS
  Slow = FALSE
  PendingLimit = 32
  MaxInputs = 3
  MaxPasted = 2
INVARIANTS DecodedIsMeant
PROPERTIES EveryKeyArrives
CHECK_DEADLOCK FALSE
