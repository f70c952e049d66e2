SPECIFICATION Spec
CONSTANTS
  MAX_RETRY_COUNT = 3
  MaxAttempts = 2
  MaxStarts = 2
  MaxDisconnects = 0
  MaxLosses = 0
CHECK_DEADLOCK FALSE
INVARIANTS
  OneConnection
