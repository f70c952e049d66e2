SPECIFICATION FairSpec
CONSTANTS
  MAX_RETRY_COUNT = 2
  MaxAttempts = 5
  MaxStarts = 2
  MaxDisconnects = 1
  MaxLosses = 1
CHECK_DEADLOCK FALSE
INVARIANTS
  WaitsForSomething
  RetriesBounded
  OneConnectionPerChain
PROPERTIES
  WaitEnds
  DisconnectHolds
