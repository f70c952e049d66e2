SPECIFICATION FairSpec
CONSTANTS
  MaxRetryCount = 3
  MaxManagers = 2
  MaxAttempts = 2
  MaxSets = 1
  MaxIntents = 1
  MaxKills = 1
CHECK_DEADLOCK FALSE
INVARIANTS
  CallbacksReachTheirOwn
  OneAfterTheOther
PROPERTIES
  NeverOlderThanStarted
  StopReturns
  ComesBack
