SPECIFICATION Spec
CONSTANTS
  MaxRetryCount = 3
  MaxManagers = 1
  MaxAttempts = 3
  MaxSets = 0
  MaxIntents = 1
  MaxKills = 0
CHECK_DEADLOCK FALSE
INVARIANTS
  OneConnectionPerUser
