SPECIFICATION FairSpec
CONSTANTS
  RetryLimits <- OneRetry
  Runs = {r1}
  None = None
  Setups <- Settling
CHECK_DEADLOCK FALSE
PROPERTIES
  CycleSettles
  KillSettles
