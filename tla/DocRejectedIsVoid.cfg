SPECIFICATION Spec
CONSTANTS
  RetryLimits <- OneRetry
  Runs = {r1}
  None = None
  Setups <- OneReplayed
CHECK_DEADLOCK FALSE
INVARIANTS
  RejectedIsVoid
