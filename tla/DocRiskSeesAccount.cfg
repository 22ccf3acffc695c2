SPECIFICATION Spec
CONSTANTS
  RetryLimits <- OneRetry
  Runs = {r1}
  None = None
  Setups <- OneRetried
CHECK_DEADLOCK FALSE
INVARIANTS
  RiskSeesAccount
