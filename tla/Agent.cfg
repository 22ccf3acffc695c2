SPECIFICATION Spec
CONSTANTS
  RetryLimits <- OneRetry
  Runs = {r1, r2}
  None = None
  Setups <- Everything
CHECK_DEADLOCK FALSE
SYMMETRY RunSymmetry
INVARIANTS
  OneDecisionPerCandle
  BooksEveryFill
  ArmedWhenEnabled
  HaltedIsFlat
  RecordsSuffice
  OneExecutionPerOrder
