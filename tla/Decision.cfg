SPECIFICATION DecisionSpec
CONSTANTS
  RetryLimits <- OneRetry
  MaxSteps <- TightBudget
  Candles <- TwoCandles
  Parts = {"machine", "feed", "inputs", "trend", "notices", "backtest", "policies"}
  Timeframe = 8
  MaxStaleness = 6
  Interval = 8
  Offset = 1
  RetryDelays <- Delays
  MaxDelay = 4
  MaxRearms = 3
  RetryLimit = 2
  RetryAfters = {0, 3}
  RequestTimeout = 1
  MaxTime = 17
  Grids = {1, 2}
  Tasks = {"task"}
  Paths <- PricePaths
  LastMinute = 3
  Horizon = 1
  MinCandles = 2
  MaxRetries = 1
  MaxBatchCandles = 2
  Settled = {"refused"}
  Retryable = {"timeout"}
  Telemetry <- Records
  Floor <- LossFloor
  Ceiling = 2
  DedupeWindow = 2
  PostTimeout = 1
  MaxAttempts = 2
  LastInstant = 2
  MaxRecords = 3
  MaxProcesses = 2
  Prices = {8, 10, 12}
  MaxPosition = 2
  MaxOrder = 2
  Warmup = 2
  Whole = 4
  MinObservations = 4
  ConfirmationCount = 2
  SlopePeriods = 1
  Setups <- Backtests
CHECK_DEADLOCK FALSE
INVARIANTS
  TypeOK
  NeverThrows
  InFlightIsReconciled
  NoStrandedRetry
  NeverBoth
  PreparedIsComputed
  NoLookahead
  ToldOncePerWindow
  PositionIsGuarded
  ExitIsTraded
PROPERTIES
  PastStands
  RegimeIsConfirmed
  WithinCap
