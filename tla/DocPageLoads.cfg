SPECIFICATION ConsoleSpec
CONSTANTS
  Parts = {"figures"}
  Agents = {a, b}
  MaxConnections = 2
  MaxClicks = 2
  MaxChanges = 1
  Addresses <- Owners
  Chains <- Networks
  Base = 2
  MaxAttempts = 3
  MaxMoves = 3
CHECK_DEADLOCK FALSE
INVARIANTS
  PageLoads
