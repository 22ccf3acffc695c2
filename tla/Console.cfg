SPECIFICATION ConsoleSpec
CONSTANTS
  Parts = {"page", "wallet", "figures"}
  Agents = {a, b}
  MaxConnections = 2
  MaxClicks = 2
  MaxChanges = 1
  Addresses <- Owners
  Chains <- Networks
  Base = 2
  MaxAttempts = 3
  MaxMoves = 3
CHECK_DEADLOCK FALSE
INVARIANTS
  ShownIsConfirmed
  OneSubmissionPerOrder
  SessionFollowsWallet
  FiguresAreAccepted
  FiguresAreTrue
PROPERTIES
  BusyEnds
