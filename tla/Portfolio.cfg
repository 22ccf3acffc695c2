SPECIFICATION FairSpec
CONSTANTS
  NumProducts = 2
  Alarm = alarm
  Requests = {request}
  None = None
  ProductCap = 1
  Cap = 1
  MaxCommands = 3
  MaxMishaps = 1
CHECK_DEADLOCK FALSE
INVARIANTS
  CapHolds
PROPERTIES
  DrainEnds
