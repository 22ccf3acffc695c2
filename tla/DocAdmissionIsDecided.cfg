SPECIFICATION Spec
CONSTANTS
  NumProducts = 2
  Alarm = alarm
  Requests = {request}
  None = None
  ProductCap = 1
  Cap = 1
  MaxCommands = 3
  MaxMishaps = 1
INVARIANT AdmissionIsDecided
CHECK_DEADLOCK FALSE
