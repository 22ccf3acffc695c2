SPECIFICATION FairSpec
CONSTANTS
  MaxBase = 3
  Dust = 1
  FlattenIds = {"flatten1", "flatten2", "flatten3", "flatten4"}
  KillLimits <- MCKillLimits
  MaxKillSteps = 32
  MaxMishaps = 1
  Positions = {2, 3}
  Requests = {3}
CHECK_DEADLOCK FALSE
INVARIANTS
  OneFlattenInDoubt
  KillMeansFlat
PROPERTIES
  ExitEnds
  ExitIsSafe
