SPECIFICATION FairSpec
CONSTANTS
  Hour = 3
  Window = 4
  Fresh = 1
  Lead = 1
  Day = 6
  Days = 1
  Interim <- MCInterim
  MaxLag = 1
  MaxMishaps = 1
INVARIANTS
  LostEvidenceSuspends
  FillsAwaitMarks
PROPERTIES
  VerdictsStand
  EveryJobEnds
