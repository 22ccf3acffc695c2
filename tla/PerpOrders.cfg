SPECIFICATION FairSpec
CONSTANTS
  Orders = {"order1", "order2"}
  MaxGaps = 2
  MaxMishaps = 2
CHECK_DEADLOCK FALSE
INVARIANTS
  RowsAreTrue
  NothingIsForgotten
PROPERTIES
  GapsAreFilled
