SPECIFICATION Spec
CONSTANTS
  NumFiles = 2
  MaxOpen = 1
  RetryCeiling = 5
  ClockSteps = TRUE
  Horizon = 4
INVARIANTS
  HealsWithinCeiling
