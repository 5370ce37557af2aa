SPECIFICATION Spec
CONSTANTS
  NumFiles = 2
  MaxOpen = 1
  RetryCeiling = 5
  ClockSteps = FALSE
  Horizon = 10
INVARIANTS
  HealsWithinCeiling
  ProbesSpaced
