SPECIFICATION Spec
CONSTANTS
  NumFiles = 3
  MaxOpen = 2
  RetryCeiling = 3
  ClockSteps = TRUE
  Horizon = 2
INVARIANTS
  TypeOK
  HandlesTracked
  CapHeld
  KeepsMostRecent
PROPERTIES
  NeverPassedOver
