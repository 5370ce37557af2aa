SPECIFICATION FairSpec
CONSTANTS
  j1 = j1  j2 = j2
  w1 = w1  w2 = w2
  Jobs = {j1, j2}
  Workers = {w1, w2}
  Requests <- OnePointRequests
  NoRequest = NoRequest
  NoJob = NoJob
  AuthRequired = TRUE
  MaxPoints = 2
PROPERTIES
  EveryRequestAnswered
  ShutdownCompletes
