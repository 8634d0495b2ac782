SPECIFICATION ClientsSpec
CONSTANTS
  a = a
  b = b
  c = c
  Clients <- MCClients
  Quitters <- MCQuitters
  ConsecutiveThreshold = 3
  MinSamples = 4
  FailurePercent = 50
  ProbeLimit = 2
  MaxSamples = 7
INVARIANTS
  ClientsTypeOK
  ClosedIsHealthy
  ProbesWithinLimit
PROPERTIES
  ProbationDecided
CHECK_DEADLOCK FALSE
