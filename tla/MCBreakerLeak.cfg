SPECIFICATION ClientsSpec
CONSTANTS
  a = a
  b = b
  c = c
  Clients <- MCClients
  Quitters <- MCClients
  ConsecutiveThreshold = 3
  MinSamples = 4
  FailurePercent = 50
  ProbeLimit = 1
  MaxSamples = 7
PROPERTIES
  ProbationEnds
CHECK_DEADLOCK FALSE
