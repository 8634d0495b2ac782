SPECIFICATION SessionsSpec
CONSTANTS
  one = one
  two = two
  budget = budget
  Keys <- MCKeys
  Buckets <- MCBuckets
  Limit <- MCLimit
  Backfill <- MCBackfill
  MaxQty = 1
  PlanLimit = 1
  Credits = 0
  Ceiling = 1
  Stale = 0
  Costs = {1}
  Faulty <- MCFaulty
  MaxCrashes = 1
PROPERTIES
  EveryRowCloses
CHECK_DEADLOCK FALSE
