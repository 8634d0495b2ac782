SPECIFICATION SessionsSpec
CONSTANTS
  one = one
  two = two
  budget = budget
  Keys <- MCKeys
  Buckets <- MCBuckets
  Limit <- MCLimit
  Backfill <- MCBackfill
  MaxQty = 2
  PlanLimit = 3
  Credits = 2
  Ceiling = 2
  Stale = 1
  Costs = {1}
  Faulty <- NoKeys
  MaxCrashes = 0
INVARIANT
  DebitedWithinOverage
CHECK_DEADLOCK FALSE
