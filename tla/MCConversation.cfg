SPECIFICATION SessionsSpec
CONSTANTS
  one = one
  two = two
  budget = budget
  Keys <- MCKeys
  Buckets <- MCBuckets
  Limit <- MCLimit
  Backfill <- MCBackfill
  MaxQty = 2
  PlanLimit = 3
  Credits = 1
  Ceiling = 2
  Stale = 1
  Costs = {1}
  Faulty <- MCFaulty
  MaxCrashes = 1
INVARIANTS
  SessionsTypeOK
  PlanPromisedOnce
  WithinPlanNeverDebited
PROPERTIES
  ImplementsPurse
  AbandonedBilledForPresence
CHECK_DEADLOCK FALSE
