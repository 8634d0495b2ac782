SPECIFICATION LedgerSpec
CONSTANTS
  k1 = k1
  k2 = k2
  quota = quota
  budget = budget
  Keys <- MCKeys
  Buckets <- MCBuckets
  Limit <- MCLimit
  Backfill <- MCBackfill
  MaxQty = 2
INVARIANTS
  LedgerTypeOK
  ReservedIsSumOfHolding
  CommittedIsSumOfSettled
  WithinLimit
PROPERTIES
  FinalisedOnce
  ImplementsPool
CHECK_DEADLOCK FALSE
