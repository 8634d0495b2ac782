SPECIFICATION PipelineSpec
CONSTANTS
  first = first
  retry = retry
  other = other
  op = op
  uuid = uuid
  quota = quota
  user = user
  Keys <- MCKeys
  Operations <- MCOperations
  Calls <- MCRetried
  KeyOf <- MCRetriedKeyOf
  ScopeOf <- MCScopeOf
  Buckets <- MCBuckets
  Limit <- MCLimit
  Backfill <- MCBackfill
  Ask <- MCAsk
  MaxQty = 1
  MaxConcurrent = 1
  ConsecutiveThreshold = 2
  MinSamples = 3
  FailurePercent = 50
  ProbeLimit = 1
  SlowCalls <- Nobody
  FaultyCalls <- Nobody
  MortalCalls <- Nobody
INVARIANTS
  EveryAnswerCounted
CHECK_DEADLOCK FALSE
