SPECIFICATION PipelineSpec
CONSTANTS
  first = first
  retry = retry
  other = other
  op = op
  uuid = uuid
  quota = quota
  user = user
  Keys <- MCKeys
  Operations <- MCOperations
  Calls <- MCPair
  KeyOf <- MCPairKeyOf
  ScopeOf <- MCScopeOf
  Buckets <- MCBuckets
  Limit <- MCLimit
  Backfill <- MCBackfill
  Ask <- MCAsk
  MaxQty = 1
  MaxConcurrent = 1
  ConsecutiveThreshold = 2
  MinSamples = 3
  FailurePercent = 50
  ProbeLimit = 1
  SlowCalls <- MCSlow
  FaultyCalls <- MCFaulty
  MortalCalls <- MCMortal
PROPERTIES
  CapacityComesBack
CHECK_DEADLOCK FALSE
