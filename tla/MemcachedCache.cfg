SPECIFICATION FairSpec
CONSTANTS
  c1 = c1 c2 = c2 c3 = c3 slow = slow fast = fast other = other
  UintModulus = 1000 NearNum = 1 NearDen = 2
  Calls = {c1, c2}
  Rules = {slow, fast}
  Unmatched = other
  Limit <- MCLimit
  Requests <- MCRequests
  Jitter = {0}
  LocalCacheEnabled = TRUE
  MaxRelativeExpiration = 1
  Int32Max = 3
  MaxTime = 1
  MaxErrors = 1
  BucketStart <- MCBucketStart
  WindowEnd <- MCWindowEnd
  ExpirationSeconds <- MCExpirationSeconds
INVARIANTS TypeOK HitsAccounted  CounterOutlivesWindow FlushedBeforeReturn
PROPERTY EveryTaskRuns
