SPECIFICATION Spec
CONSTANTS
  c1 = c1 c2 = c2 c3 = c3 slow = slow fast = fast other = other
  UintModulus = 1000 NearNum = 1 NearDen = 2
  Callers <- TwoCallers
  Instances <- OneInstance
  Host <- AllOnA
  Descriptors <- TwoRules
  Unmatched = other
  PerSecondKeys = {fast}
  Shadow = {slow}
  Limits <- StopLimits
  MaxLimit <- StopMax
  Requests <- StopRequests
  LocalCacheEnabled = FALSE
  StopCacheKeyIncrementWhenOverlimit = TRUE
  Jitter = {0}
  MaxTime = 1
  BucketStart <- MCBucketStart
  WindowEnd <- MCWindowEnd
  ExpirationSeconds <- MCExpirationSeconds
INVARIANTS AdmittedWithinLimit
SYMMETRY CallerSymmetry
