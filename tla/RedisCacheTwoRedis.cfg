SPECIFICATION Spec
CONSTANTS
  c1 = c1 c2 = c2 c3 = c3 slow = slow fast = fast other = other
  UintModulus = 1000 NearNum = 1 NearDen = 2
  Callers <- TwoCallers
  Instances <- OneInstance
  Host <- AllOnA
  Descriptors <- TwoRules
  Unmatched = other
  PerSecondKeys = {fast}
  Shadow = {fast}
  Limits <- TwoRuleLimits
  MaxLimit <- TwoRuleMax
  Requests <- TwoRuleRequests
  LocalCacheEnabled = TRUE
  StopCacheKeyIncrementWhenOverlimit = FALSE
  Jitter = {0, 1}
  MaxTime = 2
  BucketStart <- MCBucketStart
  WindowEnd <- MCWindowEnd
  ExpirationSeconds <- MCExpirationSeconds
INVARIANTS WindowAdmission LocalDenialJustified LocalDenialAgreesWithRedis StatsAddUp
SYMMETRY CallerSymmetry
