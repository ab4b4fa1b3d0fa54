SPECIFICATION Spec
CONSTANTS
  c1 = c1 c2 = c2 c3 = c3 slow = slow fast = fast other = other
  UintModulus = 1000 NearNum = 1 NearDen = 2
  Callers <- ThreeCallers
  Instances <- OneInstance
  Host <- AllOnA
  Descriptors <- OneRule
  Unmatched = other
  PerSecondKeys = {}
  Shadow = {}
  Limits <- OneRuleLimits
  MaxLimit <- OneRuleMax
  Requests <- OneRuleRequests
  LocalCacheEnabled = FALSE
  StopCacheKeyIncrementWhenOverlimit = FALSE
  Jitter = {0}
  MaxTime = 2
  BucketStart <- MCBucketStart
  WindowEnd <- MCWindowEnd
  ExpirationSeconds <- MCExpirationSeconds
INVARIANTS IInv WindowAdmission CounterOutlivesWindow NoImmortalCounter AnsweredWithinLimit
SYMMETRY CallerSymmetry
