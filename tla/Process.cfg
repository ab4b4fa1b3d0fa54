SPECIFICATION FairSpec
CONSTANTS
  p1 = p1
  p2 = p2
  p3 = p3
  Pools = {p1, p2, p3}
  PoolSize <- MCPoolSize
  MaxCallbacks <- MCMaxCallbacks
  MaxBreaks = 2
  MaxRequests = 1
  Deployments <- MCDeployments
INVARIANTS
  NoConnectionsIsUnhealthy
  ConfigHealthAgrees
  LimiterClosedAfterDrain
PROPERTIES
  ReadinessNeverReturns
  ShutdownCompletes
  LatestConfigInstalled
CHECK_DEADLOCK FALSE
