SPECIFICATION Spec
CONSTANTS
  UintModulus = 1000 NearNum = 1 NearDen = 2
  NoLimit = NoLimit NoNode = NoNode ConfigError = ConfigError BadMetadata = BadMetadata
  Units = {"hour", "day"}
  Callers = {c1}
  Requests <- MCRequests
  Events <- MCEvents
  Reloads <- MCReloads
  Environments <- MCEnvironments
  Probes <- MCProbes
  MaxEvents = 2
  MaxCounter = 2
  BackendKey <- B
  ModelKey <- M
INVARIANT ConfigurationUnmodified
