SPECIFICATION FairSpec
CONSTANTS
  p = p
  q = q
  cmd = cmd
  Calls <- PipeAndCmd
  RoutingKeys = {"a", "b"}
  Pipeline <- Pipelines
  Cancelable <- PipeOnly
  MaxInflight = 1
  Settings <- AllSettings
INVARIANTS TypeOK InflightBound IInv
PROPERTIES ImplementsPipeDo ReturnsByDeadline TokensComeBack
