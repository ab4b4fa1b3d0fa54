SPECIFICATION Spec
CONSTANTS
  p = p
  q = q
  cmd = cmd
  Calls <- TwoCalls
  RoutingKeys = {"a", "b"}
  Pipeline <- ShortPipelines
  Cancelable <- TwoCalls
  MaxInflight = 1
  Settings <- SingleSetting
PROPERTIES RefusedOnlyWhenBusy
