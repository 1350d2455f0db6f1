CONSTANTS
  Scenarios <- RemovingScenario
  Specs <- AllSpecs
  GlobalConfigs <- AllConfigs
  StartConfig <- OneListener
  NoConfig = NoConfig
  ForbiddenPorts = {80, 443}
  Services = {"s"}
  Addresses = {{}, {1}}
  MaxEdits = 3
SPECIFICATION MCSpec
INVARIANTS
  ListenersBackStreams
CHECK_DEADLOCK FALSE
