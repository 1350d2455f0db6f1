CONSTANTS
  Scenarios <- CoreScenarios
  Specs <- AllSpecs
  GlobalConfigs <- AllConfigs
  StartConfig <- OneListener
  NoConfig = NoConfig
  ForbiddenPorts = {80, 443}
  Services = {"s"}
  Addresses = {{}, {1}}
  MaxEdits = 5
SPECIFICATION MCSpec
INVARIANTS
  TypeOK
  ServersAreServed
  PassthroughHostsServed
  ConflictsGetRepaired
CHECK_DEADLOCK FALSE
