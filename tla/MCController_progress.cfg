CONSTANTS
  Scenarios <- PairScenario
  Specs <- AllSpecs
  FileName <- FileNames
  Uids <- AllUids
  MaxClock = 2
  MaxEdits = 3
  ReloadResults <- AllReloadResults
  GeneratorWarnings <- AllWarnings
SPECIFICATION MCSpec
PROPERTIES
  EventuallyInSync
CHECK_DEADLOCK FALSE
