CONSTANTS
  Scenarios <- CoreScenarios
  Specs <- AllSpecs
  FileName <- FileNames
  Uids <- AllUids
  MaxClock = 2
  MaxEdits = 4
  ReloadResults <- AllReloadResults
  GeneratorWarnings <- AllWarnings
SPECIFICATION MCSpec
INVARIANTS
  TypeOK
  NoLostUpdate
  FilesReflectConfiguration
  StatusTruth
CHECK_DEADLOCK FALSE
