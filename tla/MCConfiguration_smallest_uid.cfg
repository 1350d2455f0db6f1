CONSTANTS
  Ingresses <- AllIngresses
  VirtualServers <- AllVirtualServers
  VirtualServerRoutes <- AllVirtualServerRoutes
SPECIFICATION MCSpec
INVARIANTS
  OldestThenSmallestUidWins
