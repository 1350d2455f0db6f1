CONSTANTS
  Ingresses <- AllIngresses
  VirtualServers <- AllVirtualServers
  VirtualServerRoutes <- AllVirtualServerRoutes
SPECIFICATION MCSpec
INVARIANTS
  TypeOK
  HostsHeldByWinner
  ValidHostsAgree
  UsedOrProblem
  PathsHeldByWinner
PROPERTIES
  ChangesLeadToNewHosts
  RejectionReportedOnce
