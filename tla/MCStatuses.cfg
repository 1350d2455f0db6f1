CONSTANTS
  Nil = Nil
  r1 = r1
  r2 = r2
  Replicas <- MCReplicas
  Clusters = {{"ing"}, {"vs"}, {"vsr"}}
  Addresses = {"a"}
  ServiceAddresses = {"b"}
  MaxChanges = 2
  MaxFaults = 1
SYMMETRY Symmetry
SPECIFICATION Spec
INVARIANTS StaleOnlyIfSuspect AddressPrecedence
PROPERTY OnlyClearedWithoutFlag
CHECK_DEADLOCK FALSE
