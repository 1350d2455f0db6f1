SPECIFICATION Spec
CONSTANTS
  Nil = Nil
  IsPlus = TRUE
  MaxChanges = 0
  Inputs <- MCInputs
  Stores <- MCStores
  Listers <- MCListers
  PolicyValues <- MCPolicyValues
INVARIANTS
  InvalidPoliciesOnlyCost500
CHECK_DEADLOCK FALSE
