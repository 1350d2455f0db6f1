CONSTANTS
  Nil = Nil
  IsPlus = TRUE
  Resources <- MCResources
  InitSecrets <- MCInitSecrets
  InitPolicies <- MCInitPolicies
  Services = {"s"}
  WAF = {"w"}
  SecretValues <- MCSecretValues
  PolicyValues <- MCPolicyValues
  ConfigMapValues <- MCConfigMapValues
  SpecialSecret = "cert"
  RelistTypes = {"tls", "ca", "jwk"}
  ReloadTimeout = 4000
  MaxChanges = 2
SPECIFICATION Spec
INVARIANTS RefusedOnlyBehindAPolicy RunningIsCurrent DefaultServerSecretServed
CHECK_DEADLOCK FALSE
