--------------------------- MODULE MCVirtualServer ---------------------------
(* The generation of the configuration of a VirtualServer, checked in two  *)
(* halves that do not depend on one another: its routes (MCVSRoutes) and   *)
(* the policies of its contexts (MCVSPolicies).                            *)
EXTENDS MCVSRoutes

CONSTANT MaxChanges

VARIABLES half,  \* the half that is checked; the variables of the other do not change
          vs, store, lister, changes, toGather, policies, secretRefs, toGenerate, out, place

policyVars == <<vs, store, lister, changes, toGather, policies, secretRefs, toGenerate, out, place>>

\* the inputs of MCVSPolicies, and VSPolicies with them
Small == INSTANCE MCVSPolicies WITH IsPlus <- TRUE, Inputs <- {}, Stores <- {}, Listers <- {},
                                    PolicyValues <- {}, phase <- place
Policies == INSTANCE VSPolicies WITH IsPlus <- TRUE, phase <- place,
              Inputs <- Small!MCInputs, Stores <- Small!MCStores,
              Listers <- Small!MCListers, PolicyValues <- Small!MCPolicyValues

NoRoutes ==
  /\ in = Nil /\ phase = "validate" /\ attached = <<>> /\ todo = <<>> /\ fromVS = <<>>
  /\ cfg = NoConfig /\ matchesRoutes = 0
NoPolicies ==
  /\ vs = Nil /\ store = <<>> /\ lister = <<>> /\ changes = 0 /\ toGather = <<>>
  /\ policies = <<>> /\ secretRefs = {} /\ toGenerate = <<>> /\ out = <<>> /\ place = "gather"

MCInit ==
  \/ half = "routes" /\ Init /\ NoPolicies
  \/ half = "policies" /\ Policies!Init /\ NoRoutes
MCNext ==
  \/ half = "routes" /\ Next /\ UNCHANGED <<half, policyVars>>
  \/ half = "policies" /\ Policies!Next /\ UNCHANGED <<half, vars>>
MCSpec == MCInit /\ [][MCNext]_<<half, vars, policyVars>>

\* A context answers 500 exactly when one of its policies is invalid, and enforces
\* all of them otherwise (VSPolicies).
FailsClosed == Policies!FailsClosed

\* The only needed secrets that the store is not asked for are those of EgressMTLS
\* policies from the first one with a bad secret on (VSPolicies).
OnlyEgressRefsAreMissed == Policies!OnlyEgressRefsAreMissed
=============================================================================
