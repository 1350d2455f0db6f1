----------------------------- MODULE VSPolicies -----------------------------
(***************************************************************************)
(* How the policies a VirtualServer and its VirtualServerRoutes reference  *)
(* reach the NGINX configuration.  createVirtualServerEx (controller.go)   *)
(* reads the policies of one context after the other from the lister, and  *)
(* asks the secret store for the secrets they name; the informer may       *)
(* change the lister between two reads.  GenerateVirtualServerConfig       *)
(* (virtualserver.go) then turns the references of every context into the  *)
(* directives of its server or locations.  The operations are those of     *)
(* PolicyConfig; this module puts them in the order of the code.           *)
(***************************************************************************)
EXTENDS PolicyConfig

CONSTANTS Inputs,       \* [tls, spec, routes, subroutes]: what references what
          Stores,       \* the contents the secret store may have
          Listers,      \* the contents the policy lister may start with
          PolicyValues, \* what the informer may put in the lister
          MaxChanges    \* how often it does so while the policies are read

VARIABLES vs,        \* the VirtualServer with the VirtualServerRoutes
          store,     \* the secret store, which only this thread changes
          lister,    \* the policy lister, which the informer changes
          changes,
          toGather,  \* the contexts whose policies are still to be read
          policies,  \* the policies read so far: a sequence of <<name, policy>>
          secretRefs,\* the keys of SecretRefs
          toGenerate,\* the contexts whose directives are still to be generated
          out,       \* the generated policiesCfg of every context reached
          phase

vars == <<vs, store, lister, changes, toGather, policies, secretRefs,
          toGenerate, out, phase>>

-----------------------------------------------------------------------------
Init ==
  /\ vs \in Inputs /\ store \in Stores /\ lister \in Listers
  /\ changes = 0
  /\ toGather = GatherContexts(vs)
  /\ policies = <<>> /\ secretRefs = TLSSecretRef(vs)
  /\ toGenerate = <<>> /\ out = <<>>
  /\ phase = "gather"

\* The informer adds, updates or deletes a policy between two reads.
PolicyChanges ==
  /\ phase = "gather" /\ changes < MaxChanges
  /\ \E n \in DOMAIN lister : \E p \in PolicyValues \cup {Nil} :
       lister' = [lister EXCEPT ![n] = p]
  /\ changes' = changes + 1
  /\ UNCHANGED <<vs, store, toGather, policies, secretRefs, toGenerate, out, phase>>

Gather ==
  /\ phase = "gather" /\ toGather # <<>>
  /\ LET g == GatherStep([policies |-> policies, secretRefs |-> secretRefs],
                         Head(toGather), lister, store)
     IN policies' = g.policies /\ secretRefs' = g.secretRefs
  /\ toGather' = Tail(toGather)
  /\ UNCHANGED <<vs, store, lister, changes, toGenerate, out, phase>>

StartGenerating ==
  /\ phase = "gather" /\ toGather = <<>>
  /\ phase' = "generate" /\ toGenerate' = GenerateContexts(vs)
  /\ UNCHANGED <<vs, store, lister, changes, toGather, policies, secretRefs, out>>

Generate ==
  /\ phase = "generate" /\ toGenerate # <<>>
  /\ LET c == GeneratePolicies(Head(toGenerate).refs, CreatePolicyMap(policies),
                               Head(toGenerate).ctx, GenerateSSLConfig(vs, store) # Nil,
                               store, secretRefs)
     IN /\ out' = Append(out, c)
        /\ phase' = IF c.result = "panic" THEN "panic"
                    ELSE IF Len(toGenerate) = 1 THEN "done" ELSE "generate"
  /\ toGenerate' = Tail(toGenerate)
  /\ UNCHANGED <<vs, store, lister, changes, toGather, policies, secretRefs>>

Next == PolicyChanges \/ Gather \/ StartGenerating \/ Generate

Spec == Init /\ [][Next]_vars

-----------------------------------------------------------------------------
(* What the documentation promises *)

\* The policies of a kind that a context references, as the configuration
\* in force read them.
Read == CreatePolicyMap(policies)

\* A reference the documentation calls invalid: the policy is missing or
\* invalid, or its secrets are, or IngressMTLS is used without TLS or outside
\* the spec.  A later JWT or MTLS policy of a context is ignored.
Ignored(c, i) ==
  \E j \in 1..(i - 1) : /\ c.refs[i] \in DOMAIN Read /\ c.refs[j] \in DOMAIN Read
                        /\ FieldOf(Read[c.refs[i]]) = FieldOf(Read[c.refs[j]])
                        /\ FieldOf(Read[c.refs[i]]) \in {"jwt", "ingressMTLS", "egressMTLS"}

Satisfied(p, ctx) ==
  CASE FieldOf(p) = "jwt" -> store[p.secret] = "jwk"
    [] FieldOf(p) = "ingressMTLS" -> vs.tls \notin {Nil, ""} /\ ctx = "spec" /\ store[p.secret] = "ca"
    [] FieldOf(p) = "egressMTLS" -> /\ p.secret # "" => store[p.secret] = "tls"
                                    /\ p.trusted # "" => store[p.trusted] = "ca"
    [] OTHER -> TRUE

InvalidReference(c, i) ==
  \/ c.refs[i] \notin DOMAIN Read
  \/ c.ctx # "spec" /\ FieldOf(Read[c.refs[i]]) = "ingressMTLS"
  \/ ~Ignored(c, i) /\ ~Satisfied(Read[c.refs[i]], c.ctx)

\* What the directives of a context enforce of one of its policies.
Enforced(o, c, i) ==
  LET p == Read[c.refs[i]] IN
  CASE FieldOf(p) = "accessControl" ->
         /\ p.allow # Nil => Range(p.allow) \subseteq Range(o.allow)
         /\ p.deny # Nil => Range(p.deny) \subseteq Range(o.deny)
    [] FieldOf(p) = "rateLimit" ->
         LET zones == RemoveDuplicateLimitReqZones(out)
         IN /\ c.refs[i] \in Range(o.limitReqs)
            /\ Cardinality({z \in DOMAIN zones : zones[z] = c.refs[i]}) = 1
    [] FieldOf(p) = "jwt" -> Ignored(c, i) \/ o.jwt = p.secret
    [] FieldOf(p) = "ingressMTLS" -> Ignored(c, i) \/ o.ingressMTLS = p.secret
    [] FieldOf(p) = "egressMTLS" -> Ignored(c, i) \/ o.egressMTLS = <<p.secret, p.trusted>>

\* A context answers 500 exactly when one of its references is invalid, and
\* otherwise enforces every policy it references: no missing, invalid or
\* half-configured policy leaves a location open (generatePolicies and the
\* inheritance of route policies by subroutes, virtualserver.go), whatever
\* the informer changed while the policies were being read.
FailsClosed ==
  phase = "done" =>
    \A k \in DOMAIN out :
      LET c == GenerateContexts(vs)[k]
          invalid == \E i \in DOMAIN c.refs : InvalidReference(c, i)
      IN /\ invalid <=> out[k].result = "500"
         /\ invalid => out[k].warned
         /\ ~invalid => \A i \in DOMAIN c.refs : Enforced(out[k], c, i)

\* The secrets that a policy names.
SecretsOf(p) ==
  CASE FieldOf(p) \in {"jwt", "ingressMTLS"} -> {p.secret}
    [] FieldOf(p) = "egressMTLS" -> Range(EgressSecrets(p))
    [] OTHER -> {}

\* An EgressMTLS policy one of whose secrets has an error was read before n,
\* or is n.
AfterFailedEgress(n) ==
  \E y \in DOMAIN policies :
    /\ "egressMTLS" \in policies[y][2].fields
    /\ \E s \in SecretsOf(policies[y][2]) : HasError(store, s)
    /\ \A x \in DOMAIN policies : policies[x][1] = n => y <= x

\* With no policy changing between the reads, the secret store was asked for
\* every secret that a context needs, but for two kinds: those of an
\* EgressMTLS policy that is, or was read after, one whose secret has an error
\* (the loop of addEgressMTLSSecretRefs, controller.go, ends there), and those
\* of an IngressMTLS policy outside the spec, which is refused anyway.
OnlyEgressRefsAreMissed ==
  phase # "gather" /\ changes = 0 =>
    \A c \in Range(GenerateContexts(vs)) : \A i \in DOMAIN c.refs :
      c.refs[i] \in DOMAIN Read /\ ~Ignored(c, i) =>
        LET p == Read[c.refs[i]]
        IN \/ SecretsOf(p) \subseteq secretRefs
           \/ FieldOf(p) = "egressMTLS" /\ AfterFailedEgress(c.refs[i])
           \/ FieldOf(p) = "ingressMTLS" /\ c.ctx # "spec"

\* docs-web/configuration/policy-resource.md:509-511: for an invalid policy
\* NGINX returns 500 for the URIs of the context that references it.  The
\* generation comes to an end, with every context configured.
InvalidPoliciesOnlyCost500 == phase # "panic"
=============================================================================
