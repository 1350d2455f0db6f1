---------------------------- MODULE PolicyConfig ----------------------------
(***************************************************************************)
(* The policies of a VirtualServer and its VirtualServerRoutes, from their *)
(* validation (pkg/apis/configuration/validation/policy.go) over the way   *)
(* createVirtualServerEx collects them with the secrets they name          *)
(* (internal/k8s/controller.go) to the directives of every context         *)
(* (internal/configs/virtualserver.go).                                    *)
(*                                                                         *)
(* A Secret is "missing", "invalid", or valid and of one of the types      *)
(* "tls", "ca", "jwk".  References are resolved names: the namespace that  *)
(* a reference omits is its owner's.  A VirtualServer is a record          *)
(* [tls, spec, routes, subroutes]: the secret of its tls field, the        *)
(* policies of its spec, its routes with their policies and whether they   *)
(* reference a VirtualServerRoute, the policies of the subroutes.          *)
(***************************************************************************)
EXTENDS Integers, FiniteSets, FiniteSetsExt, Sequences, SequencesExt

CONSTANTS IsPlus, Nil

-----------------------------------------------------------------------------
(* Validation.  A policy sets some of the five fields; wellFormed stands   *)
(* for the checks on the text and the range of its values.                 *)

ValidateAccessControl(p) == (p.allow # Nil) # (p.deny # Nil)

ValidateJWT(p) == p.secret # ""

ValidateIngressMTLS(p) == p.secret # ""

ValidateEgressMTLS(p) == p.verifyServer => p.trusted # ""

ValidatePolicy(p) ==
  /\ Cardinality(p.fields) = 1
  /\ "accessControl" \in p.fields => ValidateAccessControl(p)
  /\ "jwt" \in p.fields => IsPlus /\ ValidateJWT(p)
  /\ "ingressMTLS" \in p.fields => ValidateIngressMTLS(p)
  /\ "egressMTLS" \in p.fields => ValidateEgressMTLS(p)
  /\ p.wellFormed

\* The field of a valid policy, the one generatePolicies switches on.
FieldOf(p) == CHOOSE f \in p.fields : TRUE

-----------------------------------------------------------------------------
(* createVirtualServerEx *)

\* GetSecretReference: the Error and the Type of the reference.
HasError(st, secret) == st[secret] \in {"missing", "invalid"}

\* getPolicies: the referenced policies that exist and are valid, in order.
GetPolicies(li, refs) ==
  LET found == SelectSeq(refs, LAMBDA n : li[n] # Nil /\ ValidatePolicy(li[n]))
  IN [i \in DOMAIN found |-> <<found[i], li[found[i]]>>]

\* The loops of add...SecretRefs over the secrets they ask for: each is put
\* in the map, and the first one with an error ends the loop.
AddRefs(refs, st, secrets) ==
  LET bad == {i \in DOMAIN secrets : HasError(st, secrets[i])}
      last == IF bad = {} THEN Len(secrets) ELSE Min(bad)
  IN refs \cup {secrets[i] : i \in 1..last}

OfField(pols, f) == SelectSeq(pols, LAMBDA np : f \in np[2].fields)

\* Mutant: only the first policy of a context is looked at.
Bug_FirstPolicyOnly(refs, st, pols) ==
  IF pols # <<>> /\ "jwt" \in pols[1][2].fields THEN refs \cup {pols[1][2].secret} ELSE refs

AddJWTSecretRefs(refs, st, pols) ==
  LET jwts == OfField(pols, "jwt")
  IN AddRefs(refs, st, [i \in DOMAIN jwts |-> jwts[i][2].secret])

\* Only the first IngressMTLS policy counts.
AddIngressMTLSSecretRefs(refs, st, pols) ==
  LET ms == OfField(pols, "ingressMTLS")
  IN IF ms = <<>> THEN refs ELSE refs \cup {ms[1][2].secret}

EgressSecrets(p) == SelectSeq(<<p.secret, p.trusted>>, LAMBDA s : s # "")

AddEgressMTLSSecretRefs(refs, st, pols) ==
  LET es == OfField(pols, "egressMTLS")
  IN AddRefs(refs, st, FlattenSeq([i \in DOMAIN es |-> EgressSecrets(es[i][2])]))

\* The spec, then the routes, then the subroutes of the VirtualServerRoutes.
GatherContexts(v) ==
  <<[ctx |-> "spec", refs |-> v.spec]>>
  \o [i \in DOMAIN v.routes |-> [ctx |-> "route", refs |-> v.routes[i].policies]]
  \o [i \in DOMAIN v.subroutes |-> [ctx |-> "subroute", refs |-> v.subroutes[i]]]

\* One context: the JWT secrets of its own policies, the IngressMTLS secret
\* of the spec, the EgressMTLS secrets of all the policies read so far.
GatherStep(g, c, li, st) ==
  LET own == GetPolicies(li, c.refs)
      all == g.policies \o own
      jwt == AddJWTSecretRefs(g.secretRefs, st, own)
      mtls == IF c.ctx = "spec" THEN AddIngressMTLSSecretRefs(jwt, st, own) ELSE jwt
  IN [policies |-> all, secretRefs |-> AddEgressMTLSSecretRefs(mtls, st, all)]

TLSSecretRef(v) == IF v.tls \in {Nil, ""} THEN {} ELSE {v.tls}

\* createPolicyMap: of two versions of a policy the last one read remains.
CreatePolicyMap(pols) ==
  [n \in {pols[i][1] : i \in DOMAIN pols} |->
     pols[Max({i \in DOMAIN pols : pols[i][1] = n})][2]]

-----------------------------------------------------------------------------
(* GenerateVirtualServerConfig *)

\* generateSSLConfig: TLS termination is on, with the certificate of the
\* secret or, when that is no TLS secret, with none that works.
GenerateSSLConfig(v, st) ==
  IF v.tls \in {Nil, ""} THEN Nil
  ELSE IF st[v.tls] = "tls" THEN v.tls ELSE "missing"

NewPoliciesConfig ==
  [allow |-> <<>>, deny |-> <<>>, limitReqs |-> <<>>, options |-> Nil,
   jwt |-> Nil, ingressMTLS |-> Nil, egressMTLS |-> Nil,
   result |-> "ok", warned |-> FALSE]

ErrorReturn == [NewPoliciesConfig EXCEPT !.result = "500", !.warned = TRUE]

NilDereference == [NewPoliciesConfig EXCEPT !.result = "panic"]

AddAccessControlConfig(c, p) ==
  LET allow == c.allow \o (IF p.allow = Nil THEN <<>> ELSE p.allow)
      deny == c.deny \o (IF p.deny = Nil THEN <<>> ELSE p.deny)
  IN [c EXCEPT !.allow = allow, !.deny = deny,
               !.warned = @ \/ (allow # <<>> /\ deny # <<>>)]

\* The options (dryRun, logLevel, rejectCode) of the first policy are used.
AddRateLimitConfig(c, n, p) ==
  LET first == c.limitReqs = <<>>
  IN [c EXCEPT !.limitReqs = Append(@, n),
               !.options = IF first THEN p.options ELSE @,
               !.warned = @ \/ (~first /\ p.options # c.options)]

\* What becomes of a policy that needs secrets of these types, in order.
UseSecrets(c, st, refs, secrets, types, use) ==
  LET Ok(i) == secrets[i] \in refs /\ st[secrets[i]] = types[i]
      bad == {i \in DOMAIN secrets : ~Ok(i)}
  IN IF bad = {} THEN use
     ELSE IF secrets[Min(bad)] \in refs THEN ErrorReturn ELSE NilDereference

AddJWTAuthConfig(c, p, st, refs) ==
  IF c.jwt # Nil THEN [c EXCEPT !.warned = TRUE]
  ELSE UseSecrets(c, st, refs, <<p.secret>>, <<"jwk">>, [c EXCEPT !.jwt = p.secret])

\* Mutant: a policy out of place is only warned about.
Bug_OnlyWarns(c, p, st, refs, ctx, tls) ==
  IF ~tls \/ ctx # "spec" \/ c.ingressMTLS # Nil THEN [c EXCEPT !.warned = TRUE]
  ELSE UseSecrets(c, st, refs, <<p.secret>>, <<"ca">>, [c EXCEPT !.ingressMTLS = p.secret])

AddIngressMTLSConfig(c, p, st, refs, ctx, tls) ==
  IF ~tls \/ ctx # "spec" THEN ErrorReturn
  ELSE IF c.ingressMTLS # Nil THEN [c EXCEPT !.warned = TRUE]
  ELSE UseSecrets(c, st, refs, <<p.secret>>, <<"ca">>, [c EXCEPT !.ingressMTLS = p.secret])

AddEgressMTLSConfig(c, p, st, refs) ==
  LET types == SelectSeq(<<IF p.secret = "" THEN "" ELSE "tls",
                           IF p.trusted = "" THEN "" ELSE "ca">>, LAMBDA t : t # "")
  IN IF c.egressMTLS # Nil THEN [c EXCEPT !.warned = TRUE]
     ELSE UseSecrets(c, st, refs, EgressSecrets(p), types,
                     [c EXCEPT !.egressMTLS = <<p.secret, p.trusted>>])

AddPolicy(c, n, pmap, ctx, tls, st, refs) ==
  IF n \notin DOMAIN pmap THEN ErrorReturn
  ELSE LET p == pmap[n] IN
       CASE FieldOf(p) = "accessControl" -> AddAccessControlConfig(c, p)
         [] FieldOf(p) = "rateLimit"     -> AddRateLimitConfig(c, n, p)
         [] FieldOf(p) = "jwt"           -> AddJWTAuthConfig(c, p, st, refs)
         [] FieldOf(p) = "ingressMTLS"   -> AddIngressMTLSConfig(c, p, st, refs, ctx, tls)
         [] FieldOf(p) = "egressMTLS"    -> AddEgressMTLSConfig(c, p, st, refs)

\* The loop over the references, which an error ends.
GeneratePolicies(names, pmap, ctx, tls, st, refs) ==
  FoldLeft(LAMBDA c, n : IF c.result # "ok" THEN c
                         ELSE AddPolicy(c, n, pmap, ctx, tls, st, refs),
           NewPoliciesConfig, names)

\* The contexts directives are generated for: the spec, the routes that do
\* not reference a VirtualServerRoute, and the subroutes, which without
\* policies of their own take those of the (last) route that references them.
GenerateContexts(v) ==
  LET own == SelectSeq(v.routes, LAMBDA r : ~r.ref)
      refd == SelectSeq(v.routes, LAMBDA r : r.ref /\ r.policies # <<>>)
      fromVS == IF refd = <<>> THEN <<>> ELSE Last(refd).policies
  IN <<[ctx |-> "spec", refs |-> v.spec]>>
     \o [i \in DOMAIN own |-> [ctx |-> "route", refs |-> own[i].policies]]
     \o [i \in DOMAIN v.subroutes |->
           IF v.subroutes[i] = <<>> THEN [ctx |-> "route", refs |-> fromVS]
           ELSE [ctx |-> "subroute", refs |-> v.subroutes[i]]]

\* The limit_req zones of all contexts, in order, each name kept once.
RemoveDuplicateLimitReqZones(cs) ==
  FoldLeft(LAMBDA zs, z : IF Contains(zs, z) THEN zs ELSE Append(zs, z), <<>>,
           FlattenSeq([i \in DOMAIN cs |-> cs[i].limitReqs]))
=============================================================================
