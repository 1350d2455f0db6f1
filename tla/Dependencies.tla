---------------------------- MODULE Dependencies ----------------------------
(***************************************************************************)
(* What the controller does when something a resource depends on changes:  *)
(* a Secret, a Policy, an App Protect policy or log configuration, a       *)
(* Service, its Endpoints, the ConfigMap, the SPIFFE certificates.  The    *)
(* handlers (handlers.go) enqueue a task; the worker (controller.go) asks  *)
(* the Configuration which resources reference the object                  *)
(* (reference_checkers.go), regenerates them from the listers and from the *)
(* secret store (secrets/store.go), and the configurator writes the files  *)
(* and reloads NGINX, or updates the servers through the NGINX Plus API    *)
(* (configurator.go, nginx/manager.go, nginx/verify.go).                   *)
(*                                                                         *)
(* The resources themselves do not change here (module Controller has      *)
(* that).  A resource is an Ingress ("ingress"), a master with its minions *)
(* ("master") or a VirtualServer with its VirtualServerRoutes ("vs").      *)
(***************************************************************************)
EXTENDS PolicyConfig

CONSTANTS Resources,     \* [name -> what the resource references]
          InitSecrets, InitPolicies,  \* the cluster before the first change
          Services, WAF, \* services; App Protect policies and log configurations
          SecretValues,  \* what a Secret may be: [type, valid, ver]
          PolicyValues,
          ConfigMapValues, \* [params, broken]: broken has a template or DH
                           \* parameters the configurator cannot use
          SpecialSecret, \* the secret of the default server
          RelistTypes,   \* the types a Secret may turn up with after a relist
          ReloadTimeout, \* -nginx-reload-timeout, in milliseconds
          MaxChanges     \* how many changes of the cluster a behaviour has

VARIABLES secrets, policies, waf, services, endpoints, configMap,  \* the listers
          tasks,     \* the keys enqueued, or about to be
          store,     \* LocalSecretStore.secrets
          params,    \* cnf.cfgParams
          disk,      \* the files of secrets and App Protect resources
          conf,      \* the configuration files, by resource
          nginx,     \* what NGINX runs, whether that is the configVersion of
                     \* the manager, and a reload signal not acted on yet
          changes

listers == <<secrets, policies, waf, services, endpoints, configMap>>
vars == <<listers, tasks, store, params, disk, conf, nginx, changes>>

-----------------------------------------------------------------------------
(* The secret store *)

\* IsSupportedSecretType
IsSupportedSecretType(t) == t \in {"tls", "ca", "jwk"}

\* ValidateSecret: an unsupported type is invalid whatever the data.
ValidateSecret(s) == IsSupportedSecretType(s.type) /\ s.valid

File(s) == [type |-> s.type, ver |-> s.ver]

\* AddOrUpdateSecret: a file is only updated if it is there already, and
\* removed when the secret has become invalid.
AddOrUpdateSecret(st, d, name, s) ==
  LET ok == ValidateSecret(s)
      path == st[name] # Nil /\ st[name].path
  IN [store |-> [st EXCEPT ![name] = [type |-> s.type, valid |-> ok, ver |-> s.ver,
                                      path |-> path /\ ok]],
      disk |-> IF path THEN [d EXCEPT ![name] = IF ok THEN File(s) ELSE Nil] ELSE d]

DeleteSecret(st, d, name) ==
  [store |-> [st EXCEPT ![name] = Nil],
   disk |-> IF st[name] # Nil /\ st[name].path THEN [d EXCEPT ![name] = Nil] ELSE d]

\* GetSecretReference, for a set of secrets: the valid ones that are not on
\* the file system yet are written to it.
GetSecretReferences(st, d, names) ==
  LET new == {n \in names : st[n] # Nil /\ st[n].valid /\ ~st[n].path}
  IN [store |-> [n \in DOMAIN st |-> IF n \in new THEN [st[n] EXCEPT !.path = TRUE] ELSE st[n]],
      disk |-> [f \in DOMAIN d |-> IF f \in new THEN File(st[f]) ELSE d[f]]]

\* The Error and the Type of the references to the secrets of a map.
References(m) ==
  [n \in DOMAIN m |-> IF m[n] = Nil THEN "missing"
                      ELSE IF ValidateSecret(m[n]) THEN m[n].type ELSE "invalid"]

-----------------------------------------------------------------------------
(* Which resources reference an object *)

\* Mutant: the TLS secret of a VirtualServer is forgotten.
Bug_IngressesOnly(r, s) ==
  r.kind # "vs" /\ (r.tls = s \/ (IsPlus /\ s \in {r.jwt, r.minionJWT}))

SecretReferenceChecker(r, s) ==
  r.tls = s \/ (IsPlus /\ r.kind # "vs" /\ s \in {r.jwt, r.minionJWT})

ServiceReferenceChecker(r, s) == s \in r.services

PolicyReferenceChecker(r, p) ==
  r.kind = "vs" /\ \E i \in DOMAIN GatherContexts(r) : p \in Range(GatherContexts(r)[i].refs)

\* Only regular and master Ingresses use App Protect resources.
AppProtectReferenceChecker(r, w) == r.kind # "vs" /\ r.waf = w

\* findResourcesForResourceReference, with each of the checkers.
FindResourcesForSecret(s) == {n \in DOMAIN Resources : SecretReferenceChecker(Resources[n], s)}
FindResourcesForService(s) == {n \in DOMAIN Resources : ServiceReferenceChecker(Resources[n], s)}
FindResourcesForPolicy(p) == {n \in DOMAIN Resources : PolicyReferenceChecker(Resources[n], p)}
FindResourcesForAppProtect(w) ==
  {n \in DOMAIN Resources : AppProtectReferenceChecker(Resources[n], w)}

GetAllPolicies == {p \in DOMAIN policies : policies[p] # Nil /\ ValidatePolicy(policies[p])}

\* Mutant: the secret of a JWT policy is forgotten.
Bug_MTLSPoliciesOnly(s) ==
  {p \in GetAllPolicies : FieldOf(policies[p]) \in {"ingressMTLS", "egressMTLS"}
                          /\ s \in {policies[p].secret, policies[p].trusted}}

FindPoliciesForSecret(s) ==
  {p \in GetAllPolicies : LET pol == policies[p] IN
     \/ FieldOf(pol) \in {"ingressMTLS", "jwt"} /\ pol.secret = s
     \/ FieldOf(pol) = "egressMTLS" /\ s \in {pol.secret, pol.trusted}}

\* The resources syncSecret updates: those that name the secret, and those
\* that name a policy that does.
ResourcesForSecret(s) ==
  FindResourcesForSecret(s)
  \cup UNION {FindResourcesForPolicy(p) : p \in FindPoliciesForSecret(s)}

-----------------------------------------------------------------------------
(* The extended resources and their configuration *)

\* getEndpointsForUpstream, getEndpointsForIngressBackend: none if the
\* service is gone, has lost the port or has no endpoints.
ServersOf(r) ==
  [s \in r.services |-> IF services[s] = "port" /\ endpoints[s] # Nil THEN endpoints[s] ELSE 0]

\* createVirtualServerEx, with the policies and secrets of all contexts.
Gathered(r, view) ==
  FoldLeft(LAMBDA g, c : GatherStep(g, c, policies, view),
           [policies |-> <<>>, secretRefs |-> TLSSecretRef(r)], GatherContexts(r))

\* The secrets createVirtualServerEx and createIngressEx ask the store for.
AskedSecrets(r, view) ==
  IF r.kind = "vs" THEN Gathered(r, view).secretRefs
  ELSE ({r.tls} \cup (IF IsPlus THEN {r.jwt, r.minionJWT} ELSE {})) \ {Nil, ""}

\* getAppProtectPolicy, getAppProtectLogConfAndDst
AppProtectOf(r) ==
  IF IsPlus /\ r.kind # "vs" /\ r.waf # Nil /\ waf[r.waf] # Nil /\ waf[r.waf].valid
  THEN r.waf ELSE Nil

VSContexts(r, view) ==
  LET g == Gathered(r, view)
      cs == GenerateContexts(r)
  IN [k \in DOMAIN cs |->
        GeneratePolicies(cs[k].refs, CreatePolicyMap(g.policies), cs[k].ctx,
                         GenerateSSLConfig(r, view) # Nil, view, g.secretRefs)]

\* addSSLConfig: an Ingress without a usable secret terminates TLS with none.
AddSSLConfig(r, view) ==
  IF r.tls = Nil THEN Nil
  ELSE IF r.tls # "" /\ view[r.tls] = "tls" THEN r.tls ELSE "missing"

\* The configuration file of a resource.  The path of an Ingress's JWK is
\* there even when the secret is not.
ConfigFor(r, view, p) ==
  [params |-> p, servers |-> ServersOf(r), waf |-> AppProtectOf(r)] @@
  IF r.kind = "vs"
  THEN [ssl |-> GenerateSSLConfig(r, view), jwks |-> {}, contexts |-> VSContexts(r, view)]
  ELSE [ssl |-> AddSSLConfig(r, view), jwks |-> {r.jwt, r.minionJWT} \ {Nil}, contexts |-> <<>>]

\* createExtendedResources, then addOrUpdateIngress, ...MergeableIngress and
\* ...VirtualServer: the secrets are written when the references are made,
\* the App Protect resources and the configuration after that.
AddOrUpdate(names, st, d, p) ==
  LET view == References(st)
      asked == UNION {AskedSecrets(Resources[n], view) : n \in names}
      w == GetSecretReferences(st, d, asked)
      used == {AppProtectOf(Resources[n]) : n \in names} \ {Nil}
  IN [store |-> w.store,
      disk |-> [f \in DOMAIN d |-> IF f \in used THEN [type |-> "waf", ver |-> waf[f].ver]
                                   ELSE w.disk[f]],
      conf |-> [n \in DOMAIN conf |-> IF n \in names THEN ConfigFor(Resources[n], view, p)
                                      ELSE conf[n]]]

-----------------------------------------------------------------------------
(* The NGINX manager *)

\* The files NGINX must find to take a configuration, with what is in them:
\* certificates, CAs and App Protect resources.  A JWK file is read when a
\* request needs it (secrets/validation.go).
RequiredFiles(c) ==
  LET cs == {c.contexts[k] : k \in DOMAIN c.contexts}
      egress == {x.egressMTLS : x \in cs} \ {Nil}
  IN ({c.ssl} \ {Nil, "missing"}) \X {"tls"}
     \cup ({x.ingressMTLS : x \in cs} \ {Nil}) \X {"ca"}
     \cup ({e[1] : e \in egress} \ {""}) \X {"tls"}
     \cup ({e[2] : e \in egress} \ {""}) \X {"ca"}
     \cup ({c.waf} \ {Nil}) \X {"waf"}

NamedFiles(c) ==
  {f[1] : f \in RequiredFiles(c)} \cup c.jwks
  \cup ({c.contexts[k].jwt : k \in DOMAIN c.contexts} \ {Nil})

Loads(cs, d) ==
  \A n \in DOMAIN cs : \A f \in RequiredFiles(cs[n]) : d[f[1]] # Nil /\ d[f[1]].type = f[2]

\* NGINX with the configuration and the files as they are; the version file
\* is written before the signal is sent.
Loaded(cs, d) ==
  [conf |-> cs, files |-> [n \in DOMAIN cs |-> [f \in NamedFiles(cs[n]) |-> d[f]]],
   default |-> d["default"], current |-> TRUE, signalled |-> FALSE]

\* WaitForCorrectVersion asks for the version once every 25 milliseconds.
MaxRetries == ReloadTimeout \div 25

\* Reload: nginx -s reload refuses a configuration that does not load; or
\* NGINX has it before the polls end; or it has not, and acts on it later.
Reload(n, cs, d) ==
  IF ~Loads(cs, d) THEN {[n EXCEPT !.current = FALSE]}
  ELSE {[n EXCEPT !.current = FALSE, !.signalled = TRUE]}
       \cup (IF MaxRetries > 0 THEN {Loaded(cs, d)} ELSE {})

\* UpdateServersInPlus for all upstreams of some resources.
UpdateServersInPlus(n, names, new) ==
  [n EXCEPT !.conf = [m \in DOMAIN @ |-> IF m \in names
                                         THEN [@[m] EXCEPT !.servers = new[m].servers] ELSE @[m]]]

\* UpdateEndpoints, UpdateEndpointsMergeableIngress and ...ForVirtualServers,
\* each for the resources of its kind: the files are written, then NGINX Plus
\* gets the servers through the API.  That fails unless the API has the
\* version of the manager; if it fails for one resource NGINX is reloaded.
UpdateEndpoints(s, names, w) ==
  LET cs == [n \in DOMAIN s.conf |-> IF n \in names THEN w.conf[n] ELSE s.conf[n]]
      updated == IF IsPlus /\ s.nginx.current THEN SUBSET names ELSE {{}}
  IN IF names = {} THEN {s}
     ELSE UNION {LET n == UpdateServersInPlus(s.nginx, u, w.conf) IN
                 {[conf |-> cs, nginx |-> m] :
                    m \in IF u = names THEN {n} ELSE Reload(n, cs, w.disk)} : u \in updated}

-----------------------------------------------------------------------------
(* The cluster changes, and the handlers enqueue what changed *)

ParamsOf(cm) == IF cm = Nil THEN 0 ELSE cm.params

Init ==
  /\ secrets = InitSecrets /\ policies = InitPolicies
  /\ waf = [w \in WAF |-> [valid |-> TRUE, ver |-> 1]]
  /\ services = [s \in Services |-> "port"] /\ endpoints = [s \in Services |-> 1]
  /\ configMap = Nil /\ params = 0
  /\ tasks = {} /\ changes = 0
  /\ LET view == References(InitSecrets)
         asked == UNION {AskedSecrets(Resources[n], view) : n \in DOMAIN Resources}
     IN /\ store = [n \in DOMAIN InitSecrets |->
                      IF InitSecrets[n] = Nil THEN Nil
                      ELSE InitSecrets[n] @@ [path |-> n \in asked /\ ValidateSecret(InitSecrets[n])]]
        /\ disk = [f \in DOMAIN InitSecrets \cup WAF \cup {"default"} |->
                     IF f = "default" THEN [type |-> "tls", ver |-> 1]
                     ELSE IF f \in WAF
                       THEN IF \E n \in DOMAIN Resources : AppProtectOf(Resources[n]) = f
                            THEN [type |-> "waf", ver |-> 1] ELSE Nil
                     ELSE IF store[f] # Nil /\ store[f].path THEN File(store[f]) ELSE Nil]
        /\ conf = [n \in DOMAIN Resources |-> ConfigFor(Resources[n], view, 0)]
  /\ nginx = Loaded(conf, disk)

Changes(kind, name) ==
  /\ changes < MaxChanges /\ changes' = changes + 1
  /\ tasks' = tasks \cup {<<kind, name>>}
  /\ UNCHANGED <<store, params, disk, conf, nginx>>

\* A Secret keeps its type, unless a relist shows a new Secret of that name.
\* The handlers ignore unsupported types; an update is judged by its new type.
SecretChanges ==
  \E n \in DOMAIN secrets, v \in SecretValues \cup {Nil} :
    LET old == secrets[n] IN
    /\ v # old
    /\ old # Nil /\ v # Nil /\ v.type # old.type => v.type \in RelistTypes
    /\ secrets' = [secrets EXCEPT ![n] = v]
    /\ IF IsSupportedSecretType(IF v = Nil THEN old.type ELSE v.type)
       THEN Changes("secret", n)
       ELSE /\ changes < MaxChanges /\ changes' = changes + 1
            /\ UNCHANGED <<tasks, store, params, disk, conf, nginx>>
    /\ UNCHANGED <<policies, waf, services, endpoints, configMap>>

PolicyChanges ==
  \E p \in DOMAIN policies, v \in PolicyValues \cup {Nil} :
    /\ v # policies[p] /\ policies' = [policies EXCEPT ![p] = v]
    /\ Changes("policy", p)
    /\ UNCHANGED <<secrets, waf, services, endpoints, configMap>>

AppProtectChanges ==
  \E w \in WAF, v \in {Nil} \cup [valid : BOOLEAN, ver : 1..2] :
    /\ v # waf[w] /\ waf' = [waf EXCEPT ![w] = v]
    /\ Changes("appProtect", w)
    /\ UNCHANGED <<secrets, policies, services, endpoints, configMap>>

\* hasServiceChanges: the port appears or disappears.
ServiceChanges ==
  \E s \in Services, v \in {Nil, "port", "otherPort"} :
    /\ v # services[s] /\ services' = [services EXCEPT ![s] = v]
    /\ Changes("service", s)
    /\ UNCHANGED <<secrets, policies, waf, endpoints, configMap>>

EndpointsChange ==
  \E s \in Services, v \in {Nil} \cup 1..2 :
    /\ v # endpoints[s] /\ endpoints' = [endpoints EXCEPT ![s] = v]
    /\ Changes("endpoints", s)
    /\ UNCHANGED <<secrets, policies, waf, services, configMap>>

ConfigMapChanges ==
  \E v \in ConfigMapValues \cup {Nil} :
    /\ v # configMap /\ configMap' = v
    /\ Changes("configMap", "nginx-config")
    /\ UNCHANGED <<secrets, policies, waf, services, endpoints>>

-----------------------------------------------------------------------------
(* The worker *)

Takes(kind, name) ==
  /\ <<kind, name>> \in tasks /\ tasks' = tasks \ {<<kind, name>>}
  /\ UNCHANGED <<listers, changes>>

\* AddOrUpdateResources, ...VirtualServers and ...AppProtectResource for some
\* resources, from a store, files, parameters and the states NGINX may be in.
AddOrUpdateResources(names, st, d, p, ns) ==
  LET w == AddOrUpdate(names, st, d, p)
  IN /\ store' = w.store /\ disk' = w.disk /\ conf' = w.conf /\ params' = p
     /\ nginx' \in UNION {Reload(n, w.conf, w.disk) : n \in ns}

\* Mutant: the special secret is only looked at when it is created.
Bug_OnlyNewSecrets(s, sec) ==
  sec # Nil /\ s = SpecialSecret /\ sec.type = "tls" /\ sec.valid /\ store[s] = Nil

\* handleSpecialSecretUpdate: the secret of the default server is replaced.
ReplacesDefault(s, sec) ==
  sec # Nil /\ s = SpecialSecret /\ sec.type = "tls" /\ sec.valid

\* syncSecret with handleSpecialSecretUpdate, handleSecretUpdate and
\* handleRegularSecretDeletion: a special secret is reloaded by itself, and
\* kept when the Secret is invalid or gone.
SyncSecret ==
  \E s \in DOMAIN secrets :
    LET sec == secrets[s]
        names == ResourcesForSecret(s)
        w == IF sec = Nil THEN DeleteSecret(store, disk, s)
             ELSE AddOrUpdateSecret(store, disk, s, sec)
        special == ReplacesDefault(s, sec)
        d == IF special THEN [w.disk EXCEPT !["default"] = File(sec)] ELSE w.disk
        ns == IF special THEN Reload(nginx, conf, d) ELSE {nginx}
    IN /\ Takes("secret", s)
       /\ IF names # {} THEN AddOrUpdateResources(names, w.store, d, params, ns)
          ELSE /\ store' = w.store /\ disk' = d /\ nginx' \in ns
               /\ UNCHANGED <<conf, params>>

\* syncPolicy and syncService: no reload when nothing references the object.
SyncReferenced(kind, name, names) ==
  /\ Takes(kind, name)
  /\ IF names # {} THEN AddOrUpdateResources(names, store, disk, params, {nginx})
     ELSE UNCHANGED <<store, disk, conf, params, nginx>>

SyncPolicy ==
  \E p \in DOMAIN policies : SyncReferenced("policy", p, FindResourcesForPolicy(p))

SyncService ==
  \E s \in Services : SyncReferenced("service", s, FindResourcesForService(s))

\* syncAppProtectPolicy and syncAppProtectLogConf: the file of a deleted or
\* invalid resource is removed; NGINX is always reloaded.
SyncAppProtect ==
  \E w \in WAF :
    LET names == FindResourcesForAppProtect(w)
        d == IF waf[w] # Nil /\ waf[w].valid THEN disk ELSE [disk EXCEPT ![w] = Nil]
    IN Takes("appProtect", w) /\ AddOrUpdateResources(names, store, d, params, {nginx})

\* syncEndpoints: nothing happens when the object is gone.
SyncEndpoints ==
  \E s \in Services :
    LET names == FindResourcesForService(s)
        w == AddOrUpdate(names, store, disk, params)
        Kind(k) == {n \in names : Resources[n].kind = k}
        outcomes == FoldLeft(LAMBDA rs, k : UNION {UpdateEndpoints(r, Kind(k), w) : r \in rs},
                             {[conf |-> conf, nginx |-> nginx]}, <<"ingress", "master", "vs">>)
    IN /\ Takes("endpoints", s)
       /\ UNCHANGED params
       /\ IF endpoints[s] = Nil THEN UNCHANGED <<store, disk, conf, nginx>>
          ELSE /\ store' = w.store /\ disk' = w.disk
               /\ \E o \in outcomes : conf' = o.conf /\ nginx' = o.nginx

\* syncConfigMap and UpdateConfig: the parameters are taken over before the
\* first check that can fail, and an error ends the update.
SyncConfigMap ==
  LET p == ParamsOf(configMap)
      w == AddOrUpdate(DOMAIN Resources, store, disk, p)
  IN /\ Takes("configMap", "nginx-config")
     /\ IF configMap = Nil \/ ~configMap.broken
        THEN AddOrUpdateResources(DOMAIN Resources, store, disk, p, {nginx})
        ELSE /\ params' = p /\ store' = w.store
             /\ disk' = [f \in DOMAIN disk |-> IF f \in WAF THEN disk[f] ELSE w.disk[f]]
             /\ UNCHANGED <<conf, nginx>>

\* syncSVIDRotation, under the lock sync holds: the SPIFFE certificates are
\* replaced and NGINX reloaded, in whatever state the files are.
SyncSVIDRotation ==
  /\ nginx' \in Reload(nginx, conf, disk)
  /\ UNCHANGED <<listers, tasks, store, params, disk, conf, changes>>

\* NGINX acts on the signal of a reload it was too slow for.
NginxLoads ==
  /\ nginx.signalled
  /\ nginx' = IF Loads(conf, disk) THEN Loaded(conf, disk) ELSE [nginx EXCEPT !.signalled = FALSE]
  /\ UNCHANGED <<listers, tasks, store, params, disk, conf, changes>>

Next ==
  \/ SecretChanges \/ PolicyChanges \/ AppProtectChanges \/ ServiceChanges
  \/ EndpointsChange \/ ConfigMapChanges
  \/ SyncSecret \/ SyncPolicy \/ SyncService \/ SyncAppProtect \/ SyncEndpoints
  \/ SyncConfigMap \/ SyncSVIDRotation \/ NginxLoads

Spec == Init /\ [][Next]_vars

-----------------------------------------------------------------------------
(* Properties *)

Quiet == tasks = {} /\ ~nginx.signalled

\* The configuration and the files that the cluster as it is calls for.
Desired(n) == ConfigFor(Resources[n], References(secrets), ParamsOf(configMap))

Content(f) ==
  IF f \in WAF THEN [type |-> "waf", ver |-> waf[f].ver]
  ELSE IF References(secrets)[f] \in {"missing", "invalid"} THEN Nil ELSE File(secrets[f])

\* Two limits of the code: syncEndpoints keeps the servers of a service whose
\* Endpoints object is gone, and a ConfigMap that cannot be used leaves the
\* parameters of the resources where they are or, one by one, takes over.
SameServers(n) ==
  \A s \in Resources[n].services :
    \/ nginx.conf[n].servers[s] = ServersOf(Resources[n])[s]
    \/ services[s] = "port" /\ endpoints[s] = Nil

SameParams(n) ==
  \/ nginx.conf[n].params = ParamsOf(configMap)
  \/ configMap # Nil /\ configMap.broken

\* Once the queue is empty and NGINX has acted on the last reload, it runs
\* the configuration, with the contents of the secrets, policies and App
\* Protect resources, that the cluster calls for: whatever the order of the
\* tasks, however the listers were ahead of them, whichever reload was slow or
\* refused, and whether endpoints went through the API or a reload (the sync
\* functions of controller.go, the reference checkers, the secret store).
RunningIsCurrent ==
  Quiet =>
    \A n \in DOMAIN Resources :
      LET want == Desired(n)
          Rest(c) == <<c.ssl, c.jwks, c.contexts, c.waf>>
      IN /\ Rest(nginx.conf[n]) = Rest(want)
         /\ SameServers(n) /\ SameParams(n)
         /\ \A f \in NamedFiles(want) : nginx.files[n][f] = Content(f)

\* A default server secret that is a valid TLS secret is the one that is
\* served; otherwise its last valid version stays (handleSpecialSecretUpdate).
DefaultServerSecretServed ==
  /\ disk["default"] # Nil
  /\ Quiet /\ secrets[SpecialSecret] # Nil /\ secrets[SpecialSecret].type = "tls"
     /\ secrets[SpecialSecret].valid => nginx.default = File(secrets[SpecialSecret])

\* A reload can only be refused, for a file that is missing or holds something
\* else, while the change of a Policy waits to be synced: the store removes a
\* secret's file in the task that takes its name out of the configuration,
\* except when the lister has a newer version of the policy that names it.
RefusedOnlyBehindAPolicy ==
  ~Loads(conf, disk) => \E p \in DOMAIN policies : <<"policy", p>> \in tasks
=============================================================================
