-------------------------- MODULE IngressConfig --------------------------
(* The configuration file of one resource (an Ingress, a master Ingress    *)
(* with its minions, or the upstreams of a VirtualServer), from the        *)
(* settings and the cluster to what NGINX runs: createIngressEx of         *)
(* internal/k8s/controller.go resolves the backends, generateNginxCfg and  *)
(* generateNginxCfgForMergeableIngresses of internal/configs/ingress.go    *)
(* build the file, and the Configurator writes it and then reloads NGINX   *)
(* or, when only endpoints changed, updates the servers through the API of *)
(* NGINX Plus.  The worker handles one task at a time, so that a handler   *)
(* is one action.                                                          *)
(*                                                                         *)
(* A Service name is <<base, digits>> and a port a sequence of digits,     *)
(* because the code joins the two without a separator (EndpointsKey).      *)
EXTENDS Settings, SequencesExt, FiniteSetsExt

CONSTANTS
    Inputs,        \* the resources and flags a behaviour starts from
    ServiceStates, \* what a Service and its pods can be
    ConfigMaps,    \* the contents that the ConfigMap can have
    SubPods        \* the addresses of the pods that a subselector selects

VARIABLES
    in,        \* flags, kind of resource and its parts, and the bound on the
               \* changes of the cluster and of the ConfigMap
    cluster,   \* Service name -> its state
    configMap, \* the contents of the ConfigMap
    params,    \* cnf.cfgParams
    main,      \* nginx.conf
    file,      \* the file of the resource
    run,       \* what NGINX runs: [main, file]
    refused,   \* the last reload was refused (its config version is unknown)
    failed,    \* the last UpdateConfig returned an error
    pending,   \* events of the cluster not handled yet
    changes    \* changes made so far

vars == <<in, cluster, configMap, params, main, file, run, refused, failed,
          pending, changes>>

Nil == [type |-> "none"]

(************************** resolving a backend ***************************)

\* One digit sequence after the other: "web1" + "80" is "web" + "180".
EndpointsKey(b) == <<b.svc[1], b.svc[2] \o b.port>>

\* In the place of its number, a target port that is given by its name.
Named == 65536

\* The number of the target port: a named port is looked up in the first pod
\* that the lister returns.  0: there is none.
GetTargetPort(s, port, first) ==
    IF port \notin DOMAIN s.ports THEN 0
    ELSE IF s.ports[port] = Named THEN first
    ELSE s.ports[port]

\* Mutant: the port of the subset is not looked at.
Bug_AnySubset(s, port, first) ==
    LET target == GetTargetPort(s, port, first)
    IN  IF target = 0 \/ s.subsets = <<>> THEN {}
        ELSE {<<a, target>> : a \in s.subsets[1].addrs}

\* The addresses of the first subset with the target port.
GetEndpointsForPort(s, port, first) ==
    LET target == GetTargetPort(s, port, first)
        hit == {i \in DOMAIN s.subsets : s.subsets[i].port = target}
    IN  IF target = 0 \/ hit = {} THEN {}
        ELSE {<<a, target>> : a \in s.subsets[Min(hit)].addrs}

\* The endpoints of a backend and whether they are those of an ExternalName
\* Service.  Every error leaves the list empty.
GetEndpointsForIngressBackend(c, b, st, first) ==
    LET s == c[b.svc]
    IN  IF s.type = "none" THEN [eps |-> {}, external |-> FALSE]
        ELSE IF s.type = "ExternalName"
        THEN [eps |-> IF st.plus THEN {<<"external", b.port>>} ELSE {},
              external |-> st.plus]
        ELSE [eps |-> GetEndpointsForPort(s, b.port, first[b.svc]),
              external |-> FALSE]

\* An upstream of a VirtualServer with a subselector: every subset counts.
GetEndpointsForSubselector(c, u, first) ==
    LET s == c[u.svc]
        target == GetTargetPort(s, u.port, first[u.svc])
    IN  IF s.type = "none" \/ target = 0 THEN {}
        ELSE {<<a, target>> : a \in {x \in SubPods :
                \E i \in DOMAIN s.subsets : /\ s.subsets[i].port = target
                                            /\ x \in s.subsets[i].addrs}}

\* getHealthChecksForIngressBackend: the probe of the first pod, for a port
\* that the Service has.
ProbeOf(c, b) ==
    IF c[b.svc].type = "none" \/ b.port \notin DOMAIN c[b.svc].ports THEN "none"
    ELSE c[b.svc].probe

\* The paths of an Ingress with their hosts, in the order of the rules.
PathsOf(ing) ==
    FlattenSeq([i \in DOMAIN ing.rules |->
        [j \in DOMAIN ing.rules[i].paths |->
            [host |-> ing.rules[i].host] @@ ing.rules[i].paths[j]]])

DefaultBackend(ing) ==
    IF ing.backend = Nil THEN <<>>
    ELSE <<[host |-> "", path |-> "/", exact |-> FALSE, svc |-> ing.backend.svc,
            port |-> ing.backend.port]>>

Configured(ing, p) ==
    p.host \in ing.validHosts /\ (ing.type = "minion" => p.path \in ing.validPaths)

\* createIngressEx: the maps are written in the order of the backends, and
\* the last backend with a key wins.
CreateIngressEx(ing, c, st, first) ==
    LET valid(p) == Configured(ing, p)
        bs == DefaultBackend(ing) \o SelectSeq(PathsOf(ing), valid)
        last(k) == Max({i \in DOMAIN bs : EndpointsKey(bs[i]) = k})
        res(i) == GetEndpointsForIngressBackend(c, bs[i], st, first)
        checked == IF st.plus /\ "health-checks" \in DOMAIN ing.ann
                      /\ ing.ann["health-checks"] = "yes"
                   THEN {i \in DOMAIN bs : ProbeOf(c, bs[i]) # "none"} ELSE {}
    IN  [ing |-> ing,
         eps |-> [k \in {EndpointsKey(bs[i]) : i \in DOMAIN bs} |-> res(last(k)).eps],
         ext |-> {bs[i].svc : i \in {j \in DOMAIN bs : res(j).external}},
         hcs |-> [k \in {EndpointsKey(bs[i]) : i \in checked} |->
                    ProbeOf(c, bs[Max({i \in checked : EndpointsKey(bs[i]) = k})])]]

(************************** generating the file ***************************)

ServerKeys ==
    {"server-tokens", "http2", "redirect-to-https", "ssl-redirect",
     "proxy-protocol", "real-ip-header", "set-real-ip-from",
     "real-ip-recursive", "proxy-hide-headers", "proxy-pass-headers",
     "server-snippets", "listen-ports", "listen-ports-ssl",
     "app-protect-enable", "app-protect-security-log-enable",
     "internal-route"} \cup HSTSKeys

LocationKeys ==
    {"proxy-connect-timeout", "proxy-read-timeout", "proxy-send-timeout",
     "client-max-body-size", "proxy-buffering", "proxy-buffers",
     "proxy-buffer-size", "proxy-max-temp-file-size", "location-snippets"}

UpstreamKeys == {"lb-method", "upstream-zone-size"}

\* The parameters that each server of an upstream carries.
PeerKeys == {"max-fails", "max-conns", "fail-timeout", "slow-start"}

MainKeys ==
    {"access-log-off", "default-server-access-log-off", "error-log-level",
     "http2", "http-snippets", "keepalive-requests", "keepalive-timeout",
     "log-format", "log-format-escaping", "main-snippets", "proxy-protocol",
     "real-ip-header", "real-ip-recursive", "set-real-ip-from",
     "server-names-hash-bucket-size", "server-names-hash-max-size",
     "server-tokens", "ssl-ciphers", "ssl-dhparam-file",
     "ssl-prefer-server-ciphers", "ssl-protocols", "stream-log-format",
     "stream-log-format-escaping", "stream-snippets", "worker-cpu-affinity",
     "worker-processes", "worker-shutdown-timeout", "worker-connections",
     "worker-rlimit-nofile", "variables-hash-bucket-size",
     "variables-hash-max-size"}
    \cup ResolverKeys \cup OpenTracingKeys \cup AppProtectMainKeys

\* GenerateNginxMainConfig.
MainConfig(p) == Restrict(p, MainKeys)

Peers(addrs, p) == {[addr |-> a, opts |-> Restrict(p, PeerKeys)] : a \in addrs}

\* The server of NewUpstreamWithDefaultServer, which answers with 502.
BadGateway == [addr |-> <<"502", 0>>, opts |-> <<>>]

NameForUpstream(ing, b) == <<ing.name, b.host, b.svc, b.port>>

IsResolverConfigured(p) == p["resolver-addresses"] # "default"

Queue(ex, b, p) ==
    IF /\ p["health-checks"] = "yes" /\ p["health-checks-mandatory"] = "yes"
       /\ p["health-checks-mandatory-queue"] \in Good
       /\ EndpointsKey(b) \in DOMAIN ex.hcs
    THEN p["health-checks-mandatory-queue"] ELSE "none"

CreateUpstream(ex, b, p, base, st) ==
    LET k == EndpointsKey(b)
        found == IF k \notin DOMAIN ex.eps THEN {}
                 ELSE IF b.svc \in ex.ext /\ ~IsResolverConfigured(base) THEN {}
                 ELSE ex.eps[k]
    IN  [peers |-> IF found = {} /\ ~st.plus THEN {BadGateway} ELSE Peers(found, p),
         opts |-> Restrict(p, UpstreamKeys),
         sticky |-> st.plus /\ b.svc \in ListedServices(ex.ing.ann, "sticky-cookie-services"),
         queue |-> IF st.plus THEN Queue(ex, b, p) ELSE "none"]

\* generateJWTConfig: the name of the location that redirects to the login
\* page, if there is one.
RedirectLocation(ing, p) ==
    IF p["jwt-login-url"] = Zero THEN <<>> ELSE <<<<"@", ing.name>>>>

PathOrDefault(path) == IF path = "" THEN "/" ELSE path

\* The name of a location: "= /a" for a path that is to match exactly.
GenerateIngressPath(b) == <<IF b.exact THEN "=" ELSE "", PathOrDefault(b.path)>>

CreateLocation(ex, b, p, grpc) ==
    LET lists == ServiceLists \ {"grpc-services", "sticky-cookie-services"}
    IN  [path |-> GenerateIngressPath(b), ups |-> NameForUpstream(ex.ing, b),
         opts |-> Restrict(p, LocationKeys),
         lists |-> {l \in lists : b.svc \in ListedServices(ex.ing.ann, l)}
                     \cup (IF b.svc \in grpc THEN {"grpc-services"} ELSE {}),
         jwt |-> IF ex.ing.type = "minion" THEN p["jwt-key"] ELSE Zero]


RootLocation(locs) == \E i \in DOMAIN locs : locs[i].path = <<"", "/">>

GenerateServer(ex, rule, p, grpc) ==
    LET ing == ex.ing
        minion == ing.type = "minion"
        valid(b) == b.host = rule.host /\ Configured(ing, b)
        paths == SelectSeq(PathsOf(ing), valid)
        locs == [i \in DOMAIN paths |-> CreateLocation(ex, paths[i], p, grpc)]
        dflt == IF RootLocation(locs) THEN <<>> ELSE DefaultBackend(ing)
        bs == paths \o dflt
    IN  [host |-> rule.host, opts |-> Restrict(p, ServerKeys),
         locs |-> locs \o [i \in DOMAIN dflt |-> CreateLocation(ex, dflt[i], p, grpc)],
         hcs |-> {<<NameForUpstream(ing, bs[i]), ex.hcs[EndpointsKey(bs[i])],
                    p["health-checks-mandatory"]>> :
                  i \in {j \in DOMAIN bs : /\ p["health-checks"] = "yes"
                                           /\ EndpointsKey(bs[j]) \in DOMAIN ex.hcs}},
         jwt |-> IF minion THEN Zero ELSE p["jwt-key"],
         redirs |-> IF p["jwt-key"] = Zero THEN <<>>
                    ELSE IF minion
                    THEN FlattenSeq([i \in DOMAIN locs |-> RedirectLocation(ing, p)])
                    ELSE RedirectLocation(ing, p),
         grpcOnly |-> /\ grpc # {}
                      /\ \A i \in DOMAIN rule.paths : rule.paths[i].svc \in grpc
                      /\ \A i \in DOMAIN dflt : dflt[i].svc \in grpc]

\* The configuration of an Ingress whose parameters are p.
NginxCfg(ex, p, base, st) ==
    LET ing == ex.ing
        \* gRPC needs HTTP/2
        grpc == IF p["http2"] = "yes" THEN ListedServices(ing.ann, "grpc-services") ELSE {}
        valid(b) == Configured(ing, b)
        bs == DefaultBackend(ing) \o SelectSeq(PathsOf(ing), valid)
        served(r) == r.host \in ing.validHosts
        rules == SelectSeq(ing.rules, served)
    IN  [ups |-> [n \in {NameForUpstream(ing, bs[i]) : i \in DOMAIN bs} |->
                    LET i == CHOOSE j \in DOMAIN bs : NameForUpstream(ing, bs[j]) = n
                    IN  CreateUpstream(ex, bs[i], p, base, st)],
         servers |-> [i \in DOMAIN rules |-> GenerateServer(ex, rules[i], p, grpc)],
         keepalive |-> p["keepalive"]]

GenerateNginxCfg(ex, base, st) ==
    NginxCfg(ex, ParseAnnotations(ex.ing.ann, base, st), base, st)

\* The annotations of a minion as generateNginxCfgForMergeableIngresses
\* leaves them in the MergeableIngresses it was given.
MergedMinion(ex, master) ==
    [ex EXCEPT !.ing.backend = Nil,
               !.ing.ann = FilterMinionAnnotations(
                   MergeMasterAnnotationsIntoMinion(@, master.ing.ann))]

FilteredMaster(ex) == [ex EXCEPT !.ing.ann = FilterMasterAnnotations(@)]

MergedUpstreams(cfgs) ==
    FoldLeft(LAMBDA acc, c : acc @@ c.ups, <<>>, cfgs)

\* The server of the master, with what the servers of the minions have.
MergedServer(master, minions) ==
    [master EXCEPT
        !.locs = FlattenSeq([i \in DOMAIN minions |-> minions[i].locs]),
        !.hcs = UNION {minions[i].hcs : i \in DOMAIN minions},
        !.redirs = @ \o FlattenSeq([i \in DOMAIN minions |-> minions[i].redirs])]

MergedCfg(cfgs) ==
    [ups |-> MergedUpstreams(cfgs),
     servers |-> <<MergedServer(cfgs[1].servers[1],
         FlattenSeq([i \in DOMAIN Tail(cfgs) |-> Tail(cfgs)[i].servers]))>>,
     keepalive |-> cfgs[1].keepalive]

GenerateNginxCfgForMergeableIngresses(exes, base, st) ==
    MergedCfg([i \in DOMAIN exes |-> GenerateNginxCfg(exes[i], base, st)])

(********************** the upstreams of a VirtualServer *********************)

\* The load balancing methods that slow start works with.
SlowStartMethods == {"yes", "plus"}

GenerateVSUpstream(u, eps, p, st) ==
    LET value(k) == IF k \in DOMAIN u.own THEN u.own[k] ELSE p[k]
        slow == IF /\ st.plus /\ "slow-start" \in DOMAIN u.own
                   /\ value("lb-method") \in SlowStartMethods
                THEN u.own["slow-start"] ELSE Zero
        opts == [k \in PeerKeys |-> IF k = "slow-start" THEN slow ELSE value(k)]
    IN  [peers |-> Peers(eps, opts), sticky |-> FALSE, queue |-> "none",
         opts |-> [k \in UpstreamKeys |->
                     IF k = "lb-method" THEN value(k) ELSE p[k]]]

\* createVirtualServerEx: the endpoints of each upstream.
VSEndpoints(u, c, st, first) ==
    IF u.sub THEN [eps |-> GetEndpointsForSubselector(c, u, first), external |-> FALSE]
    ELSE GetEndpointsForIngressBackend(c, u, st, first)

\* An ExternalName Service is known by its name, whichever upstream found it.
IsExternalNameSvc(ups, u, c, st, first) ==
    \E i \in DOMAIN ups : /\ ups[i].svc = u.svc
                          /\ VSEndpoints(ups[i], c, st, first).external

GenerateVSUpstreams(ups, c, p, st, first) ==
    LET eps(u) == IF /\ IsExternalNameSvc(ups, u, c, st, first)
                     /\ ~IsResolverConfigured(p)
                  THEN {} ELSE VSEndpoints(u, c, st, first).eps
        one(u) == IF eps(u) = {} /\ ~st.plus
                  THEN [GenerateVSUpstream(u, {}, p, st) EXCEPT !.peers = {BadGateway}]
                  ELSE GenerateVSUpstream(u, eps(u), p, st)
    IN  [n \in {ups[i].name : i \in DOMAIN ups} |->
            one(ups[CHOOSE i \in DOMAIN ups : ups[i].name = n])]

(***************************** the Configurator ******************************)

\* The minions with what they inherit from the filtered master.
MergedExes(ex, master) ==
    [i \in DOMAIN ex |-> IF i = 1 THEN master ELSE MergedMinion(ex[i], master)]

\* The IngressExes of the resource, as generating the file leaves them: the
\* master and the minions of a mergeable Ingress are replaced by copies with
\* the annotations filtered and merged, and stay so.
Exes(c, first) ==
    LET ex == [i \in DOMAIN in.ings |-> CreateIngressEx(in.ings[i], c, in.st, first)]
    IN  IF in.kind # "mergeable" THEN ex ELSE MergedExes(ex, FilteredMaster(ex[1]))

Generate(p, first) ==
    LET exes == Exes(cluster, first)
    IN  CASE in.kind = "regular" -> GenerateNginxCfg(exes[1], p, in.st)
          [] in.kind = "mergeable" ->
                GenerateNginxCfgForMergeableIngresses(exes, p, in.st)
          [] in.kind = "vs" ->
                [ups |-> GenerateVSUpstreams(in.ups, cluster, p, in.st, first),
                 servers |-> <<>>, keepalive |-> "none"]

\* updatePlusEndpoints: one call for every backend with endpoints, of every
\* rule and path, whether or not the file has them.
IngressCalls(ex, p) ==
    LET known(b) == EndpointsKey(b) \in DOMAIN ex.eps /\ b.svc \notin ex.ext
        bs == SelectSeq(DefaultBackend(ex.ing) \o PathsOf(ex.ing), known)
        own == ParseAnnotations(ex.ing.ann, p, in.st)
    IN  [i \in DOMAIN bs |-> [name |-> NameForUpstream(ex.ing, bs[i]),
                              peers |-> Peers(ex.eps[EndpointsKey(bs[i])], own)]]

\* createUpstreamsForPlus, which leaves out the ExternalName Services.
VSCalls(p, first) ==
    LET known(u) == ~IsExternalNameSvc(in.ups, u, cluster, in.st, first)
        us == SelectSeq(in.ups, known)
        ups(u) == GenerateVSUpstream(u, VSEndpoints(u, cluster, in.st, first).eps,
                                     p, in.st)
    IN  [i \in DOMAIN us |-> [name |-> us[i].name, peers |-> ups(us[i]).peers]]

\* The calls in groups: an error ends a group, and not the groups after it.
CallGroups(p, first) ==
    LET exes == Exes(cluster, first)
    IN  CASE in.kind = "regular" -> <<IngressCalls(exes[1], p)>>
          [] in.kind = "mergeable" ->
                [i \in DOMAIN Tail(exes) |-> IngressCalls(Tail(exes)[i], p)]
          [] in.kind = "vs" -> <<VSCalls(p, first)>>

\* UpdateServersInPlus: NGINX must run the current version of the
\* configuration and have the upstream; the call for lost fails anyway.
UpdateServersInPlus(acc, call, lost) ==
    IF ~acc.ok THEN acc
    ELSE IF refused \/ call.name = lost \/ call.name \notin DOMAIN acc.ups
    THEN [acc EXCEPT !.ok = FALSE]
    ELSE [acc EXCEPT !.ups[call.name].peers = call.peers]

\* Mutant: the last minion decides whether there was an error.
Bug_LastMinionDecides(acc, calls, lost) ==
    FoldLeft(LAMBDA a, c : UpdateServersInPlus(a, c, lost), [acc EXCEPT !.ok = TRUE], calls)

UpdateGroup(acc, calls, lost) ==
    LET done == FoldLeft(LAMBDA a, c : UpdateServersInPlus(a, c, lost),
                         [acc EXCEPT !.ok = TRUE], calls)
    IN  [done EXCEPT !.ok = @ /\ acc.ok]

UpdateViaAPI(groups, lost) ==
    FoldLeft(LAMBDA a, g : UpdateGroup(a, g, lost),
             [ok |-> TRUE, ups |-> run.file.ups], groups)

\* The names of the locations of a server.
LocationNames(s) == [i \in DOMAIN s.locs |-> s.locs[i].path] \o s.redirs

\* What NGINX can say of a file, TRUE for a refusal: it takes no two locations
\* of a server with the same name, and it may have reasons of its own, in a
\* value that nobody has checked or in the file of another resource.
Verdicts(f) ==
    IF \A i \in DOMAIN f.servers : IsInjective(LocationNames(f.servers[i]))
    THEN BOOLEAN ELSE {TRUE}

\* Reload, with NGINX running r until then.
Reload(f, m, r) ==
    /\ refused' \in Verdicts(f)
    /\ run' = IF refused' THEN r ELSE [main |-> m, file |-> f]

\* The pods that the lister can return first, as the number of their named
\* port: 0 when there are none.
FirstPods(s) == IF s.subsets = <<>> THEN {0}
                ELSE {s.subsets[i].port : i \in DOMAIN s.subsets}

Firsts == {f \in [DOMAIN cluster -> UNION {FirstPods(cluster[s]) : s \in DOMAIN cluster}] :
             \A s \in DOMAIN cluster : f[s] \in FirstPods(cluster[s])}

(********************************* actions **********************************)

Init ==
    /\ in \in Inputs
    /\ cluster = in.cluster
    /\ configMap = in.configMap
    /\ params = ParseConfigMap(configMap, in.st)
    /\ main = MainConfig(params)
    /\ \E first \in Firsts : file = Generate(params, first)
    /\ refused \in Verdicts(file)
    /\ run = [main |-> main,
              file |-> IF refused THEN [ups |-> <<>>, servers |-> <<>>, keepalive |-> "none"]
                       ELSE file]
    /\ failed = FALSE
    /\ pending = {}
    /\ changes = 0

\* What the handlers of Services and of Endpoints enqueue.  A Service is
\* compared by its ports and its external name only, and Endpoints that are
\* gone change nothing when they are synced.
EventsOf(old, new) ==
    (IF \/ (old.type = "none") # (new.type = "none")
        \/ DOMAIN old.ports # DOMAIN new.ports
        \/ new.type = "ExternalName" /\ old.type # "ExternalName"
     THEN {"service"} ELSE {})
    \cup (IF new.type = "ClusterIP" /\ new.subsets # old.subsets
          THEN {"endpoints"} ELSE {})

ServiceChanges ==
    /\ changes < in.bound
    /\ \E s \in DOMAIN cluster, new \in ServiceStates :
          /\ new # cluster[s]
          /\ cluster' = [cluster EXCEPT ![s] = new]
          /\ pending' = pending \cup EventsOf(cluster[s], new)
    /\ changes' = changes + 1
    /\ UNCHANGED <<in, configMap, params, main, file, run, refused, failed>>

\* What the API did with the calls decides whether NGINX is reloaded.
PushEndpoints(f, api) ==
    /\ file' = f
    /\ IF in.st.plus /\ api.ok
       THEN run' = [run EXCEPT !.file.ups = api.ups] /\ UNCHANGED refused
       ELSE Reload(f, main, IF in.st.plus THEN [run EXCEPT !.file.ups = api.ups]
                            ELSE run)

\* syncEndpoints: UpdateEndpoints, UpdateEndpointsMergeableIngress or
\* UpdateEndpointsForVirtualServers.
SyncEndpoints ==
    /\ "endpoints" \in pending
    /\ \E first \in Firsts : \E lost \in {<<>>} \cup DOMAIN run.file.ups :
          PushEndpoints(Generate(params, first),
                        UpdateViaAPI(CallGroups(params, first), lost))
    /\ pending' = pending \ {"endpoints"}
    /\ UNCHANGED <<in, cluster, configMap, params, main, failed, changes>>

\* syncService: AddOrUpdateIngress, AddOrUpdateMergeableIngress or
\* AddOrUpdateVirtualServer.
SyncService ==
    /\ "service" \in pending
    /\ \E first \in Firsts : /\ file' = Generate(params, first)
                             /\ Reload(file', main, run)
    /\ pending' = pending \ {"service"}
    /\ UNCHANGED <<in, cluster, configMap, params, main, failed, changes>>

\* UpdateConfig keeps the new parameters before it looks at the templates;
\* one that does not parse ends it there.
SyncConfigMap ==
    /\ changes < in.bound
    /\ \E m \in ConfigMaps \ {configMap} :
          LET bad == \E k \in {"main-template", "ingress-template",
                               "virtualserver-template"} \cap DOMAIN m : m[k] = Junk
          IN  /\ configMap' = m
              /\ params' = ParseConfigMap(m, in.st)
              /\ failed' = bad
              /\ IF bad THEN UNCHANGED <<main, file, run, refused>>
                 ELSE /\ main' = MainConfig(params')
                      /\ \E first \in Firsts : file' = Generate(params', first)
                      /\ Reload(file', main', run)
    /\ changes' = changes + 1
    /\ UNCHANGED <<in, cluster, pending>>

Next == ServiceChanges \/ SyncEndpoints \/ SyncService \/ SyncConfigMap

Spec == Init /\ [][Next]_vars

(******************************** properties ********************************)

\* Whether the value that ann gives to k is one the key takes.
Takes(k, ann, st) ==
    CASE k \in HSTSKeys -> \A h \in {"hsts"} \cup (HSTSKeys \cap DOMAIN ann) :
                             h \in DOMAIN ann /\ ann[h] \in Good
      [] k \in PortAnnotations -> \E i \in DOMAIN ann[k] : ParsePort(ann[k][i])
      [] k \in AppProtectAnnotations -> st.appProtect /\ ann[k] \in Good
      [] k = "internal-route" -> st.internalRoutes /\ ann[k] \in Good
      [] k \in JWTAnnotations -> st.plus
      [] k = "server-tokens" -> st.plus \/ ann[k] \in Good
      [] k = "lb-method" -> ann[k] \in Good \/ (st.plus /\ ann[k] = "plus")
      [] k \in CheckedAnnotations \cup ForcedAnnotations -> ann[k] \in Good
      [] OTHER -> TRUE

\* The value of k for a resource annotated with ann.
Setting(k, ann) ==
    IF k \notin DOMAIN ann \/ ~Takes(k, ann, in.st) THEN params[k]
    ELSE CASE k \in AppProtectAnnotations \cup {"server-tokens"} -> OnOff(ann[k])
           [] k \in PortAnnotations -> SelectSeq(ann[k], ParsePort)
           [] OTHER -> ann[k]

\* What an Ingress says of a location of its own: for a minion, its own
\* annotation before the one of the master that it may inherit.
LocationSetting(k, i) ==
    IF i = 1 \/ k \in DOMAIN in.ings[i].ann THEN Setting(k, in.ings[i].ann)
    ELSE IF k \in MinionInheritanceList THEN Setting(k, in.ings[1].ann)
    ELSE params[k]

IndexOf(name) == CHOOSE i \in DOMAIN in.ings : in.ings[i].name = name


\* Another backend of the same Ingress has the same key in the map of
\* endpoints.
Clashes(n) ==
    LET i == IndexOf(n[1])
        bs == Range(DefaultBackend(in.ings[i]) \o PathsOf(in.ings[i]))
    IN  \E b \in bs : /\ <<b.svc, b.port>> # <<n[3], n[4]>>
                       /\ EndpointsKey(b) = EndpointsKey([svc |-> n[3], port |-> n[4]])

\* f without the health checks, the queues and the upstreams of such backends.
Without(f) ==
    [f EXCEPT !.servers = [i \in DOMAIN @ |-> [@[i] EXCEPT !.hcs = {}]],
              !.ups = [n \in {x \in DOMAIN @ : in.kind = "vs" \/ ~Clashes(x)} |->
                         [@[n] EXCEPT !.queue = "none"]]]

(* An update through the API leaves NGINX with the file.  After the        *)
(* endpoints of a resource were updated without a reload, NGINX runs what  *)
(* a reload of the file would make it run, up to the health checks and the *)
(* queues, which follow the probes of the pods at the next reload.  Calls  *)
(* that fail, for an upstream that the file does not have or for any other *)
(* reason, end in a reload.  Excluded are a reload that NGINX refused, a   *)
(* failed update of the ConfigMap, a Service still to be synced, and       *)
(* backends that share their key in the map of endpoints with another one  *)
(* (web1:80, web:180): the call for one of them is left out when the other *)
(* is an ExternalName Service.                                             *)
OnlyProbesLag ==
    ~refused /\ ~failed /\ "service" \notin pending =>
        /\ run.main = main
        /\ Without(run.file) = Without(file)

\* The pods of a Service that are ready on a port, by its specification.
Ready(s, port) ==
    IF s.type # "ClusterIP" \/ port \notin DOMAIN s.ports THEN {}
    ELSE UNION {{<<a, s.subsets[i].port>> : a \in s.subsets[i].addrs} :
                i \in {j \in DOMAIN s.subsets :
                        s.ports[port] \in {Named, s.subsets[j].port}}}

\* The matching pods are in one subset.
OneSubset(s, port) ==
    s.type = "ClusterIP" /\ port \in DOMAIN s.ports =>
        \A i, j \in DOMAIN s.subsets :
            /\ s.ports[port] \in {Named, s.subsets[i].port}
            /\ s.ports[port] \in {Named, s.subsets[j].port}
            => i = j

(* Requests reach the pods of the Service that they are routed to.  Once   *)
(* every event was handled, NGINX runs for each backend of an Ingress the  *)
(* ready pods of its Service on the port, and no others.  It runs only     *)
(* some of them when they are spread over several subsets of the           *)
(* Endpoints.  Left out are ExternalName Services, Services that were one  *)
(* and have no pods since (nothing is enqueued for them, and NGINX keeps   *)
(* the external server), and backends that share their key in the map of   *)
(* endpoints with another one (web1:80, web:180).                          *)
ServersAreReadyPods ==
    in.kind # "vs" /\ pending = {} /\ ~refused /\ ~failed =>
        \A n \in DOMAIN run.file.ups :
            LET s == cluster[n[3]]
                served == {x.addr : x \in run.file.ups[n].peers \ {BadGateway}}
                former == s.subsets = <<>> /\ served = {<<"external", n[4]>>}
            IN  s.type # "ExternalName" /\ ~Clashes(n) /\ ~former =>
                    /\ served \subseteq Ready(s, n[4])
                    /\ OneSubset(s, n[4]) => served = Ready(s, n[4])

\* The paths that the resource configures.
DeclaredPaths ==
    FlattenSeq([i \in DOMAIN in.ings |->
        LET valid(p) == Configured(in.ings[i], p)
        IN  SelectSeq(PathsOf(in.ings[i]), valid)])

\* Two of them make the same location.  Those of minions are told apart as
\* they are written: the empty path and "/" differ.
RepeatsPath ==
    LET ps == DeclaredPaths
    IN  \E i, j \in DOMAIN ps :
            /\ i # j /\ ps[i].host = ps[j].host
            /\ GenerateIngressPath(ps[i]) = GenerateIngressPath(ps[j])
            /\ in.kind = "mergeable" => ps[i].path # ps[j].path

\* A minion with a login page and several paths.
RepeatsLoginPage(ing) ==
    /\ ing.type = "minion" /\ {"jwt-key", "jwt-login-url"} \subseteq DOMAIN ing.ann
    /\ Cardinality({i \in DOMAIN PathsOf(ing) : Configured(ing, PathsOf(ing)[i])}) > 1


============================================================================
