-------------------------- MODULE TransportServers ---------------------------
(***************************************************************************)
(* TransportServers and the GlobalConfiguration that defines the listeners *)
(* they use: syncTransportServer, syncGlobalConfiguration and the part of  *)
(* syncEndpoints that is about TransportServers, the handlers that enqueue *)
(* their tasks, and the Configurator operations they call.                 *)
(*                                                                         *)
(* The task queue is the set of tasks that TaskQueue is proved to          *)
(* implement.  A sync reads the listers in one step and changes the        *)
(* configuration in a second one: the handlers run in between.             *)
(*                                                                         *)
(* A TransportServer is a record [listener, protocol, host, service,       *)
(* valid]; host 0 is the empty string and valid the outcome of the field   *)
(* checks the model does not look into.  A GlobalConfiguration is a        *)
(* sequence of listeners [name, port, protocol].                           *)
(***************************************************************************)
EXTENDS Integers, Sequences, FiniteSets, FiniteSetsExt, Functions

CONSTANTS
  Specs,               \* TransportServer key -> the specifications users give it
  GlobalConfigs,       \* the contents users give the GlobalConfiguration
  StartConfig,         \* its content when the process starts
  NoConfig,            \* no GlobalConfiguration
  ForbiddenPorts,
  Services,
  Addresses,           \* the sets of addresses that Endpoints may have
  MaxEdits             \* bound on changes by users

\* The keys are numbered in the order in which the configurator sorts them.
ASSUME KeysAssumption == DOMAIN Specs \subseteq Nat /\ IsFiniteSet(DOMAIN Specs)

VARIABLES
  \* the listers
  transportServers,    \* key -> TransportServer
  services,            \* the services that exist
  endpoints,           \* service -> addresses
  globalConfiguration, \* the sequence of listeners, or NoConfig
  edits,
  \* the task queue and its worker
  pending, active, closed,
  wpc,                 \* "get", "read" or "write"
  job,                 \* what the sync has read: [op, exes, config], where exes are
                       \* the TransportServerExes, key -> [ts, endpoints]
  \* Configurator
  isPlus,              \* NGINX Plus?
  listeners,           \* globalCfgParams.Listeners: name -> [port, protocol]
  tlsPassthroughPairs, \* key -> host
  streams,             \* stream configuration files: key -> content
  passthroughHosts,    \* the TLS Passthrough hosts file: host -> key (its socket)
  running,             \* what NGINX has loaded
  \* history: the servers whose service changed without a task for them, because they
  \* had no listener then, since a sync last read them
  unannounced

listersVars == <<transportServers, services, endpoints, globalConfiguration>>
queueVars == <<pending, active, closed>>
files == <<streams, passthroughHosts>>
configuratorVars == <<isPlus, listeners, tlsPassthroughPairs, streams, passthroughHosts, running>>
vars == <<listersVars, edits, queueVars, wpc, job, configuratorVars, unannounced>>

Keys == DOMAIN Specs
TSTask(k) == <<"TransportServer", k>>
GCTask == <<"GlobalConfiguration", 0>>
EndpointsTask(s) == <<"Endpoints", s>>
Tasks == {TSTask(k) : k \in Keys} \cup {GCTask} \cup {EndpointsTask(s) : s \in Services}

Queue == INSTANCE TaskSet

PassthroughName == "tls-passthrough"
PassthroughProtocol == "TLS_PASSTHROUGH"
Empty == [x \in {} |-> x]
Put(m, k, v) == [x \in DOMAIN m \cup {k} |-> IF x = k THEN v ELSE m[x]]

-----------------------------------------------------------------------------
\* Validation

isPassthrough(ts) == ts.listener = PassthroughName \/ ts.protocol = PassthroughProtocol

ValidateTransportServer(ts) ==
  /\ ts.valid
  /\ IF isPassthrough(ts)
     THEN ts.listener = PassthroughName /\ ts.protocol = PassthroughProtocol /\ ts.host # 0
     ELSE ts.protocol \in {"TCP", "UDP"} /\ ts.host = 0

ValidateGlobalConfiguration(gc) ==
  /\ \A i \in DOMAIN gc : /\ gc[i].name # PassthroughName
                          /\ gc[i].port \notin ForbiddenPorts
                          /\ gc[i].protocol \in {"TCP", "UDP"}
  /\ \A i, j \in DOMAIN gc : i # j =>
       /\ gc[i].name # gc[j].name
       /\ <<gc[i].port, gc[i].protocol>> # <<gc[j].port, gc[j].protocol>>

\* the listeners of gc and the built-in one (TLS Passthrough is enabled)
ParseGlobalConfiguration(gc) ==
  [n \in {gc[i].name : i \in DOMAIN gc} \cup {PassthroughName} |->
     IF n = PassthroughName THEN [port |-> 0, protocol |-> PassthroughProtocol]
     ELSE LET i == CHOOSE j \in DOMAIN gc : gc[j].name = n
          IN [port |-> gc[i].port, protocol |-> gc[i].protocol]]

CheckIfListenerExists(ts, ls) ==
  ts.listener \in DOMAIN ls /\ ls[ts.listener].protocol = ts.protocol

\* getTransportServers
ValidServers == {k \in DOMAIN transportServers : ValidateTransportServer(transportServers[k])}

\* getTransportServersForService
ServersForService(s) ==
  {k \in ValidServers : /\ CheckIfListenerExists(transportServers[k], listeners)
                        /\ transportServers[k].service = s}

-----------------------------------------------------------------------------
\* Users, the API server and the handlers of the informers

Edit == edits < MaxEdits /\ edits' = edits + 1
\* Enqueue a set of tasks
Enqueue(T) == pending' = pending \cup T /\ UNCHANGED <<active, closed>>

ChangeTransportServer(k, ts) ==
  /\ Edit
  /\ k \in DOMAIN transportServers => transportServers[k] # ts
  /\ transportServers' = Put(transportServers, k, ts)
  /\ Enqueue({TSTask(k)})
  /\ UNCHANGED <<services, endpoints, globalConfiguration, wpc, job, configuratorVars,
                 unannounced>>

RemoveTransportServer(k) ==
  /\ Edit
  /\ k \in DOMAIN transportServers
  /\ transportServers' = [j \in DOMAIN transportServers \ {k} |-> transportServers[j]]
  /\ Enqueue({TSTask(k)})
  /\ UNCHANGED <<services, endpoints, globalConfiguration, wpc, job, configuratorVars,
                 unannounced>>

ChangeGlobalConfiguration(gc) ==
  /\ Edit
  /\ globalConfiguration # gc
  /\ globalConfiguration' = gc
  /\ Enqueue({GCTask})
  /\ UNCHANGED <<transportServers, services, endpoints, wpc, job, configuratorVars, unannounced>>

\* the handlers of services enqueue the TransportServers that use the service and
\* have a listener
ChangeService(s) ==
  /\ Edit
  /\ services' = IF s \in services THEN services \ {s} ELSE services \cup {s}
  /\ Enqueue({TSTask(k) : k \in ServersForService(s)})
  /\ unannounced' = unannounced \cup
       {k \in ValidServers \ ServersForService(s) : transportServers[k].service = s}
  /\ UNCHANGED <<transportServers, endpoints, globalConfiguration, wpc, job, configuratorVars>>

ChangeEndpoints(s, A) ==
  /\ Edit
  /\ s \in DOMAIN endpoints => endpoints[s] # A
  /\ endpoints' = Put(endpoints, s, A)
  /\ Enqueue({EndpointsTask(s)})
  /\ UNCHANGED <<transportServers, services, globalConfiguration, wpc, job, configuratorVars,
                 unannounced>>

\* the endpoints controller removes the Endpoints of a service that is gone
RemoveEndpoints(s) ==
  /\ Edit
  /\ s \in DOMAIN endpoints \ services
  /\ endpoints' = [t \in DOMAIN endpoints \ {s} |-> endpoints[t]]
  /\ Enqueue({EndpointsTask(s)})
  /\ UNCHANGED <<transportServers, services, globalConfiguration, wpc, job, configuratorVars,
                 unannounced>>

-----------------------------------------------------------------------------
\* Configurator

\* createTransportServer: no service, or no Endpoints, means no addresses
createTransportServer(k) ==
  LET ts == transportServers[k]
  IN [ts |-> ts,
      endpoints |-> IF ts.service \in services \cap DOMAIN endpoints
                    THEN endpoints[ts.service] ELSE {}]

generateTransportServerConfig(ex, ls) ==
  [port |-> ls[ex.ts.listener].port, protocol |-> ex.ts.protocol,
   passthrough |-> ex.ts.listener = PassthroughName, endpoints |-> ex.endpoints]

\* the last of the TransportServers with a host, in the order of their keys, gets it
generateTLSPassthroughHostsConfig(pairs) ==
  [h \in Range(pairs) |-> Max({k \in DOMAIN pairs : pairs[k] = h})]

\* addOrUpdateTransportServer for every element of E
addOrUpdateTransportServers(E, ls) ==
  LET withHost == {k \in DOMAIN E : E[k].ts.host # 0}
  IN /\ streams' = [k \in DOMAIN streams \cup DOMAIN E |->
                      IF k \in DOMAIN E THEN generateTransportServerConfig(E[k], ls)
                      ELSE streams[k]]
     /\ tlsPassthroughPairs' = [k \in DOMAIN tlsPassthroughPairs \cup withHost |->
                                  IF k \in withHost THEN E[k].ts.host
                                  ELSE tlsPassthroughPairs[k]]
     /\ passthroughHosts' = IF withHost = {} THEN passthroughHosts
                            ELSE generateTLSPassthroughHostsConfig(tlsPassthroughPairs')

\* Mutants of the next definition
Bug_PairKept(k) ==
  /\ streams' = [j \in DOMAIN streams \ {k} |-> streams[j]]
  /\ UNCHANGED <<tlsPassthroughPairs, passthroughHosts>>
Bug_HostsFileKept(k) ==
  /\ streams' = [j \in DOMAIN streams \ {k} |-> streams[j]]
  /\ tlsPassthroughPairs' = [j \in DOMAIN tlsPassthroughPairs \ {k} |-> tlsPassthroughPairs[j]]
  /\ UNCHANGED passthroughHosts

deleteTransportServer(k) ==
  /\ streams' = [j \in DOMAIN streams \ {k} |-> streams[j]]
  /\ tlsPassthroughPairs' = [j \in DOMAIN tlsPassthroughPairs \ {k} |-> tlsPassthroughPairs[j]]
  /\ passthroughHosts' = IF k \in DOMAIN tlsPassthroughPairs
                         THEN generateTLSPassthroughHostsConfig(tlsPassthroughPairs')
                         ELSE passthroughHosts

\* NGINX refuses a configuration in which two servers listen on one port
Conflict(ss) ==
  \E j, k \in DOMAIN ss :
    /\ j # k
    /\ ~ss[j].passthrough /\ ~ss[k].passthrough
    /\ ss[j].port = ss[k].port /\ ss[j].protocol = ss[k].protocol

\* nginxManager.Reload over what NGINX runs: a refused configuration changes nothing
Reload(old) ==
  running' = IF Conflict(streams') THEN old
             ELSE [streams |-> streams', hosts |-> passthroughHosts']

-----------------------------------------------------------------------------
\* The worker: what a sync reads

Nothing == [op |-> "Nothing", exes |-> Empty, config |-> NoConfig]
Exes(K) == [k \in K |-> createTransportServer(k)]

ReadTransportServer(k) ==
  IF /\ k \in ValidServers
     /\ CheckIfListenerExists(transportServers[k], listeners)
  THEN [op |-> "AddOrUpdate", exes |-> Exes({k}), config |-> NoConfig]
  ELSE [op |-> "Delete", exes |-> Empty, config |-> NoConfig]

\* a removed or invalid GlobalConfiguration changes nothing
ReadGlobalConfiguration ==
  IF globalConfiguration # NoConfig /\ ValidateGlobalConfiguration(globalConfiguration)
  THEN [op |-> "Update", exes |-> Exes(ValidServers), config |-> globalConfiguration]
  ELSE Nothing

\* removed Endpoints change nothing
ReadEndpoints(s) ==
  IF s \in DOMAIN endpoints \cap services /\ ServersForService(s) # {}
  THEN [op |-> "UpdateEndpoints", exes |-> Exes(ServersForService(s)), config |-> NoConfig]
  ELSE Nothing

GetTask ==
  /\ wpc = "get"
  /\ \E t \in pending : Queue!Start(t)
  /\ wpc' = "read"
  /\ UNCHANGED <<listersVars, edits, job, configuratorVars, unannounced>>

Read ==
  /\ wpc = "read"
  /\ job' = CASE active = {GCTask} -> ReadGlobalConfiguration
              [] \E k \in Keys : active = {TSTask(k)} ->
                   ReadTransportServer(CHOOSE k \in Keys : active = {TSTask(k)})
              [] OTHER -> ReadEndpoints(CHOOSE s \in Services : active = {EndpointsTask(s)})
  /\ wpc' = "write"
  /\ unannounced' = unannounced \ DOMAIN job'.exes
  /\ UNCHANGED <<listersVars, edits, queueVars, configuratorVars>>

-----------------------------------------------------------------------------
\* The worker: what a sync changes; it ends with Done

SyncDone ==
  /\ wpc = "write"
  /\ Queue!Finish
  /\ wpc' = "get"
  /\ job' = Nothing
  /\ UNCHANGED <<listersVars, edits, unannounced>>

AddOrUpdateTransportServer ==
  /\ job.op = "AddOrUpdate"
  /\ SyncDone
  /\ addOrUpdateTransportServers(job.exes, listeners)
  /\ Reload(running)
  /\ UNCHANGED <<isPlus, listeners>>

\* Mutants of the next definition
Bug_DeleteWithoutReload ==
  /\ job.op = "Delete"
  /\ SyncDone
  /\ \E k \in Keys : active = {TSTask(k)} /\ deleteTransportServer(k)
  /\ UNCHANGED <<isPlus, listeners, running>>

DeleteTransportServer ==
  /\ job.op = "Delete"
  /\ SyncDone
  /\ \E k \in Keys : active = {TSTask(k)} /\ deleteTransportServer(k)
  /\ Reload(running)
  /\ UNCHANGED <<isPlus, listeners>>

\* Mutants of the next definition
Bug_ListenersOnly ==
  /\ job.op = "Update"
  /\ SyncDone
  /\ listeners' = ParseGlobalConfiguration(job.config)
  /\ UNCHANGED <<isPlus, tlsPassthroughPairs, files>>
  /\ Reload(running)

\* TransportServers without a listener are reported and left as they are
UpdateGlobalConfiguration ==
  /\ job.op = "Update"
  /\ SyncDone
  /\ listeners' = ParseGlobalConfiguration(job.config)
  /\ LET K == {k \in DOMAIN job.exes : CheckIfListenerExists(job.exes[k].ts, listeners')}
     IN addOrUpdateTransportServers([k \in K |-> job.exes[k]], listeners')
  /\ Reload(running)
  /\ UNCHANGED isPlus

\* NGINX Plus gets the addresses over its API, which knows what NGINX runs; NGINX
\* is reloaded if that fails for one of them
UpdateEndpointsForTransportServers ==
  LET known == DOMAIN job.exes \cap DOMAIN running.streams
      updated == [running EXCEPT !.streams =
                    [k \in DOMAIN @ |-> IF k \in known
                                        THEN [@[k] EXCEPT !.endpoints = job.exes[k].endpoints]
                                        ELSE @[k]]]
  IN /\ job.op = "UpdateEndpoints"
     /\ SyncDone
     /\ addOrUpdateTransportServers(job.exes, listeners)
     /\ IF ~isPlus THEN Reload(running)
        ELSE IF known = DOMAIN job.exes THEN running' = updated ELSE Reload(updated)
     /\ UNCHANGED <<isPlus, listeners>>

NothingToDo ==
  /\ job.op = "Nothing"
  /\ SyncDone
  /\ UNCHANGED configuratorVars

-----------------------------------------------------------------------------
Init ==
  /\ transportServers = Empty
  /\ services = {}
  /\ endpoints = Empty
  /\ globalConfiguration = StartConfig
  /\ edits = 0
  /\ Queue!Init
  /\ wpc = "get"
  /\ job = Nothing
  /\ isPlus \in BOOLEAN
  /\ listeners = ParseGlobalConfiguration(StartConfig)
  /\ tlsPassthroughPairs = Empty
  /\ streams = Empty
  /\ passthroughHosts = Empty
  /\ running = [streams |-> Empty, hosts |-> Empty]
  /\ unannounced = {}

Users(specs, configs) ==
  \/ \E k \in Keys : RemoveTransportServer(k) \/ \E ts \in specs[k] : ChangeTransportServer(k, ts)
  \/ \E gc \in configs \cup {NoConfig} : ChangeGlobalConfiguration(gc)
  \/ \E s \in Services : \/ ChangeService(s)
                         \/ \E A \in Addresses : ChangeEndpoints(s, A)
                         \/ RemoveEndpoints(s)

Worker ==
  \/ GetTask \/ Read
  \/ AddOrUpdateTransportServer \/ DeleteTransportServer
  \/ UpdateGlobalConfiguration \/ UpdateEndpointsForTransportServers \/ NothingToDo

Next == Users(Specs, GlobalConfigs) \/ Worker

Spec == Init /\ [][Next]_vars

-----------------------------------------------------------------------------
\* Properties

Idle == wpc = "get" /\ pending = {}

\* Type invariant: the maps are keyed by TransportServers, a sync has one task, and
\* only TransportServers that have a file claim TLS Passthrough hosts.
TypeOK ==
  /\ DOMAIN transportServers \subseteq Keys
  /\ pending \subseteq Tasks /\ active \subseteq Tasks /\ ~closed
  /\ Cardinality(active) = IF wpc = "get" THEN 0 ELSE 1
  /\ DOMAIN tlsPassthroughPairs \subseteq DOMAIN streams
  /\ DOMAIN streams \subseteq Keys
  /\ unannounced \subseteq Keys

Usable == {k \in ValidServers : CheckIfListenerExists(transportServers[k], listeners)}

\* When no task is left, every valid TransportServer with an existing listener has
\* its file, with the port that the latest valid GlobalConfiguration gives its
\* listener and with the addresses of its service as the listers know them, in
\* whatever order TransportServers, listeners, services and Endpoints changed;
\* and a TransportServer that is gone or invalid has none.  Only the addresses of a
\* server whose service came or went while syncGlobalConfiguration was about to add
\* its listener may be out of date: the handler did not enqueue it.
ServersAreServed ==
  Idle =>
    /\ globalConfiguration # NoConfig /\ ValidateGlobalConfiguration(globalConfiguration)
         => listeners = ParseGlobalConfiguration(globalConfiguration)
    /\ Usable \subseteq DOMAIN streams
    /\ DOMAIN streams \subseteq ValidServers
    /\ \A k \in Usable :
         LET ex == createTransportServer(k)
             late == [ex EXCEPT !.endpoints = streams[k].endpoints]
         IN \/ streams[k] = generateTransportServerConfig(ex, listeners)
            \/ k \in unannounced /\ streams[k] = generateTransportServerConfig(late, listeners)

\* TCP and UDP servers that were TLS Passthrough servers before: their pair stays,
\* and outlives their listener.
FormerPassthrough ==
  {k \in DOMAIN tlsPassthroughPairs \cap ValidServers : transportServers[k].host = 0}

\* When no task is left, the TLS Passthrough hosts file has the host of every TLS
\* Passthrough TransportServer, and every host in it leads to the socket of such a
\* server that is there to accept the connection, except for the hosts that a
\* TransportServer held before it was changed to TCP or UDP.
PassthroughHostsServed ==
  Idle =>
    /\ DOMAIN passthroughHosts = ({transportServers[k].host : k \in Usable} \ {0})
                                   \cup {tlsPassthroughPairs[k] : k \in FormerPassthrough}
    /\ \A h \in DOMAIN passthroughHosts :
         LET k == passthroughHosts[h]
         IN \/ k \in FormerPassthrough
            \/ k \in Usable /\ transportServers[k].host = h /\ streams[k].passthrough

\* When no task is left and the files are free of conflicts, NGINX runs what is in
\* the files: a reload that failed because two TransportServers share a listener is
\* made up for by whatever removes the conflict (transportserver-resource.md,
\* "until there is only one TransportServer, NGINX will fail to reload").
ConflictsGetRepaired ==
  Idle /\ ~Conflict(streams) => running = [streams |-> streams, hosts |-> passthroughHosts]

\* When no task is left, no file is left of a TransportServer whose listener is gone
\* (the comment on UpdateGlobalConfiguration: "some TransportServers might be removed
\* from NGINX").
ListenersBackStreams == Idle => DOMAIN streams = Usable
=============================================================================
