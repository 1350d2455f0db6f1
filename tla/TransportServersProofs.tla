----------------------- MODULE TransportServersProofs -----------------------
(***************************************************************************)
(* TransportServers reach NGINX, for any number of them, of listeners,     *)
(* services and changes.  The argument is about one TransportServer at a   *)
(* time: unless a task that concerns it waits or is active, its stream     *)
(* file is right.  What a sync has read may be out of date when it writes  *)
(* it, but then the handlers have enqueued the task that repairs it.       *)
(***************************************************************************)
EXTENDS TransportServers, FiniteSetTheorems, WellFoundedInduction, TLAPS

\* how long the provers may work on a step
USE ZenonT(5), SMTT(60)

-----------------------------------------------------------------------------
(* The shape of the state *)

Shape ==
  /\ DOMAIN transportServers \subseteq Keys
  /\ pending \subseteq Tasks /\ active \subseteq Tasks /\ closed = FALSE
  /\ wpc \in {"get", "read", "write"}
  /\ wpc = "get" => active = {}
  /\ wpc # "get" => \E t \in Tasks : active = {t}
  /\ DOMAIN job.exes \subseteq Keys
  /\ DOMAIN tlsPassthroughPairs \subseteq DOMAIN streams
  /\ DOMAIN streams \subseteq Keys
  /\ unannounced \subseteq Keys

LEMMA TaskKinds ==
  /\ \A j, k : TSTask(j) = TSTask(k) => j = k
  /\ \A s, t : EndpointsTask(s) = EndpointsTask(t) => s = t
  /\ \A k, s : TSTask(k) # GCTask /\ TSTask(k) # EndpointsTask(s) /\ GCTask # EndpointsTask(s)
  BY DEF TSTask, GCTask, EndpointsTask

LEMMA TaskIsOneOf ==
  ASSUME NEW t \in Tasks
  PROVE  \/ t = GCTask
         \/ \E k \in Keys : t = TSTask(k)
         \/ \E s \in Services : t = EndpointsTask(s)
  BY DEF Tasks

\* What a sync reads for a set of TransportServers is about these.
LEMMA ReadShape ==
  ASSUME NEW k
  PROVE  /\ DOMAIN ReadTransportServer(k).exes \subseteq DOMAIN transportServers
         /\ DOMAIN ReadGlobalConfiguration.exes \subseteq DOMAIN transportServers
         /\ DOMAIN ReadEndpoints(k).exes \subseteq DOMAIN transportServers
  BY DEF ReadTransportServer, ReadGlobalConfiguration, ReadEndpoints, Exes, Empty, Nothing,
         ValidServers, ServersForService

LEMMA WriteShape ==
  ASSUME NEW E, NEW ls, DOMAIN E \subseteq Keys, Shape, addOrUpdateTransportServers(E, ls)
  PROVE  /\ DOMAIN tlsPassthroughPairs' \subseteq DOMAIN streams'
         /\ DOMAIN streams' \subseteq Keys
  BY DEF Shape, addOrUpdateTransportServers

\* A change by users enqueues tasks and leaves the worker and the files.
LEMMA UserShape ==
  ASSUME Shape, Users(Specs, GlobalConfigs)
  PROVE  /\ Shape'
         /\ UNCHANGED <<active, wpc, job, listeners, streams>>
         /\ pending \subseteq pending' /\ unannounced \subseteq unannounced'
<1>1. /\ DOMAIN transportServers' \subseteq Keys
      /\ unannounced \subseteq unannounced' /\ unannounced' \subseteq Keys
      /\ pending \subseteq pending' /\ pending' \subseteq Tasks
      /\ UNCHANGED <<active, closed, wpc, job, configuratorVars>>
  BY DEF Shape, Users, ChangeTransportServer, RemoveTransportServer, ChangeGlobalConfiguration,
         ChangeService, ChangeEndpoints, RemoveEndpoints, Enqueue, Put, Tasks, ServersForService,
         ValidServers
<1> QED
  BY <1>1 DEF Shape, configuratorVars

LEMMA WorkerShape ==
  ASSUME Shape, Worker
  PROVE  Shape'
<1>1. CASE GetTask
  BY <1>1 DEF Shape, GetTask, Queue!Start, listersVars, configuratorVars
<1>2. CASE Read
  <2>1. DOMAIN job'.exes \subseteq Keys
    BY <1>2, ReadShape DEF Shape, Read
  <2> QED
    BY <1>2, <2>1 DEF Shape, Read, listersVars, queueVars, configuratorVars
<1>3. ASSUME SyncDone, DOMAIN tlsPassthroughPairs' \subseteq DOMAIN streams', DOMAIN streams' \subseteq Keys
      PROVE  Shape'
  BY <1>3 DEF Shape, SyncDone, Queue!Finish, Nothing, Empty, listersVars
<1>4. CASE AddOrUpdateTransportServer
  BY <1>3, <1>4, WriteShape DEF AddOrUpdateTransportServer, Shape
<1>5. CASE DeleteTransportServer
  BY <1>3, <1>5 DEF DeleteTransportServer, deleteTransportServer, Shape
<1>6. CASE UpdateGlobalConfiguration
  <2> DEFINE K == {k \in DOMAIN job.exes : CheckIfListenerExists(job.exes[k].ts, listeners')}
             E == [k \in K |-> job.exes[k]]
  <2>1. SyncDone /\ addOrUpdateTransportServers(E, listeners')
    BY <1>6 DEF UpdateGlobalConfiguration
  <2>2. DOMAIN E \subseteq Keys
    BY DEF Shape
  <2> HIDE DEF E
  <2> QED
    BY <1>3, <2>1, <2>2, WriteShape
<1>7. CASE UpdateEndpointsForTransportServers
  BY <1>3, <1>7, WriteShape DEF UpdateEndpointsForTransportServers, Shape
<1>8. CASE NothingToDo
  BY <1>3, <1>8 DEF NothingToDo, Shape, configuratorVars
<1> QED
  BY <1>1, <1>2, <1>4, <1>5, <1>6, <1>7, <1>8 DEF Worker

LEMMA ShapeNext == Shape /\ [Next]_vars => Shape'
<1> SUFFICES ASSUME Shape, [Next]_vars PROVE Shape'
  OBVIOUS
<1>1. CASE UNCHANGED vars
  BY <1>1 DEF vars, Shape, listersVars, queueVars, configuratorVars
<1> QED
  BY <1>1, UserShape, WorkerShape DEF Next

LEMMA ShapeInit == Init => Shape
  BY DEF Init, Shape, Queue!Init, Nothing, Empty

\* Type correctness: a sync has exactly one task, and only TransportServers that
\* have a stream file claim TLS Passthrough hosts.
THEOREM TypeCorrect == Spec => []TypeOK
<1>1. Shape => TypeOK
  <2> SUFFICES ASSUME Shape PROVE TypeOK
    OBVIOUS
  <2>1. Cardinality(active) = IF wpc = "get" THEN 0 ELSE 1
    BY FS_EmptySet, FS_Singleton DEF Shape
  <2> QED
    BY <2>1 DEF Shape, TypeOK
<1> QED
  BY <1>1, ShapeInit, ShapeNext, PTL DEF Spec

-----------------------------------------------------------------------------
(* What holds of one TransportServer *)

ServiceOf(k) == transportServers[k].service
HasAddresses(k) == ServiceOf(k) \in services \cap DOMAIN endpoints

\* No task of T is about the Endpoints that k takes its addresses from.
Fresh(k, T) == HasAddresses(k) => EndpointsTask(ServiceOf(k)) \notin T

\* The sync of a GlobalConfiguration is about to write all valid TransportServers.
Renewing == wpc = "write" /\ active = {GCTask} /\ job.op = "Update"

\* The file of k is right, as far as no task that concerns k waits or is active and
\* its service has not changed without one.
FileRight(k) ==
  TSTask(k) \notin pending \cup active =>
    /\ k \notin ValidServers => k \notin DOMAIN streams
    /\ k \in Usable \ unannounced /\ ~Renewing /\ Fresh(k, pending \cup active) =>
         /\ k \in DOMAIN streams
         /\ streams[k] = generateTransportServerConfig(createTransportServer(k), listeners)

\* What the sync has read of k is up to date, as far as no task waits.
ReadRight(k) ==
  k \in DOMAIN job.exes /\ TSTask(k) \notin pending =>
    /\ k \in ValidServers
    /\ job.exes[k].ts = transportServers[k]
    /\ k \notin unannounced /\ Fresh(k, pending) => job.exes[k] = createTransportServer(k)

ConfigValid ==
  globalConfiguration # NoConfig /\ ValidateGlobalConfiguration(globalConfiguration)

\* Whether the sync of a TransportServer adds or deletes it
ServerJob(k) ==
  active = {TSTask(k)} =>
    /\ job.op \in {"AddOrUpdate", "Delete"}
    /\ DOMAIN job.exes = IF job.op = "AddOrUpdate" THEN {k} ELSE {}
    /\ TSTask(k) \notin pending => (job.op = "AddOrUpdate" <=> k \in Usable)

\* The sync of a GlobalConfiguration has read all valid TransportServers.
ConfigJob ==
  active = {GCTask} =>
    /\ job.op \in {"Update", "Nothing"}
    /\ GCTask \notin pending /\ ConfigValid => job.op = "Update" /\ job.config = globalConfiguration
    /\ job.op = "Update" => \A k \in ValidServers : TSTask(k) \notin pending => k \in DOMAIN job.exes
    /\ job.op = "Nothing" => DOMAIN job.exes = {}

\* The sync of Endpoints has read all TransportServers that use them.
EndpointsJob(s) ==
  active = {EndpointsTask(s)} =>
    /\ job.op \in {"UpdateEndpoints", "Nothing"}
    /\ job.op = "Nothing" => DOMAIN job.exes = {}
    /\ \A k \in DOMAIN job.exes : TSTask(k) \notin pending =>
         k \in Usable /\ ServiceOf(k) = s /\ HasAddresses(k)
    /\ \A k \in Usable :
         ServiceOf(k) = s /\ HasAddresses(k) /\ {TSTask(k), EndpointsTask(s)} \cap pending = {} =>
           k \in DOMAIN job.exes

ServedInv ==
  /\ Shape
  /\ \A k \in Keys : FileRight(k)
  /\ wpc = "write" =>
       /\ \A k \in Keys : ReadRight(k) /\ ServerJob(k)
       /\ ConfigJob
       /\ \A s \in Services : EndpointsJob(s)
  /\ ConfigValid /\ GCTask \notin pending \cup active =>
       listeners = ParseGlobalConfiguration(globalConfiguration)

\* A change that leaves a TransportServer and the addresses of its service leaves
\* what is known about it.
LEMMA SameServer ==
  ASSUME NEW k, k \in DOMAIN transportServers' <=> k \in DOMAIN transportServers,
         k \in DOMAIN transportServers => transportServers'[k] = transportServers[k],
         listeners' = listeners
  PROVE  /\ k \in ValidServers' <=> k \in ValidServers
         /\ k \in Usable' <=> k \in Usable
         /\ k \in ValidServers => ServiceOf(k)' = ServiceOf(k)
  BY DEF ValidServers, Usable, ServiceOf, ValidateTransportServer, isPassthrough, CheckIfListenerExists

LEMMA SameAddresses ==
  ASSUME NEW k, transportServers'[k] = transportServers[k],
         ServiceOf(k) \in services' <=> ServiceOf(k) \in services,
         \/ ServiceOf(k) \notin services
         \/ /\ ServiceOf(k) \in DOMAIN endpoints' <=> ServiceOf(k) \in DOMAIN endpoints
            /\ ServiceOf(k) \in DOMAIN endpoints => endpoints'[ServiceOf(k)] = endpoints[ServiceOf(k)]
  PROVE  /\ createTransportServer(k)' = createTransportServer(k)
         /\ HasAddresses(k)' <=> HasAddresses(k)
  BY DEF createTransportServer, HasAddresses, ServiceOf

-----------------------------------------------------------------------------
(* Changes by users *)

SameSpec(k) ==
  /\ k \in DOMAIN transportServers' <=> k \in DOMAIN transportServers
  /\ k \in DOMAIN transportServers => transportServers'[k] = transportServers[k]

\* A change leaves k and its addresses, or enqueues the Endpoints they come from, or
\* k is not usable and the change is on record; else it enqueues k itself.
Stable(k) ==
  TSTask(k) \notin pending' =>
    /\ SameSpec(k)
    /\ k \in DOMAIN transportServers =>
         \/ /\ HasAddresses(k)' <=> HasAddresses(k)
            /\ createTransportServer(k)' = createTransportServer(k)
         \/ HasAddresses(k)' /\ EndpointsTask(ServiceOf(k)) \in pending'
         \/ k \notin Usable /\ (k \in ValidServers => k \in unannounced')

\* The handlers enqueue enough: every change is stable for every TransportServer.
\* A service that comes or goes does not enqueue the servers whose listener is yet
\* unknown; they become unannounced.
LEMMA ServiceStable ==
  ASSUME NEW s \in Services, ChangeService(s), NEW k \in Keys
  PROVE  Stable(k)
<1>1. /\ pending' = pending \cup {TSTask(j) : j \in ServersForService(s)}
      /\ UNCHANGED <<transportServers, endpoints, globalConfiguration>>
      /\ services' = IF s \in services THEN services \ {s} ELSE services \cup {s}
      /\ unannounced' = unannounced \cup
           {j \in ValidServers \ ServersForService(s) : transportServers[j].service = s}
  BY DEF ChangeService, Enqueue
<1> SUFFICES ASSUME TSTask(k) \notin pending', k \in DOMAIN transportServers
             PROVE  \/ /\ HasAddresses(k)' <=> HasAddresses(k)
                       /\ createTransportServer(k)' = createTransportServer(k)
                    \/ k \notin Usable /\ (k \in ValidServers => k \in unannounced')
  BY <1>1 DEF Stable, SameSpec
<1>2. CASE ServiceOf(k) # s
  <2>1. ServiceOf(k) \in services' <=> ServiceOf(k) \in services
    BY <1>1, <1>2
  <2> QED
    BY <1>1, <2>1, SameAddresses
<1>3. CASE ServiceOf(k) = s
  <2>1. k \notin ServersForService(s)
    BY <1>1
  <2> QED
    BY <1>1, <1>3, <2>1 DEF Usable, ServersForService, ServiceOf
<1> QED
  BY <1>2, <1>3

LEMMA EndpointsStable ==
  ASSUME Shape, NEW s \in Services, RemoveEndpoints(s) \/ \E A \in Addresses : ChangeEndpoints(s, A),
         NEW k \in Keys
  PROVE  Stable(k)
<1>1. /\ UNCHANGED <<transportServers, services, globalConfiguration>>
      /\ EndpointsTask(s) \in pending'
      /\ \A r : r # s => /\ r \in DOMAIN endpoints' <=> r \in DOMAIN endpoints
                         /\ r \in DOMAIN endpoints => endpoints'[r] = endpoints[r]
      /\ s \in services => s \in DOMAIN endpoints'
  BY DEF RemoveEndpoints, ChangeEndpoints, Enqueue, Put
<1>2. CASE ServiceOf(k) = s /\ s \in services
  BY <1>1, <1>2 DEF Stable, SameSpec, HasAddresses, ServiceOf
<1>3. CASE ServiceOf(k) # s \/ s \notin services
  <2>1. /\ HasAddresses(k)' <=> HasAddresses(k)
        /\ createTransportServer(k)' = createTransportServer(k)
    <3>1. /\ transportServers'[k] = transportServers[k]
          /\ ServiceOf(k) \in services' <=> ServiceOf(k) \in services
      BY <1>1
    <3>2. \/ ServiceOf(k) \notin services
          \/ /\ ServiceOf(k) \in DOMAIN endpoints' <=> ServiceOf(k) \in DOMAIN endpoints
             /\ ServiceOf(k) \in DOMAIN endpoints => endpoints'[ServiceOf(k)] = endpoints[ServiceOf(k)]
      BY <1>1, <1>3
    <3> QED
      BY <3>1, <3>2 DEF createTransportServer, HasAddresses, ServiceOf
  <2> QED
    BY <1>1, <2>1 DEF Stable, SameSpec
<1> QED
  BY <1>2, <1>3

LEMMA ServerStable ==
  ASSUME Shape, NEW j \in Keys, NEW k \in Keys,
         RemoveTransportServer(j) \/ \E ts \in Specs[j] : ChangeTransportServer(j, ts)
  PROVE  Stable(k)
<1>1. TSTask(j) \in pending' /\ UNCHANGED <<services, endpoints, globalConfiguration>>
  BY DEF RemoveTransportServer, ChangeTransportServer, Enqueue
<1>2. k # j => SameSpec(k)
  BY DEF RemoveTransportServer, ChangeTransportServer, SameSpec, Put
<1>3. k # j /\ k \in DOMAIN transportServers => /\ HasAddresses(k)' <=> HasAddresses(k)
                                                /\ createTransportServer(k)' = createTransportServer(k)
  BY <1>1, <1>2, SameAddresses DEF SameSpec
<1> QED
  BY <1>1, <1>2, <1>3 DEF Stable

LEMMA ConfigStable ==
  ASSUME NEW gc, ChangeGlobalConfiguration(gc), NEW k \in Keys
  PROVE  Stable(k) /\ GCTask \in pending'
<1>1. UNCHANGED <<transportServers, services, endpoints>> /\ GCTask \in pending'
  BY DEF ChangeGlobalConfiguration, Enqueue
<1> QED
  BY <1>1 DEF Stable, SameSpec, HasAddresses, ServiceOf, createTransportServer

\* Stable changes keep the invariant.
LEMMA StableServed ==
  ASSUME ServedInv, Shape', \A k \in Keys : Stable(k), pending \subseteq pending',
         unannounced \subseteq unannounced',
         UNCHANGED <<active, wpc, job, listeners, streams>>,
         UNCHANGED globalConfiguration \/ GCTask \in pending'
  PROVE  ServedInv'
<1>1. ASSUME NEW k \in Keys, TSTask(k) \notin pending'
      PROVE  /\ TSTask(k) \notin pending
             /\ k \in ValidServers' <=> k \in ValidServers
             /\ k \in Usable' <=> k \in Usable
             /\ k \in ValidServers => /\ k \in DOMAIN transportServers
                                      /\ transportServers'[k] = transportServers[k]
                                      /\ ServiceOf(k)' = ServiceOf(k)
             /\ k \in Usable => k \in ValidServers
  BY <1>1, SameServer DEF Stable, SameSpec, ValidServers, Usable
<1>2. ASSUME NEW k \in Keys, TSTask(k) \notin pending', k \in ValidServers, k \in Usable \/ k \notin unannounced'
      PROVE  /\ HasAddresses(k) => HasAddresses(k)'
             /\ EndpointsTask(ServiceOf(k)) \notin pending' =>
                  /\ HasAddresses(k)' <=> HasAddresses(k)
                  /\ createTransportServer(k)' = createTransportServer(k)
             /\ ~HasAddresses(k)' =>
                  /\ ~HasAddresses(k)
                  /\ createTransportServer(k)' = createTransportServer(k)
  BY <1>1, <1>2 DEF Stable
<1>3. ASSUME NEW k \in Keys PROVE FileRight(k)'
  <2> SUFFICES ASSUME TSTask(k) \notin pending' \cup active'
               PROVE  /\ k \notin ValidServers' => k \notin DOMAIN streams'
                      /\ k \in Usable' \ unannounced' /\ ~Renewing' /\ Fresh(k, pending \cup active)' =>
                           /\ k \in DOMAIN streams'
                           /\ streams'[k] = generateTransportServerConfig(createTransportServer(k), listeners)'
    BY DEF FileRight
  <2>1. FileRight(k) /\ TSTask(k) \notin pending \cup active
    BY <1>1 DEF ServedInv
  <2>2. ASSUME k \in Usable', Fresh(k, pending \cup active)'
        PROVE  Fresh(k, pending \cup active) /\ createTransportServer(k)' = createTransportServer(k)
    BY <1>1, <1>2, <2>2 DEF Fresh
  <2> QED
    BY <1>1, <2>1, <2>2 DEF FileRight, generateTransportServerConfig, Renewing
<1>4. ASSUME NEW k \in Keys, wpc' = "write" PROVE ReadRight(k)'
  <2> SUFFICES ASSUME k \in DOMAIN job.exes, TSTask(k) \notin pending'
               PROVE  /\ k \in ValidServers'
                      /\ job.exes[k].ts = transportServers'[k]
                      /\ k \notin unannounced' /\ Fresh(k, pending)' =>
                           job.exes[k] = createTransportServer(k)'
    BY DEF ReadRight
  <2>1. ReadRight(k) /\ TSTask(k) \notin pending
    BY <1>1, <1>4 DEF ServedInv
  <2>2. k \in ValidServers /\ job.exes[k].ts = transportServers[k]
    BY <2>1 DEF ReadRight
  <2>3. ASSUME k \notin unannounced', Fresh(k, pending)'
        PROVE  Fresh(k, pending) /\ createTransportServer(k)' = createTransportServer(k)
    BY <1>1, <1>2, <2>1, <2>2, <2>3 DEF Fresh
  <2> QED
    BY <1>1, <2>1, <2>2, <2>3 DEF ReadRight
<1>5. ASSUME NEW k \in Keys, wpc' = "write" PROVE ServerJob(k)'
  BY <1>1, <1>5 DEF ServedInv, ServerJob
<1>6. ASSUME wpc' = "write" PROVE ConfigJob'
  <2>1. ValidServers' \subseteq Keys
    BY DEF Shape, ValidServers
  <2> QED
    BY <1>1, <1>6, <2>1 DEF ServedInv, ConfigJob, ConfigValid
<1>7. ASSUME NEW s \in Services, wpc' = "write" PROVE EndpointsJob(s)'
  <2> SUFFICES ASSUME active = {EndpointsTask(s)} PROVE EndpointsJob(s)'
    BY DEF EndpointsJob
  <2>1. EndpointsJob(s)
    BY <1>7 DEF ServedInv
  <2>2. DOMAIN job.exes \subseteq Keys /\ Usable' \subseteq Keys
    BY DEF Shape, ValidServers, Usable
  <2>3. ASSUME NEW k \in DOMAIN job.exes, TSTask(k) \notin pending'
        PROVE  k \in Usable' /\ ServiceOf(k)' = s /\ HasAddresses(k)'
    BY <1>1, <1>2, <2>1, <2>2, <2>3 DEF EndpointsJob
  <2>4. ASSUME NEW k \in Usable', ServiceOf(k)' = s, HasAddresses(k)',
               {TSTask(k), EndpointsTask(s)} \cap pending' = {}
        PROVE  k \in DOMAIN job.exes
    BY <1>1, <1>2, <2>1, <2>2, <2>4 DEF EndpointsJob
  <2> QED
    BY <2>1, <2>3, <2>4 DEF EndpointsJob
<1>8. ConfigValid' /\ GCTask \notin pending' \cup active' =>
        listeners' = ParseGlobalConfiguration(globalConfiguration')
  BY DEF ServedInv, ConfigValid
<1> QED
  BY <1>3, <1>4, <1>5, <1>6, <1>7, <1>8 DEF ServedInv

LEMMA UserServed ==
  ASSUME ServedInv, Users(Specs, GlobalConfigs)
  PROVE  ServedInv'
<1>1. Shape'
  BY UserShape DEF ServedInv
<1>2. /\ pending \subseteq pending' /\ unannounced \subseteq unannounced'
      /\ UNCHANGED <<active, wpc, job, listeners, streams>>
      /\ UNCHANGED globalConfiguration \/ GCTask \in pending'
  BY DEF Users, RemoveTransportServer, ChangeTransportServer, ChangeGlobalConfiguration,
         ChangeService, ChangeEndpoints, RemoveEndpoints, Enqueue, configuratorVars
<1>3. \A k \in Keys : Stable(k)
  BY ServiceStable, EndpointsStable, ServerStable, ConfigStable DEF Users, ServedInv
<1> QED
  BY <1>1, <1>2, <1>3, StableServed

-----------------------------------------------------------------------------
(* The steps of the worker *)

LEMMA GetServed == ServedInv /\ GetTask => ServedInv'
<1> SUFFICES ASSUME ServedInv, GetTask PROVE ServedInv'
  OBVIOUS
<1>1. /\ pending' \cup active' = pending \cup active
      /\ wpc' = "read"
      /\ wpc = "get"
      /\ UNCHANGED <<transportServers, services, endpoints, globalConfiguration, listeners, streams,
                     unannounced>>
  BY DEF GetTask, Queue!Start, ServedInv, Shape, listersVars, configuratorVars
<1>2. Shape'
  BY WorkerShape DEF ServedInv, Worker
<1>3. ASSUME NEW k \in Keys PROVE FileRight(k)'
  BY <1>1 DEF ServedInv, FileRight, Fresh, HasAddresses, ServiceOf, ValidServers, Usable,
              createTransportServer, Renewing
<1>4. ConfigValid' /\ GCTask \notin pending' \cup active' =>
        listeners' = ParseGlobalConfiguration(globalConfiguration')
  BY <1>1 DEF ServedInv, ConfigValid
<1> QED
  BY <1>1, <1>2, <1>3, <1>4 DEF ServedInv

\* What a sync reads is what it needs.
LEMMA ReadServed == ServedInv /\ Read => ServedInv'
<1> SUFFICES ASSUME ServedInv, Read PROVE ServedInv'
  OBVIOUS
<1>1. /\ UNCHANGED <<transportServers, services, endpoints, globalConfiguration,
                     pending, active, listeners, streams>>
      /\ wpc = "read" /\ wpc' = "write"
      /\ unannounced' = unannounced \ DOMAIN job'.exes
  BY DEF Read, listersVars, queueVars, configuratorVars
<1>2. Shape'
  BY WorkerShape DEF ServedInv, Worker
<1>3. ASSUME NEW k \in Keys,
             \/ k \notin DOMAIN job'.exes \/ Renewing' \/ TSTask(k) \in active
             \/ HasAddresses(k) /\ EndpointsTask(ServiceOf(k)) \in active
      PROVE  FileRight(k)'
  BY <1>1, <1>3 DEF ServedInv, FileRight, Fresh, HasAddresses, ServiceOf, ValidServers, Usable,
              createTransportServer, Renewing
<1>4. ConfigValid' /\ GCTask \notin pending' \cup active' =>
        listeners' = ParseGlobalConfiguration(globalConfiguration')
  BY <1>1 DEF ServedInv, ConfigValid
<1>5. /\ Usable' = Usable /\ ValidServers' = ValidServers /\ (ConfigValid' <=> ConfigValid)
      /\ \A k : /\ createTransportServer(k)' = createTransportServer(k)
               /\ HasAddresses(k)' <=> HasAddresses(k)
               /\ ServiceOf(k)' = ServiceOf(k)
  BY <1>1 DEF Usable, ValidServers, ConfigValid, createTransportServer, HasAddresses, ServiceOf
<1>6. Usable \subseteq ValidServers
  BY DEF Usable
<1>7. PICK t \in Tasks : active = {t}
  BY <1>1 DEF ServedInv, Shape
<1>8. CASE t = GCTask
  <2>1. /\ \A k : active # {TSTask(k)} /\ active # {EndpointsTask(k)}
        /\ active = {GCTask}
    BY <1>7, <1>8, TaskKinds
  <2>2. job' = ReadGlobalConfiguration
    BY <2>1 DEF Read
  <2>3. /\ job'.op = IF ConfigValid THEN "Update" ELSE "Nothing"
        /\ ConfigValid => job'.config = globalConfiguration
        /\ job'.exes = IF ConfigValid THEN Exes(ValidServers) ELSE Empty
    BY <2>2 DEF ReadGlobalConfiguration, ConfigValid, Nothing
  <2>4. DOMAIN job'.exes = IF ConfigValid THEN ValidServers ELSE {}
    BY <2>3 DEF Exes, Empty
  <2>5. \A k \in DOMAIN job'.exes : job'.exes[k] = createTransportServer(k)
    BY <2>3, <2>4 DEF Exes
  <2>6. \A k \in Keys : ReadRight(k)'
    BY <1>1, <1>5, <2>4, <2>5 DEF ReadRight, createTransportServer
  <2>10. \A k \in Keys : FileRight(k)'
    BY <1>1, <1>3, <2>1, <2>3, <2>4 DEF Renewing
  <2>7. \A k \in Keys : ServerJob(k)'
    BY <1>1, <2>1 DEF ServerJob
  <2>8. ConfigJob'
    BY <1>1, <1>5, <2>3, <2>4 DEF ConfigJob
  <2>9. \A s \in Services : EndpointsJob(s)'
    BY <1>1, <2>1 DEF EndpointsJob
  <2> QED
    BY <1>2, <1>4, <2>6, <2>7, <2>8, <2>9, <2>10 DEF ServedInv
<1>9. ASSUME NEW j \in Keys, t = TSTask(j) PROVE ServedInv'
  <2>1. /\ \A s : active # {EndpointsTask(s)}
        /\ active # {GCTask}
        /\ \A k : active = {TSTask(k)} <=> k = j
    BY <1>7, <1>9, TaskKinds
  <2>2. job' = ReadTransportServer(j)
    <3>1. (CHOOSE k \in Keys : active = {TSTask(k)}) = j
      BY <2>1
    <3> QED
      BY <2>1, <3>1 DEF Read
  <2>3. /\ job'.op = IF j \in Usable THEN "AddOrUpdate" ELSE "Delete"
        /\ job'.exes = IF j \in Usable THEN Exes({j}) ELSE Empty
    BY <2>2 DEF ReadTransportServer, Usable
  <2>4. DOMAIN job'.exes = IF j \in Usable THEN {j} ELSE {}
    BY <2>3 DEF Exes, Empty
  <2>5. \A k \in DOMAIN job'.exes : job'.exes[k] = createTransportServer(k)
    BY <2>3, <2>4 DEF Exes
  <2>6. \A k \in Keys : ReadRight(k)'
    BY <1>1, <1>5, <1>6, <2>4, <2>5 DEF ReadRight, createTransportServer
  <2>7. \A k \in Keys : ServerJob(k)'
    BY <1>1, <1>5, <2>1, <2>3, <2>4 DEF ServerJob
  <2>8. \A k \in Keys : FileRight(k)'
    BY <1>3, <2>1, <2>4
  <2> QED
    BY <1>1, <1>2, <1>4, <2>1, <2>6, <2>7, <2>8 DEF ServedInv, ConfigJob, EndpointsJob
<1>10. ASSUME NEW r \in Services, t = EndpointsTask(r) PROVE ServedInv'
  <2>1. /\ \A k : active # {TSTask(k)}
        /\ active # {GCTask}
        /\ \A s : active = {EndpointsTask(s)} <=> s = r
    BY <1>7, <1>10, TaskKinds
  <2>2. job' = ReadEndpoints(r)
    <3>1. (CHOOSE s \in Services : active = {EndpointsTask(s)}) = r
      BY <2>1
    <3> QED
      BY <2>1, <3>1 DEF Read
  <2> DEFINE users == IF r \in DOMAIN endpoints \cap services THEN ServersForService(r) ELSE {}
  <2>3. /\ job'.op = IF users # {} THEN "UpdateEndpoints" ELSE "Nothing"
        /\ job'.exes = IF users # {} THEN Exes(users) ELSE Empty
    BY <2>2 DEF ReadEndpoints, Nothing
  <2>4. DOMAIN job'.exes = users
    BY <2>3 DEF Exes, Empty
  <2>5. \A k \in users : job'.exes[k] = createTransportServer(k)
    BY <2>3, <2>4 DEF Exes
  <2>6. \A k : k \in users <=> k \in Usable /\ ServiceOf(k) = r /\ HasAddresses(k)
    BY DEF ServersForService, Usable, ServiceOf, HasAddresses
  <2> HIDE DEF users
  <2>7. \A k \in Keys : ReadRight(k)'
    BY <1>1, <1>5, <1>6, <2>4, <2>5, <2>6 DEF ReadRight, createTransportServer
  <2>8. \A s \in Services : EndpointsJob(s)'
    <3>1. /\ \A k \in DOMAIN job'.exes : k \in Usable' /\ ServiceOf(k)' = r /\ HasAddresses(k)'
          /\ \A k \in Usable' : ServiceOf(k)' = r /\ HasAddresses(k)' => k \in DOMAIN job'.exes
      BY <1>1, <1>5, <2>4, <2>6 DEF ServiceOf, HasAddresses
    <3>2. /\ job'.op \in {"UpdateEndpoints", "Nothing"}
          /\ job'.op = "Nothing" => DOMAIN job'.exes = {}
      BY <2>3, <2>4
    <3> QED
      BY <1>1, <2>1, <3>1, <3>2 DEF EndpointsJob
  <2>9. \A k \in Keys : FileRight(k)'
    BY <1>3, <2>1, <2>4, <2>6
  <2> QED
    BY <1>1, <1>2, <1>4, <2>1, <2>7, <2>8, <2>9 DEF ServedInv, ServerJob, ConfigJob
<1> QED
  BY <1>7, <1>8, <1>9, <1>10, TaskIsOneOf

\* The file of k as the end of a sync leaves it
WrittenRight(k) ==
  TSTask(k) \notin pending =>
    /\ k \notin ValidServers => k \notin DOMAIN streams'
    /\ k \in Usable' \ unannounced /\ Fresh(k, pending) =>
         /\ k \in DOMAIN streams'
         /\ streams'[k] = generateTransportServerConfig(createTransportServer(k), listeners')

LEMMA DoneServed ==
  ASSUME ServedInv, SyncDone, Shape', \A k \in Keys : WrittenRight(k),
         ConfigValid /\ GCTask \notin pending =>
           listeners' = ParseGlobalConfiguration(globalConfiguration)
  PROVE  ServedInv'
<1>1. /\ UNCHANGED <<transportServers, services, endpoints, globalConfiguration, pending, unannounced>>
      /\ active' = {} /\ wpc' = "get"
  BY DEF SyncDone, Queue!Finish, listersVars
<1>2. ASSUME NEW k \in Keys PROVE FileRight(k)'
  <2>1. /\ k \in ValidServers' <=> k \in ValidServers
        /\ Fresh(k, pending \cup active)' <=> Fresh(k, pending)
        /\ generateTransportServerConfig(createTransportServer(k), listeners)'
             = generateTransportServerConfig(createTransportServer(k), listeners')
    BY <1>1 DEF ValidServers, Fresh, HasAddresses, ServiceOf, generateTransportServerConfig,
                createTransportServer
  <2>2. WrittenRight(k)
    OBVIOUS
  <2> QED
    BY <1>1, <2>1, <2>2 DEF FileRight, WrittenRight
<1> QED
  BY <1>1, <1>2 DEF ServedInv, ConfigValid

\* A TransportServer that the task of the sync does not concern keeps its file.
LEMMA Untouched ==
  ASSUME ServedInv, NEW k \in Keys, active # {TSTask(k)}, UNCHANGED <<transportServers, listeners>>,
         \E t \in Tasks : active = {t},
         HasAddresses(k) => active # {EndpointsTask(ServiceOf(k))}, job.op # "Update",
         k \in DOMAIN streams' <=> k \in DOMAIN streams,
         k \in DOMAIN streams => streams'[k] = streams[k]
  PROVE  WrittenRight(k)
<1>1. FileRight(k) /\ (k \in Usable' <=> k \in Usable)
  BY DEF ServedInv, Usable, ValidServers
<1>2. TSTask(k) \notin active /\ (HasAddresses(k) => EndpointsTask(ServiceOf(k)) \notin active)
  OBVIOUS
<1> QED
  BY <1>1, <1>2 DEF FileRight, WrittenRight, Fresh, Renewing

\* Only the sync of a GlobalConfiguration has to do with the listeners.
LEMMA SameListeners ==
  ASSUME ServedInv, wpc = "write", UNCHANGED listeners, job.op # "Update"
  PROVE  ConfigValid /\ GCTask \notin pending =>
           listeners' = ParseGlobalConfiguration(globalConfiguration)
<1>1. ASSUME active = {GCTask}, ConfigValid, GCTask \notin pending PROVE FALSE
  BY <1>1 DEF ServedInv, ConfigJob
<1>2. GCTask \in active => active = {GCTask}
  BY DEF ServedInv, Shape
<1> QED
  BY <1>1, <1>2 DEF ServedInv

LEMMA ServerWritten == ServedInv /\ AddOrUpdateTransportServer => ServedInv'
<1> SUFFICES ASSUME ServedInv, AddOrUpdateTransportServer PROVE ServedInv'
  OBVIOUS
<1>1. /\ SyncDone /\ wpc = "write" /\ job.op = "AddOrUpdate"
      /\ addOrUpdateTransportServers(job.exes, listeners)
      /\ UNCHANGED <<transportServers, listeners>>
  BY DEF AddOrUpdateTransportServer, SyncDone, listersVars
<1>2. PICK j \in Keys : active = {TSTask(j)}
  <2>1. PICK t \in Tasks : active = {t}
    BY <1>1 DEF ServedInv, Shape
  <2>2. t # GCTask /\ \A s \in Services : t # EndpointsTask(s)
    BY <1>1, <2>1 DEF ServedInv, ConfigJob, EndpointsJob
  <2> QED
    BY <2>1, <2>2, TaskIsOneOf
<1>3. ServerJob(j) /\ ReadRight(j)
  BY <1>1 DEF ServedInv
<1>4. DOMAIN job.exes = {j} /\ (TSTask(j) \notin pending => j \in Usable)
  BY <1>1, <1>2, <1>3 DEF ServerJob
<1>5. ASSUME NEW k \in Keys PROVE WrittenRight(k)
  <2>1. CASE k # j
    <3>1. active # {TSTask(k)} /\ active # {EndpointsTask(ServiceOf(k))}
      BY <1>2, <2>1, TaskKinds
    <3>2. /\ k \in DOMAIN streams' <=> k \in DOMAIN streams
          /\ k \in DOMAIN streams => streams'[k] = streams[k]
      BY <1>1, <1>4, <2>1 DEF addOrUpdateTransportServers
    <3> QED
      BY <1>1, <1>2, <3>1, <3>2, Untouched DEF ServedInv, Shape
  <2>2. CASE k = j
    <3>1. /\ j \in DOMAIN streams'
          /\ streams'[j] = generateTransportServerConfig(job.exes[j], listeners)
      BY <1>1, <1>4 DEF addOrUpdateTransportServers
    <3>2. TSTask(j) \notin pending /\ j \notin unannounced /\ Fresh(j, pending) =>
            job.exes[j] = createTransportServer(j)
      BY <1>3, <1>4 DEF ReadRight
    <3>3. TSTask(j) \notin pending => j \in ValidServers
      BY <1>4 DEF Usable
    <3> QED
      BY <1>1, <2>2, <3>1, <3>2, <3>3 DEF WrittenRight
  <2> QED
    BY <2>1, <2>2
<1>6. Shape'
  BY WorkerShape DEF ServedInv, Worker
<1> QED
  BY <1>1, <1>5, <1>6, DoneServed, SameListeners

LEMMA ServerDeleted == ServedInv /\ DeleteTransportServer => ServedInv'
<1> SUFFICES ASSUME ServedInv, DeleteTransportServer PROVE ServedInv'
  OBVIOUS
<1>1. /\ SyncDone /\ wpc = "write" /\ job.op = "Delete"
      /\ UNCHANGED <<transportServers, listeners>>
  BY DEF DeleteTransportServer, SyncDone, listersVars
<1>2. PICK j \in Keys : active = {TSTask(j)} /\ deleteTransportServer(j)
  BY DEF DeleteTransportServer
<1>3. TSTask(j) \notin pending => j \notin Usable
  BY <1>1, <1>2 DEF ServedInv, ServerJob
<1>4. ASSUME NEW k \in Keys PROVE WrittenRight(k)
  <2>1. CASE k # j
    <3>1. active # {TSTask(k)} /\ active # {EndpointsTask(ServiceOf(k))}
      BY <1>2, <2>1, TaskKinds
    <3>2. /\ k \in DOMAIN streams' <=> k \in DOMAIN streams
          /\ k \in DOMAIN streams => streams'[k] = streams[k]
      BY <1>2, <2>1 DEF deleteTransportServer
    <3> QED
      BY <1>1, <1>2, <3>1, <3>2, Untouched DEF ServedInv, Shape
  <2>2. CASE k = j
    <3>1. j \notin DOMAIN streams'
      BY <1>2 DEF deleteTransportServer
    <3>2. j \in Usable' <=> j \in Usable
      BY <1>1 DEF Usable, ValidServers
    <3> QED
      BY <1>3, <2>2, <3>1, <3>2 DEF WrittenRight
  <2> QED
    BY <2>1, <2>2
<1>5. Shape'
  BY WorkerShape DEF ServedInv, Worker
<1> QED
  BY <1>1, <1>4, <1>5, DoneServed, SameListeners

\* The sync of a GlobalConfiguration writes every valid TransportServer that has a
\* listener after it, and all others are enqueued or need no file.
LEMMA ListenersWritten == ServedInv /\ UpdateGlobalConfiguration => ServedInv'
<1> SUFFICES ASSUME ServedInv, UpdateGlobalConfiguration PROVE ServedInv'
  OBVIOUS
<1> DEFINE K == {k \in DOMAIN job.exes : CheckIfListenerExists(job.exes[k].ts, listeners')}
           E == [k \in K |-> job.exes[k]]
<1>1. /\ SyncDone /\ wpc = "write" /\ job.op = "Update"
      /\ listeners' = ParseGlobalConfiguration(job.config)
      /\ addOrUpdateTransportServers(E, listeners')
      /\ UNCHANGED transportServers
  BY DEF UpdateGlobalConfiguration, SyncDone, listersVars
<1>2. active = {GCTask}
  <2>1. PICK t \in Tasks : active = {t}
    BY <1>1 DEF ServedInv, Shape
  <2>2. (\A k \in Keys : t # TSTask(k)) /\ \A s \in Services : t # EndpointsTask(s)
    BY <1>1, <2>1 DEF ServedInv, ServerJob, EndpointsJob
  <2> QED
    BY <2>1, <2>2, TaskIsOneOf
<1>3. /\ GCTask \notin pending /\ ConfigValid => job.config = globalConfiguration
      /\ \A k \in ValidServers : TSTask(k) \notin pending => k \in DOMAIN job.exes
  BY <1>1, <1>2 DEF ServedInv, ConfigJob
<1>4. /\ DOMAIN streams' = DOMAIN streams \cup K
      /\ \A k \in K : streams'[k] = generateTransportServerConfig(job.exes[k], listeners')
  <2>1. DOMAIN E = K /\ \A k \in K : E[k] = job.exes[k]
    OBVIOUS
  <2> HIDE DEF E, K
  <2> QED
    BY <1>1, <2>1 DEF addOrUpdateTransportServers
<1>5. ASSUME NEW k \in Keys PROVE WrittenRight(k)
  <2> SUFFICES ASSUME TSTask(k) \notin pending PROVE WrittenRight(k)
    BY DEF WrittenRight
  <2>1. ReadRight(k) /\ FileRight(k) /\ TSTask(k) \notin active
    BY <1>1, <1>2, TaskKinds DEF ServedInv
  <2>2. k \notin ValidServers => k \notin DOMAIN streams'
    BY <1>4, <2>1 DEF ReadRight, FileRight
  <2>3. ASSUME k \in Usable' \ unannounced, Fresh(k, pending)
        PROVE  /\ k \in DOMAIN streams'
               /\ streams'[k] = generateTransportServerConfig(createTransportServer(k), listeners')
    <3>1. k \in ValidServers /\ CheckIfListenerExists(transportServers[k], listeners')
      BY <1>1, <2>3 DEF Usable, ValidServers
    <3>2. k \in DOMAIN job.exes
      BY <1>3, <3>1
    <3>3. job.exes[k].ts = transportServers[k] /\ job.exes[k] = createTransportServer(k)
      BY <2>1, <2>3, <3>2 DEF ReadRight
    <3>4. k \in K
      BY <3>1, <3>2, <3>3
    <3> HIDE DEF K
    <3> QED
      BY <1>4, <3>3, <3>4
  <2> QED
    BY <2>2, <2>3 DEF WrittenRight
<1>6. Shape'
  BY WorkerShape DEF ServedInv, Worker
<1> HIDE DEF E, K
<1> QED
  BY <1>1, <1>3, <1>5, <1>6, DoneServed

\* The sync of Endpoints, also one that has nothing to do
LEMMA EndpointsWritten ==
  ServedInv /\ (UpdateEndpointsForTransportServers \/ NothingToDo) => ServedInv'
<1> SUFFICES ASSUME ServedInv, UpdateEndpointsForTransportServers \/ NothingToDo PROVE ServedInv'
  OBVIOUS
<1>1. /\ SyncDone /\ wpc = "write" /\ job.op \in {"UpdateEndpoints", "Nothing"}
      /\ UNCHANGED <<transportServers, listeners>>
      /\ job.op = "UpdateEndpoints" => addOrUpdateTransportServers(job.exes, listeners)
      /\ job.op = "Nothing" => UNCHANGED streams
  BY DEF UpdateEndpointsForTransportServers, NothingToDo, SyncDone, listersVars, configuratorVars
<1>2. PICK t \in Tasks : active = {t}
  BY <1>1 DEF ServedInv, Shape
<1>3. \A k \in Keys : t # TSTask(k)
  BY <1>1, <1>2 DEF ServedInv, ServerJob
<1>4. job.op = "Nothing" => DOMAIN job.exes = {}
  BY <1>1, <1>2, <1>3, TaskIsOneOf DEF ServedInv, ConfigJob, EndpointsJob
<1>5. \A k : /\ k \in DOMAIN job.exes =>
                  /\ k \in DOMAIN streams'
                  /\ streams'[k] = generateTransportServerConfig(job.exes[k], listeners)
             /\ k \notin DOMAIN job.exes => /\ k \in DOMAIN streams' <=> k \in DOMAIN streams
                                            /\ k \in DOMAIN streams => streams'[k] = streams[k]
  BY <1>1, <1>4 DEF addOrUpdateTransportServers
<1>6. ASSUME NEW k \in Keys PROVE WrittenRight(k)
  <2> SUFFICES ASSUME TSTask(k) \notin pending PROVE WrittenRight(k)
    BY DEF WrittenRight
  <2>1. CASE k \in DOMAIN job.exes
    <3>1. ReadRight(k)
      BY <1>1 DEF ServedInv
    <3> QED
      BY <1>1, <1>5, <2>1, <3>1 DEF WrittenRight, ReadRight
  <2>2. CASE k \notin DOMAIN job.exes
    <3>1. k \in Usable' <=> k \in Usable
      BY <1>1 DEF Usable, ValidServers
    <3>2. ASSUME HasAddresses(k), t = EndpointsTask(ServiceOf(k)), k \in Usable, Fresh(k, pending)
          PROVE  FALSE
      <4>1. PICK s \in Services : s = ServiceOf(k)
        BY <1>2, <3>2, TaskIsOneOf, TaskKinds
      <4>2. EndpointsJob(s) /\ EndpointsTask(s) \notin pending
        BY <1>1, <3>2, <4>1 DEF ServedInv, Fresh
      <4> QED
        BY <1>2, <2>2, <3>2, <4>1, <4>2 DEF EndpointsJob
    <3>3. FileRight(k) /\ TSTask(k) \notin active
      BY <1>2, <1>3 DEF ServedInv
    <3>4. k \in Usable /\ Fresh(k, pending) => Fresh(k, pending \cup active)
      BY <1>2, <3>2 DEF Fresh
    <3> QED
      BY <1>1, <1>5, <2>2, <3>1, <3>3, <3>4 DEF FileRight, WrittenRight, Renewing
  <2> QED
    BY <2>1, <2>2
<1>7. Shape'
  BY WorkerShape DEF ServedInv, Worker
<1> QED
  BY <1>1, <1>6, <1>7, DoneServed, SameListeners

-----------------------------------------------------------------------------
LEMMA ServedInit == Init => ServedInv
<1> SUFFICES ASSUME Init PROVE ServedInv
  OBVIOUS
<1>1. Shape
  BY ShapeInit
<1>2. \A k \in Keys : FileRight(k)
  BY DEF Init, FileRight, Empty, ValidServers, Usable
<1> QED
  BY <1>1, <1>2 DEF Init, ServedInv

LEMMA ServedNext == ServedInv /\ [Next]_vars => ServedInv'
<1> SUFFICES ASSUME ServedInv, [Next]_vars PROVE ServedInv'
  OBVIOUS
<1>1. CASE Users(Specs, GlobalConfigs)
  BY <1>1, UserServed
<1>2. CASE Worker
  BY <1>2, GetServed, ReadServed, ServerWritten, ServerDeleted, ListenersWritten,
     EndpointsWritten DEF Worker
<1>3. CASE UNCHANGED vars
  <2>1. Shape'
    BY ShapeNext DEF ServedInv
  <2>2. \A k \in Keys : Stable(k)
    BY <1>3 DEF Stable, SameSpec, HasAddresses, ServiceOf, createTransportServer, vars, listersVars
  <2> QED
    BY <1>3, <2>1, <2>2, StableServed DEF vars, listersVars, queueVars, configuratorVars
<1> QED
  BY <1>1, <1>2, <1>3 DEF Next

-----------------------------------------------------------------------------
(* TLS Passthrough hosts and reloads.  They do not depend on the addresses, so they *)
(* are right wherever the events of services fall.                                  *)

ListenersShape ==
  PassthroughName \in DOMAIN listeners /\ listeners[PassthroughName].protocol = PassthroughProtocol

\* The file of k is the one of its specification, with some addresses, and its host is
\* claimed, as far as no task of k waits or is active.
FileKept(k) ==
  TSTask(k) \notin pending \cup active =>
    /\ k \notin ValidServers => k \notin DOMAIN streams
    /\ k \in Usable =>
         /\ k \in DOMAIN streams
         /\ streams[k] = generateTransportServerConfig([ts |-> transportServers[k],
                                                        endpoints |-> streams[k].endpoints], listeners)
    /\ k \in ValidServers /\ transportServers[k].host # 0 =>
         k \in DOMAIN tlsPassthroughPairs /\ tlsPassthroughPairs[k] = transportServers[k].host

\* The sync has read the present specification of k, as far as no task of k waits.
SpecRead(k) ==
  k \in DOMAIN job.exes /\ TSTask(k) \notin pending =>
    k \in ValidServers /\ job.exes[k].ts = transportServers[k]

EndpointsKind(s) ==
  active = {EndpointsTask(s)} =>
    /\ job.op \in {"UpdateEndpoints", "Nothing"}
    /\ job.op = "Nothing" => DOMAIN job.exes = {}
    /\ \A k \in DOMAIN job.exes : TSTask(k) \notin pending => k \in Usable

HostsRight == passthroughHosts = generateTLSPassthroughHostsConfig(tlsPassthroughPairs)

SameFile(k) ==
  /\ k \in DOMAIN streams' <=> k \in DOMAIN streams
  /\ k \in DOMAIN streams => streams'[k] = streams[k]
SamePair(k) ==
  /\ k \in DOMAIN tlsPassthroughPairs' <=> k \in DOMAIN tlsPassthroughPairs
  /\ k \in DOMAIN tlsPassthroughPairs => tlsPassthroughPairs'[k] = tlsPassthroughPairs[k]

\* NGINX runs the files, or a task waits whose sync ends with a reload.
ReloadDue ==
  \/ Conflict(streams)
  \/ running = [streams |-> streams, hosts |-> passthroughHosts]
  \/ \E k \in Keys : TSTask(k) \in pending \cup active

KeptInv ==
  /\ Shape
  /\ ListenersShape
  /\ \A k \in Keys : FileKept(k)
  /\ wpc = "write" =>
       /\ \A k \in Keys : SpecRead(k) /\ ServerJob(k)
       /\ ConfigJob
       /\ \A s \in Services : EndpointsKind(s)
  /\ HostsRight
  /\ ReloadDue

-----------------------------------------------------------------------------
(* What the configurator writes *)

LEMMA SameHosts ==
  ASSUME NEW p, NEW q, DOMAIN p = DOMAIN q, \A k \in DOMAIN p : p[k] = q[k]
  PROVE  generateTLSPassthroughHostsConfig(p) = generateTLSPassthroughHostsConfig(q)
<1>1. Range(p) = Range(q)
  BY DEF Range
<1>2. \A h : {k \in DOMAIN p : p[k] = h} = {k \in DOMAIN q : q[k] = h}
  OBVIOUS
<1> QED
  BY <1>1, <1>2 DEF generateTLSPassthroughHostsConfig

LEMMA WrittenHosts ==
  ASSUME NEW E, NEW ls, HostsRight, addOrUpdateTransportServers(E, ls)
  PROVE  HostsRight'
<1> DEFINE withHost == {k \in DOMAIN E : E[k].ts.host # 0}
<1>1. CASE withHost = {}
  <2>1. passthroughHosts' = passthroughHosts
    BY <1>1 DEF addOrUpdateTransportServers
  <2>2. /\ DOMAIN tlsPassthroughPairs' = DOMAIN tlsPassthroughPairs
        /\ \A k \in DOMAIN tlsPassthroughPairs : tlsPassthroughPairs[k] = tlsPassthroughPairs'[k]
    BY <1>1 DEF addOrUpdateTransportServers
  <2> QED
    BY <2>1, <2>2, SameHosts DEF HostsRight
<1>2. CASE withHost # {}
  BY <1>2 DEF HostsRight, addOrUpdateTransportServers
<1> QED
  BY <1>1, <1>2

LEMMA DeletedHosts ==
  ASSUME NEW j, HostsRight, deleteTransportServer(j)
  PROVE  HostsRight'
<1>1. CASE j \in DOMAIN tlsPassthroughPairs
  BY <1>1 DEF HostsRight, deleteTransportServer
<1>2. CASE j \notin DOMAIN tlsPassthroughPairs
  <2>1. /\ passthroughHosts' = passthroughHosts
        /\ DOMAIN tlsPassthroughPairs' = DOMAIN tlsPassthroughPairs
        /\ \A k \in DOMAIN tlsPassthroughPairs : tlsPassthroughPairs[k] = tlsPassthroughPairs'[k]
    BY <1>2 DEF deleteTransportServer
  <2> QED
    BY <2>1, SameHosts DEF HostsRight
<1> QED
  BY <1>1, <1>2

\* A TransportServer that is written gets its file and its host; the others keep theirs.
LEMMA WrittenFile ==
  ASSUME NEW E, NEW ls, addOrUpdateTransportServers(E, ls), NEW k
  PROVE  /\ k \in DOMAIN E =>
              /\ k \in DOMAIN streams'
              /\ streams'[k] = generateTransportServerConfig(E[k], ls)
              /\ E[k].ts.host # 0 => /\ k \in DOMAIN tlsPassthroughPairs'
                                     /\ tlsPassthroughPairs'[k] = E[k].ts.host
              /\ E[k].ts.host = 0 => SamePair(k)
         /\ k \notin DOMAIN E => SameFile(k) /\ SamePair(k)
  BY DEF addOrUpdateTransportServers, SameFile, SamePair

LEMMA ConfigOfSpec ==
  ASSUME NEW ex, NEW ls
  PROVE  LET c == generateTransportServerConfig(ex, ls)
         IN c = generateTransportServerConfig([ts |-> ex.ts, endpoints |-> c.endpoints], ls)
  BY DEF generateTransportServerConfig

\* The file and the host of k as the end of a sync leaves them
WrittenKept(k) ==
  TSTask(k) \notin pending =>
    /\ k \notin ValidServers => k \notin DOMAIN streams'
    /\ k \in Usable' =>
         /\ k \in DOMAIN streams'
         /\ streams'[k] = generateTransportServerConfig([ts |-> transportServers[k],
                                                         endpoints |-> streams'[k].endpoints], listeners')
    /\ k \in ValidServers /\ transportServers[k].host # 0 =>
         k \in DOMAIN tlsPassthroughPairs' /\ tlsPassthroughPairs'[k] = transportServers[k].host

LEMMA WrittenIsKept ==
  ASSUME NEW E, addOrUpdateTransportServers(E, listeners'), NEW k \in DOMAIN E,
         TSTask(k) \notin pending => k \in ValidServers /\ E[k].ts = transportServers[k]
  PROVE  WrittenKept(k)
<1> SUFFICES ASSUME TSTask(k) \notin pending PROVE WrittenKept(k)
  BY DEF WrittenKept
<1>1. k \in ValidServers /\ E[k].ts = transportServers[k]
  OBVIOUS
<1>2. /\ k \in DOMAIN streams' /\ streams'[k] = generateTransportServerConfig(E[k], listeners')
      /\ E[k].ts.host # 0 => /\ k \in DOMAIN tlsPassthroughPairs'
                             /\ tlsPassthroughPairs'[k] = E[k].ts.host
  BY WrittenFile
<1>3. streams'[k] = generateTransportServerConfig([ts |-> E[k].ts, endpoints |-> streams'[k].endpoints],
                                                  listeners')
  BY <1>2, ConfigOfSpec
<1> QED
  BY <1>1, <1>2, <1>3 DEF WrittenKept

\* A TransportServer that the sync leaves alone
LEMMA UntouchedIsKept ==
  ASSUME NEW k, FileKept(k), TSTask(k) \notin active, UNCHANGED <<transportServers, listeners>>,
         SameFile(k), SamePair(k)
  PROVE  WrittenKept(k)
<1>1. k \in Usable' <=> k \in Usable
  BY DEF Usable, ValidServers
<1> QED
  BY <1>1 DEF WrittenKept, FileKept, SameFile, SamePair

LEMMA DoneKept ==
  ASSUME KeptInv, SyncDone, Shape', ListenersShape', \A k \in Keys : WrittenKept(k), HostsRight',
         \/ Conflict(streams')
         \/ running' = [streams |-> streams', hosts |-> passthroughHosts']
         \/ \E k \in Keys : TSTask(k) \in pending
  PROVE  KeptInv'
<1>1. /\ UNCHANGED <<transportServers, pending>>
      /\ active' = {} /\ wpc' = "get"
  BY DEF SyncDone, Queue!Finish, listersVars
<1>2. ASSUME NEW k \in Keys PROVE FileKept(k)'
  <2>1. k \in ValidServers' <=> k \in ValidServers
    BY <1>1 DEF ValidServers
  <2> QED
    BY <1>1, <2>1 DEF FileKept, WrittenKept
<1>3. ReloadDue'
  BY <1>1 DEF ReloadDue, Conflict
<1> QED
  BY <1>1, <1>2, <1>3 DEF KeptInv

\* A reload loads the files unless they conflict.
LEMMA Reloaded ==
  ASSUME NEW old, Reload(old)
  PROVE  Conflict(streams') \/ running' = [streams |-> streams', hosts |-> passthroughHosts']
  BY DEF Reload

-----------------------------------------------------------------------------
(* Changes by users, and what a sync reads *)

\* The specification of a TransportServer changes with its task enqueued.
LEMMA UserKept ==
  ASSUME KeptInv, Shape', pending \subseteq pending',
         UNCHANGED <<active, wpc, job, configuratorVars>>,
         UNCHANGED globalConfiguration \/ GCTask \in pending',
         \A k \in Keys : TSTask(k) \notin pending' => SameSpec(k)
  PROVE  KeptInv'
<1>1. UNCHANGED <<listeners, streams, tlsPassthroughPairs, passthroughHosts, running>>
  BY DEF configuratorVars
<1>2. ASSUME NEW k \in Keys, TSTask(k) \notin pending'
      PROVE  /\ TSTask(k) \notin pending
             /\ k \in ValidServers' <=> k \in ValidServers
             /\ k \in Usable' <=> k \in Usable
             /\ k \in ValidServers => transportServers'[k] = transportServers[k]
             /\ k \in Usable => k \in ValidServers
  BY <1>1, <1>2, SameServer DEF SameSpec, ValidServers, Usable
<1>3. ASSUME NEW k \in Keys PROVE FileKept(k)'
  <2> SUFFICES ASSUME TSTask(k) \notin pending', TSTask(k) \notin active PROVE FileKept(k)'
    BY DEF FileKept
  <2>1. FileKept(k)
    BY DEF KeptInv
  <2> QED
    BY <1>1, <1>2, <2>1 DEF FileKept, generateTransportServerConfig
<1>4. ASSUME NEW k \in Keys, wpc' = "write" PROVE SpecRead(k)' /\ ServerJob(k)'
  BY <1>2, <1>4 DEF KeptInv, SpecRead, ServerJob
<1>5. ASSUME wpc' = "write" PROVE ConfigJob'
  <2>1. ValidServers' \subseteq Keys
    BY DEF Shape, ValidServers
  <2> QED
    BY <1>2, <1>5, <2>1 DEF KeptInv, ConfigJob, ConfigValid
<1>6. ASSUME NEW s \in Services, wpc' = "write" PROVE EndpointsKind(s)'
  BY <1>2, <1>6 DEF KeptInv, EndpointsKind, Shape
<1>7. ListenersShape' /\ HostsRight' /\ ReloadDue'
  BY <1>1 DEF KeptInv, ListenersShape, HostsRight, ReloadDue
<1> QED
  BY <1>3, <1>4, <1>5, <1>6, <1>7 DEF KeptInv

LEMMA UsersKept ==
  ASSUME KeptInv, Users(Specs, GlobalConfigs)
  PROVE  KeptInv'
<1>1. Shape'
  BY UserShape DEF KeptInv
<1>2. /\ pending \subseteq pending'
      /\ UNCHANGED <<active, wpc, job, configuratorVars>>
      /\ UNCHANGED globalConfiguration \/ GCTask \in pending'
  BY DEF Users, RemoveTransportServer, ChangeTransportServer, ChangeGlobalConfiguration,
         ChangeService, ChangeEndpoints, RemoveEndpoints, Enqueue
<1>3. ASSUME NEW k \in Keys, TSTask(k) \notin pending' PROVE SameSpec(k)
  BY <1>3 DEF Users, RemoveTransportServer, ChangeTransportServer, ChangeGlobalConfiguration,
              ChangeService, ChangeEndpoints, RemoveEndpoints, Enqueue, SameSpec, Put
<1> QED
  BY <1>1, <1>2, <1>3, UserKept

LEMMA GetKept == KeptInv /\ GetTask => KeptInv'
<1> SUFFICES ASSUME KeptInv, GetTask PROVE KeptInv'
  OBVIOUS
<1>1. /\ pending' \cup active' = pending \cup active
      /\ wpc' = "read"
      /\ UNCHANGED <<transportServers, listeners, streams, tlsPassthroughPairs, passthroughHosts, running>>
  BY DEF GetTask, Queue!Start, KeptInv, Shape, listersVars, configuratorVars
<1>2. Shape'
  BY WorkerShape DEF KeptInv, Worker
<1>3. ASSUME NEW k \in Keys PROVE FileKept(k)'
  BY <1>1 DEF KeptInv, FileKept, ValidServers, Usable
<1>4. ListenersShape' /\ HostsRight' /\ ReloadDue'
  BY <1>1 DEF KeptInv, ListenersShape, HostsRight, ReloadDue
<1> QED
  BY <1>1, <1>2, <1>3, <1>4 DEF KeptInv

LEMMA ReadKept == KeptInv /\ Read => KeptInv'
<1> SUFFICES ASSUME KeptInv, Read PROVE KeptInv'
  OBVIOUS
<1>1. /\ UNCHANGED <<transportServers, globalConfiguration, pending, active, listeners, streams,
                     tlsPassthroughPairs, passthroughHosts, running>>
      /\ wpc = "read"
  BY DEF Read, listersVars, queueVars, configuratorVars
<1>2. Shape'
  BY WorkerShape DEF KeptInv, Worker
<1>3. /\ ListenersShape' /\ HostsRight' /\ ReloadDue'
      /\ \A k \in Keys : FileKept(k)'
  BY <1>1 DEF KeptInv, ListenersShape, HostsRight, ReloadDue, FileKept, ValidServers, Usable
<1>4. Usable' = Usable /\ ValidServers' = ValidServers /\ (ConfigValid' <=> ConfigValid)
  BY <1>1 DEF Usable, ValidServers, ConfigValid
<1>5. /\ Usable \subseteq ValidServers
      /\ \A s : ServersForService(s) \subseteq Usable
  BY DEF Usable, ServersForService
<1>6. \A k : createTransportServer(k).ts = transportServers[k]
  BY DEF createTransportServer
<1>7. PICK t \in Tasks : active = {t}
  BY <1>1 DEF KeptInv, Shape
<1>8. CASE t = GCTask
  <2>1. /\ \A k : active # {TSTask(k)} /\ active # {EndpointsTask(k)}
        /\ active = {GCTask}
    BY <1>7, <1>8, TaskKinds
  <2>2. job' = ReadGlobalConfiguration
    BY <2>1 DEF Read
  <2>3. /\ job'.op = IF ConfigValid THEN "Update" ELSE "Nothing"
        /\ ConfigValid => job'.config = globalConfiguration
        /\ job'.exes = IF ConfigValid THEN Exes(ValidServers) ELSE Empty
    BY <2>2 DEF ReadGlobalConfiguration, ConfigValid, Nothing
  <2>4. DOMAIN job'.exes = IF ConfigValid THEN ValidServers ELSE {}
    BY <2>3 DEF Exes, Empty
  <2>5. \A k \in DOMAIN job'.exes : job'.exes[k] = createTransportServer(k)
    BY <2>3, <2>4 DEF Exes
  <2>6. \A k \in Keys : SpecRead(k)' /\ ServerJob(k)'
    BY <1>1, <1>4, <1>6, <2>1, <2>4, <2>5 DEF SpecRead, ServerJob
  <2>7. ConfigJob'
    BY <1>1, <1>4, <2>3, <2>4 DEF ConfigJob
  <2> QED
    BY <1>1, <1>2, <1>3, <2>1, <2>6, <2>7 DEF KeptInv, EndpointsKind
<1>9. ASSUME NEW j \in Keys, t = TSTask(j) PROVE KeptInv'
  <2>1. /\ \A s : active # {EndpointsTask(s)}
        /\ active # {GCTask}
        /\ \A k : active = {TSTask(k)} <=> k = j
    BY <1>7, <1>9, TaskKinds
  <2>2. job' = ReadTransportServer(j)
    <3>1. (CHOOSE k \in Keys : active = {TSTask(k)}) = j
      BY <2>1
    <3> QED
      BY <2>1, <3>1 DEF Read
  <2>3. /\ job'.op = IF j \in Usable THEN "AddOrUpdate" ELSE "Delete"
        /\ job'.exes = IF j \in Usable THEN Exes({j}) ELSE Empty
    BY <2>2 DEF ReadTransportServer, Usable
  <2>4. DOMAIN job'.exes = IF j \in Usable THEN {j} ELSE {}
    BY <2>3 DEF Exes, Empty
  <2>5. \A k \in DOMAIN job'.exes : job'.exes[k] = createTransportServer(k)
    BY <2>3, <2>4 DEF Exes
  <2>6. \A k \in Keys : SpecRead(k)'
    BY <1>1, <1>4, <1>5, <1>6, <2>4, <2>5 DEF SpecRead
  <2>7. \A k \in Keys : ServerJob(k)'
    BY <1>1, <1>4, <2>1, <2>3, <2>4 DEF ServerJob
  <2> QED
    BY <1>1, <1>2, <1>3, <2>1, <2>6, <2>7 DEF KeptInv, ConfigJob, EndpointsKind
<1>10. ASSUME NEW r \in Services, t = EndpointsTask(r) PROVE KeptInv'
  <2>1. /\ \A k : active # {TSTask(k)}
        /\ active # {GCTask}
        /\ \A s : active = {EndpointsTask(s)} <=> s = r
    BY <1>7, <1>10, TaskKinds
  <2>2. job' = ReadEndpoints(r)
    <3>1. (CHOOSE s \in Services : active = {EndpointsTask(s)}) = r
      BY <2>1
    <3> QED
      BY <2>1, <3>1 DEF Read
  <2> DEFINE users == IF r \in DOMAIN endpoints \cap services THEN ServersForService(r) ELSE {}
  <2>3. /\ job'.op = IF users # {} THEN "UpdateEndpoints" ELSE "Nothing"
        /\ job'.exes = IF users # {} THEN Exes(users) ELSE Empty
    BY <2>2 DEF ReadEndpoints, Nothing
  <2>4. DOMAIN job'.exes = users
    BY <2>3 DEF Exes, Empty
  <2>5. \A k \in users : job'.exes[k] = createTransportServer(k)
    BY <2>3, <2>4 DEF Exes
  <2>6. users \subseteq Usable
    BY <1>5
  <2> HIDE DEF users
  <2>7. \A k \in Keys : SpecRead(k)' /\ ServerJob(k)'
    BY <1>1, <1>4, <1>5, <1>6, <2>1, <2>4, <2>5, <2>6 DEF SpecRead, ServerJob
  <2>8. \A s \in Services : EndpointsKind(s)'
    BY <1>1, <1>4, <2>1, <2>3, <2>4, <2>6 DEF EndpointsKind
  <2> QED
    BY <1>1, <1>2, <1>3, <2>1, <2>7, <2>8 DEF KeptInv, ConfigJob
<1> QED
  BY <1>7, <1>8, <1>9, <1>10, TaskIsOneOf

-----------------------------------------------------------------------------
(* What a sync writes *)

\* The built-in listener is always there, so a valid TransportServer with a host has one.
LEMMA ParsedShape ==
  ASSUME NEW gc
  PROVE  /\ PassthroughName \in DOMAIN ParseGlobalConfiguration(gc)
         /\ ParseGlobalConfiguration(gc)[PassthroughName].protocol = PassthroughProtocol
  BY DEF ParseGlobalConfiguration

LEMMA HostIsUsable ==
  ASSUME NEW ts, NEW ls, ValidateTransportServer(ts), ts.host # 0,
         PassthroughName \in DOMAIN ls, ls[PassthroughName].protocol = PassthroughProtocol
  PROVE  CheckIfListenerExists(ts, ls) /\ ts.listener = PassthroughName
  BY DEF ValidateTransportServer, isPassthrough, CheckIfListenerExists

LEMMA ServerKept == KeptInv /\ (AddOrUpdateTransportServer \/ DeleteTransportServer) => KeptInv'
<1> SUFFICES ASSUME KeptInv, AddOrUpdateTransportServer \/ DeleteTransportServer PROVE KeptInv'
  OBVIOUS
<1>1. /\ SyncDone /\ wpc = "write" /\ Reload(running)
      /\ UNCHANGED <<transportServers, listeners>>
  BY DEF AddOrUpdateTransportServer, DeleteTransportServer, SyncDone, listersVars
<1>2. Shape'
  BY WorkerShape DEF KeptInv, Worker
<1>3. ListenersShape'
  BY <1>1 DEF KeptInv, ListenersShape
<1>4. CASE AddOrUpdateTransportServer
  <2>1. addOrUpdateTransportServers(job.exes, listeners') /\ job.op = "AddOrUpdate"
    BY <1>4 DEF AddOrUpdateTransportServer
  <2>2. PICK t \in Tasks : active = {t}
    BY <1>1 DEF KeptInv, Shape
  <2>3. t # GCTask /\ \A s \in Services : t # EndpointsTask(s)
    BY <1>1, <2>1, <2>2 DEF KeptInv, ConfigJob, EndpointsKind
  <2>4. PICK j \in Keys : active = {TSTask(j)}
    BY <2>2, <2>3, TaskIsOneOf
  <2>5. DOMAIN job.exes = {j} /\ SpecRead(j)
    BY <1>1, <2>1, <2>4 DEF KeptInv, ServerJob
  <2>6. ASSUME NEW k \in Keys, k # j PROVE WrittenKept(k)
    <3>1. SameFile(k) /\ SamePair(k)
      BY <2>1, <2>5, <2>6, WrittenFile
    <3>2. FileKept(k) /\ TSTask(k) \notin active
      BY <2>4, <2>6, TaskKinds DEF KeptInv
    <3> QED
      BY <1>1, <3>1, <3>2, UntouchedIsKept
  <2>7. WrittenKept(j)
    BY <2>1, <2>5, WrittenIsKept DEF SpecRead
  <2>8. HostsRight'
    BY <2>1, WrittenHosts DEF KeptInv
  <2> QED
    BY <1>1, <1>2, <1>3, <2>6, <2>7, <2>8, DoneKept, Reloaded
<1>5. CASE DeleteTransportServer
  <2>1. PICK j \in Keys : active = {TSTask(j)} /\ deleteTransportServer(j)
    BY <1>5 DEF DeleteTransportServer
  <2>2. TSTask(j) \notin pending => j \notin Usable
    BY <1>1, <1>5, <2>1 DEF KeptInv, ServerJob, DeleteTransportServer
  <2>3. ASSUME NEW k \in Keys, k # j PROVE WrittenKept(k)
    <3>1. SameFile(k) /\ SamePair(k)
      BY <2>1, <2>3 DEF deleteTransportServer, SameFile, SamePair
    <3>2. FileKept(k) /\ TSTask(k) \notin active
      BY <2>1, <2>3, TaskKinds DEF KeptInv
    <3> QED
      BY <1>1, <3>1, <3>2, UntouchedIsKept
  <2>4. WrittenKept(j)
    <3>1. j \notin DOMAIN streams' /\ (j \in Usable' <=> j \in Usable)
      BY <1>1, <2>1 DEF deleteTransportServer, Usable, ValidServers
    <3>2. j \in ValidServers /\ transportServers[j].host # 0 => j \in Usable
      BY HostIsUsable DEF KeptInv, ListenersShape, Usable, ValidServers
    <3> QED
      BY <2>2, <3>1, <3>2 DEF WrittenKept
  <2>5. HostsRight'
    BY <2>1, DeletedHosts DEF KeptInv
  <2> QED
    BY <1>1, <1>2, <1>3, <2>3, <2>4, <2>5, DoneKept, Reloaded
<1> QED
  BY <1>4, <1>5

LEMMA ListenersKept == KeptInv /\ UpdateGlobalConfiguration => KeptInv'
<1> SUFFICES ASSUME KeptInv, UpdateGlobalConfiguration PROVE KeptInv'
  OBVIOUS
<1> DEFINE K == {k \in DOMAIN job.exes : CheckIfListenerExists(job.exes[k].ts, listeners')}
           E == [k \in K |-> job.exes[k]]
<1>1. /\ SyncDone /\ wpc = "write" /\ job.op = "Update" /\ Reload(running)
      /\ listeners' = ParseGlobalConfiguration(job.config)
      /\ addOrUpdateTransportServers(E, listeners')
      /\ UNCHANGED transportServers
  BY DEF UpdateGlobalConfiguration, SyncDone, listersVars
<1>2. active = {GCTask}
  <2>1. PICK t \in Tasks : active = {t}
    BY <1>1 DEF KeptInv, Shape
  <2>2. (\A k \in Keys : t # TSTask(k)) /\ \A s \in Services : t # EndpointsTask(s)
    BY <1>1, <2>1 DEF KeptInv, ServerJob, EndpointsKind
  <2> QED
    BY <2>1, <2>2, TaskIsOneOf
<1>3. \A k \in ValidServers : TSTask(k) \notin pending => k \in DOMAIN job.exes
  BY <1>1, <1>2 DEF KeptInv, ConfigJob
<1>4. Shape'
  BY WorkerShape DEF KeptInv, Worker
<1>5. ListenersShape'
  BY <1>1, ParsedShape DEF ListenersShape
<1>6. HostsRight'
  BY <1>1, WrittenHosts DEF KeptInv
<1>7. DOMAIN E = K /\ \A k \in K : E[k] = job.exes[k]
  OBVIOUS
<1>8. \A k : k \in K <=> k \in DOMAIN job.exes /\ CheckIfListenerExists(job.exes[k].ts, listeners')
  OBVIOUS
<1> HIDE DEF E, K
<1>9. ASSUME NEW k \in Keys PROVE WrittenKept(k)
  <2>1. SpecRead(k) /\ FileKept(k) /\ TSTask(k) \notin active
    BY <1>1, <1>2, TaskKinds DEF KeptInv
  <2>2. CASE k \in K
    BY <1>1, <1>7, <1>8, <2>1, <2>2, WrittenIsKept DEF SpecRead
  <2>3. CASE k \notin K
    <3> SUFFICES ASSUME TSTask(k) \notin pending PROVE WrittenKept(k)
      BY DEF WrittenKept
    <3>1. k \notin Usable'
      BY <1>1, <1>3, <1>8, <2>1, <2>3 DEF SpecRead, Usable, ValidServers
    <3>2. k \in ValidServers' <=> k \in ValidServers
      BY <1>1 DEF ValidServers
    <3>3. k \in ValidServers /\ transportServers[k].host # 0 => FALSE
      BY <1>1, <1>5, <3>1, <3>2, HostIsUsable DEF ListenersShape, Usable, ValidServers
    <3>4. SameFile(k) 
      BY <1>1, <1>7, <2>3, WrittenFile
    <3> QED
      BY <2>1, <3>1, <3>3, <3>4 DEF WrittenKept, FileKept, SameFile
  <2> QED
    BY <2>2, <2>3
<1> QED
  BY <1>1, <1>4, <1>5, <1>6, <1>9, DoneKept, Reloaded

\* NGINX Plus takes the new addresses without a reload.  Unless a TransportServer has
\* changed since, they are all that differs between its file and what NGINX runs.
LEMMA AddressesOnly ==
  ASSUME KeptInv, wpc = "write", \A k \in Keys : TSTask(k) \notin pending,
         NEW s \in Services, active = {EndpointsTask(s)},
         addOrUpdateTransportServers(job.exes, listeners), NEW k \in DOMAIN job.exes
  PROVE  /\ k \in DOMAIN streams
         /\ streams'[k] = [streams[k] EXCEPT !.endpoints = job.exes[k].endpoints]
         /\ SamePair(k)
<1>1. k \in Keys /\ TSTask(k) \notin pending \cup active
  BY TaskKinds DEF KeptInv, Shape
<1>2. FileKept(k) /\ SpecRead(k) /\ k \in Usable
  BY <1>1 DEF KeptInv, EndpointsKind
<1>3. job.exes[k].ts = transportServers[k] /\ k \in ValidServers
  BY <1>1, <1>2 DEF SpecRead
<1>4. /\ k \in DOMAIN streams
      /\ streams[k] = generateTransportServerConfig([ts |-> transportServers[k],
                                                     endpoints |-> streams[k].endpoints], listeners)
      /\ transportServers[k].host # 0 =>
           k \in DOMAIN tlsPassthroughPairs /\ tlsPassthroughPairs[k] = transportServers[k].host
  BY <1>1, <1>2, <1>3 DEF FileKept
<1>5. streams'[k] = generateTransportServerConfig(job.exes[k], listeners)
  BY WrittenFile
<1>6. SamePair(k)
  <2>1. /\ job.exes[k].ts.host # 0 => /\ k \in DOMAIN tlsPassthroughPairs'
                                      /\ tlsPassthroughPairs'[k] = job.exes[k].ts.host
        /\ job.exes[k].ts.host = 0 => SamePair(k)
    BY WrittenFile
  <2>2. job.exes[k].ts.host = transportServers[k].host
    BY <1>3
  <2> QED
    BY <1>4, <2>1, <2>2 DEF SamePair
<1>7. ASSUME NEW ex, NEW ex2, NEW ls, ex.ts = ex2.ts
      PROVE  generateTransportServerConfig(ex, ls)
               = [generateTransportServerConfig(ex2, ls) EXCEPT !.endpoints = ex.endpoints]
  BY <1>7 DEF generateTransportServerConfig
<1> QED
  BY <1>3, <1>4, <1>5, <1>6, <1>7

LEMMA EndpointsReloaded ==
  ASSUME KeptInv, UpdateEndpointsForTransportServers, HostsRight',
         NEW s \in Services, active = {EndpointsTask(s)}
  PROVE  \/ Conflict(streams')
         \/ running' = [streams |-> streams', hosts |-> passthroughHosts']
         \/ \E k \in Keys : TSTask(k) \in pending
<1> DEFINE known == DOMAIN job.exes \cap DOMAIN running.streams
           updated == [running EXCEPT !.streams =
                         [k \in DOMAIN @ |-> IF k \in known
                                             THEN [@[k] EXCEPT !.endpoints = job.exes[k].endpoints]
                                             ELSE @[k]]]
<1>1. /\ wpc = "write" /\ addOrUpdateTransportServers(job.exes, listeners)
      /\ IF ~isPlus THEN Reload(running)
         ELSE IF known = DOMAIN job.exes THEN running' = updated ELSE Reload(updated)
  BY DEF UpdateEndpointsForTransportServers, SyncDone
<1> SUFFICES ASSUME \A k \in Keys : TSTask(k) \notin pending, known = DOMAIN job.exes, running' = updated
             PROVE  Conflict(streams') \/ running' = [streams |-> streams', hosts |-> passthroughHosts']
  <2> HIDE DEF known, updated
  <2> QED
    BY <1>1, Reloaded
<1>2. ASSUME NEW k \in DOMAIN job.exes
      PROVE  /\ k \in DOMAIN streams
             /\ streams'[k] = [streams[k] EXCEPT !.endpoints = job.exes[k].endpoints]
             /\ SamePair(k)
  BY <1>1, AddressesOnly
<1>3. \A k : k \notin DOMAIN job.exes => SameFile(k) /\ SamePair(k)
  BY <1>1, WrittenFile
<1>4. streams' = [k \in DOMAIN streams |->
                    IF k \in DOMAIN job.exes
                    THEN [streams[k] EXCEPT !.endpoints = job.exes[k].endpoints] ELSE streams[k]]
  <2>1. DOMAIN streams' = DOMAIN streams
    BY <1>1, <1>2 DEF addOrUpdateTransportServers
  <2>2. streams' = [k \in DOMAIN streams' |-> streams'[k]]
    BY <1>1 DEF addOrUpdateTransportServers
  <2> QED
    BY <1>2, <1>3, <2>1, <2>2 DEF SameFile
<1>5. passthroughHosts' = passthroughHosts
  <2>1. \A k : SamePair(k)
    BY <1>2, <1>3
  <2>2. DOMAIN tlsPassthroughPairs' = DOMAIN tlsPassthroughPairs
    BY <2>1, <1>1 DEF SamePair, addOrUpdateTransportServers
  <2> QED
    BY <2>1, <2>2, SameHosts DEF SamePair, KeptInv, HostsRight
<1>6. CASE Conflict(streams)
  <2>1. PICK j, k \in DOMAIN streams :
          /\ j # k
          /\ ~streams[j].passthrough /\ ~streams[k].passthrough
          /\ streams[j].port = streams[k].port /\ streams[j].protocol = streams[k].protocol
    BY <1>6 DEF Conflict
  <2>2. ASSUME NEW i \in DOMAIN streams
        PROVE  /\ i \in DOMAIN streams'
               /\ streams'[i].passthrough = streams[i].passthrough
               /\ streams'[i].port = streams[i].port
               /\ streams'[i].protocol = streams[i].protocol
    BY <1>4
  <2> QED
    BY <2>1, <2>2 DEF Conflict
<1>7. CASE ~Conflict(streams)
  <2>1. running = [streams |-> streams, hosts |-> passthroughHosts]
    BY <1>7, TaskKinds DEF KeptInv, ReloadDue
  <2>2. updated = [streams |-> [k \in DOMAIN streams |->
                                  IF k \in DOMAIN job.exes
                                  THEN [streams[k] EXCEPT !.endpoints = job.exes[k].endpoints]
                                  ELSE streams[k]],
                   hosts |-> passthroughHosts]
    BY <2>1
  <2> HIDE DEF updated
  <2> QED
    BY <1>4, <1>5, <2>2
<1> QED
  BY <1>6, <1>7

LEMMA EndpointsKept == KeptInv /\ UpdateEndpointsForTransportServers => KeptInv'
<1> SUFFICES ASSUME KeptInv, UpdateEndpointsForTransportServers PROVE KeptInv'
  OBVIOUS
<1>1. /\ SyncDone /\ wpc = "write" /\ job.op = "UpdateEndpoints"
      /\ addOrUpdateTransportServers(job.exes, listeners)
      /\ UNCHANGED <<transportServers, listeners>>
  BY DEF UpdateEndpointsForTransportServers, SyncDone, listersVars
<1>2. PICK s \in Services : active = {EndpointsTask(s)}
  <2>1. PICK t \in Tasks : active = {t}
    BY <1>1 DEF KeptInv, Shape
  <2>2. t # GCTask /\ \A k \in Keys : t # TSTask(k)
    BY <1>1, <2>1 DEF KeptInv, ServerJob, ConfigJob
  <2> QED
    BY <2>1, <2>2, TaskIsOneOf
<1>3. Shape'
  BY WorkerShape DEF KeptInv, Worker
<1>4. ListenersShape' /\ HostsRight'
  BY <1>1, WrittenHosts DEF KeptInv, ListenersShape
<1>5. ASSUME NEW k \in Keys PROVE WrittenKept(k)
  <2>1. FileKept(k) /\ SpecRead(k) /\ TSTask(k) \notin active
    BY <1>1, <1>2, TaskKinds DEF KeptInv
  <2>2. CASE k \in DOMAIN job.exes
    BY <1>1, <2>1, <2>2, WrittenIsKept DEF SpecRead
  <2>3. CASE k \notin DOMAIN job.exes
    BY <1>1, <2>1, <2>3, UntouchedIsKept, WrittenFile
  <2> QED
    BY <2>2, <2>3
<1> QED
  BY <1>1, <1>2, <1>3, <1>4, <1>5, DoneKept, EndpointsReloaded

LEMMA NothingKept == KeptInv /\ NothingToDo => KeptInv'
<1> SUFFICES ASSUME KeptInv, NothingToDo PROVE KeptInv'
  OBVIOUS
<1>1. /\ SyncDone /\ wpc = "write" /\ job.op = "Nothing"
      /\ UNCHANGED <<transportServers, listeners, streams, tlsPassthroughPairs, passthroughHosts, running>>
  BY DEF NothingToDo, SyncDone, listersVars, configuratorVars
<1>2. \A k \in Keys : active # {TSTask(k)}
  BY <1>1 DEF KeptInv, ServerJob
<1>3. \A k \in Keys : TSTask(k) \notin active
  BY <1>1, <1>2 DEF KeptInv, Shape
<1>4. Shape'
  BY WorkerShape DEF KeptInv, Worker
<1>5. ListenersShape' /\ HostsRight'
  BY <1>1 DEF KeptInv, ListenersShape, HostsRight
<1>6. \A k \in Keys : WrittenKept(k)
  BY <1>1, <1>3, UntouchedIsKept DEF KeptInv, SameFile, SamePair
<1>7. \/ Conflict(streams')
      \/ running' = [streams |-> streams', hosts |-> passthroughHosts']
      \/ \E k \in Keys : TSTask(k) \in pending
  BY <1>1, <1>3 DEF KeptInv, ReloadDue
<1> QED
  BY <1>1, <1>4, <1>5, <1>6, <1>7, DoneKept

LEMMA KeptNext == KeptInv /\ [Next]_vars => KeptInv'
<1> SUFFICES ASSUME KeptInv, [Next]_vars PROVE KeptInv'
  OBVIOUS
<1>1. CASE UNCHANGED vars
  <2>1. Shape'
    BY ShapeNext DEF KeptInv
  <2> QED
    BY <1>1, <2>1, UserKept DEF vars, listersVars, queueVars, SameSpec
<1> QED
  BY <1>1, UsersKept, GetKept, ReadKept, ServerKept, ListenersKept, EndpointsKept, NothingKept
  DEF Next, Worker

LEMMA KeptInit == Init => KeptInv
<1> SUFFICES ASSUME Init PROVE KeptInv
  OBVIOUS
<1>1. Shape
  BY ShapeInit
<1>2. \A k \in Keys : FileKept(k)
  BY DEF Init, FileKept, Empty, ValidServers, Usable
<1>3. ListenersShape
  BY ParsedShape DEF Init, ListenersShape
<1>4. HostsRight
  <2>1. Range(tlsPassthroughPairs) = {}
    BY DEF Init, Empty, Range
  <2> QED
    BY <2>1 DEF Init, Empty, HostsRight, generateTLSPassthroughHostsConfig
<1>5. ReloadDue
  BY DEF Init, ReloadDue
<1> QED
  BY <1>1, <1>2, <1>3, <1>4, <1>5 DEF Init, KeptInv

\* A reload that failed because two TransportServers share a listener is made up for:
\* when no task is left and the files are free of conflicts, NGINX runs them.
THEOREM ConflictsRepaired == Spec => []ConflictsGetRepaired
<1>1. KeptInv => ConflictsGetRepaired
  <2> SUFFICES ASSUME KeptInv, Idle PROVE ConflictsGetRepaired
    BY DEF ConflictsGetRepaired
  <2>1. pending \cup active = {}
    BY DEF KeptInv, Shape, Idle
  <2> QED
    BY <2>1 DEF KeptInv, ReloadDue, ConflictsGetRepaired
<1> QED
  BY <1>1, KeptInit, KeptNext, PTL DEF Spec

-----------------------------------------------------------------------------
(* Of the TransportServers that claim a host one gets it. *)

LEMMA Least ==
  ASSUME NEW B, B \subseteq Nat, B # {}
  PROVE  \E m \in B : \A n \in B : m <= n
<1>1. PICK m \in B : \A n \in B : ~(<<n, m>> \in OpToRel(<, Nat))
  BY NatLessThanWellFounded, WFMin
<1>2. \A n \in B : ~(n < m)
  BY <1>1 DEF OpToRel
<1> QED
  BY <1>2

\* A finite set of numbers has a greatest element: a smallest set without one would
\* not have one after an element is removed either.
LEMMA HasGreatest ==
  ASSUME NEW S, S \subseteq Nat, S # {}, IsFiniteSet(S)
  PROVE  \E m \in S : \A n \in S : m >= n
<1> DEFINE Bad(T) == T # {} /\ ~\E m \in T : \A n \in T : m >= n
           B == {Cardinality(T) : T \in {U \in SUBSET S : Bad(U)}}
<1> SUFFICES ASSUME Bad(S) PROVE FALSE
  OBVIOUS
<1>1. \A T \in SUBSET S : IsFiniteSet(T) /\ Cardinality(T) \in Nat
  BY FS_Subset, FS_CardinalityType
<1>2. B \subseteq Nat /\ B # {}
  BY <1>1
<1>3. PICK c \in B : \A d \in B : c <= d
  <2> HIDE DEF B
  <2> QED
    BY <1>2, Least
<1>4. PICK T \in SUBSET S : Bad(T) /\ c = Cardinality(T)
  OBVIOUS
<1>5. PICK x \in T : TRUE
  BY <1>4
<1> DEFINE U == T \ {x}
<1>6. Cardinality(U) = Cardinality(T) - 1 /\ U \in SUBSET S
  BY <1>1, <1>5, FS_RemoveElement
<1>7. ~Bad(U)
  <2>1. ASSUME Bad(U) PROVE Cardinality(U) \in B
    BY <1>6, <2>1
  <2> HIDE DEF Bad, B, U
  <2> QED
    BY <1>1, <1>3, <1>4, <1>6, <2>1
<1>8. CASE U = {}
  BY <1>4, <1>5, <1>8
<1>9. CASE U # {}
  <2>1. PICK m \in U : \A n \in U : m >= n
    BY <1>7, <1>9
  <2>2. m \in Nat /\ x \in Nat /\ \A n \in T : n \in U \/ n = x
    BY <1>5, <1>6
  <2>3. \A n \in U : n \in Nat
    BY <1>6
  <2>4. CASE m >= x
    BY <1>4, <2>1, <2>2, <2>4
  <2>5. CASE ~(m >= x)
    BY <1>4, <1>5, <2>1, <2>2, <2>3, <2>5
  <2> QED
    BY <2>4, <2>5
<1> QED
  BY <1>8, <1>9

LEMMA MaxClaimant ==
  ASSUME NEW p, DOMAIN p \subseteq Keys, NEW h \in Range(p)
  PROVE  LET k == generateTLSPassthroughHostsConfig(p)[h]
         IN k \in DOMAIN p /\ p[k] = h
<1> DEFINE C == {k \in DOMAIN p : p[k] = h}
<1>1. C # {} /\ C \subseteq Keys
  BY DEF Range
<1>2. IsFiniteSet(C) /\ C \subseteq Nat
  BY <1>1, FS_Subset, KeysAssumption DEF Keys
<1>3. \E m \in C : \A n \in C : m >= n
  <2> HIDE DEF C
  <2> QED
    BY <1>1, <1>2, HasGreatest
<1>4. Max(C) \in C
  <2> HIDE DEF C
  <2> QED
    BY <1>3 DEF Max
<1>5. generateTLSPassthroughHostsConfig(p)[h] = Max(C)
  BY DEF generateTLSPassthroughHostsConfig
<1> QED
  BY <1>4, <1>5

\* When no task is left, the TLS Passthrough hosts file has the hosts of exactly the
\* TLS Passthrough TransportServers, and each leads to one that accepts connections
\* for it, but for the hosts of TransportServers that were changed to TCP or UDP.
THEOREM HostsServed == Spec => []PassthroughHostsServed
<1>1. KeptInv => PassthroughHostsServed
  <2> SUFFICES ASSUME KeptInv, Idle PROVE PassthroughHostsServed
    BY DEF PassthroughHostsServed
  <2>1. pending \cup active = {}
    BY DEF KeptInv, Shape, Idle
  <2>2. DOMAIN tlsPassthroughPairs \subseteq DOMAIN streams /\ DOMAIN streams \subseteq Keys
    BY DEF KeptInv, Shape
  <2>3. /\ DOMAIN passthroughHosts = Range(tlsPassthroughPairs)
        /\ \A h \in Range(tlsPassthroughPairs) :
             /\ passthroughHosts[h] \in DOMAIN tlsPassthroughPairs
             /\ tlsPassthroughPairs[passthroughHosts[h]] = h
    <3>1. passthroughHosts = generateTLSPassthroughHostsConfig(tlsPassthroughPairs)
      BY DEF KeptInv, HostsRight
    <3>2. DOMAIN passthroughHosts = Range(tlsPassthroughPairs)
      BY <3>1 DEF generateTLSPassthroughHostsConfig
    <3> QED
      BY <2>2, <3>1, <3>2, MaxClaimant
  <2>4. ASSUME NEW k \in ValidServers, transportServers[k].host # 0
        PROVE  /\ k \in Usable /\ k \in DOMAIN tlsPassthroughPairs
               /\ tlsPassthroughPairs[k] = transportServers[k].host
               /\ streams[k].passthrough
    <3>1. k \in Keys
      BY DEF KeptInv, Shape, ValidServers
    <3>2. k \in Usable /\ transportServers[k].listener = PassthroughName
      BY <2>4, HostIsUsable DEF KeptInv, ListenersShape, Usable, ValidServers
    <3>3. FileKept(k)
      BY <3>1 DEF KeptInv
    <3>4. /\ k \in DOMAIN tlsPassthroughPairs /\ tlsPassthroughPairs[k] = transportServers[k].host
          /\ streams[k] = generateTransportServerConfig([ts |-> transportServers[k],
                                                         endpoints |-> streams[k].endpoints], listeners)
      BY <2>1, <2>4, <3>2, <3>3 DEF FileKept
    <3> DEFINE ex == [ts |-> transportServers[k], endpoints |-> streams[k].endpoints]
    <3>5. generateTransportServerConfig(ex, listeners).passthrough = (ex.ts.listener = PassthroughName)
      BY Zenon DEF generateTransportServerConfig
    <3>6. ex.ts.listener = PassthroughName
      BY <3>2
    <3> HIDE DEF ex
    <3>7. generateTransportServerConfig(ex, listeners).passthrough
      BY <3>5, <3>6, Zenon
    <3> QED
      BY <3>2, <3>4, <3>7, Zenon DEF ex
  <2>5. ASSUME NEW k \in DOMAIN tlsPassthroughPairs
        PROVE  /\ k \in ValidServers
               /\ k \in FormerPassthrough \/ transportServers[k].host # 0
    <3>1. k \in Keys /\ FileKept(k) /\ k \in DOMAIN streams
      BY <2>2 DEF KeptInv
    <3>2. k \in ValidServers
      BY <2>1, <3>1 DEF FileKept
    <3> QED
      BY <3>2 DEF FormerPassthrough
  <2>6. Usable \subseteq ValidServers /\ FormerPassthrough \subseteq DOMAIN tlsPassthroughPairs
    BY DEF Usable, FormerPassthrough
  <2>7. Range(tlsPassthroughPairs) = ({transportServers[k].host : k \in Usable} \ {0})
                                       \cup {tlsPassthroughPairs[k] : k \in FormerPassthrough}
    <3>1. ASSUME NEW h \in Range(tlsPassthroughPairs)
          PROVE  h \in ({transportServers[k].host : k \in Usable} \ {0})
                         \cup {tlsPassthroughPairs[k] : k \in FormerPassthrough}
      <4>1. PICK k \in DOMAIN tlsPassthroughPairs : h = tlsPassthroughPairs[k]
        BY DEF Range
      <4> QED
        BY <2>4, <2>5, <4>1
    <3>2. ASSUME NEW k \in Usable, transportServers[k].host # 0
          PROVE  transportServers[k].host \in Range(tlsPassthroughPairs)
      BY <2>4, <2>6, <3>2 DEF Range
    <3>3. ASSUME NEW k \in FormerPassthrough
          PROVE  tlsPassthroughPairs[k] \in Range(tlsPassthroughPairs)
      BY <2>6 DEF Range
    <3> QED
      BY <3>1, <3>2, <3>3
  <2>8. ASSUME NEW h \in DOMAIN passthroughHosts
        PROVE  LET k == passthroughHosts[h]
               IN \/ k \in FormerPassthrough
                  \/ k \in Usable /\ transportServers[k].host = h /\ streams[k].passthrough
    BY <2>3, <2>4, <2>5
  <2> QED
    BY <2>3, <2>7, <2>8 DEF PassthroughHostsServed
<1> QED
  BY <1>1, KeptInit, KeptNext, PTL DEF Spec

-----------------------------------------------------------------------------
\* Once no task is left, every TransportServer is served as the listers have it, for
\* any number of TransportServers, services, listeners and changes, in any order and
\* also between what a sync reads and what it writes; only the addresses of a server
\* may be old whose service changed while its listener was about to be added.
THEOREM ServersGetServed == Spec => []ServersAreServed
<1>1. ServedInv /\ KeptInv => ServersAreServed
  <2> SUFFICES ASSUME ServedInv, KeptInv, Idle PROVE ServersAreServed
    BY DEF ServersAreServed
  <2>1. pending \cup active = {} /\ ~Renewing
    BY DEF ServedInv, Shape, Idle, Renewing
  <2>2. DOMAIN streams \subseteq Keys /\ Usable \subseteq Keys
    BY DEF ServedInv, Shape, Usable, ValidServers
  <2>3. ASSUME NEW k \in Keys
        PROVE  /\ k \notin ValidServers => k \notin DOMAIN streams
               /\ k \in Usable =>
                    /\ k \in DOMAIN streams
                    /\ streams[k] = generateTransportServerConfig([ts |-> transportServers[k],
                                     endpoints |-> streams[k].endpoints], listeners)
               /\ k \in Usable \ unannounced =>
                    streams[k] = generateTransportServerConfig(createTransportServer(k), listeners)
    BY <2>1 DEF ServedInv, FileRight, Fresh, KeptInv, FileKept
  <2>4. \A k : [createTransportServer(k) EXCEPT !.endpoints = streams[k].endpoints]
               = [ts |-> transportServers[k], endpoints |-> streams[k].endpoints]
    BY DEF createTransportServer
  <2>5. ASSUME NEW k \in Usable
        PROVE  LET ex == createTransportServer(k)
                   late == [ex EXCEPT !.endpoints = streams[k].endpoints]
               IN \/ streams[k] = generateTransportServerConfig(ex, listeners)
                  \/ k \in unannounced /\ streams[k] = generateTransportServerConfig(late, listeners)
    BY <2>2, <2>3, <2>4
  <2>6. ConfigValid => listeners = ParseGlobalConfiguration(globalConfiguration)
    BY <2>1 DEF ServedInv
  <2>7. Usable \subseteq DOMAIN streams /\ DOMAIN streams \subseteq ValidServers
    BY <2>2, <2>3
  <2> QED
    BY <2>5, <2>6, <2>7, Zenon DEF ServersAreServed, ConfigValid
<1> QED
  BY <1>1, ServedInit, ServedNext, KeptInit, KeptNext, PTL DEF Spec
=============================================================================
