----------------------------- MODULE Controller ------------------------------
(***************************************************************************)
(* LoadBalancerController (internal/k8s/controller.go) over Configuration: *)
(* the informers put the key of a changed object into the task queue; the  *)
(* worker takes one task at a time, reads the object from the lister, runs *)
(* the operation of Configuration, writes or removes the configuration     *)
(* files of the resources in the changes and reports statuses.             *)
(*                                                                         *)
(* cluster is the content of the listers.  Users change it at any time; an *)
(* informer stores the change and enqueues the task in one step.           *)
(***************************************************************************)
EXTENDS Configuration

CONSTANTS
  Specs,             \* key with kind -> the specifications users give the object
                     \* (objects of Configuration with uid, created, generation 0)
  FileName,          \* key of an Ingress -> objectMetaToFileName
  Uids,              \* bound on the UIDs the API server hands out
  MaxClock,          \* bound on creation timestamps
  MaxEdits,          \* bound on changes by users
  ReloadResults,     \* the outcomes of nginxManager.Reload: a subset of BOOLEAN
  GeneratorWarnings  \* the sets of objects that generating a file may warn about

\* the fields of an object of a kind, and the types of those that are compared
Fields(kind) ==
  {"key", "uid", "created", "generation", "class", "valid"} \cup
  CASE kind = "Ingress" -> {"annotations", "type", "rules", "paths"}
    [] kind = "VirtualServer" -> {"host", "routes"}
    [] OTHER -> {"host", "prefixes"}
IsObject(k, o) ==
  /\ o = [f \in Fields(k[1]) |-> o[f]]
  /\ o.key = k[2]
  /\ o.uid \in Int /\ o.created \in Int /\ o.generation \in Int
  /\ k[1] = "Ingress" => o.rules \in Seq(Int) /\ o.paths \in Seq(Int)
  /\ k[1] = "VirtualServer" => o.host \in Int /\ o.routes \in Seq([path : Int, route : Int])

\* an object is one of the three kinds and is stored under its own name, and the
\* API server sets its UID, its creation timestamp and its generation
ASSUME SpecsAssumption ==
  \A k \in DOMAIN Specs :
    /\ k \in {"Ingress", "VirtualServer", "VirtualServerRoute"} \X Int
    /\ \A s \in Specs[k] : IsObject(k, s) /\ s.uid = 0 /\ s.created = 0 /\ s.generation = 0
ASSUME UidsAssumption == Uids \subseteq Int

VARIABLES
  \* the API server and the listers
  cluster,           \* key with kind -> object
  status,            \* key with kind -> status in the API server
  seen,              \* key with kind -> status in the lister
  uids,              \* the UIDs handed out so far
  clock,
  edits,
  \* the task queue and its worker
  queue, dirty, processing, shuttingDown,
  wpc,               \* "get", "sync" or "apply"
  \* Configurator
  files,             \* configuration file -> its content
  minions,           \* Configurator.minions: file of a master -> minion files
  applied,           \* did NGINX reload after the last change of the resource?
  warned,            \* the objects that generating its file warned about
  \* history
  skipped,           \* keys whose last status was not written: the lister showed
                     \* it already, but the API server had another one
  recreated          \* keys whose object is not the one deleted before, which the
                     \* worker had not yet noticed; until it reports on the new one

api == <<cluster, status, seen, uids, clock, edits>>
configurator == <<files, minions, applied, warned>>
history == <<skipped, recreated>>
tasks == <<queue, dirty, processing, shuttingDown>>

Queue == INSTANCE WorkQueue

vars == <<api, tasks, wpc, conf, configurator, history>>

Keys == DOMAIN Specs

\* the specification of an object, without the metadata the API server sets
SpecOf(o) == [o EXCEPT !.uid = 0, !.created = 0, !.generation = 0]
\* the part of a specification that metadata.generation counts the changes of
Counted(k, s) ==
  IF k[1] = "Ingress" THEN [s EXCEPT !.annotations = "", !.type = ""] ELSE s

-----------------------------------------------------------------------------
\* Users, the API server and the informers

NoStatus == <<"", "", {}>>

Changed(k) == edits < MaxEdits /\ edits' = edits + 1 /\ Queue!Add(k)

CreateObject(k, s, uid, t) ==
  /\ k \notin DOMAIN cluster
  /\ uid \notin uids
  /\ t \in {clock, clock + 1}
  /\ t <= MaxClock
  /\ Changed(k)
  /\ cluster' = Put(cluster, k, [s EXCEPT !.uid = uid, !.created = t, !.generation = 1])
  /\ status' = Put(status, k, NoStatus)
  /\ seen' = Put(seen, k, NoStatus)
  /\ uids' = uids \cup {uid}
  /\ clock' = t
  /\ skipped' = skipped \ {k}
  /\ recreated' = IF k \in dirty \cup processing THEN recreated \cup {k} ELSE recreated \ {k}
  /\ UNCHANGED <<wpc, conf, configurator>>

UpdateObject(k, s) ==
  /\ k \in DOMAIN cluster
  /\ SpecOf(cluster[k]) # s
  /\ Changed(k)
  /\ LET o == cluster[k]
         gen == IF Counted(k, SpecOf(o)) = Counted(k, s) THEN o.generation ELSE o.generation + 1
     IN cluster' = [cluster EXCEPT ![k] =
          [s EXCEPT !.uid = o.uid, !.created = o.created, !.generation = gen]]
  /\ seen' = [seen EXCEPT ![k] = status[k]]
  /\ UNCHANGED <<status, uids, clock, wpc, conf, configurator, history>>

DeleteObject(k) ==
  /\ k \in DOMAIN cluster
  /\ Changed(k)
  /\ cluster' = Drop(cluster, k)
  /\ status' = Drop(status, k)
  /\ seen' = Drop(seen, k)
  /\ UNCHANGED <<uids, clock, wpc, conf, configurator, history>>

\* the update event of a status change: stored, and not enqueued
StatusArrives(k) ==
  /\ k \in DOMAIN cluster
  /\ seen[k] # status[k]
  /\ seen' = [seen EXCEPT ![k] = status[k]]
  /\ UNCHANGED <<cluster, status, uids, clock, edits, tasks, wpc, conf, configurator, history>>

-----------------------------------------------------------------------------
\* The worker: taskQueue.worker, sync and the operations of Configuration

GetTask ==
  /\ wpc = "get"
  /\ \E k \in Keys : Queue!Get(k)
  /\ wpc' = "sync"
  /\ UNCHANGED <<api, conf, configurator, history>>

syncIngress(k) ==
  \/ k \in DOMAIN cluster /\ AddOrUpdateIngress(cluster[k])
  \/ k \notin DOMAIN cluster /\ DeleteIngress(k[2])

syncVirtualServer(k) ==
  \/ k \in DOMAIN cluster /\ AddOrUpdateVirtualServer(cluster[k])
  \/ k \notin DOMAIN cluster /\ DeleteVirtualServer(k[2])

syncVirtualServerRoute(k) ==
  \/ k \in DOMAIN cluster /\ AddOrUpdateVirtualServerRoute(cluster[k])
  \/ k \notin DOMAIN cluster /\ DeleteVirtualServerRoute(k[2])

SyncTask ==
  /\ wpc = "sync"
  /\ \E k \in processing :
       \/ k[1] = "Ingress" /\ syncIngress(k)
       \/ k[1] = "VirtualServer" /\ syncVirtualServer(k)
       \/ k[1] = "VirtualServerRoute" /\ syncVirtualServerRoute(k)
  /\ wpc' = "apply"
  /\ UNCHANGED <<api, tasks, configurator, history>>

Rebuild ==
  /\ (\E k \in building : BuildResource(k)) \/ FinishRebuild
  /\ UNCHANGED <<api, tasks, wpc, configurator, history>>

-----------------------------------------------------------------------------
\* Configurator: one file per resource, rewritten or removed, then a reload

FileOf(k) == IF k[1] = "Ingress" THEN <<"Ingress", FileName[k[2]]>> ELSE k

\* what the generated file is made from: the objects and the hosts and paths that
\* are marked valid; hosts are the server names in it
Render(r) ==
  [object |-> r.object,
   hosts |-> IF r.kind = "Ingress" THEN {h \in DOMAIN r.validHosts : r.validHosts[h]}
             ELSE {r.object.host},
   parts |-> IF r.kind = "Ingress"
             THEN {<<m.object, m.validPaths>> : m \in Range(r.minions)}
             ELSE {<<v, {}>> : v \in Range(r.routes)}]

AddOrUpdateConfig(r, k) ==
  /\ files' = Put(files, FileOf(k), Render(r))
  /\ minions' = IF r.kind = "Ingress" /\ r.isMaster
                THEN Put(minions, FileOf(k), {FileName[m.object.key] : m \in Range(r.minions)})
                ELSE minions

DeleteConfig(k) ==
  /\ files' = Drop(files, FileOf(k))
  /\ minions' = Drop(minions, FileOf(k))

-----------------------------------------------------------------------------
\* Statuses: <<state, reason, message>> for VirtualServers and
\* VirtualServerRoutes; an Ingress has the external address or nothing

Published == <<"Published", "", {}>>

\* A status is written to an object that is in the lister, and for a VirtualServer
\* or an Ingress only if it differs from the status the lister shows.
UpdateStatus(S) ==
  /\ status' = [k \in DOMAIN status |->
                  IF k \in DOMAIN S /\ (k[1] = "VirtualServerRoute" \/ seen[k] # S[k])
                  THEN S[k] ELSE status[k]]
  /\ skipped' = (skipped \ DOMAIN S) \cup {k \in DOMAIN S \cap DOMAIN status : status'[k] # S[k]}
  /\ recreated' = recreated \ {k \in DOMAIN S \cap DOMAIN status : k \notin dirty /\ status'[k] = S[k]}
  /\ UNCHANGED seen

Failure(ok) == IF ok THEN {} ELSE {<<"not applied", 0>>}
Warning(w, k) == IF k \in w THEN {<<"generator", 0>>} ELSE {}

\* Mutants of the next definition
Bug_RoutesAlwaysValid(r, k, ok, w) ==
  LET messages(x) == (IF x = k THEN r.warnings ELSE {}) \cup Warning(w, x)
      report(x) == IF x # k THEN <<"Valid", "AddedOrUpdated", {}>>
                   ELSE IF ~ok THEN <<"Invalid", "AddedOrUpdatedWithError", messages(x) \cup Failure(ok)>>
                   ELSE IF messages(x) # {} THEN <<"Warning", "AddedOrUpdatedWithWarning", messages(x)>>
                   ELSE <<"Valid", "AddedOrUpdated", {}>>
  IN UpdateStatus([x \in {k} \cup {<<"VirtualServerRoute", v.key>> : v \in Range(r.routes)} |->
                     report(x)])

\* w are the objects in the warnings of the generator
updateVirtualServerStatusAndEvents(r, k, ok, w) ==
  LET messages(x) == (IF x = k THEN r.warnings ELSE {}) \cup Warning(w, x)
      report(x) == IF ~ok THEN <<"Invalid", "AddedOrUpdatedWithError", messages(x) \cup Failure(ok)>>
                   ELSE IF messages(x) # {} THEN <<"Warning", "AddedOrUpdatedWithWarning", messages(x)>>
                   ELSE <<"Valid", "AddedOrUpdated", {}>>
  IN UpdateStatus([x \in {k} \cup {<<"VirtualServerRoute", v.key>> : v \in Range(r.routes)} |->
                     report(x)])

\* updateRegularIngressStatusAndEvents and updateMergeableIngressStatusAndEvents
updateIngressStatusAndEvents(r, k) ==
  UpdateStatus([x \in {k} \cup {<<"Ingress", m.object.key>> : m \in Range(r.minions)} |->
                  Published])

\* UpdateVirtualServerStatusAndEventsOnDelete and its counterpart for Ingresses
UpdateStatusAndEventsOnDelete(r, k, error, ok) ==
  LET state == IF error \/ ~ok THEN "Invalid" ELSE "Warning"
      reason == IF ok THEN "Rejected" ELSE "RejectedWithError"
      message == (IF error THEN {<<"invalid", 0>>} ELSE r.warnings) \cup Failure(ok)
  IN IF ~error /\ r.warnings = {} THEN UNCHANGED <<status, seen, history>>
     ELSE UpdateStatus([x \in {k} |-> IF r.kind = "Ingress" THEN NoStatus
                                      ELSE <<state, reason, message>>])

ApplyChange(ok, w) ==
  LET c == Head(changes)
      r == c.resource
  IN /\ wpc = "apply" /\ pc = "idle"
     /\ changes # <<>>
     /\ changes' = Tail(changes)
     /\ \/ /\ c.op = "AddOrUpdate"
           /\ AddOrUpdateConfig(r, c.key)
           /\ applied' = Put(applied, c.key, ok)
           /\ warned' = Put(warned, c.key, w)
           /\ IF r.kind = "Ingress" THEN updateIngressStatusAndEvents(r, c.key)
              ELSE updateVirtualServerStatusAndEvents(r, c.key, ok, w)
        \/ /\ c.op = "Delete"
           /\ DeleteConfig(c.key)
           /\ applied' = Drop(applied, c.key)
           /\ warned' = Drop(warned, c.key)
           /\ UpdateStatusAndEventsOnDelete(r, c.key, c.error, ok)
     /\ UNCHANGED <<cluster, uids, clock, edits, tasks, wpc, ingresses, virtualServers,
                    virtualServerRoutes, hosts, resources, problems, pc, building,
                    newHosts, newResources, rejected, reported>>

\* processProblems: the problems are of different objects, so any order will do
ProcessProblem(p) ==
  LET state == IF p[2].isError THEN "Invalid" ELSE "Warning"
      message == {<<"problem", p[2].message>>}
  IN /\ wpc = "apply" /\ pc = "idle"
     /\ changes = <<>>
     /\ reported' = reported \ {p}
     /\ UpdateStatus([x \in {p[1]} |-> IF x[1] = "Ingress" THEN NoStatus
                                       ELSE <<state, p[2].reason, message>>])
     /\ UNCHANGED <<cluster, uids, clock, edits, tasks, wpc, ingresses, virtualServers,
                    virtualServerRoutes, hosts, resources, problems, pc, building,
                    newHosts, newResources, rejected, changes, configurator>>

\* Mutants of the next definition
Bug_NoDone ==
  /\ wpc = "apply" /\ pc = "idle"
  /\ changes = <<>> /\ reported = {}
  /\ wpc' = "get"
  /\ UNCHANGED <<api, tasks, conf, configurator, history>>

TaskDone ==
  /\ wpc = "apply" /\ pc = "idle"
  /\ changes = <<>> /\ reported = {}
  /\ \E k \in processing : Queue!Done(k)
  /\ wpc' = "get"
  /\ UNCHANGED <<api, conf, configurator, history>>

-----------------------------------------------------------------------------
Init ==
  /\ cluster = Empty /\ status = Empty /\ seen = Empty
  /\ uids = {} /\ clock = 1 /\ edits = 0
  /\ Queue!QueueInit
  /\ wpc = "get"
  /\ NewConfiguration
  /\ files = Empty /\ minions = Empty /\ applied = Empty /\ warned = Empty
  /\ skipped = {} /\ recreated = {}

Users(specs, ids, ages) ==
  \E k \in DOMAIN specs :
    \/ \E s \in specs[k], uid \in ids, t \in ages : CreateObject(k, s, uid, t)
    \/ \E s \in specs[k] : UpdateObject(k, s)
    \/ DeleteObject(k)

Worker(reloads, warnings) ==
  \/ GetTask
  \/ SyncTask
  \/ Rebuild
  \/ \E ok \in reloads, w \in warnings : ApplyChange(ok, w)
  \/ \E p \in reported : ProcessProblem(p)
  \/ TaskDone

Informer == \E k \in Keys : StatusArrives(k)

Next == Users(Specs, Uids, 1..MaxClock) \/ Worker(ReloadResults, GeneratorWarnings) \/ Informer

\* the worker goroutine keeps running; nothing is assumed of the users
Spec == Init /\ [][Next]_vars /\ WF_vars(Worker(ReloadResults, GeneratorWarnings))

-----------------------------------------------------------------------------
\* Properties

Idle == wpc = "get" /\ queue = <<>>

Stored(k) ==
  CASE k[1] = "Ingress" -> k[2] \in DOMAIN ingresses
    [] k[1] = "VirtualServer" -> k[2] \in DOMAIN virtualServers
    [] OTHER -> k[2] \in DOMAIN virtualServerRoutes
StoredObject(k) ==
  CASE k[1] = "Ingress" -> ingresses[k[2]]
    [] k[1] = "VirtualServer" -> virtualServers[k[2]]
    [] OTHER -> virtualServerRoutes[k[2]]
IsValid(k, o) == IF k[1] = "Ingress" THEN validateIngress(o) ELSE o.valid
Wanted(k) == k \in DOMAIN cluster /\ cluster[k].class /\ IsValid(k, cluster[k])

\* Type invariant: statuses exist exactly for the objects of the cluster, the
\* worker processes at most one task, and the queue is consistent with it.
TypeOK ==
  /\ DOMAIN cluster \subseteq Keys
  /\ DOMAIN status = DOMAIN cluster /\ DOMAIN seen = DOMAIN cluster
  /\ wpc \in {"get", "sync", "apply"}
  /\ Range(queue) \subseteq Keys /\ dirty \subseteq Keys
  /\ Cardinality(processing) = IF wpc = "get" THEN 0 ELSE 1
  /\ DOMAIN minions \subseteq DOMAIN files
  /\ DOMAIN applied \subseteq Keys /\ DOMAIN warned = DOMAIN applied
  /\ skipped \subseteq Keys /\ recreated \subseteq Keys

\* No change of an object is lost between the informer, the queue and the worker:
\* an object that is neither waiting nor being read is stored in Configuration as
\* the lister has it, if it is valid and of the right class, and otherwise not
\* stored, whenever changes fall in relation to Get, GetByKey and Done.
NoLostUpdate ==
  \A k \in Keys :
    k \notin dirty /\ ~(wpc = "sync" /\ k \in processing) =>
      /\ Stored(k) <=> Wanted(k)
      /\ Stored(k) => StoredObject(k) = cluster[k]

\* no other Ingress has the file of k: the file of namespace a-b, name c is also
\* the file of namespace a, name b-c
OwnFile(k) == \A j \in Keys : FileOf(j) = FileOf(k) => j = k

\* a and b are objects of the same name, of which one was created when the other
\* had been deleted, and that are at the same generation
Reincarnated(a, b) == a.key = b.key /\ a.generation = b.generation /\ a.uid # b.uid

\* the file was made from another incarnation of the object, or of an object that
\* belongs to it, than the one the resource has
MadeFromFormer(file, r) ==
  \/ Reincarnated(file.object, r.object)
  \/ \E p \in file.parts, q \in Render(r).parts : Reincarnated(p[1], q[1])

\* When the worker has applied the changes of a task, the NGINX config on the
\* filesystem reflects Configuration: a file for every resource that holds a
\* host, with the content that follows from it, and no other file; the minions
\* that are counted for a master are the ones in its file (the comment on the
\* type Configuration; processChanges, GetIngressCounts).  There are two
\* exceptions: Ingresses whose names make the same file name, and a file made
\* from an object that was since deleted and created again with the same
\* generation, which IsEqual does not tell from the old one.
FilesReflectConfiguration ==
  wpc # "apply" =>
    /\ DOMAIN files \subseteq {FileOf(k) : k \in DOMAIN resources}
    /\ \A k \in DOMAIN resources :
         OwnFile(k) =>
           /\ FileOf(k) \in DOMAIN files
           /\ \/ files[FileOf(k)] = Render(resources[k])
              \/ MadeFromFormer(files[FileOf(k)], resources[k])
           /\ k[1] = "Ingress" /\ resources[k].isMaster =>
                minions[FileOf(k)] = {FileName[m.object.key] : m \in Range(resources[k].minions)}

\* No two configuration files have a server block for the same host, also between
\* the changes of one task (the comments in createResourceChanges and
\* squashResourceChanges).  It does not hold of the code: two updates of one task
\* that exchange a host collide in between (SwapScenario); no run checks it.
NoHostCollision ==
  \A f, g \in DOMAIN files : f # g => files[f].hosts \cap files[g].hosts = {}

ActiveMaster(i) ==
  {k \in DOMAIN resources : /\ k[1] = "Ingress"
                            /\ \E m \in Range(resources[k].minions) : m.object.key = i}
ActiveServers(i) ==
  {k \in DOMAIN resources : /\ k[1] = "VirtualServer"
                            /\ \E v \in Range(resources[k].routes) : v.key = i}

\* what NGINX has of object k, as a part of the resources K
StateIn(k, K) ==
  CASE \E j \in K : ~applied[j] -> "Invalid"
    [] (\A j \in K : applied[j]) /\ (K = {} \/ \E j \in K : k \in warned[j]) -> "Warning"
    [] OTHER -> "Valid"

ExpectedState(k) ==
  LET valid == IsValid(k, cluster[k])
  IN IF k[1] = "Ingress"
     THEN IF valid /\ (k \in DOMAIN resources \/ ActiveMaster(k[2]) # {}) THEN "Published" ELSE ""
     ELSE IF ~valid THEN "Invalid"
     ELSE IF k[1] = "VirtualServerRoute" THEN StateIn(k, ActiveServers(k[2]))
     ELSE IF k \in DOMAIN resources /\ applied[k] /\ resources[k].warnings # {} THEN "Warning"
     ELSE StateIn(k, {k} \cap DOMAIN resources)

\* When no task is left, the status of every object of the right class tells what
\* became of it: Invalid if it failed validation or NGINX did not reload, Warning
\* if it is not in use or in use with warnings, of Configuration or of the
\* generator, Valid otherwise; an Ingress shows the address exactly if it is in
\* use (processChanges, processProblems and the status functions they call).
\* There are two exceptions, until the next status is written: an object whose
\* last status was left out because the lister still showed the same status from
\* before, and an object created again before its deletion was synced.
StatusTruth ==
  Idle => \A k \in DOMAIN cluster \ (skipped \cup recreated) :
            cluster[k].class => status[k][1] = ExpectedState(k)

\* Once users stop changing objects, the worker runs out of tasks for good:
\* Configuration then has the objects of the cluster, as they are, and the files
\* are those of Configuration.
EventuallyInSync ==
  <>[](/\ Idle
       /\ \A k \in Keys : /\ Stored(k) <=> Wanted(k)
                          /\ Stored(k) => StoredObject(k) = cluster[k]
       /\ FilesReflectConfiguration)

=============================================================================
