------------------------------ MODULE Statuses ------------------------------
(***************************************************************************)
(* How the replicas of the Ingress Controller report the status of         *)
(* Ingresses, VirtualServers and VirtualServerRoutes: the source of the    *)
(* external address and the updates of internal/k8s/status.go, their calls *)
(* in controller.go, leader election (leader.go and the elector of         *)
(* client-go), and the statuses a new leader restores from events.         *)
(*                                                                         *)
(* Every replica syncs everything and records events; only the ones that   *)
(* take themselves for the leader write statuses.  A status is computed    *)
(* from the replica's cached copy of the object, which follows the API     *)
(* with a delay.  A conflict makes the update be repeated on a fresh copy, *)
(* so that a write always lands.                                           *)
(***************************************************************************)
EXTENDS Integers, Sequences, FiniteSets

CONSTANTS Replicas,
          Clusters,    \* sets of objects, one of each kind: "ing", "vs", "vsr"
          Addresses,   \* values of external-status-address
          ServiceAddresses, \* addresses of the external service
          Nil,
          MaxChanges,  \* changes of the cluster in a behaviour
          MaxFaults    \* crashes of replicas and renewals that fail

\* The objects are no tasks of their own kind.
ASSUME ClustersAssumption == \A c \in Clusters : c \subseteq {"ing", "vs", "vsr"}

States == {"ok", "problem"}
AddressValues == Addresses \cup ServiceAddresses \cup {"", Nil}
\* Nil, where there is nothing, is no replica and no status.
ASSUME NilAssumption == Nil \notin Replicas \cup [state : States, addr : AddressValues]

VARIABLES objects,     \* the objects of this cluster, which stay
          configMap,   \* external-status-address: Nil (no ConfigMap), "" or an address
          service,     \* the external service: Nil or its address
          outcome,     \* what the configuration makes of an object: "ok", "problem"
          api,         \* the statuses in the API: [state, addr]
          events,      \* the Events of an object in the order of their creation
          report,      \* -report-ingress-status
          lister,      \* per replica, the cached objects
          su,          \* per replica, the statusUpdater
          tasks,       \* per replica, what is enqueued
          applied,     \* per replica, the outcome the worker has processed
          recorded,    \* per replica, the outcomes its recorder has an Event for
          lease,       \* the holder of the lock
          elector,     \* per replica, "candidate", "leading" or "stopped"
          observed,    \* per replica, the holder it observed last
          callback,    \* per replica, what OnStartedLeading has still to do
          suspect,     \* objects last updated from something out of date
          changes, faults

cluster == <<objects, configMap, service, outcome, report>>
process == <<su, tasks, applied, recorded>>
election == <<lease, elector, observed>>
vars == <<cluster, api, events, lister, process, election, callback, suspect, changes, faults>>

-----------------------------------------------------------------------------
(* The status updater: the address that is reported *)

NewStatusUpdater == [external |-> "", serviceAddr |-> Nil, status |-> Nil]

\* SaveStatusFromExternalStatus, for the ConfigMap.  Without an address of
\* either source the status is one that holds the empty address.
SaveStatusFromExternalStatus(u, addr) ==
  [u EXCEPT !.external = addr,
            !.status = IF addr = "" /\ u.serviceAddr # Nil THEN u.serviceAddr ELSE addr]

\* Mutant: the service's address replaces the one of the ConfigMap.
Bug_ServiceWins(u, addr) == [u EXCEPT !.serviceAddr = addr, !.status = addr]

\* SaveStatusFromExternalService and ClearStatusFromExternalService
SaveStatusFromExternalService(u, addr) ==
  [u EXCEPT !.serviceAddr = addr,
            !.status = IF u.external # "" THEN @ ELSE addr]

\* reportStatusEnabled and reportVsVsrStatusEnabled
ReportsStatus(r) == observed[r] = r

-----------------------------------------------------------------------------
(* The updates, as functions of the cached copy: Nil if there is nothing   *)
(* to write.                                                               *)

\* updateIngressWithStatus
UpdateIngress(copy, addr) == IF copy.addr = addr THEN Nil ELSE [copy EXCEPT !.addr = addr]

\* Mutant: the address decides whether the status has changed.
Bug_AddressCompared(copy, state, u) ==
  IF copy.addr = u.status THEN Nil ELSE [state |-> state, addr |-> u.status]

\* UpdateVirtualServerStatus and UpdateVirtualServerRouteStatus: the external
\* endpoints alone are no reason to write.
UpdateVSStatus(copy, state, u) ==
  IF copy.state = state THEN Nil ELSE [state |-> state, addr |-> u.status]

\* UpdateVirtualServerRouteStatusWithReferencedBy
UpdateVSRStatus(copy, state, u) == [state |-> state, addr |-> u.status]

\* update...StatusAndEvents after a sync of an object, and processProblems,
\* which clears the status of an Ingress whether or not that is reported.
StatusAfterSync(o, result, copy, u) ==
  CASE o = "ing" -> IF result = "problem" THEN UpdateIngress(copy, Nil)
                    ELSE IF report THEN UpdateIngress(copy, u.status) ELSE Nil
    [] o = "vs"  -> UpdateVSStatus(copy, result, u)
    [] o = "vsr" -> UpdateVSRStatus(copy, result, u)

\* Mutant: -report-ingress-status is not looked at.
Bug_FlagIgnored(o, copy, u) ==
  IF o = "ing" THEN UpdateIngress(copy, u.status) ELSE [copy EXCEPT !.addr = u.status]

\* UpdateExternalEndpointsForResource: the state is that of the copy.
ExternalEndpoints(o, copy, u) ==
  IF o = "ing" THEN (IF report THEN UpdateIngress(copy, u.status) ELSE Nil)
  ELSE [copy EXCEPT !.addr = u.status]

\* The tasks T will change what is reported of o.
Concern(T, o) == o \in T \/ (o = "ing" /\ T \cap {"configMap", "service"} # {})

\* The worker of r writes the statuses new (object -> status) in one task.  The
\* updates of an object whose copy is behind the API are marked, and those that a
\* waiting task of r will replace; settled are the objects whose whole status is
\* computed anew.
Report(r, settled, new) ==
  IF ReportsStatus(r)
  THEN /\ api' = [o \in objects |-> IF o \in DOMAIN new /\ new[o] # Nil THEN new[o] ELSE api[o]]
       /\ suspect' = (suspect \ settled)
                       \cup {o \in DOMAIN new : lister[r][o] # api[o] \/ Concern(tasks'[r], o)}
  ELSE UNCHANGED <<api, suspect>>

\* An Event with the same content as an earlier one of the same recorder only
\* raises that one's count.
Record(r, results) ==
  /\ events' = [o \in objects |-> IF o \in DOMAIN results /\ results[o] \notin recorded[r][o]
                                  THEN Append(events[o], results[o]) ELSE events[o]]
  /\ recorded' = [recorded EXCEPT ![r] = [o \in objects |->
                    IF o \in DOMAIN results THEN @[o] \cup {results[o]} ELSE @[o]]]

-----------------------------------------------------------------------------
AllTasks == objects \cup {"configMap", "service"}

NoCallback == [todo |-> <<>>, write |-> Nil]

\* Two replicas that have synced everything, and a leader to be elected.
Init ==
  /\ objects \in Clusters /\ report \in BOOLEAN
  /\ configMap = "" /\ service \in ServiceAddresses
  /\ outcome = [o \in objects |-> "ok"]
  /\ api = [o \in objects |-> [state |-> "ok", addr |-> service]]
  /\ events = [o \in objects |-> <<"ok">>]
  /\ lister = [r \in Replicas |-> api]
  /\ su = [r \in Replicas |-> [external |-> "", serviceAddr |-> service, status |-> service]]
  /\ tasks = [r \in Replicas |-> {}]
  /\ applied = [r \in Replicas |-> outcome]
  /\ recorded = [r \in Replicas |-> [o \in objects |-> {"ok"}]]
  /\ lease = Nil /\ elector = [r \in Replicas |-> "candidate"]
  /\ observed = [r \in Replicas |-> Nil]
  /\ callback = [r \in Replicas |-> NoCallback]
  /\ suspect = {} /\ changes = 0 /\ faults = 0

\* The cluster changes and every replica gets a task.
Enqueue(t) ==
  /\ changes < MaxChanges /\ changes' = changes + 1
  /\ tasks' = [r \in Replicas |-> tasks[r] \cup {t}]
  /\ UNCHANGED <<objects, report, api, events, lister, su, applied, recorded, election, callback,
                 suspect, faults>>

ConfigMapChanges ==
  \E v \in Addresses \cup {"", Nil} :
    v # configMap /\ configMap' = v /\ Enqueue("configMap") /\ UNCHANGED <<service, outcome>>

ServiceChanges ==
  \E v \in ServiceAddresses \cup {Nil} :
    v # service /\ service' = v /\ Enqueue("service") /\ UNCHANGED <<configMap, outcome>>

ObjectChanges ==
  \E o \in objects :
    /\ outcome' = [outcome EXCEPT ![o] = IF @ = "ok" THEN "problem" ELSE "ok"]
    /\ Enqueue(o) /\ UNCHANGED <<configMap, service>>

\* The watch brings a status to a replica's cache.
Observe(r) ==
  /\ \E o \in objects : lister[r][o] # api[o] /\ lister' = [lister EXCEPT ![r][o] = api[o]]
  /\ UNCHANGED <<cluster, api, events, process, election, callback, suspect, changes, faults>>

-----------------------------------------------------------------------------
(* The worker of a replica *)

Takes(r, t) ==
  /\ t \in tasks[r] /\ tasks' = [tasks EXCEPT ![r] = @ \ {t}]
  /\ UNCHANGED <<cluster, lister, election, callback, changes, faults>>

\* The resources of the Configuration of r.
GetResources(r) == {o \in objects : applied[r][o] = "ok"}

SyncObject(r) ==
  \E o \in objects :
    /\ Takes(r, o)
    /\ applied' = [applied EXCEPT ![r][o] = outcome[o]]
    /\ Record(r, [x \in {o} |-> outcome[x]])
    /\ Report(r, {o}, [x \in {o} |-> StatusAfterSync(x, outcome[x], lister[r][x], su[r])])
    /\ UNCHANGED su

\* syncConfigMap saves the address of a ConfigMap that exists and reports on
\* all resources.
SyncConfigMap(r) ==
  LET u == IF configMap = Nil THEN su[r] ELSE SaveStatusFromExternalStatus(su[r], configMap)
  IN /\ Takes(r, "configMap")
     /\ su' = [su EXCEPT ![r] = u]
     /\ Record(r, [x \in GetResources(r) |-> "ok"])
     /\ Report(r, GetResources(r),
               [x \in GetResources(r) |-> StatusAfterSync(x, "ok", lister[r][x], u)])
     /\ UNCHANGED applied

\* syncService, for the external service.
SyncService(r) ==
  LET u == SaveStatusFromExternalService(su[r], service)
  IN /\ Takes(r, "service")
     /\ su' = [su EXCEPT ![r] = u]
     /\ Report(r, {"ing"} \cap GetResources(r),
               [x \in GetResources(r) |-> ExternalEndpoints(x, lister[r][x], u)])
     /\ UNCHANGED <<events, recorded, applied>>

-----------------------------------------------------------------------------
(* Leader election *)

IfThere(o) == IF o \in objects THEN <<o>> ELSE <<>>

\* acquire, and OnStartedLeading in a goroutine of its own.
Acquire(r) ==
  /\ elector[r] = "candidate" /\ lease = Nil
  /\ lease' = r
  /\ elector' = [elector EXCEPT ![r] = "leading"]
  /\ observed' = [observed EXCEPT ![r] = r]
  /\ callback' = [callback EXCEPT ![r].todo = IfThere("ing") \o IfThere("vs") \o IfThere("vsr")]
  /\ UNCHANGED <<cluster, api, events, lister, process, suspect, changes, faults>>

\* The lock cannot be renewed in time: Run of the elector returns, for good,
\* and what it observed last stays.  Then the lock expires.
RenewFails(r) ==
  /\ elector[r] = "leading" /\ faults < MaxFaults /\ faults' = faults + 1
  /\ lease' = Nil
  /\ elector' = [elector EXCEPT ![r] = "stopped"]
  /\ UNCHANGED <<cluster, api, events, lister, process, observed, callback, suspect, changes>>

\* the Event that is listed last
latestEvent(evs) == evs[Len(evs)]

\* The next object of OnStartedLeading: the status is computed here and
\* written in a later step, while the worker goes on.  Ingresses get the
\* address; the others the state of the Event that is listed last.
LeaderReads(r) ==
  LET o == Head(callback[r].todo)
      copy == lister[r][o]
      new == IF o = "ing" THEN (IF o \in GetResources(r) THEN ExternalEndpoints(o, copy, su[r]) ELSE Nil)
             ELSE UpdateVSStatus(copy, latestEvent(events[o]), su[r])
      outdated == copy # api[o] \/ (o # "ing" /\ latestEvent(events[o]) # applied[r][o])
  IN /\ callback[r].todo # <<>> /\ callback[r].write = Nil
     /\ callback' = [callback EXCEPT ![r] =
          IF new = Nil THEN [todo |-> Tail(@.todo), write |-> Nil]
          ELSE [todo |-> @.todo, write |-> [new |-> new, copy |-> copy, su |-> su[r],
                                            applied |-> applied[r][o], outdated |-> outdated]]]
     /\ suspect' = IF new = Nil /\ outdated THEN suspect \cup {o} ELSE suspect
     /\ UNCHANGED <<cluster, api, events, lister, process, election, changes, faults>>

LeaderWrites(r) ==
  LET o == Head(callback[r].todo)
      w == callback[r].write
  IN /\ w # Nil
     /\ api' = [api EXCEPT ![o] = w.new]
     /\ suspect' = IF \/ w.outdated \/ w.copy # api[o] \/ w.su # su[r] \/ w.applied # applied[r][o]
                      \/ o # "ing" /\ w.new.state # applied[r][o]
                      \/ Concern(tasks[r], o)
                   THEN suspect \cup {o} ELSE suspect \ {o}
     /\ callback' = [callback EXCEPT ![r] = [todo |-> Tail(@.todo), write |-> Nil]]
     /\ UNCHANGED <<cluster, events, lister, process, election, changes, faults>>

\* A replica crashes and starts again with fresh caches; its lock expires.  It
\* leaves the address of an Ingress that it may have reported last to the replicas
\* that still report.
Crash(r) ==
  /\ faults < MaxFaults /\ faults' = faults + 1
  /\ lease' = IF lease = r THEN Nil ELSE lease
  /\ elector' = [elector EXCEPT ![r] = "candidate"]
  /\ observed' = [observed EXCEPT ![r] = Nil]
  /\ callback' = [callback EXCEPT ![r] = NoCallback]
  /\ su' = [su EXCEPT ![r] = NewStatusUpdater]
  /\ tasks' = [tasks EXCEPT ![r] = AllTasks]
  /\ applied' = [applied EXCEPT ![r] = [o \in objects |-> Nil]]
  /\ recorded' = [recorded EXCEPT ![r] = [o \in objects |-> {}]]
  /\ lister' = [lister EXCEPT ![r] = api]
  /\ suspect' = suspect \cup {o \in objects \cap {"ing"} :
                               /\ ReportsStatus(r)
                               /\ \E q \in Replicas \ {r} : /\ ReportsStatus(q)
                                                           /\ su[q].status # api[o].addr}
  /\ UNCHANGED <<cluster, api, events, changes>>

Next ==
  \/ ConfigMapChanges \/ ServiceChanges \/ ObjectChanges
  \/ \E r \in Replicas :
       \/ Observe(r) \/ SyncObject(r) \/ SyncConfigMap(r) \/ SyncService(r)
       \/ Acquire(r) \/ RenewFails(r) \/ LeaderReads(r) \/ LeaderWrites(r) \/ Crash(r)

Spec == Init /\ [][Next]_vars

-----------------------------------------------------------------------------
(* Properties *)

\* Nothing is left to do, and some replica reports statuses.
Quiet ==
  /\ \A r \in Replicas : tasks[r] = {} /\ callback[r] = NoCallback /\ lister[r] = api
  /\ \E r \in Replicas : ReportsStatus(r)

\* Once there is nothing left to do, the Ingress in use has the address of a
\* reporting replica and the other objects have the state the configuration
\* gives them, through failovers and interleavings of the workers and of
\* OnStartedLeading, unless the last update of the object was computed from a
\* cached copy behind the API, overtaken by the worker, taken from an Event that
\* does not show what the leader's own worker has applied, or made by a replica
\* that crashed before it had caught up or while others reported (status.go,
\* leader.go, controller.go).
StaleOnlyIfSuspect ==
  Quiet => \A o \in objects \ suspect :
    IF o = "ing"
    THEN report /\ outcome[o] = "ok" =>
           \E r \in Replicas : ReportsStatus(r) /\ api[o].addr = su[r].status
    ELSE api[o].state = outcome[o]

\* A replica that has synced the ConfigMap and the external service reports
\* the address of the ConfigMap, without one that of the service, and without
\* either none, in whatever order it synced them (SaveStatusFromExternalStatus
\* and SaveStatusFromExternalService).
AddressPrecedence ==
  \A r \in Replicas :
    tasks[r] \cap {"configMap", "service"} = {} /\ configMap # Nil =>
      CASE configMap # "" -> su[r].status = configMap
        [] configMap = "" /\ service # Nil -> su[r].status = service
        [] OTHER -> su[r].status \in {"", Nil}

\* Without -report-ingress-status the address of an Ingress is never set, only
\* cleared when the Ingress gets a problem (processProblems).
OnlyClearedWithoutFlag ==
  [][~report /\ "ing" \in objects /\ api'["ing"].addr # api["ing"].addr
       => api'["ing"].addr = Nil]_vars

\* docs-web/configuration/global-configuration/command-line-arguments.md:38:
\* "only one replica will report status".  It does not hold of the code: a leader
\* that cannot renew its lease reports on (isLeader); no run checks it.
OnlyOneReplicaReports == Cardinality({r \in Replicas : ReportsStatus(r)}) <= 1

\* docs-web/configuration/global-configuration/reporting-resources-status.md:78:
\* the ExternalEndpoints of a VirtualServer are those through which its hosts
\* are accessible, here for a cluster without faults and copies behind the API.
\* It does not hold of the code: hasVsStatusChanged compares the state, the reason
\* and the message, so that a new address in the ConfigMap alone writes nothing;
\* no run checks it.
EndpointsAreCurrent ==
  Quiet /\ faults = 0 /\ suspect = {} =>
    ("vs" \in objects /\ outcome["vs"] = "ok" =>
       \E r \in Replicas : ReportsStatus(r) /\ api["vs"].addr = su[r].status)
=============================================================================
