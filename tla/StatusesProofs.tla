--------------------------- MODULE StatusesProofs ---------------------------
(***************************************************************************)
(* Statuses, for every number of replicas, addresses, changes and faults.  *)
(***************************************************************************)
EXTENDS Statuses, TLAPS

\* how long the provers may work on a step
USE ZenonT(5), SMTT(60)

-----------------------------------------------------------------------------
(* The precedence of addresses.  The order of the syncs does not matter,   *)
(* since the updater of a replica remembers what both sources gave it      *)
(* (external, serviceAddr) and its status always follows from the two.     *)

\* The status of an updater follows from its two sources.
StatusFollows(u) ==
  IF u.external # "" THEN u.status = u.external
  ELSE IF u.serviceAddr # Nil THEN u.status = u.serviceAddr
  ELSE u.status \in {"", Nil}

\* Every updater is a record whose status follows from its sources, and each
\* source is that of the cluster unless its task waits.
PrecedenceInv ==
  /\ objects \subseteq {"ing", "vs", "vsr"}
  /\ DOMAIN su = Replicas /\ DOMAIN tasks = Replicas
  /\ \A r \in Replicas :
       /\ DOMAIN su[r] = {"external", "serviceAddr", "status"}
       /\ StatusFollows(su[r])
       /\ "configMap" \notin tasks[r] /\ configMap # Nil => su[r].external = configMap
       /\ "service" \notin tasks[r] => su[r].serviceAddr = service

\* SaveStatusFromExternalStatus and SaveStatusFromExternalService record their
\* source, leave the other one, and keep the status in accord with both.
LEMMA SaveExternal ==
  ASSUME NEW u, DOMAIN u = {"external", "serviceAddr", "status"}, NEW a
  PROVE  LET v == SaveStatusFromExternalStatus(u, a)
         IN /\ DOMAIN v = {"external", "serviceAddr", "status"}
            /\ v.external = a /\ v.serviceAddr = u.serviceAddr
            /\ StatusFollows(v)
  BY DEF SaveStatusFromExternalStatus, StatusFollows

LEMMA SaveService ==
  ASSUME NEW u, DOMAIN u = {"external", "serviceAddr", "status"}, StatusFollows(u), NEW a
  PROVE  LET v == SaveStatusFromExternalService(u, a)
         IN /\ DOMAIN v = {"external", "serviceAddr", "status"}
            /\ v.external = u.external /\ v.serviceAddr = a
            /\ StatusFollows(v)
  BY DEF SaveStatusFromExternalService, StatusFollows

\* The updater of a replica that has synced a cluster without an address in
\* the ConfigMap.
LEMMA SyncedUpdater ==
  ASSUME NEW s, NEW u, u = [external |-> "", serviceAddr |-> s, status |-> s]
  PROVE  /\ DOMAIN u = {"external", "serviceAddr", "status"}
         /\ u.external = "" /\ u.serviceAddr = s
         /\ StatusFollows(u)
  BY DEF StatusFollows

LEMMA PrecedenceInit == Init => PrecedenceInv
<1> SUFFICES ASSUME Init PROVE PrecedenceInv
  OBVIOUS
<1>1. objects \subseteq {"ing", "vs", "vsr"}
  BY ClustersAssumption DEF ClustersAssumption, Init
<1>2. DOMAIN su = Replicas /\ DOMAIN tasks = Replicas
  BY DEF Init
<1>3. ASSUME NEW r \in Replicas
      PROVE  su[r] = [external |-> "", serviceAddr |-> service, status |-> service]
  BY DEF Init
<1>4. configMap = ""
  BY DEF Init
<1> QED
  BY <1>1, <1>2, <1>3, <1>4, SyncedUpdater, Zenon DEF PrecedenceInv

\* A change of the cluster leaves the updaters and adds its task everywhere.
LEMMA PrecedenceEnqueue ==
  ASSUME PrecedenceInv, NEW t, Enqueue(t),
         configMap' = configMap \/ t = "configMap",
         service' = service \/ t = "service"
  PROVE  PrecedenceInv'
<1>1. /\ objects' = objects /\ su' = su
      /\ tasks' = [r \in Replicas |-> tasks[r] \cup {t}]
  BY DEF Enqueue
<1> QED
  BY <1>1 DEF PrecedenceInv, StatusFollows

LEMMA PrecedenceNext == PrecedenceInv /\ [Next]_vars => PrecedenceInv'
<1> SUFFICES ASSUME PrecedenceInv, [Next]_vars PROVE PrecedenceInv'
  OBVIOUS
<1>1. CASE ConfigMapChanges
  BY <1>1, PrecedenceEnqueue DEF ConfigMapChanges
<1>2. CASE ServiceChanges
  BY <1>2, PrecedenceEnqueue DEF ServiceChanges
<1>3. CASE ObjectChanges
  BY <1>3, PrecedenceEnqueue DEF ObjectChanges
<1>4. ASSUME NEW r \in Replicas, SyncObject(r) PROVE PrecedenceInv'
  <2>1. PICK o \in objects : Takes(r, o) /\ UNCHANGED su
    BY <1>4 DEF SyncObject
  <2>2. o \notin {"configMap", "service"}
    BY DEF PrecedenceInv
  <2> QED
    BY <2>1, <2>2 DEF Takes, PrecedenceInv, StatusFollows, cluster
<1>5. ASSUME NEW r \in Replicas, SyncConfigMap(r) PROVE PrecedenceInv'
  <2> DEFINE u == IF configMap = Nil THEN su[r] ELSE SaveStatusFromExternalStatus(su[r], configMap)
  <2>1. Takes(r, "configMap") /\ su' = [su EXCEPT ![r] = u]
    BY <1>5 DEF SyncConfigMap
  <2>2. /\ DOMAIN u = {"external", "serviceAddr", "status"} /\ StatusFollows(u)
        /\ configMap # Nil => u.external = configMap
        /\ u.serviceAddr = su[r].serviceAddr
    BY SaveExternal DEF PrecedenceInv
  <2> HIDE DEF u
  <2> QED
    BY <2>1, <2>2 DEF Takes, PrecedenceInv, StatusFollows, cluster
<1>6. ASSUME NEW r \in Replicas, SyncService(r) PROVE PrecedenceInv'
  <2> DEFINE u == SaveStatusFromExternalService(su[r], service)
  <2>1. Takes(r, "service") /\ su' = [su EXCEPT ![r] = u]
    BY <1>6 DEF SyncService
  <2>2. /\ DOMAIN u = {"external", "serviceAddr", "status"} /\ StatusFollows(u)
        /\ u.external = su[r].external /\ u.serviceAddr = service
    BY SaveService DEF PrecedenceInv
  <2> HIDE DEF u
  <2> QED
    BY <2>1, <2>2 DEF Takes, PrecedenceInv, StatusFollows, cluster
<1>7. ASSUME NEW r \in Replicas, Crash(r) PROVE PrecedenceInv'
  BY <1>7 DEF Crash, PrecedenceInv, StatusFollows, NewStatusUpdater, AllTasks, cluster
<1>8. ASSUME NEW r \in Replicas,
             Observe(r) \/ Acquire(r) \/ RenewFails(r) \/ LeaderReads(r) \/ LeaderWrites(r)
      PROVE  PrecedenceInv'
  <2>1. UNCHANGED <<cluster, process>>
    BY <1>8 DEF Observe, Acquire, RenewFails, LeaderReads, LeaderWrites
  <2> QED
    BY <2>1 DEF PrecedenceInv, StatusFollows, cluster, process
<1>9. CASE UNCHANGED vars
  BY <1>9 DEF vars, PrecedenceInv, StatusFollows, cluster, process
<1> QED
  BY <1>1, <1>2, <1>3, <1>4, <1>5, <1>6, <1>7, <1>8, <1>9 DEF Next

\* For any number of replicas, in whatever order each of them syncs the
\* ConfigMap and the external service, and whenever it restarts, the address it
\* reports is that of the ConfigMap, then that of the service, then none.
THEOREM AddressFollowsPrecedence == Spec => []AddressPrecedence
<1>1. PrecedenceInv => AddressPrecedence
  BY DEF PrecedenceInv, StatusFollows, AddressPrecedence
<1> QED
  BY <1>1, PrecedenceInit, PrecedenceNext, PTL DEF Spec

-----------------------------------------------------------------------------
(* The flag -report-ingress-status.  OnStartedLeading computes a status in *)
(* one step and writes it in a later one, so the invariant says that what  *)
(* waits to be written to an Ingress was computed with the flag set.       *)

IsStatus(x) == DOMAIN x = {"state", "addr"}

Allowed(o, new) == new # Nil => IsStatus(new) /\ (o = "ing" /\ ~report => new.addr = Nil)

\* A replica's OnStartedLeading, when it waits for the election or for a write.
CallbackOk(r) ==
  /\ DOMAIN callback[r] = {"todo", "write"}
  /\ elector[r] = "candidate" => callback[r].todo = <<>> /\ callback[r].write = Nil
  /\ callback[r].write # Nil =>
       /\ callback[r].todo # <<>>
       /\ IsStatus(callback[r].write.new)
       /\ Head(callback[r].todo) = "ing" => report

FlagInv ==
  /\ objects \subseteq {"ing", "vs", "vsr"}
  /\ DOMAIN api = objects /\ \A o \in objects : IsStatus(api[o])
  /\ DOMAIN lister = Replicas
  /\ \A r \in Replicas : DOMAIN lister[r] = objects /\ \A o \in objects : IsStatus(lister[r][o])
  /\ DOMAIN elector = Replicas /\ DOMAIN callback = Replicas
  /\ \A r \in Replicas : CallbackOk(r)

\* What a step may do to the address of an Ingress.
Cleared ==
  ~report /\ "ing" \in objects /\ api'["ing"].addr # api["ing"].addr => api'["ing"].addr = Nil

\* What a worker computes after a sync of an object is allowed.
LEMMA SyncAllowed ==
  ASSUME NEW o \in {"ing", "vs", "vsr"}, NEW result, NEW copy, IsStatus(copy), NEW u
  PROVE  Allowed(o, StatusAfterSync(o, result, copy, u))
<1>1. IsStatus([copy EXCEPT !.addr = Nil]) /\ [copy EXCEPT !.addr = Nil].addr = Nil
  BY DEF IsStatus
<1>2. IsStatus([copy EXCEPT !.addr = u.status])
  BY DEF IsStatus
<1>3. IsStatus([state |-> result, addr |-> u.status])
  BY DEF IsStatus
<1>4. CASE o = "ing"
  BY <1>1, <1>2, <1>4 DEF StatusAfterSync, Allowed, UpdateIngress
<1>5. CASE o = "vs"
  BY <1>3, <1>5 DEF StatusAfterSync, Allowed, UpdateVSStatus
<1>6. CASE o = "vsr"
  BY <1>3, <1>6 DEF StatusAfterSync, Allowed, UpdateVSRStatus
<1> QED
  BY <1>4, <1>5, <1>6

\* So is what UpdateExternalEndpointsForResource computes, which for an Ingress
\* is nothing without the flag.
LEMMA EndpointsAllowed ==
  ASSUME NEW o, NEW copy, IsStatus(copy), NEW u
  PROVE  /\ Allowed(o, ExternalEndpoints(o, copy, u))
         /\ o = "ing" /\ ~report => ExternalEndpoints(o, copy, u) = Nil
<1>1. IsStatus([copy EXCEPT !.addr = u.status])
  BY DEF IsStatus
<1> QED
  BY <1>1 DEF Allowed, ExternalEndpoints, UpdateIngress

\* A task that writes allowed statuses keeps the shape of the API's objects.
LEMMA ReportAllowed ==
  ASSUME FlagInv, NEW os, NEW new, \A o \in os : Allowed(o, new[o]),
         api' = [o \in objects |-> IF o \in os /\ new[o] # Nil THEN new[o] ELSE api[o]]
  PROVE  /\ DOMAIN api' = objects /\ \A o \in objects : IsStatus(api'[o])
         /\ Cleared
<1>1. DOMAIN api' = objects
  OBVIOUS
<1>2. ASSUME NEW o \in objects PROVE api'[o] = api[o] \/ (api'[o] # Nil /\ Allowed(o, api'[o]))
  BY DEF Allowed
<1>3. ASSUME NEW o \in objects PROVE IsStatus(api'[o])
  BY <1>2 DEF FlagInv, Allowed
<1>4. Cleared
  BY <1>2 DEF Cleared, Allowed
<1> QED
  BY <1>1, <1>3, <1>4

LEMMA FlagInit == Init => FlagInv
<1> SUFFICES ASSUME Init PROVE FlagInv
  OBVIOUS
<1>1. objects \subseteq {"ing", "vs", "vsr"}
  BY ClustersAssumption DEF ClustersAssumption, Init
<1>2. DOMAIN api = objects /\ \A o \in objects : IsStatus(api[o])
  BY DEF Init, IsStatus
<1>3. DOMAIN lister = Replicas /\ \A r \in Replicas : lister[r] = api
  BY DEF Init
<1>4. /\ DOMAIN elector = Replicas /\ DOMAIN callback = Replicas
      /\ \A r \in Replicas : callback[r] = NoCallback
  BY DEF Init
<1>5. ASSUME NEW r \in Replicas PROVE CallbackOk(r)
  BY <1>4 DEF CallbackOk, NoCallback
<1> QED
  BY <1>1, <1>2, <1>3, <1>4, <1>5 DEF FlagInv

\* A worker's task leaves everything but the API as it was.
LEMMA FlagWorker ==
  ASSUME FlagInv, UNCHANGED <<cluster, lister, elector, callback>>,
         DOMAIN api' = objects, \A o \in objects : IsStatus(api'[o])
  PROVE  FlagInv'
<1>1. /\ objects' = objects /\ report' = report /\ lister' = lister
      /\ elector' = elector /\ callback' = callback
  BY DEF cluster
<1>2. ASSUME NEW r \in Replicas PROVE CallbackOk(r)'
  BY <1>1 DEF FlagInv, CallbackOk, IsStatus
<1> QED
  BY <1>1, <1>2 DEF FlagInv, IsStatus

LEMMA FlagNext == FlagInv /\ [Next]_vars => FlagInv' /\ Cleared
<1> SUFFICES ASSUME FlagInv, [Next]_vars PROVE FlagInv' /\ Cleared
  OBVIOUS
<1>1. ASSUME NEW r \in Replicas, SyncObject(r) PROVE FlagInv' /\ Cleared
  <2>1. PICK o \in objects :
          Takes(r, o) /\ Report(r, {o}, [x \in {o} |-> StatusAfterSync(x, outcome[x], lister[r][x], su[r])])
    BY <1>1 DEF SyncObject
  <2> DEFINE os == {o}
             new == [x \in os |-> StatusAfterSync(x, outcome[x], lister[r][x], su[r])]
  <2>2. \A x \in os : Allowed(x, new[x])
    BY SyncAllowed DEF FlagInv
  <2>3. UNCHANGED <<cluster, lister, elector, callback>>
    BY <2>1 DEF Takes, election
  <2>4. CASE ReportsStatus(r)
    <3>1. api' = [x \in objects |-> IF x \in os /\ new[x] # Nil THEN new[x] ELSE api[x]]
      BY <2>1, <2>4 DEF Report
    <3> HIDE DEF new, os
    <3> QED
      BY <2>2, <2>3, <3>1, ReportAllowed, FlagWorker
  <2>5. CASE ~ReportsStatus(r)
    BY <2>1, <2>5, FlagWorker DEF Report, Takes, election, FlagInv, Cleared
  <2> QED
    BY <2>4, <2>5
<1>2. ASSUME NEW r \in Replicas, SyncConfigMap(r) PROVE FlagInv' /\ Cleared
  <2> DEFINE u == IF configMap = Nil THEN su[r] ELSE SaveStatusFromExternalStatus(su[r], configMap)
  <2>1. /\ Takes(r, "configMap")
        /\ Report(r, GetResources(r),
                  [x \in GetResources(r) |-> StatusAfterSync(x, "ok", lister[r][x], u)])
    BY <1>2 DEF SyncConfigMap
  <2> DEFINE new == [x \in GetResources(r) |-> StatusAfterSync(x, "ok", lister[r][x], u)]
  <2>2. \A x \in GetResources(r) : Allowed(x, new[x])
    BY SyncAllowed DEF FlagInv, GetResources
  <2>3. UNCHANGED <<cluster, lister, elector, callback>>
    BY <2>1 DEF Takes, election
  <2>4. CASE ReportsStatus(r)
    <3>1. api' = [x \in objects |-> IF x \in GetResources(r) /\ new[x] # Nil THEN new[x] ELSE api[x]]
      BY <2>1, <2>4 DEF Report
    <3> HIDE DEF new
    <3> QED
      BY <2>2, <2>3, <3>1, ReportAllowed, FlagWorker
  <2>5. CASE ~ReportsStatus(r)
    BY <2>1, <2>5, FlagWorker DEF Report, Takes, election, FlagInv, Cleared
  <2> QED
    BY <2>4, <2>5
<1>3. ASSUME NEW r \in Replicas, SyncService(r) PROVE FlagInv' /\ Cleared
  <2> DEFINE u == SaveStatusFromExternalService(su[r], service)
  <2>1. /\ Takes(r, "service")
        /\ Report(r, {"ing"} \cap GetResources(r),
                  [x \in GetResources(r) |-> ExternalEndpoints(x, lister[r][x], u)])
    BY <1>3 DEF SyncService
  <2> DEFINE new == [x \in GetResources(r) |-> ExternalEndpoints(x, lister[r][x], u)]
  <2>2. \A x \in GetResources(r) : Allowed(x, new[x])
    BY EndpointsAllowed DEF FlagInv, GetResources
  <2>3. UNCHANGED <<cluster, lister, elector, callback>>
    BY <2>1 DEF Takes, election
  <2>4. CASE ReportsStatus(r)
    <3>1. api' = [x \in objects |-> IF x \in GetResources(r) /\ new[x] # Nil THEN new[x] ELSE api[x]]
      BY <2>1, <2>4 DEF Report
    <3> HIDE DEF new
    <3> QED
      BY <2>2, <2>3, <3>1, ReportAllowed, FlagWorker
  <2>5. CASE ~ReportsStatus(r)
    BY <2>1, <2>5, FlagWorker DEF Report, Takes, election, FlagInv, Cleared
  <2> QED
    BY <2>4, <2>5
<1>4. ASSUME NEW r \in Replicas, Observe(r) PROVE FlagInv' /\ Cleared
  <2>1. PICK o \in objects : lister' = [lister EXCEPT ![r][o] = api[o]]
    BY <1>4 DEF Observe
  <2>2. UNCHANGED <<cluster, api, elector, callback>>
    BY <1>4 DEF Observe, election
  <2>3. ASSUME NEW q \in Replicas
        PROVE  DOMAIN lister'[q] = objects /\ \A x \in objects : IsStatus(lister'[q][x])
    BY <2>1 DEF FlagInv
  <2>4. ASSUME NEW q \in Replicas PROVE CallbackOk(q)'
    BY <2>2 DEF FlagInv, CallbackOk, IsStatus, cluster
  <2> QED
    BY <2>1, <2>2, <2>3, <2>4 DEF FlagInv, Cleared, cluster, IsStatus
<1>5. ASSUME NEW r \in Replicas, Acquire(r) PROVE FlagInv' /\ Cleared
  <2>1. PICK todo : callback' = [callback EXCEPT ![r].todo = todo]
    BY <1>5 DEF Acquire
  <2>2. UNCHANGED <<cluster, api, lister>> /\ elector' = [elector EXCEPT ![r] = "leading"]
    BY <1>5 DEF Acquire
  <2>3. callback[r].write = Nil
    BY <1>5 DEF Acquire, FlagInv, CallbackOk
  <2>4. ASSUME NEW q \in Replicas PROVE CallbackOk(q)'
    BY <2>1, <2>2, <2>3 DEF FlagInv, CallbackOk, IsStatus, cluster
  <2> QED
    BY <2>1, <2>2, <2>4 DEF FlagInv, Cleared, cluster, IsStatus
<1>6. ASSUME NEW r \in Replicas, RenewFails(r) PROVE FlagInv' /\ Cleared
  <2>1. UNCHANGED <<cluster, api, lister, callback>> /\ elector' = [elector EXCEPT ![r] = "stopped"]
    BY <1>6 DEF RenewFails
  <2>2. ASSUME NEW q \in Replicas PROVE CallbackOk(q)'
    BY <2>1 DEF FlagInv, CallbackOk, IsStatus, cluster
  <2> QED
    BY <2>1, <2>2 DEF FlagInv, Cleared, cluster, IsStatus
<1>7. ASSUME NEW r \in Replicas, LeaderReads(r) PROVE FlagInv' /\ Cleared
  <2> DEFINE o == Head(callback[r].todo)
             copy == lister[r][o]
             new == IF o = "ing" THEN (IF o \in GetResources(r) THEN ExternalEndpoints(o, copy, su[r]) ELSE Nil)
                    ELSE UpdateVSStatus(copy, latestEvent(events[o]), su[r])
  <2>1. /\ callback[r].todo # <<>>
        /\ UNCHANGED <<cluster, api, lister, elector>>
    BY <1>7 DEF LeaderReads, election
  <2> DEFINE outdated == copy # api[o] \/ (o # "ing" /\ latestEvent(events[o]) # applied[r][o])
             w == [new |-> new, copy |-> copy, su |-> su[r], applied |-> applied[r][o],
                   outdated |-> outdated]
  <2>2. callback' = [callback EXCEPT ![r] =
                      IF new = Nil THEN [todo |-> Tail(@.todo), write |-> Nil]
                      ELSE [todo |-> @.todo, write |-> w]]
    BY <1>7, Zenon DEF LeaderReads
  <2>3. new # Nil => IsStatus(new) /\ (o = "ing" => report)
    <3>1. CASE o = "ing"
      BY <3>1, EndpointsAllowed DEF FlagInv, Allowed, GetResources
    <3>2. CASE o # "ing"
      <4>1. IsStatus([state |-> latestEvent(events[o]), addr |-> su[r].status])
        BY DEF IsStatus
      <4> QED
        BY <3>2, <4>1 DEF UpdateVSStatus
    <3> QED
      BY <3>1, <3>2
  <2>4. w.new = new
    OBVIOUS
  <2> HIDE DEF new, copy, outdated, w
  <2>5. ASSUME NEW q \in Replicas PROVE CallbackOk(q)'
    BY <2>1, <2>2, <2>3, <2>4 DEF FlagInv, CallbackOk, IsStatus, cluster
  <2> QED
    BY <2>1, <2>2, <2>5 DEF FlagInv, Cleared, cluster, IsStatus
<1>8. ASSUME NEW r \in Replicas, LeaderWrites(r) PROVE FlagInv' /\ Cleared
  <2> DEFINE o == Head(callback[r].todo)
  <2>1. /\ callback[r].write # Nil
        /\ api' = [api EXCEPT ![o] = callback[r].write.new]
        /\ callback' = [callback EXCEPT ![r] = [todo |-> Tail(@.todo), write |-> Nil]]
        /\ UNCHANGED <<cluster, lister, elector>>
    BY <1>8 DEF LeaderWrites, election
  <2>2. IsStatus(callback[r].write.new) /\ (o = "ing" => report)
    BY <2>1 DEF FlagInv, CallbackOk
  <2> HIDE DEF o
  <2>3. DOMAIN api' = objects /\ \A x \in objects : IsStatus(api'[x])
    BY <2>1, <2>2 DEF FlagInv
  <2>4. Cleared
    BY <2>1, <2>2 DEF FlagInv, Cleared
  <2>5. ASSUME NEW q \in Replicas PROVE CallbackOk(q)'
    BY <2>1 DEF FlagInv, CallbackOk, IsStatus, cluster
  <2> QED
    BY <2>1, <2>3, <2>4, <2>5 DEF FlagInv, cluster, IsStatus
<1>9. ASSUME NEW r \in Replicas, Crash(r) PROVE FlagInv' /\ Cleared
  <2>1. /\ UNCHANGED <<cluster, api>>
        /\ elector' = [elector EXCEPT ![r] = "candidate"]
        /\ callback' = [callback EXCEPT ![r] = NoCallback]
        /\ lister' = [lister EXCEPT ![r] = api]
    BY <1>9 DEF Crash
  <2>2. ASSUME NEW q \in Replicas PROVE CallbackOk(q)'
    BY <2>1 DEF FlagInv, CallbackOk, NoCallback, IsStatus, cluster
  <2> QED
    BY <2>1, <2>2 DEF FlagInv, Cleared, cluster, IsStatus
<1>10. CASE ConfigMapChanges \/ ServiceChanges \/ ObjectChanges \/ UNCHANGED vars
  <2>1. UNCHANGED <<objects, report, api, lister, elector, callback>>
    BY <1>10 DEF ConfigMapChanges, ServiceChanges, ObjectChanges, Enqueue, vars, cluster, election
  <2>2. ASSUME NEW q \in Replicas PROVE CallbackOk(q)'
    BY <2>1 DEF FlagInv, CallbackOk, IsStatus
  <2> QED
    BY <2>1, <2>2 DEF FlagInv, Cleared, IsStatus
<1> QED
  BY <1>1, <1>2, <1>3, <1>4, <1>5, <1>6, <1>7, <1>8, <1>9, <1>10 DEF Next

\* Whatever replicas lead, fail over, restart and sync, and however long a
\* status waits to be written, without -report-ingress-status an Ingress only
\* ever loses its address (ExternalEndpoints, StatusAfterSync).
THEOREM FlagOffOnlyClears == Spec => OnlyClearedWithoutFlag
<1>1. FlagInv /\ [Next]_vars =>
        [~report /\ "ing" \in objects /\ api'["ing"].addr # api["ing"].addr
           => api'["ing"].addr = Nil]_vars
  BY FlagNext DEF Cleared
<1> QED
  BY <1>1, FlagInit, FlagNext, PTL DEF Spec, OnlyClearedWithoutFlag

-----------------------------------------------------------------------------
(* The values of statuses *)

TypesInv ==
  /\ DOMAIN outcome = objects /\ \A o \in objects : outcome[o] \in States
  /\ configMap \in AddressValues /\ service \in AddressValues
  /\ \A r \in Replicas : su[r].external \in AddressValues /\ su[r].serviceAddr \in AddressValues
  /\ "ing" \in objects =>
       /\ api["ing"].state \in States
       /\ \A r \in Replicas : /\ lister[r]["ing"].state \in States
                              /\ callback[r].write # Nil /\ Head(callback[r].todo) = "ing" =>
                                   callback[r].write.new.state \in States

Base == FlagInv /\ PrecedenceInv /\ TypesInv

LEMMA BaseInit == Init => Base
<1> SUFFICES ASSUME Init PROVE TypesInv
  BY FlagInit, PrecedenceInit DEF Base
<1>1. /\ outcome = [o \in objects |-> "ok"] /\ configMap = "" /\ service \in ServiceAddresses
      /\ "ing" \in objects => api["ing"].state = "ok"
      /\ \A r \in Replicas : /\ lister[r] = api
                             /\ su[r].external = "" /\ su[r].serviceAddr = service
                             /\ callback[r].write = Nil
  BY DEF Init, NoCallback
<1> QED
  BY <1>1 DEF TypesInv, States, AddressValues

\* The address a replica reports is one of the known ones.
LEMMA StatusType ==
  ASSUME NEW u, StatusFollows(u), u.external \in AddressValues, u.serviceAddr \in AddressValues
  PROVE  u.status \in AddressValues
  BY DEF StatusFollows, AddressValues

\* The state of an Ingress stays as it is.
LEMMA IngressState ==
  ASSUME NEW copy, IsStatus(copy), NEW a
  PROVE  UpdateIngress(copy, a) = Nil \/ UpdateIngress(copy, a).state = copy.state
  BY DEF UpdateIngress, IsStatus

LEMMA TypesReport ==
  ASSUME Base, NEW r \in Replicas, NEW settled, NEW os, NEW new, DOMAIN new = os,
         Report(r, settled, new), "ing" \in objects,
         "ing" \in os => new["ing"] = Nil \/ \E a : new["ing"] = UpdateIngress(lister[r]["ing"], a)
  PROVE  api'["ing"].state \in States
<1>1. api'["ing"] = api["ing"] \/ (new["ing"] # Nil /\ api'["ing"] = new["ing"] /\ "ing" \in os)
  BY DEF Report
<1>2. /\ api["ing"].state \in States /\ lister[r]["ing"].state \in States
      /\ IsStatus(lister[r]["ing"])
  BY DEF Base, TypesInv, FlagInv
<1> QED
  BY <1>1, <1>2, IngressState

LEMMA TypesWorker ==
  ASSUME TypesInv, UNCHANGED <<cluster, lister, callback>>,
         \A r \in Replicas : /\ su'[r].external \in AddressValues
                              /\ su'[r].serviceAddr \in AddressValues,
         "ing" \in objects => api'["ing"].state \in States
  PROVE  TypesInv'
  BY DEF TypesInv, cluster

\* What OnStartedLeading computes for an Ingress
LEMMA ReadIngress ==
  ASSUME FlagInv, TypesInv, NEW r \in Replicas, LeaderReads(r),
         callback'[r].write # Nil, Head(callback'[r].todo) = "ing", "ing" \in objects
  PROVE  /\ callback'[r].write.new.state \in States
         /\ callback'[r].write.new.addr = callback'[r].write.su.status
<1> DEFINE o == Head(callback[r].todo)
           copy == lister[r][o]
           new == IF o = "ing" THEN (IF o \in GetResources(r) THEN ExternalEndpoints(o, copy, su[r]) ELSE Nil)
                  ELSE UpdateVSStatus(copy, latestEvent(events[o]), su[r])
           outdated == copy # api[o] \/ (o # "ing" /\ latestEvent(events[o]) # applied[r][o])
           w == [new |-> new, copy |-> copy, su |-> su[r], applied |-> applied[r][o],
                 outdated |-> outdated]
<1>1. callback' = [callback EXCEPT ![r] =
                     IF new = Nil THEN [todo |-> Tail(@.todo), write |-> Nil]
                     ELSE [todo |-> @.todo, write |-> w]]
  BY Zenon DEF LeaderReads
<1>2. w.new = new /\ w.su = su[r]
  OBVIOUS
<1>3. ASSUME o = "ing", new # Nil PROVE new.state \in States /\ new.addr = su[r].status
  <2>1. new = [copy EXCEPT !.addr = su[r].status]
    BY <1>3 DEF ExternalEndpoints, UpdateIngress
  <2>2. IsStatus(copy) /\ copy.state \in States
    BY <1>3 DEF FlagInv, TypesInv
  <2> QED
    BY <2>1, <2>2 DEF IsStatus
<1> HIDE DEF o, copy, new, outdated, w
<1>4. new # Nil /\ callback'[r].write = w /\ callback'[r].todo = callback[r].todo
  BY <1>1 DEF FlagInv
<1> QED
  BY <1>2, <1>3, <1>4 DEF o

LEMMA BaseNext == Base /\ [Next]_vars => Base'
<1> SUFFICES ASSUME Base, [Next]_vars PROVE TypesInv'
  BY FlagNext, PrecedenceNext DEF Base
<1>1. ASSUME NEW r \in Replicas, SyncObject(r) PROVE TypesInv'
  <2>1. PICK o \in objects :
          /\ Takes(r, o) /\ UNCHANGED su
          /\ Report(r, {o}, [x \in {o} |-> StatusAfterSync(x, outcome[x], lister[r][x], su[r])])
    BY <1>1 DEF SyncObject
  <2> DEFINE os == {o}
             new == [x \in os |-> StatusAfterSync(x, outcome[x], lister[r][x], su[r])]
  <2>2. DOMAIN new = os /\ Report(r, {o}, new)
    BY <2>1
  <2>3. "ing" \in os => new["ing"] = Nil \/ \E a : new["ing"] = UpdateIngress(lister[r]["ing"], a)
    BY DEF StatusAfterSync
  <2> HIDE DEF os, new
  <2>4. "ing" \in objects => api'["ing"].state \in States
    BY <2>2, <2>3, TypesReport
  <2> QED
    BY <2>1, <2>4, TypesWorker DEF Base, TypesInv, Takes
<1>2. ASSUME NEW r \in Replicas, SyncConfigMap(r) PROVE TypesInv'
  <2> DEFINE u == IF configMap = Nil THEN su[r] ELSE SaveStatusFromExternalStatus(su[r], configMap)
             os == GetResources(r)
             new == [x \in os |-> StatusAfterSync(x, "ok", lister[r][x], u)]
  <2>1. Takes(r, "configMap") /\ su' = [su EXCEPT ![r] = u] /\ Report(r, os, new)
    BY <1>2 DEF SyncConfigMap
  <2>2. "ing" \in os => new["ing"] = Nil \/ \E a : new["ing"] = UpdateIngress(lister[r]["ing"], a)
    BY DEF StatusAfterSync
  <2>3. u.external \in AddressValues /\ u.serviceAddr \in AddressValues
    BY SaveExternal DEF Base, PrecedenceInv, TypesInv
  <2>4. DOMAIN new = os
    OBVIOUS
  <2> HIDE DEF os, new, u
  <2>5. "ing" \in objects => api'["ing"].state \in States
    BY <2>1, <2>2, <2>4, TypesReport
  <2>6. \A q \in Replicas : su'[q].external \in AddressValues /\ su'[q].serviceAddr \in AddressValues
    BY <2>1, <2>3 DEF Base, PrecedenceInv, TypesInv
  <2> QED
    BY <2>1, <2>5, <2>6, TypesWorker DEF Base, Takes
<1>3. ASSUME NEW r \in Replicas, SyncService(r) PROVE TypesInv'
  <2> DEFINE u == SaveStatusFromExternalService(su[r], service)
             os == GetResources(r)
             new == [x \in os |-> ExternalEndpoints(x, lister[r][x], u)]
  <2>1. Takes(r, "service") /\ su' = [su EXCEPT ![r] = u] /\ Report(r, {"ing"} \cap os, new)
    BY <1>3 DEF SyncService
  <2>2. "ing" \in os => new["ing"] = Nil \/ \E a : new["ing"] = UpdateIngress(lister[r]["ing"], a)
    BY DEF ExternalEndpoints
  <2>3. u.external \in AddressValues /\ u.serviceAddr \in AddressValues
    BY SaveService DEF Base, PrecedenceInv, TypesInv
  <2>4. DOMAIN new = os
    OBVIOUS
  <2> HIDE DEF os, new, u
  <2>5. "ing" \in objects => api'["ing"].state \in States
    BY <2>1, <2>2, <2>4, TypesReport
  <2>6. \A q \in Replicas : su'[q].external \in AddressValues /\ su'[q].serviceAddr \in AddressValues
    BY <2>1, <2>3 DEF Base, PrecedenceInv, TypesInv
  <2> QED
    BY <2>1, <2>5, <2>6, TypesWorker DEF Base, Takes
<1>4. ASSUME NEW r \in Replicas, LeaderReads(r) PROVE TypesInv'
  <2>1. UNCHANGED <<cluster, api, lister, su>>
    BY <1>4 DEF LeaderReads, process
  <2>2. ASSUME NEW q \in Replicas, q # r PROVE callback'[q] = callback[q]
    BY <1>4, <2>2 DEF LeaderReads, Base, FlagInv
  <2>3. ASSUME "ing" \in objects, callback'[r].write # Nil, Head(callback'[r].todo) = "ing"
        PROVE  callback'[r].write.new.state \in States
    BY <1>4, <2>3, ReadIngress DEF Base
  <2> QED
    BY <2>1, <2>2, <2>3 DEF Base, TypesInv, cluster
<1>5. ASSUME NEW r \in Replicas, LeaderWrites(r) PROVE TypesInv'
  <2>1. /\ callback[r].write # Nil
        /\ api' = [api EXCEPT ![Head(callback[r].todo)] = callback[r].write.new]
        /\ callback' = [callback EXCEPT ![r] = [todo |-> Tail(@.todo), write |-> Nil]]
        /\ UNCHANGED <<cluster, lister, su>>
    BY <1>5 DEF LeaderWrites, process
  <2>2. "ing" \in objects => api'["ing"].state \in States
    BY <2>1 DEF Base, TypesInv, FlagInv
  <2>3. \A q \in Replicas : callback'[q].write # Nil => callback'[q] = callback[q]
    BY <2>1 DEF Base, FlagInv
  <2> QED
    BY <2>1, <2>2, <2>3 DEF Base, TypesInv, cluster
<1>6. ASSUME NEW r \in Replicas, Crash(r) PROVE TypesInv'
  <2>1. /\ UNCHANGED <<cluster, api>>
        /\ callback' = [callback EXCEPT ![r] = NoCallback]
        /\ lister' = [lister EXCEPT ![r] = api]
        /\ su' = [su EXCEPT ![r] = NewStatusUpdater]
    BY <1>6 DEF Crash
  <2>2. NewStatusUpdater.external \in AddressValues /\ NewStatusUpdater.serviceAddr \in AddressValues
    BY DEF NewStatusUpdater, AddressValues
  <2>3. \A q \in Replicas : callback'[q].write # Nil => callback'[q] = callback[q]
    BY <2>1 DEF Base, FlagInv, NoCallback
  <2> QED
    BY <2>1, <2>2, <2>3 DEF Base, TypesInv, FlagInv, PrecedenceInv, cluster
<1>7. ASSUME NEW r \in Replicas, Acquire(r) PROVE TypesInv'
  <2>1. UNCHANGED <<cluster, api, lister, su>> /\ callback[r].write = Nil
    BY <1>7 DEF Acquire, process, Base, FlagInv, CallbackOk
  <2>2. \A q \in Replicas : callback'[q].write # Nil => callback'[q] = callback[q]
    BY <1>7, <2>1 DEF Acquire, Base, FlagInv, CallbackOk
  <2> QED
    BY <2>1, <2>2 DEF Base, TypesInv, cluster
<1>8. ASSUME NEW r \in Replicas, Observe(r) PROVE TypesInv'
  <2>1. /\ UNCHANGED <<cluster, api, su, callback>>
        /\ \E o \in objects : lister' = [lister EXCEPT ![r][o] = api[o]]
    BY <1>8 DEF Observe, process
  <2>2. \A q \in Replicas : lister'[q]["ing"] = lister[q]["ing"] \/ lister'[q]["ing"] = api["ing"]
    BY <2>1 DEF Base, FlagInv
  <2> QED
    BY <2>1, <2>2 DEF Base, TypesInv, cluster
<1>9. CASE ConfigMapChanges \/ ServiceChanges \/ ObjectChanges
  <2>1. /\ UNCHANGED <<objects, api, lister, su, callback>>
        /\ configMap' \in AddressValues /\ service' \in AddressValues
    BY <1>9 DEF ConfigMapChanges, ServiceChanges, ObjectChanges, Enqueue, Base, TypesInv, AddressValues
  <2>2. DOMAIN outcome' = objects /\ \A o \in objects : outcome'[o] \in States
    BY <1>9 DEF ConfigMapChanges, ServiceChanges, ObjectChanges, Enqueue, Base, TypesInv, States
  <2> QED
    BY <2>1, <2>2 DEF Base, TypesInv
<1>10. ASSUME (\E r \in Replicas : RenewFails(r)) \/ UNCHANGED vars PROVE TypesInv'
  <2>1. UNCHANGED <<cluster, api, lister, su, callback>>
    BY <1>10 DEF RenewFails, vars, process
  <2> QED
    BY <2>1 DEF Base, TypesInv, cluster
<1> QED
  BY <1>1, <1>2, <1>3, <1>4, <1>5, <1>6, <1>7, <1>8, <1>9, <1>10 DEF Next

-----------------------------------------------------------------------------
(* Statuses become current.  A status that is not right may only stand as  *)
(* long as every replica that reports has still something to do about it:  *)
(* a task that concerns it, or an object for OnStartedLeading to look at.  *)

InTodo(r, o) == \E i \in DOMAIN callback[r].todo : callback[r].todo[i] = o
Due(r, o) == Concern(tasks[r], o) \/ InTodo(r, o)
AllDue(o) == \A r \in Replicas : ReportsStatus(r) => Due(r, o)

StateInv(o) == o \in suspect \/ api[o].state = outcome[o] \/ AllDue(o)

\* The address is that of a replica which has caught up with its sources.
FromReplica(r) == ReportsStatus(r) /\ ~Concern(tasks[r], "ing") /\ api["ing"].addr = su[r].status

AddrInv ==
  \/ "ing" \in suspect \/ ~report \/ outcome["ing"] # "ok"
  \/ AllDue("ing")
  \/ \E r \in Replicas : FromReplica(r)

\* What a replica's OnStartedLeading has to do, and what it is about to write
LeaderOk(r) ==
  /\ callback[r].todo \in Seq(objects)
  /\ callback[r].todo # <<>> => ReportsStatus(r)
  /\ callback[r].write # Nil /\ Head(callback[r].todo) = "ing" =>
       callback[r].write.new.addr = callback[r].write.su.status

\* The worker has processed what is not enqueued.
CaughtUp(r) ==
  /\ DOMAIN applied[r] = objects
  /\ \A o \in objects : o \notin tasks[r] => applied[r][o] = outcome[o]

CurrentInv ==
  /\ Base
  /\ DOMAIN applied = Replicas /\ DOMAIN observed = Replicas
  /\ \A r \in Replicas : LeaderOk(r) /\ CaughtUp(r)
  /\ \A o \in objects \ {"ing"} : StateInv(o)
  /\ "ing" \in objects => AddrInv

LEMMA CurrentInit == Init => CurrentInv
<1> SUFFICES ASSUME Init PROVE CurrentInv
  OBVIOUS
<1>1. Base
  BY BaseInit
<1>2. DOMAIN applied = Replicas /\ DOMAIN observed = Replicas
  BY DEF Init
<1>3. \A r \in Replicas : ~ReportsStatus(r)
  BY NilAssumption DEF Init, ReportsStatus
<1>4. ASSUME NEW r \in Replicas PROVE LeaderOk(r)
  <2>1. callback[r].todo = <<>> /\ callback[r].write = Nil
    BY DEF Init, NoCallback
  <2> QED
    BY <2>1 DEF LeaderOk
<1>5. ASSUME NEW r \in Replicas PROVE CaughtUp(r)
  <2>1. applied[r] = outcome /\ DOMAIN outcome = objects
    BY <1>1 DEF Init, Base, TypesInv
  <2> QED
    BY <2>1 DEF CaughtUp
<1> QED
  BY <1>1, <1>2, <1>3, <1>4, <1>5 DEF CurrentInv, StateInv, AddrInv, AllDue

-----------------------------------------------------------------------------
(* Changes of the cluster *)

LEMMA CurrentChange ==
  ASSUME CurrentInv, Base', NEW t, Enqueue(t),
         DOMAIN outcome' = objects,
         \A o \in objects : outcome'[o] = outcome[o] \/ t = o
  PROVE  CurrentInv'
<1>1. /\ UNCHANGED <<objects, report, api, su, applied, observed, callback, suspect>>
      /\ \A r \in Replicas : tasks'[r] = tasks[r] \cup {t}
  BY DEF Enqueue, election
<1>2. ASSUME NEW r \in Replicas PROVE LeaderOk(r)' /\ CaughtUp(r)'
  BY <1>1 DEF CurrentInv, LeaderOk, CaughtUp, ReportsStatus
<1>3. ASSUME NEW r \in Replicas, NEW o, Due(r, o) PROVE Due(r, o)'
  BY <1>1, <1>3 DEF Due, Concern, InTodo
<1>4. ASSUME NEW o, AllDue(o) PROVE AllDue(o)'
  BY <1>1, <1>3, <1>4 DEF AllDue, ReportsStatus
<1>5. ASSUME NEW o \in objects, t = o PROVE AllDue(o)'
  BY <1>1, <1>5 DEF AllDue, Due, Concern
<1>6. \A o \in objects \ {"ing"} : StateInv(o)'
  BY <1>1, <1>4, <1>5 DEF CurrentInv, StateInv
<1>7. ASSUME "ing" \in objects PROVE AddrInv'
  <2>1. CASE t \in {"ing", "configMap", "service"}
    BY <1>1, <1>7, <2>1 DEF AddrInv, AllDue, Due, Concern
  <2>2. CASE t \notin {"ing", "configMap", "service"}
    <3>1. \A r \in Replicas : FromReplica(r) => FromReplica(r)'
      BY <1>1, <2>2 DEF FromReplica, Concern, ReportsStatus
    <3> QED
      BY <1>1, <1>4, <1>7, <2>2, <3>1 DEF CurrentInv, AddrInv
  <2> QED
    BY <2>1, <2>2
<1> QED
  BY <1>1, <1>2, <1>6, <1>7 DEF CurrentInv

LEMMA CurrentCluster ==
  ASSUME CurrentInv, Base',
         ConfigMapChanges \/ ServiceChanges \/ ObjectChanges
  PROVE  CurrentInv'
<1>1. CASE ConfigMapChanges \/ ServiceChanges
  BY <1>1, CurrentChange DEF CurrentInv, Base, TypesInv, ConfigMapChanges, ServiceChanges
<1>2. CASE ObjectChanges
  <2>1. PICK o \in objects :
          /\ outcome' = [outcome EXCEPT ![o] = IF @ = "ok" THEN "problem" ELSE "ok"]
          /\ Enqueue(o)
    BY <1>2 DEF ObjectChanges
  <2>2. DOMAIN outcome' = objects /\ \A x \in objects : outcome'[x] = outcome[x] \/ o = x
    BY <2>1 DEF CurrentInv, Base, TypesInv
  <2> QED
    BY <2>1, <2>2, CurrentChange
<1> QED
  BY <1>1, <1>2

-----------------------------------------------------------------------------
(* The worker *)

\* A task of r leaves all other replicas, and what is processed is not enqueued.
Works(r) ==
  /\ UNCHANGED <<objects, report, outcome, lister, observed, callback>>
  /\ \A q \in Replicas \ {r} : tasks'[q] = tasks[q] /\ su'[q] = su[q] /\ applied'[q] = applied[q]
  /\ DOMAIN applied' = Replicas
  /\ CaughtUp(r)'

\* Nothing new is known of o, and r has as much to do about it.
Same(r, o) ==
  /\ o \in suspect => o \in suspect'
  /\ Concern(tasks'[r], o) <=> Concern(tasks[r], o)

LEMMA CurrentWorker ==
  ASSUME CurrentInv, Base', NEW r \in Replicas, Works(r),
         ~ReportsStatus(r) => UNCHANGED <<api, suspect>>,
         ReportsStatus(r) => \A o \in objects \ {"ing"} :
           \/ o \in suspect' \/ api'[o].state = outcome[o]
           \/ Same(r, o) /\ api'[o].state = api[o].state,
         ReportsStatus(r) /\ "ing" \in objects =>
           \/ "ing" \in suspect' \/ ~report \/ outcome["ing"] # "ok"
           \/ api'["ing"].addr = su'[r].status /\ ~Concern(tasks'[r], "ing")
           \/ /\ Same(r, "ing") /\ api'["ing"].addr = api["ing"].addr
              /\ su'[r] = su[r] \/ Concern(tasks[r], "ing")
  PROVE  CurrentInv'
<1>1. /\ UNCHANGED <<objects, report, outcome, observed, callback>>
      /\ \A q \in Replicas : ReportsStatus(q)' <=> ReportsStatus(q)
      /\ \A q \in Replicas : \A o : InTodo(q, o)' <=> InTodo(q, o)
  BY DEF Works, ReportsStatus, InTodo
<1>2. ASSUME NEW q \in Replicas PROVE LeaderOk(q)' /\ CaughtUp(q)'
  BY <1>1 DEF CurrentInv, Works, LeaderOk, CaughtUp
<1>3. ASSUME NEW o, ~ReportsStatus(r) \/ (Concern(tasks'[r], o) <=> Concern(tasks[r], o)), AllDue(o)
      PROVE  AllDue(o)'
  BY <1>1, <1>3 DEF AllDue, Due, Works
<1>4. ASSUME NEW o \in objects \ {"ing"} PROVE StateInv(o)'
  BY <1>1, <1>3 DEF CurrentInv, StateInv, Same
<1>5. ASSUME "ing" \in objects PROVE AddrInv'
  <2>1. ASSUME NEW q \in Replicas, q # r, api'["ing"].addr = api["ing"].addr, FromReplica(q)
        PROVE  FromReplica(q)'
    BY <1>1, <2>1 DEF FromReplica, Works
  <2>2. CASE ~ReportsStatus(r)
    BY <1>1, <1>3, <1>5, <2>1, <2>2 DEF CurrentInv, AddrInv, FromReplica
  <2>3. CASE /\ ReportsStatus(r)
             /\ api'["ing"].addr = su'[r].status /\ ~Concern(tasks'[r], "ing")
    BY <1>1, <2>3 DEF AddrInv, FromReplica
  <2>4. CASE /\ ReportsStatus(r)
             /\ Same(r, "ing") /\ api'["ing"].addr = api["ing"].addr
             /\ su'[r] = su[r] \/ Concern(tasks[r], "ing")
    <3>1. FromReplica(r) => FromReplica(r)'
      BY <1>1, <2>4 DEF FromReplica, Same
    <3> QED
      BY <1>1, <1>3, <1>5, <2>1, <2>4, <3>1 DEF CurrentInv, AddrInv, Same
  <2>5. CASE "ing" \in suspect' \/ ~report \/ outcome["ing"] # "ok"
    BY <1>1, <2>5 DEF AddrInv
  <2> QED
    BY <1>5, <2>2, <2>3, <2>4, <2>5
<1> QED
  BY <1>1, <1>2, <1>4, <1>5 DEF CurrentInv, Works

\* What a task of a replica that reports does to the status of an object
LEMMA Reported ==
  ASSUME NEW r, ReportsStatus(r), NEW settled, NEW os, NEW new, DOMAIN new = os,
         Report(r, settled, new), NEW o \in objects
  PROVE  /\ o \in os => /\ o \in suspect' \/ (lister[r][o] = api[o] /\ ~Concern(tasks'[r], o))
                        /\ api'[o] = IF new[o] # Nil THEN new[o] ELSE api[o]
         /\ o \notin os => api'[o] = api[o]
         /\ o \notin settled /\ o \in suspect => o \in suspect'
  BY DEF Report

\* The statuses that a worker computes are not Nil unless they are there already.
LEMMA StateAfterSync ==
  ASSUME NEW o \in {"vs", "vsr"}, NEW result \in States, NEW copy, NEW u, u.status \in AddressValues
  PROVE  LET new == StatusAfterSync(o, result, copy, u)
         IN IF new # Nil THEN new.state = result ELSE copy.state = result
<1> DEFINE written == [state |-> result, addr |-> u.status]
<1>1. written.state = result /\ written # Nil
  BY NilAssumption DEF NilAssumption
<1>2. \/ StatusAfterSync(o, result, copy, u) = written
      \/ StatusAfterSync(o, result, copy, u) = Nil /\ copy.state = result
  BY DEF StatusAfterSync, UpdateVSStatus, UpdateVSRStatus
<1> HIDE DEF written
<1> QED
  BY <1>1, <1>2

LEMMA AddressAfterSync ==
  ASSUME NEW copy, IsStatus(copy), copy.state \in States, NEW u, u.status \in AddressValues, report
  PROVE  LET new == UpdateIngress(copy, u.status)
         IN IF new # Nil THEN new.addr = u.status ELSE copy.addr = u.status
<1> DEFINE written == [copy EXCEPT !.addr = u.status]
<1>1. written = [state |-> copy.state, addr |-> u.status]
  BY DEF IsStatus
<1>2. written.addr = u.status /\ written # Nil
  BY <1>1, NilAssumption DEF NilAssumption
<1> HIDE DEF written
<1> QED
  BY <1>2 DEF UpdateIngress, written

\* The statuses and addresses that the worker of r computes with are known ones.
LEMMA KnownValues ==
  ASSUME Base, NEW r \in Replicas
  PROVE  /\ su[r].status \in AddressValues
         /\ \A o \in objects : outcome[o] \in States /\ IsStatus(lister[r][o])
         /\ "ing" \in objects => lister[r]["ing"].state \in States
  BY StatusType DEF Base, PrecedenceInv, TypesInv, FlagInv

LEMMA CurrentObject ==
  ASSUME CurrentInv, Base', NEW r \in Replicas, SyncObject(r)
  PROVE  CurrentInv'
<1>1. PICK o \in objects :
        /\ Takes(r, o) /\ UNCHANGED su
        /\ applied' = [applied EXCEPT ![r][o] = outcome[o]]
        /\ Report(r, {o}, [x \in {o} |-> StatusAfterSync(x, outcome[x], lister[r][x], su[r])])
  BY DEF SyncObject
<1>2. /\ UNCHANGED <<objects, report, outcome, lister, observed, callback>>
      /\ tasks' = [tasks EXCEPT ![r] = @ \ {o}]
  BY <1>1 DEF Takes, cluster, election
<1>3. tasks'[r] = tasks[r] \ {o} /\ \A q \in Replicas \ {r} : tasks'[q] = tasks[q]
  BY <1>2 DEF CurrentInv, Base, PrecedenceInv
<1>4. Works(r)
  <2>1. CaughtUp(r)
    BY DEF CurrentInv
  <2>2. /\ DOMAIN applied' = Replicas /\ DOMAIN applied'[r] = objects
        /\ \A q \in Replicas \ {r} : applied'[q] = applied[q]
        /\ \A x \in objects : applied'[r][x] = IF x = o THEN outcome[o] ELSE applied[r][x]
    BY <1>1, <2>1 DEF CurrentInv, CaughtUp
  <2>3. CaughtUp(r)'
    BY <1>2, <1>3, <2>1, <2>2 DEF CaughtUp
  <2> QED
    BY <1>1, <1>2, <1>3, <2>2, <2>3 DEF Works
<1> DEFINE os == {o}
           new == [x \in os |-> StatusAfterSync(x, outcome[x], lister[r][x], su[r])]
<1>5. DOMAIN new = os /\ Report(r, os, new) /\ new[o] = StatusAfterSync(o, outcome[o], lister[r][o], su[r])
  BY <1>1
<1>6. \A x : x \in os <=> x = o
  OBVIOUS
<1> HIDE DEF os, new
<1>7. o \notin tasks'[r] /\ o \notin {"configMap", "service"}
  BY <1>3 DEF CurrentInv, Base, FlagInv
<1>8. ASSUME NEW x \in objects, x # o PROVE Concern(tasks'[r], x) <=> Concern(tasks[r], x)
  <2>1. CASE x = "ing" /\ o # "ing"
    BY <1>3, <1>7, <1>8, <2>1 DEF Concern
  <2>2. CASE x # "ing"
    BY <1>3, <1>8, <2>2 DEF Concern
  <2> QED
    BY <1>8, <2>1, <2>2
<1>9. ~ReportsStatus(r) => UNCHANGED <<api, suspect>>
  BY <1>5 DEF Report
<1>10. ASSUME ReportsStatus(r), NEW x \in objects, x # o
       PROVE  Same(r, x) /\ api'[x] = api[x]
  BY <1>5, <1>6, <1>8, <1>10, Reported DEF Same
<1>11. ASSUME ReportsStatus(r), o # "ing", o \notin suspect'
       PROVE  api'[o].state = outcome[o]
  <2>1. o \in {"vs", "vsr"}
    BY <1>11 DEF CurrentInv, Base, FlagInv
  <2>2. lister[r][o] = api[o] /\ api'[o] = IF new[o] # Nil THEN new[o] ELSE api[o]
    BY <1>5, <1>6, <1>11, Reported
  <2>3. su[r].status \in AddressValues /\ outcome[o] \in States
    BY KnownValues DEF CurrentInv
  <2> QED
    BY <1>5, <2>1, <2>2, <2>3, StateAfterSync
<1>12. ASSUME ReportsStatus(r), o = "ing", o \notin suspect', report, outcome["ing"] = "ok"
       PROVE  api'["ing"].addr = su'[r].status /\ ~Concern(tasks'[r], "ing")
  <2>1. /\ lister[r][o] = api[o] /\ api'[o] = IF new[o] # Nil THEN new[o] ELSE api[o]
        /\ ~Concern(tasks'[r], o)
    BY <1>5, <1>6, <1>12, Reported
  <2>2. /\ su[r].status \in AddressValues
        /\ lister[r]["ing"].state \in States /\ IsStatus(lister[r]["ing"])
    BY <1>12, KnownValues DEF CurrentInv
  <2>3. new[o] = UpdateIngress(lister[r]["ing"], su[r].status)
    BY <1>5, <1>12 DEF StatusAfterSync
  <2> QED
    BY <1>1, <1>12, <2>1, <2>2, <2>3, AddressAfterSync
<1> QED
  BY <1>1, <1>4, <1>9, <1>10, <1>11, <1>12, CurrentWorker

\* The tasks about the sources of the address report on the resources in use.  A
\* resource that r has not yet taken into use has its own task waiting.
LEMMA SourceTask ==
  ASSUME CurrentInv, NEW r \in Replicas, NEW t \in {"configMap", "service"}, Takes(r, t),
         UNCHANGED applied, NEW u, su' = [su EXCEPT ![r] = u]
  PROVE  /\ Works(r)
         /\ su'[r] = u
         /\ \A o \in objects : o \in tasks'[r] <=> o \in tasks[r]
         /\ \A o \in objects : o # "ing" => (Concern(tasks'[r], o) <=> Concern(tasks[r], o))
         /\ Concern(tasks[r], "ing")
         /\ "ing" \in objects /\ "ing" \notin GetResources(r) =>
              outcome["ing"] # "ok" \/ Concern(tasks'[r], "ing")
<1>1. /\ UNCHANGED <<objects, report, outcome, lister, observed, callback>>
      /\ tasks' = [tasks EXCEPT ![r] = @ \ {t}] /\ t \in tasks[r]
  BY DEF Takes, cluster, election
<1>2. tasks'[r] = tasks[r] \ {t} /\ \A q \in Replicas \ {r} : tasks'[q] = tasks[q]
  BY <1>1 DEF CurrentInv, Base, PrecedenceInv
<1>3. t \notin objects
  BY DEF CurrentInv, Base, FlagInv
<1>4. su'[r] = u /\ \A q \in Replicas \ {r} : su'[q] = su[q]
  BY DEF CurrentInv, Base, PrecedenceInv
<1>5. CaughtUp(r) /\ DOMAIN applied = Replicas
  BY DEF CurrentInv
<1>6. CaughtUp(r)'
  BY <1>1, <1>2, <1>3, <1>5 DEF CaughtUp
<1>7. Works(r)
  BY <1>1, <1>2, <1>4, <1>5, <1>6 DEF Works
<1>8. \A o \in objects : o \in tasks'[r] <=> o \in tasks[r]
  BY <1>2, <1>3
<1>9. \A o \in objects : o # "ing" => (Concern(tasks'[r], o) <=> Concern(tasks[r], o))
  BY <1>8 DEF Concern
<1>10. Concern(tasks[r], "ing")
  BY <1>1 DEF Concern
<1>11. "ing" \in objects /\ "ing" \notin GetResources(r) =>
              outcome["ing"] # "ok" \/ Concern(tasks'[r], "ing")
  BY <1>5, <1>8 DEF CaughtUp, GetResources, Concern
<1> QED
  BY <1>4, <1>7, <1>8, <1>9, <1>10, <1>11

LEMMA CurrentConfigMap ==
  ASSUME CurrentInv, Base', NEW r \in Replicas, SyncConfigMap(r)
  PROVE  CurrentInv'
<1> DEFINE u == IF configMap = Nil THEN su[r] ELSE SaveStatusFromExternalStatus(su[r], configMap)
           os == GetResources(r)
           new == [x \in os |-> StatusAfterSync(x, "ok", lister[r][x], u)]
<1>1. /\ Takes(r, "configMap") /\ UNCHANGED applied /\ su' = [su EXCEPT ![r] = u]
      /\ Report(r, os, new)
  BY DEF SyncConfigMap
<1>2. DOMAIN new = os /\ \A x \in os : new[x] = StatusAfterSync(x, "ok", lister[r][x], u)
  OBVIOUS
<1>3. \A x \in objects : x \in os <=> applied[r][x] = "ok"
  BY DEF GetResources
<1> HIDE DEF u, new, os
<1>4. /\ Works(r) /\ su'[r] = u
      /\ \A x \in objects : x \in tasks'[r] <=> x \in tasks[r]
      /\ \A x \in objects : x # "ing" => (Concern(tasks'[r], x) <=> Concern(tasks[r], x))
      /\ Concern(tasks[r], "ing")
      /\ "ing" \in objects /\ "ing" \notin os => outcome["ing"] # "ok" \/ Concern(tasks'[r], "ing")
  BY <1>1, SourceTask DEF os
<1>5. u.status \in AddressValues /\ \A x \in objects : IsStatus(lister[r][x])
  BY <1>4, KnownValues, StatusType DEF CurrentInv, Base, PrecedenceInv, TypesInv, FlagInv
<1>6. ~ReportsStatus(r) => UNCHANGED <<api, suspect>>
  BY <1>1 DEF Report
<1>7. ASSUME ReportsStatus(r), NEW x \in objects, x \notin os
      PROVE  /\ x \in suspect => x \in suspect'
             /\ api'[x] = api[x]
  BY <1>1, <1>2, <1>7, Reported
<1>8. ASSUME ReportsStatus(r), NEW x \in objects, x \in os, x \notin suspect'
      PROVE  /\ lister[r][x] = api[x] /\ ~Concern(tasks'[r], x)
             /\ api'[x] = IF new[x] # Nil THEN new[x] ELSE api[x]
  BY <1>1, <1>2, <1>8, Reported
<1>9. ASSUME ReportsStatus(r), NEW x \in objects \ {"ing"}, x \in os, x \notin suspect'
      PROVE  api'[x].state = outcome[x]
  <2>1. x \in {"vs", "vsr"} /\ "ok" \in States
    BY DEF CurrentInv, Base, FlagInv, States
  <2>2. outcome[x] = "ok"
    <3>1. x \notin tasks[r]
      BY <1>4, <1>8, <1>9 DEF Concern
    <3> QED
      BY <1>3, <1>9, <3>1 DEF CurrentInv, CaughtUp
  <2> QED
    BY <1>2, <1>5, <1>8, <1>9, <2>1, <2>2, StateAfterSync
<1>10. ASSUME ReportsStatus(r), "ing" \in os, "ing" \in objects, "ing" \notin suspect', report
       PROVE  api'["ing"].addr = su'[r].status /\ ~Concern(tasks'[r], "ing")
  <2>1. lister[r]["ing"].state \in States /\ IsStatus(lister[r]["ing"])
    BY <1>10, KnownValues DEF CurrentInv
  <2>2. new["ing"] = UpdateIngress(lister[r]["ing"], u.status)
    BY <1>2, <1>10 DEF StatusAfterSync
  <2> QED
    BY <1>4, <1>5, <1>8, <1>10, <2>1, <2>2, AddressAfterSync
<1> QED
  BY <1>4, <1>6, <1>7, <1>9, <1>10, CurrentWorker DEF Same

LEMMA CurrentService ==
  ASSUME CurrentInv, Base', NEW r \in Replicas, SyncService(r)
  PROVE  CurrentInv'
<1> DEFINE u == SaveStatusFromExternalService(su[r], service)
           os == GetResources(r)
           new == [x \in os |-> ExternalEndpoints(x, lister[r][x], u)]
<1>1. /\ Takes(r, "service") /\ UNCHANGED applied /\ su' = [su EXCEPT ![r] = u]
      /\ Report(r, {"ing"} \cap os, new)
  BY DEF SyncService
<1>2. DOMAIN new = os /\ \A x \in os : new[x] = ExternalEndpoints(x, lister[r][x], u)
  OBVIOUS
<1> HIDE DEF u, new, os
<1>3. /\ Works(r) /\ su'[r] = u
      /\ \A x \in objects : x # "ing" => (Concern(tasks'[r], x) <=> Concern(tasks[r], x))
      /\ Concern(tasks[r], "ing")
      /\ "ing" \in objects /\ "ing" \notin os => outcome["ing"] # "ok" \/ Concern(tasks'[r], "ing")
  BY <1>1, SourceTask DEF os
<1>4. u.status \in AddressValues /\ \A x \in objects : IsStatus(lister[r][x])
  BY <1>3, KnownValues, StatusType DEF CurrentInv, Base, PrecedenceInv, TypesInv, FlagInv
<1>5. ~ReportsStatus(r) => UNCHANGED <<api, suspect>>
  BY <1>1 DEF Report
<1>6. ASSUME ReportsStatus(r), NEW x \in objects, x \notin os
      PROVE  /\ x \in suspect => x \in suspect'
             /\ api'[x] = api[x]
  BY <1>1, <1>2, <1>6, Reported
<1>7. ASSUME ReportsStatus(r), NEW x \in objects, x \in os, x \notin suspect'
      PROVE  /\ lister[r][x] = api[x] /\ ~Concern(tasks'[r], x)
             /\ api'[x] = IF new[x] # Nil THEN new[x] ELSE api[x]
  BY <1>1, <1>2, <1>7, Reported
<1>8. ASSUME ReportsStatus(r), NEW x \in objects \ {"ing"}, x \in os, x \notin suspect'
      PROVE  x \notin suspect /\ api'[x].state = api[x].state
  <2>1. x \notin suspect
    BY <1>1, <1>2, <1>8, Reported
  <2>2. new[x] = [lister[r][x] EXCEPT !.addr = u.status]
    BY <1>2, <1>8 DEF ExternalEndpoints
  <2> QED
    BY <1>4, <1>7, <1>8, <2>1, <2>2 DEF IsStatus
<1>9. ASSUME ReportsStatus(r), "ing" \in os, "ing" \in objects, "ing" \notin suspect', report
      PROVE  api'["ing"].addr = su'[r].status /\ ~Concern(tasks'[r], "ing")
  <2>1. lister[r]["ing"].state \in States /\ IsStatus(lister[r]["ing"])
    BY <1>9, KnownValues DEF CurrentInv
  <2>2. new["ing"] = UpdateIngress(lister[r]["ing"], u.status)
    BY <1>2, <1>9 DEF ExternalEndpoints
  <2> QED
    BY <1>3, <1>4, <1>7, <1>9, <2>1, <2>2, AddressAfterSync
<1> QED
  BY <1>3, <1>5, <1>6, <1>8, <1>9, CurrentWorker DEF Same

-----------------------------------------------------------------------------
(* The leader *)

\* A step of r's OnStartedLeading that is done with the object at its head.
Pops(r, o) ==
  /\ UNCHANGED <<objects, report, outcome, su, tasks, applied, observed>>
  /\ \A q \in Replicas \ {r} : callback'[q] = callback[q]
  /\ callback[r].todo # <<>> /\ Head(callback[r].todo) = o
  /\ callback'[r].todo = Tail(callback[r].todo) /\ callback'[r].write = Nil

LEMMA CurrentPop ==
  ASSUME CurrentInv, Base', NEW r \in Replicas, NEW o, Pops(r, o),
         \A x \in objects \ {o} : api'[x] = api[x] /\ (x \in suspect => x \in suspect'),
         o # "ing" /\ o \notin suspect' =>
           \/ api'[o].state = outcome[o]
           \/ Concern(tasks[r], o) /\ api'[o] = api[o] /\ o \notin suspect,
         o = "ing" /\ o \notin suspect' /\ report /\ outcome[o] = "ok" =>
           \/ api'[o].addr = su[r].status /\ ~Concern(tasks[r], o)
           \/ Concern(tasks[r], o) /\ api'[o] = api[o] /\ o \notin suspect
  PROVE  CurrentInv'
<1>1. /\ UNCHANGED <<objects, report, outcome, su, tasks, applied, observed>>
      /\ \A q \in Replicas : ReportsStatus(q)' <=> ReportsStatus(q)
  BY DEF Pops, ReportsStatus
<1>2. callback[r].todo \in Seq(objects) /\ callback[r].todo # <<>> /\ o \in objects /\ ReportsStatus(r)
  BY DEF Pops, CurrentInv, LeaderOk
<1>3. ASSUME NEW q \in Replicas PROVE LeaderOk(q)' /\ CaughtUp(q)'
  <2>1. CaughtUp(q)'
    BY <1>1 DEF CurrentInv, CaughtUp
  <2>2. CASE q # r
    BY <1>1, <2>1, <2>2 DEF CurrentInv, LeaderOk, Pops
  <2>3. CASE q = r
    <3>1. Tail(callback[r].todo) \in Seq(objects)
      BY <1>2
    <3> QED
      BY <1>1, <1>2, <2>1, <2>3, <3>1 DEF LeaderOk, Pops
  <2> QED
    BY <2>2, <2>3
<1>4. ASSUME NEW q \in Replicas, NEW x, Due(q, x), x # o \/ Concern(tasks[q], x) \/ q # r
      PROVE  Due(q, x)'
  <2>1. CASE q # r \/ Concern(tasks[q], x)
    BY <1>1, <1>4, <2>1 DEF Due, InTodo, Pops
  <2>2. CASE q = r /\ ~Concern(tasks[q], x)
    <3>1. PICK i \in DOMAIN callback[r].todo : callback[r].todo[i] = x
      BY <1>4, <2>2 DEF Due, InTodo
    <3>2. i # 1 /\ i \in 1..Len(callback[r].todo)
      BY <1>2, <1>4, <2>2, <3>1 DEF Pops
    <3>3. i - 1 \in DOMAIN Tail(callback[r].todo) /\ Tail(callback[r].todo)[i - 1] = x
      BY <1>2, <3>1, <3>2
    <3> QED
      BY <2>2, <3>3 DEF Due, InTodo, Pops
  <2> QED
    BY <2>1, <2>2
<1>5. ASSUME NEW x, AllDue(x), x # o \/ Concern(tasks[r], x) PROVE AllDue(x)'
  BY <1>1, <1>4, <1>5 DEF AllDue
<1>6. ASSUME NEW x \in objects \ {"ing"} PROVE StateInv(x)'
  BY <1>1, <1>5 DEF CurrentInv, StateInv
<1>7. ASSUME "ing" \in objects PROVE AddrInv'
  <2>1. ASSUME NEW q \in Replicas, FromReplica(q), api'["ing"] = api["ing"] PROVE FromReplica(q)'
    BY <1>1, <2>1 DEF FromReplica
  <2>2. CASE o # "ing"
    BY <1>1, <1>5, <1>7, <2>1, <2>2 DEF CurrentInv, AddrInv
  <2>3. CASE o = "ing" /\ api'[o].addr = su[r].status /\ ~Concern(tasks[r], o)
    BY <1>1, <1>2, <2>3 DEF AddrInv, FromReplica
  <2>4. CASE o = "ing" /\ Concern(tasks[r], o) /\ api'[o] = api[o] /\ o \notin suspect
    BY <1>1, <1>5, <1>7, <2>1, <2>4 DEF CurrentInv, AddrInv
  <2> QED
    BY <1>1, <2>2, <2>3, <2>4 DEF AddrInv
<1> QED
  BY <1>1, <1>3, <1>6, <1>7 DEF CurrentInv

\* What does not touch the statuses, the tasks and who reports
LEMMA CurrentSame ==
  ASSUME CurrentInv, Base',
         UNCHANGED <<objects, report, outcome, su, tasks, applied, observed, api, suspect>>,
         \A q \in Replicas : callback'[q].todo = callback[q].todo /\ LeaderOk(q)'
  PROVE  CurrentInv'
<1>1. \A q \in Replicas : ReportsStatus(q)' <=> ReportsStatus(q)
  BY DEF ReportsStatus
<1>2. \A q \in Replicas : CaughtUp(q)'
  BY DEF CurrentInv, CaughtUp
<1>3. \A o : AllDue(o) => AllDue(o)'
  BY <1>1 DEF AllDue, Due, InTodo
<1>4. \A q \in Replicas : FromReplica(q) => FromReplica(q)'
  BY <1>1 DEF FromReplica
<1> QED
  BY <1>2, <1>3, <1>4 DEF CurrentInv, StateInv, AddrInv

LEMMA CurrentReads ==
  ASSUME CurrentInv, Base', NEW r \in Replicas, LeaderReads(r)
  PROVE  CurrentInv'
<1> DEFINE o == Head(callback[r].todo)
           copy == lister[r][o]
           new == IF o = "ing" THEN (IF o \in GetResources(r) THEN ExternalEndpoints(o, copy, su[r]) ELSE Nil)
                  ELSE UpdateVSStatus(copy, latestEvent(events[o]), su[r])
           outdated == copy # api[o] \/ (o # "ing" /\ latestEvent(events[o]) # applied[r][o])
           w == [new |-> new, copy |-> copy, su |-> su[r], applied |-> applied[r][o],
                 outdated |-> outdated]
<1>1. callback' = [callback EXCEPT ![r] =
                     IF new = Nil THEN [todo |-> Tail(@.todo), write |-> Nil]
                     ELSE [todo |-> @.todo, write |-> w]]
  BY Zenon DEF LeaderReads
<1>2. /\ callback[r].todo # <<>>
      /\ suspect' = IF new = Nil /\ outdated THEN suspect \cup {o} ELSE suspect
      /\ UNCHANGED <<objects, report, outcome, api, su, tasks, applied, observed>>
  BY Zenon DEF LeaderReads, process, election, cluster
<1>3. o \in objects /\ ReportsStatus(r)
  BY <1>2 DEF CurrentInv, LeaderOk
<1>4. /\ su[r].status \in AddressValues /\ outcome[o] \in States /\ IsStatus(copy)
      /\ o = "ing" => copy.state \in States
  BY <1>3, KnownValues DEF CurrentInv
<1>5. CaughtUp(r) /\ DOMAIN callback = Replicas
  BY DEF CurrentInv, Base, FlagInv
<1>6. ASSUME o # "ing", new = Nil, ~outdated, ~Concern(tasks[r], o) PROVE api[o].state = outcome[o]
  <2>1. copy = api[o] /\ latestEvent(events[o]) = outcome[o]
    BY <1>3, <1>5, <1>6 DEF CaughtUp, Concern
  <2>2. [state |-> latestEvent(events[o]), addr |-> su[r].status] # Nil
    BY <1>4, <2>1, NilAssumption DEF NilAssumption
  <2> QED
    BY <1>6, <2>1, <2>2 DEF UpdateVSStatus
<1>7. ASSUME o = "ing", new = Nil, ~outdated, ~Concern(tasks[r], o), report, outcome[o] = "ok"
      PROVE  api[o].addr = su[r].status
  <2>1. copy = api[o] /\ o \in GetResources(r)
    BY <1>3, <1>5, <1>7 DEF CaughtUp, Concern, GetResources
  <2>2. new = UpdateIngress(copy, su[r].status)
    BY <1>7, <2>1 DEF ExternalEndpoints
  <2> QED
    BY <1>4, <1>7, <2>1, <2>2, AddressAfterSync
<1> HIDE DEF o, copy, new, outdated, w
<1>8. CASE new = Nil
  <2>1. Pops(r, o)
    BY <1>1, <1>2, <1>5, <1>8 DEF Pops, o
  <2>2. o \notin suspect' => ~outdated /\ o \notin suspect
    BY <1>2, <1>8
  <2> QED
    BY <1>2, <1>6, <1>7, <1>8, <2>1, <2>2, CurrentPop
<1>9. CASE new # Nil
  <2>1. /\ \A q \in Replicas : callback'[q].todo = callback[q].todo
        /\ \A q \in Replicas \ {r} : callback'[q] = callback[q]
    BY <1>1, <1>5, <1>9
  <2>2. ASSUME NEW q \in Replicas, q # r PROVE LeaderOk(q)'
    BY <1>2, <2>1, <2>2 DEF CurrentInv, LeaderOk, ReportsStatus
  <2>3. LeaderOk(r)'
    <3>1. callback[r].todo \in Seq(objects)
      BY DEF CurrentInv, LeaderOk
    <3>2. callback'[r].write # Nil /\ Head(callback'[r].todo) = "ing" =>
            callback'[r].write.new.addr = callback'[r].write.su.status
      BY <1>3, <2>1, ReadIngress DEF CurrentInv, Base, o
    <3> QED
      BY <1>2, <1>3, <2>1, <3>1, <3>2 DEF LeaderOk, ReportsStatus
  <2>4. UNCHANGED suspect
    BY <1>2, <1>9
  <2> QED
    BY <1>2, <2>1, <2>2, <2>3, <2>4, CurrentSame
<1> QED
  BY <1>8, <1>9

LEMMA CurrentWrites ==
  ASSUME CurrentInv, Base', NEW r \in Replicas, LeaderWrites(r)
  PROVE  CurrentInv'
<1> DEFINE o == Head(callback[r].todo)
           w == callback[r].write
           marked == \/ w.outdated \/ w.copy # api[o] \/ w.su # su[r] \/ w.applied # applied[r][o]
                     \/ o # "ing" /\ w.new.state # applied[r][o]
                     \/ Concern(tasks[r], o)
<1>1. /\ w # Nil
      /\ api' = [api EXCEPT ![o] = w.new]
      /\ suspect' = IF marked THEN suspect \cup {o} ELSE suspect \ {o}
      /\ callback' = [callback EXCEPT ![r] = [todo |-> Tail(@.todo), write |-> Nil]]
      /\ UNCHANGED <<objects, report, outcome, su, tasks, applied, observed>>
  BY Zenon DEF LeaderWrites, process, election, cluster
<1>2. callback[r].todo # <<>> /\ DOMAIN callback = Replicas /\ DOMAIN api = objects
  BY <1>1 DEF CurrentInv, Base, FlagInv, CallbackOk
<1>3. o \in objects
  BY <1>2 DEF CurrentInv, LeaderOk
<1>4. LeaderOk(r) /\ CaughtUp(r)
  BY DEF CurrentInv
<1>5. o = "ing" => w.new.addr = w.su.status
  BY <1>1, <1>4 DEF LeaderOk
<1>6. ~Concern(tasks[r], o) => applied[r][o] = outcome[o]
  BY <1>3, <1>4 DEF CaughtUp, Concern
<1>7. ~marked => /\ w.su = su[r] /\ ~Concern(tasks[r], o)
                 /\ o # "ing" => w.new.state = applied[r][o]
  OBVIOUS
<1>8. Pops(r, o)
  BY <1>1, <1>2 DEF Pops
<1> HIDE DEF o, w, marked
<1>9. /\ \A x \in objects \ {o} : api'[x] = api[x] /\ (x \in suspect => x \in suspect')
      /\ o \notin suspect' => ~marked
      /\ api'[o] = w.new
  BY <1>1, <1>2, <1>3
<1> QED
  BY <1>5, <1>6, <1>7, <1>8, <1>9, CurrentPop

LEMMA CurrentAcquire ==
  ASSUME CurrentInv, Base', NEW r \in Replicas, Acquire(r)
  PROVE  CurrentInv'
<1> DEFINE todo == IfThere("ing") \o IfThere("vs") \o IfThere("vsr")
<1>1. /\ observed' = [observed EXCEPT ![r] = r]
      /\ callback' = [callback EXCEPT ![r].todo = todo]
      /\ UNCHANGED <<objects, report, outcome, api, suspect, su, tasks, applied>>
  BY DEF Acquire, cluster, process
<1>2. callback[r].write = Nil /\ DOMAIN callback[r] = {"todo", "write"} /\ DOMAIN callback = Replicas
  BY DEF Acquire, CurrentInv, Base, FlagInv, CallbackOk
<1>3. todo \in Seq(objects)
  BY DEF IfThere
<1>4. ASSUME NEW o \in objects PROVE \E i \in DOMAIN todo : todo[i] = o
  <2>1. o \in {"ing", "vs", "vsr"}
    BY DEF CurrentInv, Base, FlagInv
  <2>2. /\ IfThere("ing") \in Seq(objects) /\ IfThere("vs") \in Seq(objects) /\ IfThere("vsr") \in Seq(objects)
        /\ IfThere(o) = <<o>>
    BY DEF IfThere
  <2>3. CASE o = "ing"
    <3>1. 1 \in DOMAIN todo /\ todo[1] = o
      BY <2>2, <2>3
    <3> QED
      BY <3>1
  <2>4. CASE o = "vs"
    <3> DEFINE i == Len(IfThere("ing")) + 1
    <3>1. i \in DOMAIN todo /\ todo[i] = o
      BY <2>2, <2>4
    <3> QED
      BY <3>1
  <2>5. CASE o = "vsr"
    <3> DEFINE i == Len(IfThere("ing")) + Len(IfThere("vs")) + 1
    <3>1. i \in DOMAIN todo /\ todo[i] = o
      BY <2>2, <2>5
    <3> QED
      BY <3>1
  <2> QED
    BY <2>1, <2>3, <2>4, <2>5
<1> HIDE DEF todo
<1>5. /\ callback'[r].todo = todo /\ callback'[r].write = Nil /\ observed'[r] = r
      /\ \A q \in Replicas \ {r} : callback'[q] = callback[q] /\ observed'[q] = observed[q]
      /\ DOMAIN observed' = Replicas
  BY <1>1, <1>2 DEF CurrentInv
<1>6. ASSUME NEW q \in Replicas PROVE LeaderOk(q)' /\ CaughtUp(q)'
  <2>1. CaughtUp(q)'
    BY <1>1 DEF CurrentInv, CaughtUp
  <2>2. LeaderOk(q)'
    BY <1>1, <1>3, <1>5 DEF CurrentInv, LeaderOk, ReportsStatus
  <2> QED
    BY <2>1, <2>2
<1>7. ASSUME NEW o \in objects, AllDue(o) PROVE AllDue(o)'
  BY <1>1, <1>4, <1>5, <1>7 DEF AllDue, Due, InTodo, ReportsStatus
<1>8. \A q \in Replicas : FromReplica(q) => FromReplica(q)'
  BY <1>1, <1>5 DEF FromReplica, ReportsStatus
<1> QED
  BY <1>1, <1>5, <1>6, <1>7, <1>8 DEF CurrentInv, StateInv, AddrInv

\* A replica that crashes has no more statuses to report.  If it had the address of an
\* Ingress, either all others that report have it too, or it is marked.
LEMMA CurrentCrash ==
  ASSUME CurrentInv, Base', NEW r \in Replicas, Crash(r)
  PROVE  CurrentInv'
<1>1. /\ UNCHANGED <<objects, report, outcome, api>>
      /\ observed' = [observed EXCEPT ![r] = Nil]
      /\ callback' = [callback EXCEPT ![r] = NoCallback]
      /\ su' = [su EXCEPT ![r] = NewStatusUpdater]
      /\ tasks' = [tasks EXCEPT ![r] = AllTasks]
      /\ applied' = [applied EXCEPT ![r] = [o \in objects |-> Nil]]
      /\ suspect' = suspect \cup {o \in objects \cap {"ing"} :
                                    /\ ReportsStatus(r)
                                    /\ \E q \in Replicas \ {r} : /\ ReportsStatus(q)
                                                                 /\ su[q].status # api[o].addr}
  BY DEF Crash, cluster
<1>2. /\ callback'[r] = NoCallback /\ observed'[r] = Nil /\ tasks'[r] = AllTasks
      /\ applied'[r] = [o \in objects |-> Nil]
      /\ DOMAIN observed' = Replicas /\ DOMAIN applied' = Replicas
      /\ \A q \in Replicas \ {r} :
           /\ callback'[q] = callback[q] /\ observed'[q] = observed[q] /\ tasks'[q] = tasks[q]
           /\ applied'[q] = applied[q] /\ su'[q] = su[q]
  BY <1>1 DEF CurrentInv, Base, FlagInv, PrecedenceInv
<1>3. ~ReportsStatus(r)' /\ \A q \in Replicas \ {r} : ReportsStatus(q)' <=> ReportsStatus(q)
  BY <1>2, NilAssumption DEF ReportsStatus, NilAssumption
<1>4. LeaderOk(r)' /\ CaughtUp(r)'
  <2>1. callback'[r].todo = <<>> /\ callback'[r].write = Nil
    BY <1>2 DEF NoCallback
  <2>2. objects' = objects /\ objects \subseteq tasks'[r]
    BY <1>1, <1>2 DEF AllTasks
  <2>3. <<>> \in Seq(objects)
    OBVIOUS
  <2>4. LeaderOk(r)'
    BY <2>1, <2>2, <2>3 DEF LeaderOk
  <2>5. DOMAIN applied'[r] = objects
    BY <1>2
  <2> QED
    BY <2>2, <2>4, <2>5 DEF CaughtUp
<1>5. ASSUME NEW q \in Replicas \ {r} PROVE LeaderOk(q)' /\ CaughtUp(q)'
  BY <1>1, <1>2 DEF CurrentInv, LeaderOk, CaughtUp, ReportsStatus
<1>6. ASSUME NEW o, AllDue(o) PROVE AllDue(o)'
  BY <1>2, <1>3, <1>6 DEF AllDue, Due, InTodo
<1>7. \A o \in objects \ {"ing"} : StateInv(o)'
  BY <1>1, <1>6 DEF CurrentInv, StateInv
<1>8. ASSUME NEW q \in Replicas \ {r}, ReportsStatus(q), api["ing"].addr = su[q].status,
             ~Concern(tasks[q], "ing")
      PROVE  FromReplica(q)'
  BY <1>1, <1>2, <1>3, <1>8 DEF FromReplica
<1>9. ASSUME "ing" \in objects PROVE AddrInv'
  <2>1. CASE FromReplica(r) /\ "ing" \notin suspect'
    <3>1. \A q \in Replicas \ {r} : ReportsStatus(q) => su[q].status = api["ing"].addr
      BY <1>1, <1>9, <2>1 DEF FromReplica
    <3>2. CASE AllDue("ing")'
      BY <3>2 DEF AddrInv
    <3>3. CASE ~AllDue("ing")'
      <4>1. PICK q \in Replicas : ReportsStatus(q)' /\ ~Due(q, "ing")'
        BY <3>3 DEF AllDue
      <4>2. q # r /\ ReportsStatus(q) /\ ~Concern(tasks[q], "ing")
        BY <1>2, <1>3, <4>1 DEF Due
      <4> QED
        BY <1>8, <3>1, <4>2 DEF AddrInv
    <3> QED
      BY <3>2, <3>3
  <2>2. CASE \E q \in Replicas \ {r} : FromReplica(q)
    BY <1>8, <2>2 DEF FromReplica, AddrInv
  <2> QED
    BY <1>1, <1>6, <1>9, <2>1, <2>2 DEF CurrentInv, AddrInv
<1> QED
  BY <1>1, <1>2, <1>4, <1>5, <1>7, <1>9 DEF CurrentInv

-----------------------------------------------------------------------------
\* For any number of replicas, changes, failovers and crashes, the statuses that are
\* left when nothing is left to do are right, except for the objects whose last update
\* was computed from something out of date.
THEOREM StatusesBecomeCurrent == Spec => []StaleOnlyIfSuspect
<1>1. CurrentInv /\ [Next]_vars => CurrentInv'
  <2> SUFFICES ASSUME CurrentInv, [Next]_vars PROVE CurrentInv'
    OBVIOUS
  <2>1. Base'
    BY BaseNext DEF CurrentInv
  <2>2. ASSUME (\E r \in Replicas : Observe(r) \/ RenewFails(r)) \/ UNCHANGED vars
        PROVE  CurrentInv'
    <3>1. UNCHANGED <<objects, report, outcome, su, tasks, applied, observed, api, suspect, callback>>
      BY <2>2 DEF Observe, RenewFails, vars, cluster, process, election
    <3>2. \A q \in Replicas : LeaderOk(q)'
      BY <3>1 DEF CurrentInv, LeaderOk, ReportsStatus
    <3> QED
      BY <2>1, <3>1, <3>2, CurrentSame
  <2> QED
    BY <2>1, <2>2, CurrentCluster, CurrentObject, CurrentConfigMap, CurrentService, CurrentReads,
       CurrentWrites, CurrentAcquire, CurrentCrash DEF Next
<1>2. CurrentInv => StaleOnlyIfSuspect
  <2> SUFFICES ASSUME CurrentInv, Quiet, NEW o \in objects \ suspect
               PROVE  IF o = "ing"
                      THEN report /\ outcome[o] = "ok" =>
                             \E r \in Replicas : ReportsStatus(r) /\ api[o].addr = su[r].status
                      ELSE api[o].state = outcome[o]
    BY DEF StaleOnlyIfSuspect
  <2>1. PICK r \in Replicas : ReportsStatus(r)
    BY DEF Quiet
  <2>2. tasks[r] = {} /\ callback[r].todo = <<>>
    BY DEF Quiet, NoCallback
  <2>3. ~Due(r, o)
    BY <2>2 DEF Due, Concern, InTodo
  <2>4. ~AllDue(o)
    BY <2>1, <2>3 DEF AllDue
  <2>5. CASE o = "ing"
    BY <2>4, <2>5 DEF CurrentInv, AddrInv, FromReplica
  <2>6. CASE o # "ing"
    BY <2>4, <2>6 DEF CurrentInv, StateInv
  <2> QED
    BY <2>5, <2>6
<1> QED
  BY <1>1, <1>2, CurrentInit, PTL DEF Spec
=============================================================================
