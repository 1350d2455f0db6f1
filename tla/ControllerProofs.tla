--------------------------- MODULE ControllerProofs ---------------------------
(***************************************************************************)
(* What Controller keeps, for any objects and specifications and in any    *)
(* order of what users, informers and the worker do.                       *)
(*                                                                         *)
(* ControllerInv is the conjunction of four invariants.                    *)
(*   UpdateInv   an object that waits for no task is stored as the lister  *)
(*               has it: the keys of the queue are exactly those that may  *)
(*               differ.                                                   *)
(*   ConfInv     the stored objects are as Configuration needs them, and   *)
(*               Configuration keeps its own invariants.  Two objects with *)
(*               the same UID would break the order of claimants; that     *)
(*               there are none takes both the cluster and the store, in   *)
(*               which an object may outlive its deletion.                 *)
(*   ResultsInv  the changes to apply are of different resources, and      *)
(*               carry these as they are active.                           *)
(*   TypesInv    the types.                                                *)
(*                                                                         *)
(* The files need more.  rebuild compares the resources of the last time   *)
(* with the new ones by generation and annotations only (IsEqual).  Every  *)
(* object in a resource or a file is historic (Historic, AgeInv, PartsInv, *)
(* FilesInv): what has its UID now is a later version of it, so that equal *)
(* generations mean equal objects, or one that was created again.          *)
(***************************************************************************)
EXTENDS Controller, ConfigurationLemmas

\* how long the provers may work on a step
USE ZenonT(5), SMTT(60)

\* Objects, and what an update by a user may change in them

\* the object that the API server makes of a specification
Made(s, uid, created, gen) == [s EXCEPT !.uid = uid, !.created = created, !.generation = gen]

\* b is a, or what updates of a have led to: the generation grows when a counted part
\* of the specification changes
Older(k, a, b) ==
  /\ a.uid = b.uid /\ a.created = b.created
  /\ a.generation <= b.generation
  /\ a.generation = b.generation => Counted(k, SpecOf(a)) = Counted(k, SpecOf(b))

Metadata == {"uid", "created", "generation"}

LEMMA KeyIsPair ==
  ASSUME NEW k \in Keys
  PROVE  /\ k = <<k[1], k[2]>> /\ k[2] \in Int
         /\ k[1] \in {"Ingress", "VirtualServer", "VirtualServerRoute"}
  BY SpecsAssumption DEF SpecsAssumption, Keys

LEMMA MadeFields ==
  ASSUME NEW k \in Keys, NEW s, IsObject(k, s), NEW uid, NEW created, NEW gen
  PROVE  LET o == Made(s, uid, created, gen)
         IN /\ o = [f \in Fields(k[1]) |-> o[f]]
            /\ o.uid = uid /\ o.created = created /\ o.generation = gen
            /\ \A f \in Fields(k[1]) \ Metadata : o[f] = s[f]
<1>1. s = [f \in Fields(k[1]) |-> s[f]] /\ Metadata \subseteq Fields(k[1])
  BY DEF IsObject, Fields, Metadata
<1> DEFINE D == Fields(k[1])
<1>2. s = [f \in D |-> s[f]] /\ {"uid", "created", "generation"} \subseteq D
  BY <1>1 DEF Metadata
<1> HIDE DEF D
<1>3. /\ Made(s, uid, created, gen) = [f \in D |-> Made(s, uid, created, gen)[f]]
      /\ Made(s, uid, created, gen).uid = uid
      /\ Made(s, uid, created, gen).created = created
      /\ Made(s, uid, created, gen).generation = gen
      /\ \A f \in D \ {"uid", "created", "generation"} : Made(s, uid, created, gen)[f] = s[f]
  BY <1>2 DEF Made
<1> QED
  BY <1>3 DEF D, Metadata

LEMMA MadeObject ==
  ASSUME NEW k \in Keys, NEW s \in Specs[k], NEW uid \in Int, NEW created \in Int, NEW gen \in Int
  PROVE  LET o == Made(s, uid, created, gen)
         IN /\ IsObject(k, o)
            /\ o.uid = uid /\ o.created = created /\ o.generation = gen
            /\ SpecOf(o) = s
<1> DEFINE o == Made(s, uid, created, gen)
<1>1. IsObject(k, s) /\ s.uid = 0 /\ s.created = 0 /\ s.generation = 0
  BY SpecsAssumption DEF SpecsAssumption, Keys
<1>2. /\ o = [f \in Fields(k[1]) |-> o[f]]
      /\ o.uid = uid /\ o.created = created /\ o.generation = gen
      /\ \A f \in Fields(k[1]) \ Metadata : o[f] = s[f]
  BY <1>1, MadeFields
<1>3. /\ "key" \in Fields(k[1]) \ Metadata
      /\ k[1] = "Ingress" => {"rules", "paths"} \subseteq Fields(k[1]) \ Metadata
      /\ k[1] = "VirtualServer" => {"host", "routes"} \subseteq Fields(k[1]) \ Metadata
      /\ Metadata \subseteq Fields(k[1])
  BY DEF Fields, Metadata
<1> HIDE DEF o
<1>4. IsObject(k, o)
  BY <1>1, <1>2, <1>3 DEF IsObject
<1>5. SpecOf(o) = s
  <2>1. SpecOf(o) = Made(o, 0, 0, 0)
    BY DEF SpecOf, Made
  <2> DEFINE t == SpecOf(o)
  <2>2. /\ t = [f \in Fields(k[1]) |-> t[f]]
        /\ t.uid = 0 /\ t.created = 0 /\ t.generation = 0
        /\ \A f \in Fields(k[1]) \ Metadata : t[f] = o[f]
    BY <1>4, <2>1, MadeFields
  <2> HIDE DEF t
  <2>3. \A f \in Fields(k[1]) : t[f] = s[f]
    BY <1>1, <1>2, <2>2 DEF Metadata
  <2>4. s = [f \in Fields(k[1]) |-> s[f]]
    BY <1>1 DEF IsObject
  <2>5. [f \in Fields(k[1]) |-> t[f]] = [f \in Fields(k[1]) |-> s[f]]
    BY <2>3
  <2> QED
    BY <2>2, <2>4, <2>5 DEF t
<1> QED
  BY <1>2, <1>4, <1>5 DEF o

LEMMA OlderReflexive ==
  ASSUME NEW k, NEW o, IsObject(k, o)
  PROVE  Older(k, o, o)
  BY DEF Older, IsObject

\* an update of b leaves the objects older that were older than b
LEMMA OlderUpdate ==
  ASSUME NEW k \in Keys, NEW a, NEW b, IsObject(k, a), IsObject(k, b), Older(k, a, b),
         NEW s \in Specs[k], NEW gen,
         gen = IF Counted(k, SpecOf(b)) = Counted(k, s) THEN b.generation ELSE b.generation + 1
  PROVE  /\ gen \in Int
         /\ Older(k, a, Made(s, b.uid, b.created, gen))
<1> DEFINE o == Made(s, b.uid, b.created, gen)
<1>1. /\ b.uid \in Int /\ b.created \in Int /\ b.generation \in Int /\ a.generation \in Int
      /\ gen \in Int
  BY DEF IsObject
<1>2. o.uid = b.uid /\ o.created = b.created /\ o.generation = gen /\ SpecOf(o) = s
  BY <1>1, MadeObject
<1> HIDE DEF o
<1>3. Older(k, a, o)
  BY <1>1, <1>2 DEF Older
<1> QED
  BY <1>1, <1>3 DEF o

\* the fields of an object that neither the API server sets nor an update may
\* change without a new generation
LEMMA CountedFields ==
  ASSUME NEW k \in Keys, NEW o, IsObject(k, o), NEW f \in Fields(k[1]) \ Metadata,
         k[1] = "Ingress" => f \notin {"annotations", "type"}
  PROVE  Counted(k, SpecOf(o))[f] = o[f]
<1> DEFINE t == SpecOf(o)
<1>1. /\ t = [g \in Fields(k[1]) |-> t[g]]
      /\ \A g \in Fields(k[1]) \ Metadata : t[g] = o[g]
  <2>1. t = Made(o, 0, 0, 0)
    BY DEF SpecOf, Made
  <2> HIDE DEF t
  <2> QED
    BY <2>1, MadeFields
<1>2. t[f] = o[f] /\ f \in DOMAIN t
  BY <1>1
<1> HIDE DEF t
<1>3. Counted(k, t)[f] = t[f]
  BY <1>2 DEF Counted
<1> QED
  BY <1>2, <1>3 DEF t

\* what IsEqual compares is enough: an object that is older and has the same
\* generation (and annotations) is the same object
LEMMA OlderSame ==
  ASSUME NEW k \in Keys, NEW a, NEW b, IsObject(k, a), IsObject(k, b), Older(k, a, b),
         a.generation = b.generation,
         k[1] = "Ingress" => a.annotations = b.annotations /\ a.type = b.type
  PROVE  a = b
<1>1. a.uid = b.uid /\ a.created = b.created /\ Counted(k, SpecOf(a)) = Counted(k, SpecOf(b))
  BY DEF Older
<1>2. ASSUME NEW f \in Fields(k[1]) PROVE a[f] = b[f]
  <2>1. CASE f \in Metadata
    BY <1>1, <2>1 DEF Metadata
  <2>2. CASE k[1] = "Ingress" /\ f \in {"annotations", "type"}
    BY <2>2
  <2>3. CASE f \notin Metadata /\ ~(k[1] = "Ingress" /\ f \in {"annotations", "type"})
    <3>1. Counted(k, SpecOf(a))[f] = a[f] /\ Counted(k, SpecOf(b))[f] = b[f]
      BY <2>3, CountedFields
    <3> QED
      BY <1>1, <3>1
  <2> QED
    BY <2>1, <2>2, <2>3
<1>3. /\ a = [f \in Fields(k[1]) |-> a[f]] /\ b = [f \in Fields(k[1]) |-> b[f]]
  BY DEF IsObject
<1>4. [f \in Fields(k[1]) |-> a[f]] = [f \in Fields(k[1]) |-> b[f]]
  BY <1>2
<1> QED
  BY <1>3, <1>4

Synced(k) == (Stored(k) <=> Wanted(k)) /\ (Stored(k) => StoredObject(k) = cluster[k])

\* An informer always enqueues (nothing shuts the queue down), the worker has one
\* task between Get and Done, and the objects of the listers have their keys.
TasksInv ==
  /\ DOMAIN cluster \subseteq Keys
  /\ \A k \in DOMAIN cluster : IsObject(k, cluster[k])
  /\ shuttingDown = FALSE
  /\ wpc \in {"get", "sync", "apply"}
  /\ wpc = "get" => processing = {}
  /\ wpc # "get" => \E k \in Keys : processing = {k}

UpdateInv ==
  /\ TasksInv
  /\ \A k \in Keys : k \notin dirty /\ ~(wpc = "sync" /\ k \in processing) => Synced(k)

-----------------------------------------------------------------------------
\* The store follows the lister

\* a step that leaves store and the object of a key keeps the key in sync
LEMMA SyncedUnchanged ==
  ASSUME NEW k, UNCHANGED store, Synced(k),
         k \in DOMAIN cluster' <=> k \in DOMAIN cluster,
         k \in DOMAIN cluster => cluster'[k] = cluster[k]
  PROVE  Synced(k)'
<1>1. /\ ingresses' = ingresses /\ virtualServers' = virtualServers
      /\ virtualServerRoutes' = virtualServerRoutes
  BY DEF store
<1>2. (Stored(k)' <=> Stored(k)) /\ StoredObject(k)' = StoredObject(k)
  BY <1>1 DEF Stored, StoredObject
<1>3. Wanted(k)' <=> Wanted(k)
  BY DEF Wanted, IsValid, validateIngress, validateIngressSpec, isMaster,
         isMinion, validateMasterSpec, validateMinionSpec
<1> QED
  BY <1>2, <1>3 DEF Synced, Wanted

-----------------------------------------------------------------------------
\* A sync brings the map of its kind in line with the lister, for its key.

\* m2 is m with the object of k as the lister has it
Follows(m2, m, k) ==
  /\ \A i : i # k[2] => (i \in DOMAIN m2 <=> i \in DOMAIN m) /\ (i \in DOMAIN m => m2[i] = m[i])
  /\ k[2] \in DOMAIN m2 <=> Wanted(k)
  /\ Wanted(k) => m2[k[2]] = cluster[k]

LEMMA KeepFollows ==
  ASSUME TasksInv, NEW k \in DOMAIN cluster, NEW m, NEW valid,
         Wanted(k) <=> cluster[k].class /\ valid
  PROVE  Follows(Keep(m, cluster[k], valid), m, k)
<1>1. cluster[k].key = k[2]
  BY DEF TasksInv, IsObject
<1>2. CASE Wanted(k)
  BY <1>1, <1>2 DEF Follows, Keep, Put
<1>3. CASE ~Wanted(k)
  BY <1>1, <1>3 DEF Follows, Keep, Drop
<1> QED
  BY <1>2, <1>3

LEMMA DropFollows ==
  ASSUME NEW k, k \notin DOMAIN cluster, NEW m
  PROVE  /\ Follows(Drop(m, k[2]), m, k)
         /\ k[2] \notin DOMAIN m => Follows(m, m, k)
  BY DEF Follows, Wanted, Drop

LEMMA SyncIngressFollows ==
  ASSUME TasksInv, NEW k \in Keys, k[1] = "Ingress", syncIngress(k)
  PROVE  /\ Follows(ingresses', ingresses, k)
         /\ UNCHANGED <<virtualServers, virtualServerRoutes>>
<1>1. CASE k \in DOMAIN cluster
  <2>1. Wanted(k) <=> cluster[k].class /\ validateIngress(cluster[k])
    BY <1>1 DEF Wanted, IsValid
  <2>2. /\ ingresses' = Keep(ingresses, cluster[k], validateIngress(cluster[k]))
        /\ UNCHANGED <<virtualServers, virtualServerRoutes>>
    BY <1>1 DEF syncIngress, AddOrUpdateIngress
  <2> QED
    BY <1>1, <2>1, <2>2, KeepFollows
<1>2. CASE k \notin DOMAIN cluster
  <2>1. /\ \/ k[2] \notin DOMAIN ingresses /\ ingresses' = ingresses
           \/ ingresses' = Drop(ingresses, k[2])
        /\ UNCHANGED <<virtualServers, virtualServerRoutes>>
    BY <1>2 DEF syncIngress, DeleteIngress, DeleteNothing, store
  <2> QED
    BY <1>2, <2>1, DropFollows
<1> QED
  BY <1>1, <1>2

LEMMA SyncVirtualServerFollows ==
  ASSUME TasksInv, NEW k \in Keys, k[1] = "VirtualServer", syncVirtualServer(k)
  PROVE  /\ Follows(virtualServers', virtualServers, k)
         /\ UNCHANGED <<ingresses, virtualServerRoutes>>
<1>1. CASE k \in DOMAIN cluster
  <2>1. Wanted(k) <=> cluster[k].class /\ cluster[k].valid
    BY <1>1 DEF Wanted, IsValid
  <2>2. /\ virtualServers' = Keep(virtualServers, cluster[k], cluster[k].valid)
        /\ UNCHANGED <<ingresses, virtualServerRoutes>>
    BY <1>1 DEF syncVirtualServer, AddOrUpdateVirtualServer
  <2> QED
    BY <1>1, <2>1, <2>2, KeepFollows
<1>2. CASE k \notin DOMAIN cluster
  <2>1. /\ \/ k[2] \notin DOMAIN virtualServers /\ virtualServers' = virtualServers
           \/ virtualServers' = Drop(virtualServers, k[2])
        /\ UNCHANGED <<ingresses, virtualServerRoutes>>
    BY <1>2 DEF syncVirtualServer, DeleteVirtualServer, DeleteNothing, store
  <2> QED
    BY <1>2, <2>1, DropFollows
<1> QED
  BY <1>1, <1>2

LEMMA SyncVirtualServerRouteFollows ==
  ASSUME TasksInv, NEW k \in Keys, k[1] = "VirtualServerRoute", syncVirtualServerRoute(k)
  PROVE  /\ Follows(virtualServerRoutes', virtualServerRoutes, k)
         /\ UNCHANGED <<ingresses, virtualServers>>
<1>1. CASE k \in DOMAIN cluster
  <2>1. Wanted(k) <=> cluster[k].class /\ cluster[k].valid
    BY <1>1 DEF Wanted, IsValid
  <2>2. /\ virtualServerRoutes' = Keep(virtualServerRoutes, cluster[k], cluster[k].valid)
        /\ UNCHANGED <<ingresses, virtualServers>>
    BY <1>1 DEF syncVirtualServerRoute, AddOrUpdateVirtualServerRoute
  <2> QED
    BY <1>1, <2>1, <2>2, KeepFollows
<1>2. CASE k \notin DOMAIN cluster
  <2>1. /\ \/ k[2] \notin DOMAIN virtualServerRoutes /\ virtualServerRoutes' = virtualServerRoutes
           \/ virtualServerRoutes' = Drop(virtualServerRoutes, k[2])
        /\ UNCHANGED <<ingresses, virtualServers>>
    BY <1>2 DEF syncVirtualServerRoute, DeleteVirtualServerRoute, DeleteNothing, store
  <2> QED
    BY <1>2, <2>1, DropFollows
<1> QED
  BY <1>1, <1>2

\* the store after the sync of k: the object of k is the one of the lister, or gone
SyncedTo(k) ==
  /\ Stored(k)' <=> Wanted(k)
  /\ Wanted(k) => StoredObject(k)' = cluster[k]
  /\ \A j \in Keys \ {k} : /\ Stored(j)' <=> Stored(j)
                           /\ Stored(j) => StoredObject(j)' = StoredObject(j)

LEMMA SyncFollows ==
  ASSUME TasksInv, SyncTask
  PROVE  \E k \in Keys :
           /\ processing = {k}
           /\ SyncedTo(k)
           /\ \/ /\ k[1] = "Ingress" /\ syncIngress(k)
                 /\ Follows(ingresses', ingresses, k)
                 /\ UNCHANGED <<virtualServers, virtualServerRoutes>>
              \/ /\ k[1] = "VirtualServer" /\ syncVirtualServer(k)
                 /\ Follows(virtualServers', virtualServers, k)
                 /\ UNCHANGED <<ingresses, virtualServerRoutes>>
              \/ /\ k[1] = "VirtualServerRoute" /\ syncVirtualServerRoute(k)
                 /\ Follows(virtualServerRoutes', virtualServerRoutes, k)
                 /\ UNCHANGED <<ingresses, virtualServers>>
<1>1. PICK k \in processing :
        \/ k[1] = "Ingress" /\ syncIngress(k)
        \/ k[1] = "VirtualServer" /\ syncVirtualServer(k)
        \/ k[1] = "VirtualServerRoute" /\ syncVirtualServerRoute(k)
  BY DEF SyncTask
<1>2. processing = {k} /\ k \in Keys
  BY <1>1 DEF TasksInv, SyncTask
<1>3. \A j \in Keys : j # k /\ j[1] = k[1] => j[2] # k[2]
  BY <1>2, KeyIsPair
<1>4. CASE k[1] = "Ingress"
  <2>1. /\ syncIngress(k) /\ Follows(ingresses', ingresses, k)
        /\ UNCHANGED <<virtualServers, virtualServerRoutes>>
    BY <1>1, <1>2, <1>4, SyncIngressFollows
  <2>2. SyncedTo(k)
    BY <1>2, <1>3, <1>4, <2>1, KeyIsPair DEF Follows, SyncedTo, Stored, StoredObject
  <2> QED
    BY <1>2, <1>4, <2>1, <2>2
<1>5. CASE k[1] = "VirtualServer"
  <2>1. /\ syncVirtualServer(k) /\ Follows(virtualServers', virtualServers, k)
        /\ UNCHANGED <<ingresses, virtualServerRoutes>>
    BY <1>1, <1>2, <1>5, SyncVirtualServerFollows
  <2>2. SyncedTo(k)
    BY <1>2, <1>3, <1>5, <2>1, KeyIsPair DEF Follows, SyncedTo, Stored, StoredObject
  <2> QED
    BY <1>2, <1>5, <2>1, <2>2
<1>6. CASE k[1] = "VirtualServerRoute"
  <2>1. /\ syncVirtualServerRoute(k) /\ Follows(virtualServerRoutes', virtualServerRoutes, k)
        /\ UNCHANGED <<ingresses, virtualServers>>
    BY <1>1, <1>2, <1>6, SyncVirtualServerRouteFollows
  <2>2. SyncedTo(k)
    BY <1>2, <1>3, <1>6, <2>1, KeyIsPair DEF Follows, SyncedTo, Stored, StoredObject
  <2> QED
    BY <1>2, <1>6, <2>1, <2>2
<1> QED
  BY <1>2, <1>4, <1>5, <1>6, KeyIsPair

\* After the sync of k its object is in sync, and the others are as before.
LEMMA SyncTaskSyncs ==
  ASSUME UpdateInv, SyncTask, NEW j \in Keys, j \notin dirty
  PROVE  Synced(j)'
<1>1. cluster' = cluster /\ wpc = "sync" /\ TasksInv
  BY DEF SyncTask, api, UpdateInv
<1>2. PICK k \in Keys : processing = {k} /\ SyncedTo(k)
  BY <1>1, SyncFollows
<1>3. Wanted(j)' <=> Wanted(j)
  BY <1>1 DEF Wanted, IsValid, validateIngress, validateIngressSpec, isMaster,
     isMinion, validateMasterSpec, validateMinionSpec
<1>4. j # k => Synced(j)
  BY <1>2 DEF UpdateInv
<1> QED
  BY <1>1, <1>2, <1>3, <1>4 DEF SyncedTo, Synced

-----------------------------------------------------------------------------
\* A change by a user: the key becomes dirty, the objects of the others stay.
LEMMA UserStep ==
  ASSUME UpdateInv, NEW k \in Keys, Changed(k), UNCHANGED <<wpc, store>>, TasksInv',
         \A j \in Keys \ {k} : /\ j \in DOMAIN cluster' <=> j \in DOMAIN cluster
                               /\ j \in DOMAIN cluster => cluster'[j] = cluster[j]
  PROVE  UpdateInv'
<1>1. shuttingDown = FALSE
  BY DEF UpdateInv, TasksInv
<1>2. processing' = processing /\ dirty' = dirty \cup {k}
  BY <1>1 DEF Changed, Queue!Add
<1>3. ASSUME NEW j \in Keys, j \notin dirty', ~(wpc' = "sync" /\ j \in processing')
      PROVE  Synced(j)'
  <2>1. j # k /\ Synced(j)
    BY <1>2, <1>3 DEF UpdateInv
  <2>2. store' = store
    OBVIOUS
  <2>3. /\ j \in DOMAIN cluster' <=> j \in DOMAIN cluster
        /\ j \in DOMAIN cluster => cluster'[j] = cluster[j]
    BY <2>1
  <2> QED
    BY <2>1, <2>2, <2>3, SyncedUnchanged
<1> QED
  BY <1>3 DEF UpdateInv

LEMMA UpdateMakes ==
  ASSUME TasksInv, NEW k \in Keys, NEW s \in Specs[k], UpdateObject(k, s)
  PROVE  LET o == cluster[k]
             gen == IF Counted(k, SpecOf(o)) = Counted(k, s) THEN o.generation
                    ELSE o.generation + 1
         IN /\ k \in DOMAIN cluster /\ IsObject(k, o) /\ gen \in Int
            /\ cluster' = [cluster EXCEPT ![k] = Made(s, o.uid, o.created, gen)]
            /\ IsObject(k, Made(s, o.uid, o.created, gen))
<1> DEFINE o == cluster[k]
           gen == IF Counted(k, SpecOf(o)) = Counted(k, s) THEN o.generation
                  ELSE o.generation + 1
<1>1. k \in DOMAIN cluster /\ IsObject(k, o)
  BY DEF UpdateObject, TasksInv
<1>2. o.uid \in Int /\ o.created \in Int /\ gen \in Int
  BY <1>1 DEF IsObject
<1>3. cluster' = [cluster EXCEPT ![k] = Made(s, o.uid, o.created, gen)]
  BY DEF UpdateObject, Made
<1>4. IsObject(k, Made(s, o.uid, o.created, gen))
  BY <1>2, MadeObject
<1> QED
  BY <1>1, <1>2, <1>3, <1>4

LEMMA UsersInv ==
  ASSUME UpdateInv, Users(Specs, Uids, 1..MaxClock)
  PROVE  UpdateInv'
<1>1. PICK k \in Keys :
        \/ \E s \in Specs[k], uid \in Uids, t \in 1..MaxClock : CreateObject(k, s, uid, t)
        \/ \E s \in Specs[k] : UpdateObject(k, s)
        \/ DeleteObject(k)
  BY DEF Users, Keys
<1>2. TasksInv /\ shuttingDown = FALSE
  BY DEF UpdateInv, TasksInv
<1>3. Changed(k) /\ UNCHANGED <<wpc, store>>
  BY <1>1 DEF CreateObject, UpdateObject, DeleteObject, conf, store
<1>4. UNCHANGED <<processing, shuttingDown>>
  BY <1>3 DEF Changed, Queue!Add
<1> DEFINE OnlyOne ==
      /\ DOMAIN cluster' \subseteq Keys
      /\ \A j \in DOMAIN cluster' : IsObject(j, cluster'[j])
      /\ \A j \in Keys \ {k} : /\ j \in DOMAIN cluster' <=> j \in DOMAIN cluster
                               /\ j \in DOMAIN cluster => cluster'[j] = cluster[j]
<1>5. OnlyOne
  <2>1. ASSUME NEW s \in Specs[k], NEW uid \in Uids, NEW t \in 1..MaxClock,
               CreateObject(k, s, uid, t)
        PROVE  OnlyOne
    <3>1. cluster' = Put(cluster, k, Made(s, uid, t, 1))
      BY <2>1 DEF CreateObject, Made
    <3>2. uid \in Int /\ t \in Int /\ 1 \in Int
      BY UidsAssumption DEF UidsAssumption
    <3>3. IsObject(k, Made(s, uid, t, 1))
      BY <3>2, MadeObject
    <3> QED
      BY <1>2, <3>1, <3>3 DEF TasksInv, Put
  <2>2. ASSUME NEW s \in Specs[k], UpdateObject(k, s) PROVE OnlyOne
    <3>1. PICK gen \in Int :
            /\ cluster' = [cluster EXCEPT ![k] = Made(s, cluster[k].uid, cluster[k].created, gen)]
            /\ IsObject(k, Made(s, cluster[k].uid, cluster[k].created, gen))
      BY <1>2, <2>2, UpdateMakes
    <3> QED
      BY <1>2, <3>1 DEF TasksInv
  <2>3. ASSUME DeleteObject(k) PROVE OnlyOne
    BY <1>2, <2>3 DEF DeleteObject, Drop, TasksInv
  <2> QED
    BY <1>1, <2>1, <2>2, <2>3
<1>6. TasksInv'
  BY <1>2, <1>3, <1>4, <1>5 DEF TasksInv
<1> QED
  BY <1>3, <1>5, <1>6, UserStep

-----------------------------------------------------------------------------
\* The worker and the informer of statuses

LEMMA SameCluster ==
  ASSUME UNCHANGED <<cluster, store>>, NEW k, Synced(k)
  PROVE  Synced(k)'
<1>1. cluster' = cluster /\ store' = store
  OBVIOUS
<1> QED
  BY <1>1, SyncedUnchanged

LEMMA StepInv == UpdateInv /\ [Next]_vars => UpdateInv'
<1> SUFFICES ASSUME UpdateInv, [Next]_vars PROVE UpdateInv'
  OBVIOUS
<1>0. TasksInv
  BY DEF UpdateInv
<1>1. CASE Users(Specs, Uids, 1..MaxClock)
  BY <1>1, UsersInv
<1>2. CASE GetTask
  <2>1. PICK k \in Keys : Queue!Get(k)
    BY <1>2 DEF GetTask
  <2>2. /\ UNCHANGED <<cluster, store>> /\ wpc = "get" /\ wpc' = "sync"
        /\ processing' = processing \cup {k} /\ dirty' = dirty \ {k} /\ UNCHANGED shuttingDown
    BY <1>2, <2>1 DEF GetTask, Queue!Get, api, conf, store
  <2>3. TasksInv'
    BY <1>0, <2>2 DEF TasksInv
  <2>4. ASSUME NEW j \in Keys, j \notin dirty', ~(wpc' = "sync" /\ j \in processing')
        PROVE  Synced(j)'
    BY <2>2, <2>4, SameCluster DEF UpdateInv
  <2> QED
    BY <2>3, <2>4 DEF UpdateInv
<1>3. CASE SyncTask
  <2>1. wpc = "sync" /\ wpc' = "apply" /\ UNCHANGED <<cluster, dirty, processing, shuttingDown>>
    BY <1>3 DEF SyncTask, api, tasks
  <2>2. TasksInv'
    BY <1>0, <2>1 DEF TasksInv
  <2> QED
    BY <1>3, <2>1, <2>2, SyncTaskSyncs DEF UpdateInv
<1>4. CASE TaskDone
  <2>1. PICK k \in processing : Queue!Done(k)
    BY <1>4 DEF TaskDone
  <2>2. /\ UNCHANGED <<cluster, store>> /\ wpc = "apply" /\ wpc' = "get"
        /\ processing' = processing \ {k} /\ UNCHANGED <<dirty, shuttingDown>>
    BY <1>4, <2>1 DEF TaskDone, Queue!Done, api, conf, store
  <2>3. TasksInv'
    BY <1>0, <2>1, <2>2 DEF TasksInv
  <2>4. ASSUME NEW j \in Keys, j \notin dirty' PROVE Synced(j)'
    BY <2>2, <2>4, SameCluster DEF UpdateInv
  <2> QED
    BY <2>3, <2>4 DEF UpdateInv
<1>5. CASE UNCHANGED <<cluster, store, tasks, wpc>>
  <2>1. UNCHANGED <<cluster, store>> /\ wpc' = wpc
        /\ UNCHANGED <<dirty, processing, shuttingDown>>
    BY <1>5 DEF tasks
  <2>2. TasksInv'
    BY <1>0, <2>1 DEF TasksInv
  <2>3. ASSUME NEW j \in Keys, j \notin dirty', ~(wpc' = "sync" /\ j \in processing')
        PROVE  Synced(j)'
    BY <2>1, <2>3, SameCluster DEF UpdateInv
  <2> QED
    BY <2>2, <2>3 DEF UpdateInv
<1>6. ASSUME Rebuild \/ (\E ok \in ReloadResults, w \in GeneratorWarnings : ApplyChange(ok, w))
               \/ (\E p \in reported : ProcessProblem(p)) \/ Informer \/ UNCHANGED vars
      PROVE  UNCHANGED <<cluster, store, tasks, wpc>>
  BY <1>6 DEF Rebuild, BuildResource, FinishRebuild, ApplyChange,
     ProcessProblem, Informer, StatusArrives, vars, api, conf, tasks, store
<1> QED
  BY <1>1, <1>2, <1>3, <1>4, <1>5, <1>6 DEF Next, Worker

-----------------------------------------------------------------------------
\* The stored objects are as Configuration needs them.  That two of them never have
\* the same UID follows from the API server handing out every UID once: an object
\* that is stored may have left the cluster, so that the UIDs of both count.

InPlay(k, o) ==
  \/ k \in DOMAIN cluster /\ o = cluster[k]
  \/ Stored(k) /\ o = StoredObject(k)

UidsInv ==
  /\ \A k \in Keys : \A o : InPlay(k, o) => IsObject(k, o) /\ o.uid \in uids
  /\ \A j, k \in Keys : \A o, p : InPlay(j, o) /\ InPlay(k, p) /\ o.uid = p.uid => j = k

StoreInv ==
  /\ IsFiniteSet(DOMAIN ingresses)
  /\ \A i \in DOMAIN ingresses : <<"Ingress", i>> \in Keys /\ validateIngress(ingresses[i])
  /\ \A i \in DOMAIN virtualServers : <<"VirtualServer", i>> \in Keys
  /\ \A i \in DOMAIN virtualServerRoutes : <<"VirtualServerRoute", i>> \in Keys

ConfInv == UidsInv /\ StoreInv /\ HostsInv /\ BuiltInv

LEMMA StoreIsOK ==
  ASSUME UidsInv, StoreInv
  PROVE  StoreOK
<1>1. \A i \in DOMAIN ingresses :
        <<"Ingress", i>> \in Keys /\ InPlay(<<"Ingress", i>>, ingresses[i])
  BY DEF StoreInv, InPlay, Stored, StoredObject
<1>2. \A i \in DOMAIN virtualServers :
        <<"VirtualServer", i>> \in Keys /\ InPlay(<<"VirtualServer", i>>, virtualServers[i])
  BY DEF StoreInv, InPlay, Stored, StoredObject
<1>3. \A i \in DOMAIN virtualServerRoutes :
        /\ <<"VirtualServerRoute", i>> \in Keys
        /\ InPlay(<<"VirtualServerRoute", i>>, virtualServerRoutes[i])
  BY DEF StoreInv, InPlay, Stored, StoredObject
<1>4. \A i \in DOMAIN ingresses : i \in Int /\ IsObject(<<"Ingress", i>>, ingresses[i])
  BY <1>1, KeyIsPair DEF UidsInv
<1>5. \A i \in DOMAIN virtualServers : IsObject(<<"VirtualServer", i>>, virtualServers[i])
  BY <1>2 DEF UidsInv
<1>6. \A i \in DOMAIN virtualServerRoutes :
        IsObject(<<"VirtualServerRoute", i>>, virtualServerRoutes[i])
  BY <1>3 DEF UidsInv
<1>7. \A k \in DOMAIN ingresses :
       /\ k \in Int /\ ingresses[k].key = k
       /\ ingresses[k].uid \in Int /\ ingresses[k].created \in Int
       /\ ingresses[k].rules \in Seq(Int) /\ ingresses[k].paths \in Seq(Int)
       /\ validateIngress(ingresses[k])
  BY <1>4 DEF IsObject, StoreInv
<1>8. \A k \in DOMAIN virtualServers :
       /\ virtualServers[k].key = k
       /\ virtualServers[k].uid \in Int /\ virtualServers[k].created \in Int
       /\ virtualServers[k].host \in Int
       /\ virtualServers[k].routes \in Seq([path : Int, route : Int])
  BY <1>5 DEF IsObject
<1>9. \A k \in DOMAIN virtualServerRoutes : virtualServerRoutes[k].key = k
  BY <1>6 DEF IsObject
<1>10. /\ \A j, k \in DOMAIN ingresses : ingresses[j].uid = ingresses[k].uid => j = k
       /\ \A j, k \in DOMAIN virtualServers :
            virtualServers[j].uid = virtualServers[k].uid => j = k
       /\ \A j \in DOMAIN ingresses, k \in DOMAIN virtualServers :
            ingresses[j].uid # virtualServers[k].uid
  BY <1>1, <1>2 DEF UidsInv
<1> QED
  BY <1>7, <1>8, <1>9, <1>10 DEF StoreOK, StoreInv

\* a step that brings no new UID
LEMMA UidsKept ==
  ASSUME UidsInv, uids \subseteq uids',
         \A k \in Keys : \A o : InPlay(k, o)' =>
           IsObject(k, o) /\ \E p : InPlay(k, p) /\ p.uid = o.uid
  PROVE  UidsInv'
<1>1. ASSUME NEW k \in Keys, NEW o, InPlay(k, o)' PROVE IsObject(k, o)' /\ o.uid \in uids'
  BY <1>1 DEF UidsInv, IsObject
<1>2. ASSUME NEW j \in Keys, NEW k \in Keys, NEW o, NEW p, InPlay(j, o)', InPlay(k, p)',
             o.uid = p.uid
      PROVE  j = k
  <2>1. PICK q : InPlay(j, q) /\ q.uid = o.uid
    BY <1>2
  <2>2. PICK r : InPlay(k, r) /\ r.uid = p.uid
    BY <1>2
  <2> QED
    BY <1>2, <2>1, <2>2 DEF UidsInv
<1> QED
  BY <1>1, <1>2 DEF UidsInv

LEMMA UsersUids ==
  ASSUME TasksInv, UidsInv, Users(Specs, Uids, 1..MaxClock)
  PROVE  UidsInv'
<1>1. PICK k \in Keys :
        \/ \E s \in Specs[k], uid \in Uids, t \in 1..MaxClock : CreateObject(k, s, uid, t)
        \/ \E s \in Specs[k] : UpdateObject(k, s)
        \/ DeleteObject(k)
  BY DEF Users, Keys
<1>2. UNCHANGED store
  BY <1>1 DEF CreateObject, UpdateObject, DeleteObject, conf
<1>3. \A j : (Stored(j)' <=> Stored(j)) /\ StoredObject(j)' = StoredObject(j)
  BY <1>2 DEF store, Stored, StoredObject
<1>4. ASSUME NEW s \in Specs[k], NEW uid \in Uids, NEW t \in 1..MaxClock,
             CreateObject(k, s, uid, t)
      PROVE  UidsInv'
  <2> DEFINE n == Made(s, uid, t, 1)
  <2>1. cluster' = Put(cluster, k, n) /\ uid \notin uids /\ uids' = uids \cup {uid}
    BY <1>4 DEF CreateObject, Made
  <2>2. uid \in Int /\ t \in Int /\ 1 \in Int
    BY UidsAssumption DEF UidsAssumption
  <2>3. IsObject(k, n) /\ n.uid = uid
    <3>1. IsObject(k, Made(s, uid, t, 1))
      BY <2>2, MadeObject
    <3>2. Made(s, uid, t, 1).uid = uid
      BY <2>2, MadeObject
    <3> QED
      BY <3>1, <3>2
  <2> HIDE DEF n
  <2>4. \A j \in Keys : \A o : InPlay(j, o)' => InPlay(j, o) \/ (j = k /\ o = n)
    BY <1>3, <2>1 DEF InPlay, Put
  <2>5. \A j \in Keys : \A o : InPlay(j, o)' => IsObject(j, o) /\ o.uid \in uids'
    BY <2>1, <2>3, <2>4 DEF UidsInv
  <2>6. ASSUME NEW i \in Keys, NEW j \in Keys, NEW o, NEW p, InPlay(i, o)', InPlay(j, p)',
               o.uid = p.uid
        PROVE  i = j
    <3>1. (InPlay(i, o) \/ (i = k /\ o = n)) /\ (InPlay(j, p) \/ (j = k /\ p = n))
      BY <2>4, <2>6
    <3> QED
      BY <2>1, <2>3, <2>6, <3>1 DEF UidsInv
  <2> QED
    BY <2>5, <2>6 DEF UidsInv, IsObject
<1>5. ASSUME NEW s \in Specs[k], UpdateObject(k, s) PROVE UidsInv'
  <2>1. PICK gen \in Int :
          /\ k \in DOMAIN cluster /\ IsObject(k, cluster[k])
          /\ cluster' = [cluster EXCEPT ![k] = Made(s, cluster[k].uid, cluster[k].created, gen)]
          /\ IsObject(k, Made(s, cluster[k].uid, cluster[k].created, gen))
    BY <1>5, UpdateMakes
  <2> DEFINE n == Made(s, cluster[k].uid, cluster[k].created, gen)
  <2>2. n.uid = cluster[k].uid
    <3>1. cluster[k].uid \in Int /\ cluster[k].created \in Int
      BY <2>1 DEF IsObject
    <3> QED
      BY <3>1, MadeObject
  <2> HIDE DEF n
  <2>3. \A j \in Keys : \A o : InPlay(j, o)' => InPlay(j, o) \/ (j = k /\ o = n)
    BY <1>3, <2>1 DEF InPlay, n
  <2>4. \A j \in Keys : \A o : InPlay(j, o)' =>
          IsObject(j, o) /\ \E p : InPlay(j, p) /\ p.uid = o.uid
    <3>1. InPlay(k, cluster[k]) /\ IsObject(k, n)
      BY <2>1 DEF InPlay, n
    <3> QED
      BY <2>2, <2>3, <3>1 DEF UidsInv
  <2>5. uids' = uids
    BY <1>5 DEF UpdateObject
  <2> QED
    BY <2>4, <2>5, UidsKept
<1>6. ASSUME DeleteObject(k) PROVE UidsInv'
  <2>1. cluster' = Drop(cluster, k) /\ uids' = uids
    BY <1>6 DEF DeleteObject
  <2>2. \A j \in Keys : \A o : InPlay(j, o)' => InPlay(j, o)
    BY <1>3, <2>1 DEF InPlay, Drop
  <2>3. \A j \in Keys : \A o : InPlay(j, o)' =>
          IsObject(j, o) /\ \E p : InPlay(j, p) /\ p.uid = o.uid
    BY <2>2 DEF UidsInv
  <2> QED
    BY <2>1, <2>3, UidsKept
<1> QED
  BY <1>1, <1>4, <1>5, <1>6

LEMMA SyncStore ==
  ASSUME TasksInv, UidsInv, StoreInv, SyncTask
  PROVE  UidsInv' /\ StoreInv'
<1>1. PICK k \in Keys :
           /\ processing = {k}
           /\ SyncedTo(k)
           /\ \/ /\ k[1] = "Ingress" /\ syncIngress(k)
                 /\ Follows(ingresses', ingresses, k)
                 /\ UNCHANGED <<virtualServers, virtualServerRoutes>>
              \/ /\ k[1] = "VirtualServer" /\ syncVirtualServer(k)
                 /\ Follows(virtualServers', virtualServers, k)
                 /\ UNCHANGED <<ingresses, virtualServerRoutes>>
              \/ /\ k[1] = "VirtualServerRoute" /\ syncVirtualServerRoute(k)
                 /\ Follows(virtualServerRoutes', virtualServerRoutes, k)
                 /\ UNCHANGED <<ingresses, virtualServers>>
  BY SyncFollows
<1>2. cluster' = cluster /\ uids' = uids
  BY DEF SyncTask, api
<1>3. \A j \in Keys : \A o : InPlay(j, o)' => InPlay(j, o)
  BY <1>1, <1>2 DEF InPlay, SyncedTo, Wanted
<1>4. \A j \in Keys : \A o : InPlay(j, o)' =>
        IsObject(j, o) /\ \E p : InPlay(j, p) /\ p.uid = o.uid
  BY <1>3 DEF UidsInv
<1>5. UidsInv'
  BY <1>2, <1>4, UidsKept
<1>6. k = <<k[1], k[2]>>
  BY KeyIsPair
<1>7. CASE k[1] = "Ingress"
  <2>1. /\ Follows(ingresses', ingresses, k)
        /\ UNCHANGED <<virtualServers, virtualServerRoutes>>
    BY <1>1, <1>7
  <2>2. IsFiniteSet(DOMAIN ingresses')
    <3>1. DOMAIN ingresses' \subseteq DOMAIN ingresses \cup {k[2]}
      BY <2>1 DEF Follows
    <3>2. IsFiniteSet(DOMAIN ingresses \cup {k[2]})
      BY FS_AddElement DEF StoreInv
    <3> QED
      BY <3>1, <3>2, FS_Subset
  <2>3. ASSUME NEW i \in DOMAIN ingresses'
        PROVE  <<"Ingress", i>> \in Keys /\ validateIngress(ingresses'[i])
    <3>1. CASE i = k[2]
      <4>1. Wanted(k) /\ ingresses'[i] = cluster[k]
        BY <2>1, <3>1 DEF Follows
      <4>2. validateIngress(cluster[k])
        BY <1>7, <4>1 DEF Wanted, IsValid
      <4> QED
        BY <1>6, <1>7, <3>1, <4>1, <4>2
    <3>2. CASE i # k[2]
      BY <2>1, <3>2 DEF Follows, StoreInv
    <3> QED
      BY <3>1, <3>2
  <2> QED
    BY <1>5, <2>1, <2>2, <2>3 DEF StoreInv
<1>8. CASE k[1] = "VirtualServer"
  <2>1. /\ Follows(virtualServers', virtualServers, k)
        /\ UNCHANGED <<ingresses, virtualServerRoutes>>
    BY <1>1, <1>8
  <2>2. \A i \in DOMAIN virtualServers' : <<"VirtualServer", i>> \in Keys
    BY <1>6, <1>8, <2>1 DEF Follows, StoreInv
  <2>3. \A i \in DOMAIN ingresses' : validateIngress(ingresses'[i])
    BY <2>1 DEF StoreInv
  <2> QED
    BY <1>5, <2>1, <2>2, <2>3 DEF StoreInv
<1>9. CASE k[1] = "VirtualServerRoute"
  <2>1. /\ Follows(virtualServerRoutes', virtualServerRoutes, k)
        /\ UNCHANGED <<ingresses, virtualServers>>
    BY <1>1, <1>9
  <2>2. \A i \in DOMAIN virtualServerRoutes' : <<"VirtualServerRoute", i>> \in Keys
    BY <1>6, <1>9, <2>1 DEF Follows, StoreInv
  <2>3. \A i \in DOMAIN ingresses' : validateIngress(ingresses'[i])
    BY <2>1 DEF StoreInv
  <2> QED
    BY <1>5, <2>1, <2>2, <2>3 DEF StoreInv
<1> QED
  BY <1>7, <1>8, <1>9, KeyIsPair

LEMMA SyncKeeps ==
  ASSUME HostsInv, BuiltInv, SyncTask
  PROVE  HostsInv' /\ BuiltInv'
<1>1. PICK k \in processing :
        \/ k[1] = "Ingress" /\ syncIngress(k)
        \/ k[1] = "VirtualServer" /\ syncVirtualServer(k)
        \/ k[1] = "VirtualServerRoute" /\ syncVirtualServerRoute(k)
  BY DEF SyncTask
<1>2. \/ \E o : \/ AddOrUpdateIngress(o)
              \/ AddOrUpdateVirtualServer(o)
              \/ AddOrUpdateVirtualServerRoute(o)
      \/ \E key : DeleteIngress(key) \/ DeleteVirtualServer(key) \/ DeleteVirtualServerRoute(key)
  BY <1>1 DEF syncIngress, syncVirtualServer, syncVirtualServerRoute
<1> QED
  BY <1>2, AddOrUpdateKeeps, DeleteKeeps

\* the steps that leave Configuration alone, but for the results of the last call
LEMMA ConfUnchanged ==
  ASSUME StoreInv, HostsInv, BuiltInv, UNCHANGED <<store, active, pc, locals>>
  PROVE  StoreInv' /\ HostsInv' /\ BuiltInv'
<1>1. HostsInv' /\ BuiltInv'
  BY UnchangedInv, UnchangedBuilt
<1>2. /\ ingresses' = ingresses /\ virtualServers' = virtualServers
      /\ virtualServerRoutes' = virtualServerRoutes
  BY DEF store
<1>3. \A i \in DOMAIN ingresses' : validateIngress(ingresses'[i])
  BY <1>2 DEF StoreInv
<1> QED
  BY <1>1, <1>2, <1>3 DEF StoreInv

LEMMA UidsUnchanged ==
  ASSUME UidsInv, UNCHANGED <<cluster, uids, store>>
  PROVE  UidsInv'
<1>1. \A j \in Keys : \A o : InPlay(j, o)' => InPlay(j, o)
  BY DEF InPlay, store, Stored, StoredObject
<1>2. \A j \in Keys : \A o : InPlay(j, o)' =>
        IsObject(j, o) /\ \E p : InPlay(j, p) /\ p.uid = o.uid
  BY <1>1 DEF UidsInv
<1> QED
  BY <1>2, UidsKept

LEMMA ConfStep == TasksInv /\ ConfInv /\ [Next]_vars => ConfInv'
<1> SUFFICES ASSUME TasksInv, ConfInv, [Next]_vars PROVE ConfInv'
  OBVIOUS
<1>0. UidsInv /\ StoreInv /\ HostsInv /\ BuiltInv /\ StoreOK
  BY StoreIsOK DEF ConfInv
<1>1. CASE Users(Specs, Uids, 1..MaxClock)
  <2>1. UNCHANGED <<store, active, pc, locals>>
    BY <1>1 DEF Users, CreateObject, UpdateObject, DeleteObject, conf
  <2> QED
    BY <1>0, <1>1, <2>1, UsersUids, ConfUnchanged DEF ConfInv
<1>2. CASE SyncTask
  BY <1>0, <1>2, SyncStore, SyncKeeps DEF ConfInv
<1>3. CASE Rebuild
  <2>1. UNCHANGED store /\ UNCHANGED <<cluster, uids>>
    BY <1>3 DEF Rebuild, BuildResource, FinishRebuild, api
  <2>2. HostsInv' /\ BuiltInv'
    BY <1>0, <1>3, BuildInv, BuildBuilt, FinishInv, FinishBuilt DEF Rebuild
  <2>3. StoreInv'
    <3>1. /\ ingresses' = ingresses /\ virtualServers' = virtualServers
          /\ virtualServerRoutes' = virtualServerRoutes
      BY <2>1 DEF store
    <3>2. \A i \in DOMAIN ingresses' : validateIngress(ingresses'[i])
      BY <1>0, <3>1 DEF StoreInv
    <3> QED
      BY <1>0, <3>1, <3>2 DEF StoreInv
  <2> QED
    BY <1>0, <2>1, <2>2, <2>3, UidsUnchanged DEF ConfInv
<1>4. CASE UNCHANGED <<cluster, uids, store, active, pc, locals>>
  BY <1>0, <1>4, ConfUnchanged, UidsUnchanged DEF ConfInv
<1>5. ASSUME \/ GetTask \/ TaskDone \/ Informer \/ UNCHANGED vars
             \/ \E ok \in ReloadResults, w \in GeneratorWarnings : ApplyChange(ok, w)
             \/ \E p \in reported : ProcessProblem(p)
      PROVE  UNCHANGED <<cluster, uids, store, active, pc, locals>>
  BY <1>5 DEF GetTask, TaskDone, Informer, StatusArrives, ApplyChange, ProcessProblem, vars, api,
     conf, store, active, locals
<1> QED
  BY <1>1, <1>2, <1>3, <1>4, <1>5 DEF Next, Worker

LEMMA ConfInit == Init => ConfInv
<1> SUFFICES ASSUME Init PROVE ConfInv
  OBVIOUS
<1>1. /\ NewConfiguration /\ cluster = Empty
      /\ IsFiniteSet({})
  BY FS_EmptySet DEF Init
<1>2. StoredKeys = {}
  BY <1>1 DEF NewConfiguration, StoredKeys, ResourceKeys, Empty
<1>3. StoreInv
  BY <1>1 DEF NewConfiguration, StoreInv, Empty
<1>4. HostsInv
  BY <1>1, <1>2 DEF NewConfiguration, HostsInv, LoopOK, HostsRight, Empty, Range
<1>5. BuiltInv
  BY <1>1, <1>2 DEF NewConfiguration, BuiltInv, HostSet, Unstored, NoKey, Empty
<1>6. UidsInv
  BY <1>1 DEF NewConfiguration, UidsInv, InPlay, Stored, Empty
<1> QED
  BY <1>3, <1>4, <1>5, <1>6 DEF ConfInv

-----------------------------------------------------------------------------
\* The changes that the worker still has to apply

ResKeys == {k \in Keys : k[1] \in {"Ingress", "VirtualServer"}}

\* one change per resource; an update carries the resource as it is active now
ChangesOK ==
  /\ changes \in Seq(Range(changes))
  /\ \A i, j \in DOMAIN changes : changes[i].key = changes[j].key => i = j
  /\ \A i \in DOMAIN changes :
       /\ changes[i].key \in ResKeys
       /\ \/ changes[i].op = "Delete" /\ changes[i].key \notin DOMAIN resources
          \/ /\ changes[i].op = "AddOrUpdate" /\ changes[i].key \in DOMAIN resources
             /\ changes[i].resource = resources[changes[i].key]

ResultsInv ==
  /\ DOMAIN resources \subseteq ResKeys
  /\ ChangesOK
  /\ wpc # "apply" => pc = "idle" /\ changes = <<>>
  /\ pc = "rebuild" => changes = <<>>

LEMMA StoredKeysIn ==
  ASSUME StoreInv
  PROVE  StoredKeys \subseteq ResKeys
  BY DEF StoreInv, StoredKeys, ResourceKeys, ResKeys

LEMMA NoChanges ==
  ASSUME changes = <<>>
  PROVE  ChangesOK
<1>1. DOMAIN changes = {} /\ Range(changes) = {} /\ changes \in Seq({})
  BY DEF Range
<1> QED
  BY <1>1 DEF ChangesOK

LEMMA FinishResults ==
  ASSUME ConfInv, ResultsInv, FinishRebuild
  PROVE  DOMAIN resources' \subseteq ResKeys /\ ChangesOK'
<1>1. HostsInv /\ BuiltInv /\ StoreInv /\ pc = "rebuild"
  BY DEF ConfInv, FinishRebuild
<1>2. DOMAIN resources' \subseteq ResKeys
  <2>1. DOMAIN resources' = Range(newHosts)
    BY DEF FinishRebuild
  <2>2. Range(newHosts) \subseteq StoredKeys
    BY <1>1 DEF HostsInv, LoopOK
  <2> QED
    BY <1>1, <2>1, <2>2, StoredKeysIn
<1>3. DOMAIN resources \subseteq ResKeys
  BY DEF ResultsInv
<1>4. /\ changes' \in Seq(Range(changes'))
      /\ \A i, j \in DOMAIN changes' : changes'[i].key = changes'[j].key => i = j
  BY <1>1, FinishSquashed
<1>5. \A i \in DOMAIN changes' :
        \/ changes'[i].op = "Delete" /\ changes'[i].key \in DOMAIN resources \ DOMAIN resources'
        \/ /\ changes'[i].op = "AddOrUpdate" /\ changes'[i].key \in DOMAIN resources'
           /\ changes'[i].resource = resources'[changes'[i].key]
  BY <1>1, FinishSquashed
<1> QED
  BY <1>2, <1>3, <1>4, <1>5 DEF ChangesOK, ResKeys

\* the next change has a key of its own, and the others remain
LEMMA TailChanges ==
  ASSUME ChangesOK, changes # <<>>, changes' = Tail(changes)
  PROVE  /\ 1 \in DOMAIN changes /\ Head(changes) = changes[1]
         /\ changes' \in Seq(Range(changes'))
         /\ \A i \in DOMAIN changes' :
              i + 1 \in DOMAIN changes /\ changes'[i] = changes[i + 1]
         /\ \A i \in DOMAIN changes : i = 1 \/ (i - 1 \in DOMAIN changes' /\ changes'[i - 1] = changes[i])
<1> DEFINE S == Range(changes)
<1>1. changes \in Seq(S)
  BY DEF ChangesOK
<1> HIDE DEF S
<1>2. Len(changes) \in Nat /\ Len(changes) # 0 /\ DOMAIN changes = 1..Len(changes)
  BY <1>1
<1>3. /\ changes' \in Seq(S) /\ DOMAIN changes' = 1..(Len(changes) - 1)
      /\ \A i \in DOMAIN changes' : changes'[i] = changes[i + 1]
  BY <1>1, <1>2
<1>4. changes' \in Seq(Range(changes'))
  BY <1>3, SeqOfRange
<1> QED
  BY <1>1, <1>2, <1>3, <1>4

LEMMA ApplyResults ==
  ASSUME ResultsInv, NEW ok, NEW w, ApplyChange(ok, w)
  PROVE  ResultsInv'
<1>1. /\ changes # <<>> /\ changes' = Tail(changes) /\ UNCHANGED <<resources, wpc, pc>>
      /\ wpc = "apply" /\ pc = "idle"
  BY DEF ApplyChange
<1>2. ChangesOK
  BY DEF ResultsInv
<1>3. /\ changes' \in Seq(Range(changes'))
      /\ \A i \in DOMAIN changes' :
              i \in Int /\ i + 1 \in DOMAIN changes /\ changes'[i] = changes[i + 1]
  <2>1. \A s \in Seq(Range(changes')) : \A i \in DOMAIN s : i \in Int
    OBVIOUS
  <2> QED
    BY <1>1, <1>2, <2>1, TailChanges
<1>4. \A i, j \in DOMAIN changes' : changes'[i].key = changes'[j].key => i = j
  BY <1>2, <1>3 DEF ChangesOK
<1>5. ChangesOK'
  BY <1>1, <1>2, <1>3, <1>4 DEF ChangesOK
<1> QED
  BY <1>1, <1>5 DEF ResultsInv

LEMMA ResultsStep == TasksInv /\ ConfInv /\ ResultsInv /\ [Next]_vars => ResultsInv'
<1> SUFFICES ASSUME TasksInv, ConfInv, ResultsInv, [Next]_vars PROVE ResultsInv'
  OBVIOUS
<1>1. CASE SyncTask
  <2>1. /\ changes' = <<>> /\ resources' = resources /\ wpc' = "apply"
    BY <1>1 DEF SyncTask, syncIngress, syncVirtualServer, syncVirtualServerRoute, AddOrUpdateIngress,
       AddOrUpdateVirtualServer, AddOrUpdateVirtualServerRoute, DeleteIngress, DeleteVirtualServer,
       DeleteVirtualServerRoute, DeleteNothing, StartRebuild, active
  <2>2. ChangesOK'
    <3>1. DOMAIN changes' = {} /\ Range(changes') = {} /\ changes' \in Seq({})
      BY <2>1 DEF Range
    <3> QED
      BY <3>1 DEF ChangesOK
  <2> QED
    BY <2>1, <2>2 DEF ResultsInv
<1>2. CASE Rebuild
  <2>1. CASE FinishRebuild
    <3>1. pc' = "idle" /\ wpc' = wpc /\ wpc = "apply"
      BY <1>2, <2>1 DEF Rebuild, FinishRebuild, ResultsInv
    <3> QED
      BY <2>1, <3>1, FinishResults DEF ResultsInv
  <2>2. CASE \E k \in building : BuildResource(k)
    <3>1. UNCHANGED <<changes, resources, pc, wpc>>
      BY <1>2, <2>2 DEF Rebuild, BuildResource, active, results
    <3> QED
      BY <3>1 DEF ResultsInv, ChangesOK
  <2> QED
    BY <1>2, <2>1, <2>2 DEF Rebuild
<1>3. ASSUME NEW ok, NEW w, ApplyChange(ok, w) PROVE ResultsInv'
  BY <1>3, ApplyResults
<1>4. CASE GetTask
  <2>1. UNCHANGED <<changes, resources, pc>> /\ wpc = "get" /\ wpc' = "sync"
    BY <1>4 DEF GetTask, conf, active, results
  <2> QED
    BY <2>1 DEF ResultsInv, ChangesOK
<1>5. CASE TaskDone
  <2>1. UNCHANGED <<changes, resources, pc>> /\ changes = <<>> /\ pc = "idle" /\ wpc' = "get"
    BY <1>5 DEF TaskDone, conf, active, results
  <2> QED
    BY <2>1 DEF ResultsInv, ChangesOK
<1>6. ASSUME UNCHANGED <<changes, resources, pc, wpc>> PROVE ResultsInv'
  BY <1>6 DEF ResultsInv, ChangesOK
<1>7. ASSUME \/ Users(Specs, Uids, 1..MaxClock) \/ Informer \/ UNCHANGED vars
             \/ \E p \in reported : ProcessProblem(p)
      PROVE  UNCHANGED <<changes, resources, pc, wpc>>
  BY <1>7 DEF Users, CreateObject, UpdateObject, DeleteObject, Informer, StatusArrives,
     ProcessProblem, vars, conf, active, results
<1> QED
  BY <1>1, <1>2, <1>3, <1>4, <1>5, <1>6, <1>7 DEF Next, Worker

-----------------------------------------------------------------------------
\* Types

TypesInv ==
  /\ DOMAIN status = DOMAIN cluster /\ DOMAIN seen = DOMAIN cluster
  /\ queue \in Seq(Keys) /\ dirty \subseteq Keys
  /\ DOMAIN minions \subseteq DOMAIN files
  /\ DOMAIN applied \subseteq Keys /\ DOMAIN warned = DOMAIN applied
  /\ skipped \subseteq Keys /\ recreated \subseteq Keys

LEMMA UpdateStatusDomain ==
  ASSUME TasksInv, TypesInv, NEW S, UpdateStatus(S)
  PROVE  /\ DOMAIN status' = DOMAIN status /\ DOMAIN seen' = DOMAIN status
         /\ skipped' \subseteq Keys /\ recreated' \subseteq Keys
<1>1. DOMAIN status \subseteq Keys
  BY DEF TasksInv, TypesInv
<1>2. skipped' \subseteq skipped \cup DOMAIN status /\ recreated' \subseteq recreated
  BY DEF UpdateStatus
<1>3. DOMAIN status' = DOMAIN status /\ seen' = seen
  BY DEF UpdateStatus
<1> QED
  BY <1>1, <1>2, <1>3 DEF TypesInv

LEMMA ApplyTypes ==
  ASSUME TasksInv, TypesInv, ResultsInv, NEW ok, NEW w, ApplyChange(ok, w)
  PROVE  TypesInv'
<1> DEFINE c == Head(changes)
           r == c.resource
<1>1. c.key \in Keys
  <2>1. ChangesOK /\ changes # <<>> /\ changes' = Tail(changes)
    BY DEF ResultsInv, ApplyChange
  <2> QED
    BY <2>1, TailChanges DEF ChangesOK, ResKeys
<1>2. /\ UNCHANGED <<cluster, queue, dirty>>
      /\ \/ /\ AddOrUpdateConfig(r, c.key)
            /\ applied' = Put(applied, c.key, ok) /\ warned' = Put(warned, c.key, w)
            /\ IF r.kind = "Ingress" THEN updateIngressStatusAndEvents(r, c.key)
               ELSE updateVirtualServerStatusAndEvents(r, c.key, ok, w)
         \/ /\ DeleteConfig(c.key)
            /\ applied' = Drop(applied, c.key) /\ warned' = Drop(warned, c.key)
            /\ UpdateStatusAndEventsOnDelete(r, c.key, c.error, ok)
  BY DEF ApplyChange, tasks
<1> HIDE DEF c, r
<1>3. /\ DOMAIN status' = DOMAIN status /\ DOMAIN seen' = DOMAIN status
      /\ skipped' \subseteq Keys /\ recreated' \subseteq Keys
  <2>1. UNCHANGED <<status, seen, history>> \/ \E S : UpdateStatus(S)
    BY <1>2 DEF updateIngressStatusAndEvents, updateVirtualServerStatusAndEvents,
       UpdateStatusAndEventsOnDelete
  <2> QED
    BY <2>1, UpdateStatusDomain DEF TypesInv, history
<1>4. DOMAIN minions' \subseteq DOMAIN files'
  BY <1>2 DEF TypesInv, AddOrUpdateConfig, DeleteConfig, Put, Drop
<1>5. DOMAIN applied' \subseteq Keys /\ DOMAIN warned' = DOMAIN applied'
  BY <1>1, <1>2 DEF TypesInv, Put, Drop
<1> QED
  BY <1>2, <1>3, <1>4, <1>5 DEF TypesInv

LEMMA TypesStep == TasksInv /\ ResultsInv /\ TypesInv /\ [Next]_vars => TypesInv'
<1> SUFFICES ASSUME TasksInv, ResultsInv, TypesInv, [Next]_vars PROVE TypesInv'
  OBVIOUS
<1>1. ASSUME NEW k \in Keys, Changed(k)
      PROVE  queue' \in Seq(Keys) /\ dirty' \subseteq Keys
  BY <1>1 DEF Changed, Queue!Add, TypesInv
<1>2. ASSUME NEW k \in Keys, NEW s, NEW uid, NEW t, CreateObject(k, s, uid, t) PROVE TypesInv'
  BY <1>1, <1>2 DEF CreateObject, Put, TypesInv, configurator, history
<1>3. ASSUME NEW k \in Keys, NEW s, UpdateObject(k, s) PROVE TypesInv'
  BY <1>1, <1>3 DEF UpdateObject, TypesInv, configurator, history
<1>4. ASSUME NEW k \in Keys, DeleteObject(k) PROVE TypesInv'
  BY <1>1, <1>4 DEF DeleteObject, Drop, TypesInv, configurator, history
<1>5. ASSUME NEW k \in Keys, StatusArrives(k) PROVE TypesInv'
  BY <1>5 DEF StatusArrives, TypesInv, configurator, tasks, history
<1>6. CASE GetTask
  <2>1. PICK k \in Keys : Queue!Get(k)
    BY <1>6 DEF GetTask
  <2>2. queue' \in Seq(Keys) /\ dirty' \subseteq Keys
    BY <2>1 DEF Queue!Get, TypesInv
  <2> QED
    BY <1>6, <2>2 DEF GetTask, TypesInv, api, configurator, history
<1>7. CASE TaskDone
  <2>1. PICK k \in processing : Queue!Done(k)
    BY <1>7 DEF TaskDone
  <2>2. k \in Keys
    BY <1>7, <2>1 DEF TasksInv
  <2>3. queue' \in Seq(Keys) /\ dirty' \subseteq Keys
    BY <2>1, <2>2 DEF Queue!Done, TypesInv
  <2> QED
    BY <1>7, <2>3 DEF TaskDone, TypesInv, api, configurator, history
<1>8. ASSUME NEW ok, NEW w, ApplyChange(ok, w) PROVE TypesInv'
  BY <1>8, ApplyTypes
<1>9. ASSUME NEW p, ProcessProblem(p) PROVE TypesInv'
  <2>1. PICK S : UpdateStatus(S)
    BY <1>9 DEF ProcessProblem
  <2>2. /\ DOMAIN status' = DOMAIN status /\ DOMAIN seen' = DOMAIN status
        /\ skipped' \subseteq Keys /\ recreated' \subseteq Keys
    BY <2>1, UpdateStatusDomain
  <2> QED
    BY <1>9, <2>2 DEF ProcessProblem, TypesInv, configurator, tasks
<1>10. CASE SyncTask \/ Rebuild \/ UNCHANGED vars
  BY <1>10 DEF SyncTask, Rebuild, vars, TypesInv, api, configurator, tasks, history
<1> QED
  BY <1>2, <1>3, <1>4, <1>5, <1>6, <1>7, <1>8, <1>9, <1>10 DEF Next, Users, Worker, Informer, Keys

-----------------------------------------------------------------------------
\* What holds of Controller without further assumptions

ControllerInv == UpdateInv /\ ConfInv /\ ResultsInv /\ TypesInv

LEMMA ControllerInit == Init => ControllerInv
<1> SUFFICES ASSUME Init PROVE ControllerInv
  OBVIOUS
<1>1. TasksInv
  BY DEF Init, TasksInv, Queue!QueueInit, Empty
<1>2. ASSUME NEW k \in Keys PROVE Synced(k)
  BY DEF Init, NewConfiguration, Empty, Synced, Stored, Wanted
<1>3. UpdateInv
  BY <1>1, <1>2 DEF UpdateInv
<1>4. ResultsInv
  BY NoChanges DEF Init, NewConfiguration, ResultsInv, Empty
<1>5. TypesInv
  BY DEF Init, Queue!QueueInit, TypesInv, Empty
<1> QED
  BY <1>3, <1>4, <1>5, ConfInit DEF ControllerInv

\* Controller stays within its inductive invariant, for any objects, specifications
\* and orders of events.
THEOREM ControllerInvHolds == Spec => []ControllerInv
<1>1. ControllerInv /\ [Next]_vars => ControllerInv'
  BY StepInv, ConfStep, ResultsStep, TypesStep DEF ControllerInv, UpdateInv
<1> QED
  BY <1>1, ControllerInit, PTL DEF Spec

\* Type correctness of Controller: every object of the listers has a status, the
\* worker has one task between Get and Done, and files, minions and reload results
\* are only kept for objects there are specifications of.
THEOREM ControllerTypes == Spec => []TypeOK
<1>1. ControllerInv => TypeOK
  <2> SUFFICES ASSUME ControllerInv PROVE TypeOK
    OBVIOUS
  <2>1. TasksInv /\ TypesInv
    BY DEF ControllerInv, UpdateInv
  <2>2. Cardinality(processing) = IF wpc = "get" THEN 0 ELSE 1
    <3>1. Cardinality({}) = 0 /\ \A k : Cardinality({k}) = 1
      BY FS_EmptySet, FS_Singleton
    <3> QED
      BY <2>1, <3>1 DEF TasksInv
  <2>3. Range(queue) \subseteq Keys
    BY <2>1 DEF TypesInv, Range
  <2> QED
    BY <2>1, <2>2, <2>3 DEF TypeOK, TasksInv, TypesInv
<1> QED
  BY <1>1, ControllerInvHolds, PTL

\* For any objects and specifications, in whatever order users change them and
\* however these changes fall between Get, GetByKey and Done, the object of every
\* key that is neither waiting nor being read is stored in Configuration as the
\* lister has it, or not stored because it is gone, invalid or of another class.
THEOREM NothingLost == Spec => []NoLostUpdate
<1>1. ControllerInv => NoLostUpdate
  BY DEF ControllerInv, UpdateInv, NoLostUpdate, Synced
<1> QED
  BY <1>1, ControllerInvHolds, PTL

\* Under the controller, Configuration needs no assumption on the objects it is called
\* with: whatever users create, change, delete and recreate, and with stale objects
\* stored next to new ones, every host and every path of minions is held by the
\* claimant that wins, and every stored object is in use or has a problem.
THEOREM ControllerHosts ==
  Spec => [](HostsHeldByWinner /\ ValidHostsAgree /\ UsedOrProblem /\ PathsHeldByWinner)
<1>1. ControllerInv => HostsHeldByWinner /\ ValidHostsAgree /\ PathsHeldByWinner
  <2> SUFFICES ASSUME ControllerInv
               PROVE  HostsHeldByWinner /\ ValidHostsAgree /\ PathsHeldByWinner
    OBVIOUS
  <2>1. StoreOK /\ HostsInv /\ BuiltInv
    BY StoreIsOK DEF ControllerInv, ConfInv
  <2>2. HostsHeldByWinner
    BY <2>1 DEF HostsInv, HostsHeldByWinner, HostsRight
  <2> QED
    BY <2>1, <2>2, IdleHosts, IdlePaths
<1>2. Init => UsedOrProblem
  BY DEF Init, NewConfiguration, UsedOrProblem, StoredKeys, ResourceKeys, Empty
<1>3. ControllerInv /\ UsedOrProblem /\ [Next]_vars => UsedOrProblem'
  <2> SUFFICES ASSUME ControllerInv, UsedOrProblem, [Next]_vars PROVE UsedOrProblem'
    OBVIOUS
  <2>1. CASE FinishRebuild
    BY <2>1, StoreIsOK, FinishUsed DEF ControllerInv, ConfInv
  <2>2. CASE UNCHANGED <<store, active, pc>>
    <3>1. /\ StoredKeys' = StoredKeys /\ pc' = pc
          /\ ingresses' = ingresses /\ virtualServerRoutes' = virtualServerRoutes
          /\ hosts' = hosts /\ resources' = resources /\ problems' = problems
      BY <2>2 DEF store, active, StoredKeys
    <3> QED
      BY <3>1 DEF UsedOrProblem, isMinion
  <2>3. CASE pc' = "rebuild"
    BY <2>3 DEF UsedOrProblem
  <2>4. CASE SyncTask
    BY <2>2, <2>3, <2>4 DEF SyncTask, syncIngress, syncVirtualServer, syncVirtualServerRoute,
       AddOrUpdateIngress, AddOrUpdateVirtualServer, AddOrUpdateVirtualServerRoute, DeleteIngress,
       DeleteVirtualServer, DeleteVirtualServerRoute, DeleteNothing, StartRebuild
  <2>5. CASE Rebuild
    BY <2>1, <2>3, <2>5 DEF Rebuild, BuildResource
  <2>6. ASSUME \/ GetTask \/ TaskDone \/ Informer \/ UNCHANGED vars
               \/ Users(Specs, Uids, 1..MaxClock)
               \/ \E ok \in ReloadResults, w \in GeneratorWarnings : ApplyChange(ok, w)
               \/ \E p \in reported : ProcessProblem(p)
        PROVE  UNCHANGED <<store, active, pc>>
    BY <2>6 DEF GetTask, TaskDone, Informer, StatusArrives, Users, CreateObject, UpdateObject,
       DeleteObject, ApplyChange, ProcessProblem, vars, conf, store, active
  <2> QED
    BY <2>2, <2>4, <2>5, <2>6 DEF Next, Worker
<1> QED
  BY <1>1, <1>2, <1>3, ControllerInvHolds, PTL DEF Spec

-----------------------------------------------------------------------------
\* The configuration files.  rebuild reports a resource as changed if the generation
\* or the annotations of one of its objects differ (IsEqual).  The objects in the old
\* resources, and those the files were made from, may be earlier versions of the ones
\* in the store and in the cluster, or of others that had their names before.

\* o is or was an object of name j: the object that has its UID now, in the cluster or
\* in the store, is what updates of o have led to
Historic(j, o) ==
  /\ j \in Keys /\ IsObject(j, o) /\ o.uid \in uids
  /\ j \in DOMAIN cluster /\ cluster[j].uid = o.uid => Older(j, o, cluster[j])
  /\ Stored(j) /\ StoredObject(j).uid = o.uid => Older(j, o, StoredObject(j))

LEMMA PrimedHistoric ==
  ASSUME NEW j, NEW o
  PROVE  Historic(j, o)' <=>
           /\ j \in Keys /\ IsObject(j, o) /\ o.uid \in uids'
           /\ j \in DOMAIN cluster' /\ cluster'[j].uid = o.uid => Older(j, o, cluster'[j])
           /\ Stored(j)' /\ StoredObject(j)'.uid = o.uid => Older(j, o, StoredObject(j)')
<1>1. IsObject(j, o)' <=> IsObject(j, o)
  BY DEF IsObject, Fields
<1>2. /\ Older(j, o, StoredObject(j))' <=> Older(j, o, StoredObject(j)')
      /\ Older(j, o, cluster[j])' <=> Older(j, o, cluster'[j])
  BY DEF Older, Counted, SpecOf
<1>3. Keys' = Keys
  BY DEF Keys
<1> QED
  BY <1>1, <1>2, <1>3 DEF Historic

\* The API server hands out a UID once, an update leads to a later version, and a sync
\* stores what the cluster has: no step makes an object other than historic.
LEMMA HistoricStep ==
  ASSUME ControllerInv, [Next]_vars, NEW j, NEW o, Historic(j, o)
  PROVE  Historic(j, o)'
<1>0. TasksInv /\ UidsInv
  BY DEF ControllerInv, UpdateInv, ConfInv
<1>1. CASE Users(Specs, Uids, 1..MaxClock)
  <2>1. PICK k \in Keys :
          \/ \E s \in Specs[k], uid \in Uids, t \in 1..MaxClock : CreateObject(k, s, uid, t)
          \/ \E s \in Specs[k] : UpdateObject(k, s)
          \/ DeleteObject(k)
    BY <1>1 DEF Users, Keys
  <2>2. UNCHANGED store
    BY <2>1 DEF CreateObject, UpdateObject, DeleteObject, conf
  <2>3. (Stored(j)' <=> Stored(j)) /\ StoredObject(j)' = StoredObject(j)
    BY <2>2 DEF store, Stored, StoredObject
  <2>4. ASSUME NEW s \in Specs[k], NEW uid \in Uids, NEW t \in 1..MaxClock,
               CreateObject(k, s, uid, t)
        PROVE  Historic(j, o)'
    <3>1. cluster' = Put(cluster, k, Made(s, uid, t, 1)) /\ uid \notin uids /\ uids' = uids \cup {uid}
      BY <2>4 DEF CreateObject, Made
    <3>2. Made(s, uid, t, 1).uid = uid
      <4>1. uid \in Int /\ t \in Int /\ 1 \in Int
        BY UidsAssumption DEF UidsAssumption
      <4> QED
        BY <4>1, MadeObject
    <3>3. j \in DOMAIN cluster' /\ cluster'[j].uid = o.uid =>
            j \in DOMAIN cluster /\ cluster'[j] = cluster[j]
      BY <3>1, <3>2 DEF Put, Historic
    <3> QED
      BY <2>3, <3>1, <3>3, PrimedHistoric DEF Historic
  <2>5. ASSUME NEW s \in Specs[k], UpdateObject(k, s) PROVE Historic(j, o)'
    <3> DEFINE b == cluster[k]
               gen == IF Counted(k, SpecOf(b)) = Counted(k, s) THEN b.generation
                      ELSE b.generation + 1
    <3>1. /\ k \in DOMAIN cluster /\ IsObject(k, b) /\ gen \in Int
          /\ cluster' = [cluster EXCEPT ![k] = Made(s, b.uid, b.created, gen)]
      BY <1>0, <2>5, UpdateMakes
    <3>2. Made(s, b.uid, b.created, gen).uid = b.uid
      <4>1. b.uid \in Int /\ b.created \in Int
        BY <3>1 DEF IsObject
      <4> QED
        BY <3>1, <4>1, MadeObject
    <3>3. ASSUME j = k, b.uid = o.uid PROVE Older(k, o, Made(s, b.uid, b.created, gen))
      <4>1. IsObject(k, o) /\ Older(k, o, b)
        BY <3>1, <3>3 DEF Historic
      <4> QED
        BY <3>1, <4>1, OlderUpdate
    <3> HIDE DEF gen
    <3>4. j \in DOMAIN cluster' /\ cluster'[j].uid = o.uid => Older(j, o, cluster'[j])
      BY <3>1, <3>2, <3>3 DEF Historic
    <3>5. uids' = uids
      BY <2>5 DEF UpdateObject
    <3> QED
      BY <2>3, <3>4, <3>5, PrimedHistoric DEF Historic
  <2>6. ASSUME DeleteObject(k) PROVE Historic(j, o)'
    <3>1. cluster' = Drop(cluster, k) /\ uids' = uids
      BY <2>6 DEF DeleteObject
    <3> QED
      BY <2>3, <3>1, PrimedHistoric DEF Historic, Drop
  <2> QED
    BY <2>1, <2>4, <2>5, <2>6
<1>2. CASE SyncTask
  <2>1. PICK k \in Keys : SyncedTo(k)
    BY <1>0, <1>2, SyncFollows
  <2>2. cluster' = cluster /\ uids' = uids
    BY <1>2 DEF SyncTask, api
  <2>3. Stored(j)' /\ StoredObject(j)'.uid = o.uid => Older(j, o, StoredObject(j)')
    BY <2>1 DEF SyncedTo, Wanted, Historic
  <2> QED
    BY <2>2, <2>3, PrimedHistoric DEF Historic
<1>3. ASSUME UNCHANGED <<cluster, store, uids>> PROVE Historic(j, o)'
  <2>1. (Stored(j)' <=> Stored(j)) /\ StoredObject(j)' = StoredObject(j)
    BY <1>3 DEF store, Stored, StoredObject
  <2>2. cluster' = cluster /\ uids' = uids
    BY <1>3
  <2> QED
    BY <2>1, <2>2, PrimedHistoric DEF Historic
<1>4. ASSUME \/ GetTask \/ TaskDone \/ Informer \/ UNCHANGED vars \/ Rebuild
             \/ \E ok \in ReloadResults, w \in GeneratorWarnings : ApplyChange(ok, w)
             \/ \E p \in reported : ProcessProblem(p)
      PROVE  UNCHANGED <<cluster, store, uids>>
  BY <1>4 DEF GetTask, TaskDone, Informer, StatusArrives, Rebuild, BuildResource, FinishRebuild,
     ApplyChange, ProcessProblem, vars, api, conf, store
<1> QED
  BY <1>1, <1>2, <1>3, <1>4 DEF Next, Worker

\* the stored objects are historic
AgeInv == \A k \in Keys : Stored(k) => Historic(k, StoredObject(k))

LEMMA AgeStep == ControllerInv /\ AgeInv /\ [Next]_vars => AgeInv'
<1> SUFFICES ASSUME ControllerInv, AgeInv, [Next]_vars PROVE AgeInv'
  OBVIOUS
<1>1. ASSUME NEW k \in Keys, Stored(k)' PROVE \E o : o = StoredObject(k)' /\ Historic(k, o)'
  <2>1. CASE Stored(k) /\ StoredObject(k)' = StoredObject(k)
    <3>1. Historic(k, StoredObject(k))
      BY <1>1, <2>1 DEF AgeInv
    <3>2. PICK o : o = StoredObject(k)
      OBVIOUS
    <3>3. Historic(k, o)'
      BY <3>1, <3>2, HistoricStep
    <3> QED
      BY <2>1, <3>2, <3>3
  <2>2. CASE SyncTask
    <3>1. TasksInv /\ UidsInv
      BY DEF ControllerInv, UpdateInv, ConfInv
    <3>2. PICK j \in Keys : SyncedTo(j)
      BY <2>2, <3>1, SyncFollows
    <3>3. CASE j = k
      <4>1. StoredObject(k)' = cluster[k] /\ k \in DOMAIN cluster /\ UNCHANGED <<cluster, uids>>
        BY <1>1, <2>2, <3>2, <3>3 DEF SyncedTo, Wanted, SyncTask, api
      <4>2. PICK o : o = cluster[k]
        OBVIOUS
      <4>3. IsObject(k, o) /\ o.uid \in uids
        BY <3>1, <4>1, <4>2 DEF UidsInv, InPlay
      <4>4. Older(k, o, o)
        BY <4>3, OlderReflexive
      <4>5. Historic(k, o)'
        BY <4>1, <4>2, <4>3, <4>4, PrimedHistoric
      <4> QED
        BY <4>1, <4>2, <4>5
    <3>4. CASE j # k
      BY <1>1, <2>1, <3>2, <3>4 DEF SyncedTo
    <3> QED
      BY <3>3, <3>4
  <2>3. ASSUME UNCHANGED store PROVE Stored(k) /\ StoredObject(k)' = StoredObject(k)
    BY <1>1, <2>3 DEF store, Stored, StoredObject
  <2>4. ASSUME \/ GetTask \/ TaskDone \/ Informer \/ UNCHANGED vars \/ Rebuild
               \/ Users(Specs, Uids, 1..MaxClock)
               \/ \E ok \in ReloadResults, w \in GeneratorWarnings : ApplyChange(ok, w)
               \/ \E p \in reported : ProcessProblem(p)
        PROVE  UNCHANGED store
    BY <2>4 DEF GetTask, TaskDone, Informer, StatusArrives, Rebuild, BuildResource, FinishRebuild,
       Users, CreateObject, UpdateObject, DeleteObject, ApplyChange, ProcessProblem, vars, conf, store
  <2> QED
    BY <2>1, <2>2, <2>3, <2>4 DEF Next, Worker
<1>2. ASSUME NEW k, NEW o, o = StoredObject(k)', Historic(k, o)' PROVE Historic(k, StoredObject(k))'
  <2>1. Older(k, StoredObject(k), cluster[k])' <=> Older(k, o, cluster'[k])
    BY <1>2 DEF Older, Counted, SpecOf
  <2>2. Older(k, StoredObject(k), StoredObject(k))' <=> Older(k, o, StoredObject(k)')
    BY <1>2 DEF Older, Counted, SpecOf
  <2>3. IsObject(k, StoredObject(k))' <=> IsObject(k, o)
    BY <1>2 DEF IsObject, Fields
  <2> QED
    BY <1>2, <2>1, <2>2, <2>3, PrimedHistoric DEF Historic
<1> QED
  BY <1>1, <1>2 DEF AgeInv

-----------------------------------------------------------------------------
\* The objects that resource r of k is built from

PartOf(k, r, j, o) ==
  \/ j = k /\ o = r.object
  \/ /\ k[1] = "Ingress"
     /\ \E i \in DOMAIN r.minions :
          j = <<"Ingress", r.minions[i].object.key>> /\ o = r.minions[i].object
  \/ /\ k[1] = "VirtualServer"
     /\ \E i \in DOMAIN r.routes : j = <<"VirtualServerRoute", r.routes[i].key>> /\ o = r.routes[i]

ShapeOK(k, r) ==
  /\ k \in ResKeys /\ r.kind = k[1]
  /\ k[1] = "Ingress" => r.minions = <<>> \/ PathsRight(r.minions)
  /\ k[1] = "VirtualServer" => r.routes \in Seq(Range(r.routes))

Current(j, o) == j \in Keys /\ Stored(j) /\ o = StoredObject(j)

\* a resource that rebuild built is built from stored objects
LEMMA BuiltCurrent ==
  ASSUME UidsInv, StoreInv, NEW k \in StoredKeys, NEW r, NEW hs, ResourceRight(r, k, hs), Built(r, k)
  PROVE  ShapeOK(k, r) /\ \A j, o : PartOf(k, r, j, o) => Current(j, o)
<1>1. k \in ResKeys /\ StoreOK /\ k = <<k[1], k[2]>> /\ k[1] \in {"Ingress", "VirtualServer"}
  BY StoredKeysIn, StoreIsOK, StoredResource
<1>2. r.kind = k[1] /\ r.object = Object(k)
  BY DEF ResourceRight
<1>3. Current(k, r.object)
  BY <1>1, <1>2 DEF Current, Stored, StoredObject, Object, StoredKeys, ResourceKeys, ResKeys
<1>4. CASE k[1] = "Ingress"
  <2>1. r.minions = <<>> \/ MinionsRight(r.minions, Object(k).rules[1])
    BY <1>4 DEF Built
  <2>2. ShapeOK(k, r)
    BY <1>1, <1>2, <1>4, <2>1 DEF ShapeOK, MinionsRight
  <2>3. ASSUME NEW i \in DOMAIN r.minions
        PROVE  Current(<<"Ingress", r.minions[i].object.key>>, r.minions[i].object)
    <3>1. MinionsRight(r.minions, Object(k).rules[1])
      BY <2>1, <2>3
    <3>2. PICK x \in DOMAIN ingresses : r.minions[i].object = ingresses[x]
      BY <3>1 DEF MinionsRight, MinionsOf
    <3>3. ingresses[x].key = x /\ <<"Ingress", x>> \in Keys
      BY <1>1 DEF StoreOK, StoreInv
    <3> QED
      BY <3>2, <3>3 DEF Current, Stored, StoredObject
  <2> QED
    BY <1>3, <1>4, <2>2, <2>3 DEF PartOf
<1>5. CASE k[1] = "VirtualServer"
  <2>1. /\ r.routes \in Seq(Range(r.routes))
        /\ Range(r.routes) = ListedRoutes(Object(k), DOMAIN Object(k).routes)
    BY <1>5 DEF Built
  <2>2. ShapeOK(k, r)
    BY <1>1, <1>2, <1>5, <2>1 DEF ShapeOK
  <2>3. ASSUME NEW i \in DOMAIN r.routes
        PROVE  Current(<<"VirtualServerRoute", r.routes[i].key>>, r.routes[i])
    <3>1. r.routes[i] \in ListedRoutes(Object(k), DOMAIN Object(k).routes)
      BY <2>1 DEF Range
    <3>2. PICK x \in DOMAIN virtualServerRoutes : r.routes[i] = virtualServerRoutes[x]
      BY <3>1 DEF ListedRoutes, UsableRoute
    <3>3. virtualServerRoutes[x].key = x /\ <<"VirtualServerRoute", x>> \in Keys
      BY <1>1 DEF StoreOK, StoreInv
    <3> QED
      BY <3>2, <3>3 DEF Current, Stored, StoredObject
  <2> QED
    BY <1>3, <1>5, <2>2, <2>3 DEF PartOf
<1> QED
  BY <1>1, <1>4, <1>5

-----------------------------------------------------------------------------
\* Resources that IsEqual takes for equal have the same file, unless one of their
\* objects was deleted and created again.

MinionFiles(r) == {FileName[m.object.key] : m \in Range(r.minions)}

LEMMA EqualPart ==
  ASSUME UidsInv, NEW j, NEW i, NEW a, NEW b, Historic(j, a), Current(i, b), i = j, SameMeta(a, b),
         j[1] = "Ingress" => a.annotations = b.annotations /\ a.type = b.type
  PROVE  a = b \/ Reincarnated(a, b)
<1>1. j \in Keys /\ IsObject(j, a) /\ IsObject(j, b)
  BY DEF Historic, Current, UidsInv, InPlay
<1>2. a.key = b.key /\ a.generation = b.generation
  BY DEF SameMeta
<1>3. ASSUME a.uid = b.uid PROVE a = b
  <2>1. Older(j, a, b)
    BY <1>3 DEF Historic, Current
  <2> QED
    BY <1>1, <1>2, <2>1, OlderSame
<1> QED
  BY <1>2, <1>3 DEF Reincarnated

\* the paths of a minion follow from the objects
LEMMA SamePaths ==
  ASSUME NEW ms, NEW ns, PathsRight(ms), PathsRight(ns), DOMAIN ms = DOMAIN ns,
         \A i \in DOMAIN ms : ms[i].object = ns[i].object
  PROVE  \A i \in DOMAIN ms : ms[i].validPaths = ns[i].validPaths
<1> SUFFICES ASSUME NEW i \in DOMAIN ms PROVE ms[i].validPaths = ns[i].validPaths
  OBVIOUS
<1>1. \A p : p \in ms[i].validPaths <=>
         /\ p \in Range(ms[i].object.paths)
         /\ ListedOnce(p, ms[i].object.paths)
         /\ \A j \in DOMAIN ms \ {i} :
              p \in Range(ms[j].object.paths) => chooseObjectMetaWinner(ms[i].object, ms[j].object)
  BY DEF PathsRight
<1>2. \A p : p \in ns[i].validPaths <=>
         /\ p \in Range(ns[i].object.paths)
         /\ ListedOnce(p, ns[i].object.paths)
         /\ \A j \in DOMAIN ns \ {i} :
              p \in Range(ns[j].object.paths) => chooseObjectMetaWinner(ns[i].object, ns[j].object)
  BY DEF PathsRight
<1>3. \A p : p \in ms[i].validPaths <=> p \in ns[i].validPaths
  BY <1>1, <1>2
<1> QED
  BY <1>3

\* the objects of r are the ones of n, or IsEqual missed that one was created again
LEMMA EqualIngressFiles ==
  ASSUME UidsInv, NEW k, k[1] = "Ingress", NEW r, NEW n, ShapeOK(k, r), ShapeOK(k, n),
         \A j, o : PartOf(k, r, j, o) => Historic(j, o),
         \A j, o : PartOf(k, n, j, o) => Current(j, o),
         IsEqual(r, n)
  PROVE  /\ Render(r) = Render(n) \/ MadeFromFormer(Render(r), n)
         /\ r.isMaster = n.isMaster /\ MinionFiles(r) = MinionFiles(n)
<1> DEFINE ms == r.minions
           ns == n.minions
<1>0. r.kind = "Ingress" /\ n.kind = "Ingress"
  BY DEF ShapeOK
<1>1. /\ SameMetaWithAnnotations(r.object, n.object)
      /\ r.validHosts = n.validHosts /\ r.isMaster = n.isMaster
      /\ Len(ms) = Len(ns)
      /\ \A i \in DOMAIN ms : SameMetaWithAnnotations(ms[i].object, ns[i].object)
  BY <1>0 DEF IsEqual, IsEqualIngress
<1>2. r.object = n.object \/ Reincarnated(r.object, n.object)
  <2>1. Historic(k, r.object) /\ Current(k, n.object)
    BY DEF PartOf
  <2> QED
    BY <1>1, <2>1, EqualPart DEF SameMetaWithAnnotations
<1>3. (ms = <<>> \/ PathsRight(ms)) /\ (ns = <<>> \/ PathsRight(ns))
  BY DEF ShapeOK
<1>4. DOMAIN ms = 1..Len(ms) /\ DOMAIN ns = 1..Len(ns) /\ Len(ms) \in Nat
  <2>0. <<>> \in Seq(Range(<<>>))
    OBVIOUS
  <2>1. ms \in Seq(Range(ms)) /\ ns \in Seq(Range(ns))
    BY <1>3, <2>0, Zenon DEF PathsRight
  <2> HIDE DEF ms, ns
  <2> QED
    BY <2>1
<1>5. DOMAIN ms = DOMAIN ns
  BY <1>1, <1>4
<1>6. ASSUME NEW i \in DOMAIN ms
      PROVE  ms[i].object = ns[i].object \/ Reincarnated(ms[i].object, ns[i].object)
  <2> DEFINE a == ms[i].object
             b == ns[i].object
  <2>1. Historic(<<"Ingress", a.key>>, a) /\ Current(<<"Ingress", b.key>>, b)
    BY <1>5 DEF PartOf
  <2>2. SameMetaWithAnnotations(a, b)
    BY <1>1
  <2> HIDE DEF a, b
  <2>3. a = b \/ Reincarnated(a, b)
    BY <2>1, <2>2, EqualPart DEF SameMetaWithAnnotations, SameMeta
  <2> QED
    BY <2>3 DEF a, b
<1>7. Render(r).object = r.object
  BY DEF Render
<1>8. MinionFiles(r) = MinionFiles(n)
  <2>1. \A i \in DOMAIN ms : ms[i].object.key = ns[i].object.key
    BY <1>1 DEF SameMetaWithAnnotations, SameMeta
  <2> HIDE DEF ms, ns
  <2>2. {FileName[m.object.key] : m \in Range(ms)} = {FileName[m.object.key] : m \in Range(ns)}
    BY <1>5, <2>1 DEF Range
  <2> QED
    BY <2>2 DEF MinionFiles, ms, ns
<1>9. CASE Reincarnated(r.object, n.object)
  BY <1>1, <1>7, <1>8, <1>9 DEF MadeFromFormer
<1>10. ASSUME NEW i \in DOMAIN ms, Reincarnated(ms[i].object, ns[i].object)
       PROVE  MadeFromFormer(Render(r), n)
  <2> DEFINE p == <<ms[i].object, ms[i].validPaths>>
             q == <<ns[i].object, ns[i].validPaths>>
  <2>1. ms[i] \in Range(ms) /\ ns[i] \in Range(ns)
    BY <1>5 DEF Range
  <2> HIDE DEF ms, ns
  <2>2. /\ p \in {<<m.object, m.validPaths>> : m \in Range(ms)}
        /\ q \in {<<m.object, m.validPaths>> : m \in Range(ns)}
    BY <2>1
  <2>3. p \in Render(r).parts /\ q \in Render(n).parts
    BY <1>0, <2>2 DEF Render, ms, ns
  <2>4. Reincarnated(p[1], q[1])
    BY <1>10
  <2> HIDE DEF p, q
  <2> QED
    BY <2>3, <2>4 DEF MadeFromFormer
<1>11. CASE r.object = n.object /\ \A i \in DOMAIN ms : ms[i].object = ns[i].object
  <2>1. \A i \in DOMAIN ms : ms[i].validPaths = ns[i].validPaths
    <3>1. CASE PathsRight(ms) /\ PathsRight(ns)
      BY <1>5, <1>11, <3>1, SamePaths
    <3>2. CASE ms = <<>> \/ ns = <<>>
      BY <1>1, <1>4, <3>2
    <3> QED
      BY <1>3, <3>1, <3>2
  <2> HIDE DEF ms, ns
  <2>2. {<<m.object, m.validPaths>> : m \in Range(ms)} = {<<m.object, m.validPaths>> : m \in Range(ns)}
    BY <1>5, <1>11, <2>1 DEF Range
  <2>3. Render(r) = Render(n)
    BY <1>0, <1>1, <1>11, <2>2 DEF Render, ms, ns
  <2> QED
    BY <1>1, <1>8, <2>3
<1> QED
  BY <1>1, <1>2, <1>6, <1>8, <1>9, <1>10, <1>11

LEMMA EqualVirtualServerFiles ==
  ASSUME UidsInv, NEW k, k[1] = "VirtualServer", NEW r, NEW n, ShapeOK(k, r), ShapeOK(k, n),
         \A j, o : PartOf(k, r, j, o) => Historic(j, o),
         \A j, o : PartOf(k, n, j, o) => Current(j, o),
         IsEqual(r, n)
  PROVE  Render(r) = Render(n) \/ MadeFromFormer(Render(r), n)
<1> DEFINE ms == r.routes
           ns == n.routes
<1>0. r.kind = "VirtualServer" /\ n.kind = "VirtualServer"
  BY DEF ShapeOK
<1>1. /\ SameMeta(r.object, n.object)
      /\ Len(ms) = Len(ns)
      /\ \A i \in DOMAIN ms : SameMeta(ms[i], ns[i])
  BY <1>0 DEF IsEqual, IsEqualVirtualServer
<1>2. r.object = n.object \/ Reincarnated(r.object, n.object)
  <2>1. Historic(k, r.object) /\ Current(k, n.object)
    BY DEF PartOf
  <2> QED
    BY <1>1, <2>1, EqualPart
<1>3. DOMAIN ms = DOMAIN ns
  <2>1. ms \in Seq(Range(ms)) /\ ns \in Seq(Range(ns))
    BY DEF ShapeOK
  <2> HIDE DEF ms, ns
  <2> QED
    BY <1>1, <2>1
<1>4. ASSUME NEW i \in DOMAIN ms PROVE ms[i] = ns[i] \/ Reincarnated(ms[i], ns[i])
  <2> DEFINE a == ms[i]
             b == ns[i]
  <2>1. Historic(<<"VirtualServerRoute", a.key>>, a) /\ Current(<<"VirtualServerRoute", b.key>>, b)
    BY <1>3 DEF PartOf
  <2>2. SameMeta(a, b)
    BY <1>1
  <2> HIDE DEF a, b
  <2>3. a = b \/ Reincarnated(a, b)
    BY <2>1, <2>2, EqualPart DEF SameMeta
  <2> QED
    BY <2>3 DEF a, b
<1>5. CASE Reincarnated(r.object, n.object)
  BY <1>5 DEF MadeFromFormer, Render
<1>6. ASSUME NEW i \in DOMAIN ms, Reincarnated(ms[i], ns[i]) PROVE MadeFromFormer(Render(r), n)
  <2> DEFINE p == <<ms[i], {}>>
             q == <<ns[i], {}>>
  <2>1. ms[i] \in Range(ms) /\ ns[i] \in Range(ns)
    BY <1>3 DEF Range
  <2> HIDE DEF ms, ns
  <2>2. p \in {<<v, {}>> : v \in Range(ms)} /\ q \in {<<v, {}>> : v \in Range(ns)}
    BY <2>1
  <2>3. p \in Render(r).parts /\ q \in Render(n).parts
    BY <1>0, <2>2 DEF Render, ms, ns
  <2>4. Reincarnated(p[1], q[1])
    BY <1>6
  <2> HIDE DEF p, q
  <2> QED
    BY <2>3, <2>4 DEF MadeFromFormer
<1>7. CASE r.object = n.object /\ \A i \in DOMAIN ms : ms[i] = ns[i]
  <2> HIDE DEF ms, ns
  <2>1. Range(ms) = Range(ns)
    BY <1>3, <1>7 DEF Range
  <2> QED
    BY <1>0, <1>7, <2>1 DEF Render, ms, ns
<1> QED
  BY <1>2, <1>4, <1>5, <1>6, <1>7

LEMMA EqualFiles ==
  ASSUME UidsInv, NEW k, NEW r, NEW n, ShapeOK(k, r), ShapeOK(k, n),
         \A j, o : PartOf(k, r, j, o) => Historic(j, o),
         \A j, o : PartOf(k, n, j, o) => Current(j, o),
         IsEqual(r, n)
  PROVE  /\ Render(r) = Render(n) \/ MadeFromFormer(Render(r), n)
         /\ k[1] = "Ingress" => (r.isMaster = n.isMaster /\ MinionFiles(r) = MinionFiles(n))
<1>1. k[1] \in {"Ingress", "VirtualServer"}
  BY DEF ShapeOK, ResKeys
<1> QED
  BY <1>1, EqualIngressFiles, EqualVirtualServerFiles

\* IsEqual is an equivalence of resources
LEMMA EqualTransitive ==
  ASSUME NEW k, NEW a, NEW b, NEW c, ShapeOK(k, a), ShapeOK(k, b), IsEqual(a, b), IsEqual(b, c)
  PROVE  IsEqual(a, c)
<1>1. k[1] \in {"Ingress", "VirtualServer"} /\ a.kind = k[1] /\ b.kind = k[1]
  BY DEF ShapeOK, ResKeys
<1>2. CASE k[1] = "Ingress"
  <2>1. DOMAIN a.minions = DOMAIN b.minions
    <3>1. a.minions \in Seq(Range(a.minions)) /\ b.minions \in Seq(Range(b.minions))
      <4>1. <<>> \in Seq(Range(<<>>))
        OBVIOUS
      <4> QED
        BY <1>2, <4>1, Zenon DEF ShapeOK, PathsRight
    <3>2. Len(a.minions) = Len(b.minions)
      BY <1>1, <1>2 DEF IsEqual, IsEqualIngress
    <3> QED
      BY <3>1, <3>2
  <2> QED
    BY <1>1, <1>2, <2>1 DEF IsEqual, IsEqualIngress, SameMetaWithAnnotations, SameMeta
<1>3. CASE k[1] = "VirtualServer"
  <2>1. DOMAIN a.routes = DOMAIN b.routes
    <3>1. a.routes \in Seq(Range(a.routes)) /\ b.routes \in Seq(Range(b.routes))
      BY <1>3 DEF ShapeOK
    <3>2. Len(a.routes) = Len(b.routes)
      BY <1>1, <1>3 DEF IsEqual, IsEqualVirtualServer
    <3> QED
      BY <3>1, <3>2
  <2> QED
    BY <1>1, <1>3, <2>1 DEF IsEqual, IsEqualVirtualServer, SameMeta
<1> QED
  BY <1>1, <1>2, <1>3

LEMMA EqualReflexive == \A r : IsEqual(r, r)
  BY DEF IsEqual, IsEqualIngress, IsEqualVirtualServer, SameMetaWithAnnotations, SameMeta

-----------------------------------------------------------------------------
\* The resources are built from historic objects, also while rebuild runs and they are
\* still the ones of the previous rebuild.

BuiltFromHistoric(k, r) == ShapeOK(k, r) /\ \A j, o : PartOf(k, r, j, o) => Historic(j, o)

PartsInv == \A k \in DOMAIN resources : BuiltFromHistoric(k, resources[k])

\* after a rebuild they are built from stored objects
LEMMA IdleCurrent ==
  ASSUME ConfInv, pc = "idle", NEW k \in DOMAIN resources
  PROVE  /\ ShapeOK(k, resources[k])
         /\ \A j, o : PartOf(k, resources[k], j, o) => Current(j, o)
<1>1. UidsInv /\ StoreInv /\ HostsInv /\ BuiltInv
  BY DEF ConfInv
<1>2. k \in StoredKeys
  BY <1>1 DEF HostsInv, LoopOK, HostsRight, Range
<1>3. ResourceRight(resources[k], k, hosts)
  BY <1>1 DEF HostsInv
<1>4. Built(resources[k], k)
  BY <1>1 DEF BuiltInv
<1> QED
  BY <1>1, <1>2, <1>3, <1>4, BuiltCurrent

LEMMA NewCurrent ==
  ASSUME ConfInv, FinishRebuild, NEW k \in DOMAIN resources'
  PROVE  /\ ShapeOK(k, resources'[k])
         /\ \A j, o : PartOf(k, resources'[k], j, o) => Current(j, o)
<1>1. UidsInv /\ StoreInv /\ HostsInv /\ BuiltInv
  BY DEF ConfInv
<1>2. /\ pc = "rebuild" /\ building = {}
      /\ resources' = [j \in Range(newHosts) |-> newResources[j]]
  BY DEF FinishRebuild
<1>3. k \in StoredKeys /\ k \in DOMAIN newResources /\ resources'[k] = newResources[k]
  BY <1>1, <1>2 DEF HostsInv, LoopOK
<1>4. ResourceRight(newResources[k], k, newHosts)
  BY <1>1, <1>2, <1>3 DEF HostsInv
<1>5. Built(newResources[k], k)
  BY <1>1, <1>3 DEF BuiltInv
<1> QED
  BY <1>1, <1>3, <1>4, <1>5, BuiltCurrent

LEMMA PrimedShape ==
  /\ \A k : ShapeOK(k, resources[k])' <=> ShapeOK(k, resources'[k])
  /\ \A k, j, o : PartOf(k, resources[k], j, o)' <=> PartOf(k, resources'[k], j, o)
<1>1. \A k : ShapeOK(k, resources[k])' <=> ShapeOK(k, resources'[k])
  BY DEF ShapeOK, PathsRight, ListedOnce, chooseObjectMetaWinner, Range, ResKeys
<1>2. \A k, j, o : PartOf(k, resources[k], j, o)' <=> PartOf(k, resources'[k], j, o)
  BY DEF PartOf
<1> QED
  BY <1>1, <1>2

LEMMA PrimedBuilt ==
  ASSUME ControllerInv, [Next]_vars, NEW k, NEW r, BuiltFromHistoric(k, r)
  PROVE  BuiltFromHistoric(k, r)'
<1>1. \A j, o : PartOf(k, r, j, o)' => PartOf(k, r, j, o)
  BY DEF PartOf
<1>2. ShapeOK(k, r)'
  BY DEF BuiltFromHistoric, ShapeOK, PathsRight, ListedOnce, chooseObjectMetaWinner, Range, ResKeys, Keys
<1> QED
  BY <1>1, <1>2, HistoricStep DEF BuiltFromHistoric

LEMMA PartsStep == ControllerInv /\ AgeInv /\ PartsInv /\ [Next]_vars => PartsInv'
<1> SUFFICES ASSUME ControllerInv, AgeInv, PartsInv, [Next]_vars PROVE PartsInv'
  OBVIOUS
<1>1. ASSUME NEW k \in DOMAIN resources', NEW r, r = resources'[k], BuiltFromHistoric(k, r)
      PROVE  BuiltFromHistoric(k, resources[k])'
  <2>1. \A j, o : PartOf(k, r, j, o) => Historic(j, o)'
    BY <1>1, HistoricStep DEF BuiltFromHistoric
  <2>2. ShapeOK(k, resources'[k])
    BY <1>1 DEF BuiltFromHistoric
  <2> QED
    BY <1>1, <2>1, <2>2, PrimedShape DEF BuiltFromHistoric
<1>2. CASE FinishRebuild
  <2>1. ASSUME NEW k \in DOMAIN resources' PROVE BuiltFromHistoric(k, resources'[k])
    <3>1. /\ ShapeOK(k, resources'[k])
          /\ \A j, o : PartOf(k, resources'[k], j, o) => Current(j, o)
      BY <1>2, NewCurrent DEF ControllerInv
    <3>2. \A j, o : Current(j, o) => Historic(j, o)
      BY DEF Current, AgeInv
    <3> QED
      BY <3>1, <3>2 DEF BuiltFromHistoric
  <2> QED
    BY <1>1, <2>1 DEF PartsInv
<1>3. CASE UNCHANGED resources
  BY <1>1, <1>3 DEF PartsInv
<1>4. ASSUME ~FinishRebuild PROVE UNCHANGED resources
  BY <1>4 DEF Next, Worker, GetTask, TaskDone, Informer, StatusArrives, Rebuild, BuildResource,
     Users, CreateObject, UpdateObject, DeleteObject, ApplyChange, ProcessProblem, vars, conf, active,
     SyncTask, syncIngress, syncVirtualServer, syncVirtualServerRoute,
     AddOrUpdateIngress, AddOrUpdateVirtualServer, AddOrUpdateVirtualServerRoute, DeleteIngress,
     DeleteVirtualServer, DeleteVirtualServerRoute, DeleteNothing, StartRebuild
<1> QED
  BY <1>2, <1>3, <1>4

-----------------------------------------------------------------------------
\* Every resource has its file, unless a change of it is still to be applied.

Pending(k) == \E i \in DOMAIN changes : changes[i].key = k

\* the file is made from the resource, or from one that IsEqual takes for it
FileOK(k) ==
  /\ FileOf(k) \in DOMAIN files
  /\ \E r : /\ BuiltFromHistoric(k, r)
            /\ files[FileOf(k)] = Render(r)
            /\ IsEqual(r, resources[k])
  /\ k[1] = "Ingress" /\ resources[k].isMaster =>
       /\ FileOf(k) \in DOMAIN minions
       /\ minions[FileOf(k)] = MinionFiles(resources[k])

FilesInv ==
  /\ \A f \in DOMAIN files : \E k \in ResKeys : FileOf(k) = f /\ (k \in DOMAIN resources \/ Pending(k))
  /\ \A k \in DOMAIN resources : OwnFile(k) => Pending(k) \/ FileOK(k)

LEMMA PrimedFile ==
  ASSUME ControllerInv, [Next]_vars, NEW k, k \in DOMAIN resources',
         FileOf(k) \in DOMAIN files',
         \E r : /\ BuiltFromHistoric(k, r)
                /\ files'[FileOf(k)] = Render(r)
                /\ IsEqual(r, resources'[k]),
         k[1] = "Ingress" /\ resources'[k].isMaster =>
           /\ FileOf(k) \in DOMAIN minions'
           /\ minions'[FileOf(k)] = MinionFiles(resources'[k])
  PROVE  FileOK(k)'
<1>1. PICK r : /\ BuiltFromHistoric(k, r)
               /\ files'[FileOf(k)] = Render(r)
               /\ IsEqual(r, resources'[k])
  OBVIOUS
<1>2. BuiltFromHistoric(k, r)'
  BY <1>1, PrimedBuilt
<1>3. Render(r)' = Render(r) /\ FileOf(k)' = FileOf(k)
  BY DEF Render, FileOf, Range
<1>4. IsEqual(r, resources[k])' <=> IsEqual(r, resources'[k])
  BY DEF IsEqual, IsEqualIngress, IsEqualVirtualServer, SameMetaWithAnnotations, SameMeta
<1>5. MinionFiles(resources[k])' = MinionFiles(resources'[k])
  BY DEF MinionFiles, Range
<1> QED
  BY <1>1, <1>2, <1>3, <1>4, <1>5 DEF FileOK

LEMMA PrimedOwn == \A k : OwnFile(k)' <=> OwnFile(k)
  BY DEF OwnFile, FileOf, Keys

LEMMA FinishFiles ==
  ASSUME ControllerInv, AgeInv, PartsInv, FilesInv, [Next]_vars, FinishRebuild,
         UNCHANGED <<files, minions>>
  PROVE  FilesInv'
<1>1. /\ HostsInv /\ BuiltInv /\ UidsInv /\ pc = "rebuild" /\ changes = <<>> /\ ConfInv
      /\ DOMAIN resources \subseteq ResKeys
  BY DEF ControllerInv, ConfInv, FinishRebuild, ResultsInv
<1>2. \A k : ~Pending(k)
  BY <1>1 DEF Pending
<1>3. \A k \in DOMAIN resources : k \in DOMAIN resources' \/ Pending(k)'
  BY <1>1, FinishSquashed DEF Pending
<1>4. ASSUME NEW k \in DOMAIN resources', OwnFile(k), ~Pending(k)' PROVE FileOK(k)'
  <2>1. k \in DOMAIN resources /\ IsEqual(resources[k], resources'[k])
    BY <1>1, <1>4, FinishSquashed DEF Pending
  <2>2. FileOK(k)
    BY <1>2, <1>4, <2>1 DEF FilesInv
  <2>3. PICK r : /\ BuiltFromHistoric(k, r)
                 /\ files[FileOf(k)] = Render(r)
                 /\ IsEqual(r, resources[k])
    BY <2>2 DEF FileOK
  <2>4. IsEqual(r, resources'[k])
    <3>1. ShapeOK(k, r) /\ ShapeOK(k, resources[k])
      BY <2>1, <2>3 DEF BuiltFromHistoric, PartsInv
    <3> QED
      BY <2>1, <2>3, <3>1, EqualTransitive
  <2>5. /\ ShapeOK(k, resources'[k])
        /\ \A j, o : PartOf(k, resources'[k], j, o) => Current(j, o)
    BY <1>1, NewCurrent
  <2>6. k[1] = "Ingress" => /\ resources[k].isMaster = resources'[k].isMaster
                            /\ MinionFiles(resources[k]) = MinionFiles(resources'[k])
    <3>1. /\ ShapeOK(k, resources[k])
          /\ \A j, o : PartOf(k, resources[k], j, o) => Historic(j, o)
      BY <2>1 DEF PartsInv, BuiltFromHistoric
    <3> QED
      BY <1>1, <2>1, <2>5, <3>1, EqualFiles
  <2>7. /\ FileOf(k) \in DOMAIN files
        /\ k[1] = "Ingress" /\ resources[k].isMaster =>
             FileOf(k) \in DOMAIN minions /\ minions[FileOf(k)] = MinionFiles(resources[k])
    BY <2>2 DEF FileOK
  <2> QED
    BY <2>3, <2>4, <2>6, <2>7, PrimedFile
<1>5. \A f \in DOMAIN files : \E k \in ResKeys :
        FileOf(k) = f /\ (k \in DOMAIN resources' \/ Pending(k)')
  BY <1>2, <1>3 DEF FilesInv
<1>6. \A k : FileOf(k)' = FileOf(k)
  BY DEF FileOf
<1>7. ResKeys' = ResKeys
  BY DEF ResKeys, Keys
<1> QED
  BY <1>4, <1>5, <1>6, <1>7, PrimedOwn DEF FilesInv

LEMMA ApplyFiles ==
  ASSUME ControllerInv, PartsInv, FilesInv, [Next]_vars, NEW ok, NEW w, ApplyChange(ok, w)
  PROVE  FilesInv'
<1> DEFINE c == changes[1]
<1>1. /\ changes # <<>> /\ changes' = Tail(changes) /\ resources' = resources /\ pc = "idle"
      /\ \/ Head(changes).op = "AddOrUpdate" /\ AddOrUpdateConfig(Head(changes).resource, Head(changes).key)
         \/ Head(changes).op = "Delete" /\ DeleteConfig(Head(changes).key)
  BY DEF ApplyChange
<1>2. ChangesOK /\ DOMAIN resources \subseteq ResKeys
  BY DEF ControllerInv, ResultsInv
<1>3. /\ 1 \in DOMAIN changes /\ Head(changes) = c
      /\ \A i \in DOMAIN changes : i = 1 \/ (i - 1 \in DOMAIN changes' /\ changes'[i - 1] = changes[i])
  BY <1>1, <1>2, TailChanges
<1>4. \A k : k # c.key /\ Pending(k) => Pending(k)'
  BY <1>3 DEF Pending
<1>5. /\ c.key \in ResKeys
      /\ \/ c.op = "Delete" /\ c.key \notin DOMAIN resources
         \/ /\ c.op = "AddOrUpdate" /\ c.key \in DOMAIN resources
            /\ c.resource = resources[c.key]
  BY <1>2, <1>3 DEF ChangesOK
<1>6. \/ c.op = "AddOrUpdate" /\ AddOrUpdateConfig(c.resource, c.key)
      \/ c.op = "Delete" /\ DeleteConfig(c.key)
  BY <1>1, <1>3
<1> PICK x : x = c.key
  OBVIOUS
<1> DEFINE r == resources[x]
<1>7. \/ /\ x \in DOMAIN resources
         /\ files' = Put(files, FileOf(x), Render(r))
         /\ minions' = IF r.kind = "Ingress" /\ r.isMaster
                       THEN Put(minions, FileOf(x), MinionFiles(r)) ELSE minions
      \/ /\ x \notin DOMAIN resources
         /\ files' = Drop(files, FileOf(x)) /\ minions' = Drop(minions, FileOf(x))
  BY <1>5, <1>6 DEF AddOrUpdateConfig, DeleteConfig, MinionFiles
<1>8. x \in ResKeys /\ \A k : k # x /\ Pending(k) => Pending(k)'
  BY <1>4, <1>5
<1> HIDE DEF c
<1>9. ASSUME x \in DOMAIN resources PROVE FileOK(x)'
  <2>1. BuiltFromHistoric(x, r) /\ IsEqual(r, r) /\ r.kind = x[1]
    BY <1>9, EqualReflexive DEF PartsInv, BuiltFromHistoric, ShapeOK
  <2>2. resources'[x] = r
    BY <1>1
  <2> HIDE DEF r
  <2>3. FileOf(x) \in DOMAIN files' /\ files'[FileOf(x)] = Render(r)
    BY <1>7, <1>9 DEF Put
  <2>4. x[1] = "Ingress" /\ r.isMaster =>
          FileOf(x) \in DOMAIN minions' /\ minions'[FileOf(x)] = MinionFiles(r)
    BY <1>7, <1>9, <2>1 DEF Put
  <2> QED
    BY <1>1, <1>9, <2>1, <2>2, <2>3, <2>4, PrimedFile
<1>10. ASSUME NEW k \in DOMAIN resources, OwnFile(k), k # x, FileOK(k) PROVE FileOK(k)'
  <2>1. FileOf(k) # FileOf(x)
    BY <1>8, <1>10 DEF OwnFile, ResKeys
  <2>2. /\ FileOf(k) \in DOMAIN files'
        /\ files'[FileOf(k)] = files[FileOf(k)]
        /\ FileOf(k) \in DOMAIN minions =>
             FileOf(k) \in DOMAIN minions' /\ minions'[FileOf(k)] = minions[FileOf(k)]
    BY <1>7, <1>10, <2>1 DEF Put, Drop, FileOK
  <2>3. /\ \E q : /\ BuiltFromHistoric(k, q)
                  /\ files[FileOf(k)] = Render(q)
                  /\ IsEqual(q, resources[k])
        /\ k[1] = "Ingress" /\ resources[k].isMaster =>
             FileOf(k) \in DOMAIN minions /\ minions[FileOf(k)] = MinionFiles(resources[k])
    BY <1>10 DEF FileOK
  <2> QED
    BY <1>1, <1>10, <2>2, <2>3, PrimedFile
<1> HIDE DEF r
<1>11. ASSUME NEW f \in DOMAIN files'
       PROVE  \E k \in ResKeys : FileOf(k) = f /\ (k \in DOMAIN resources' \/ Pending(k)')
  <2>1. CASE x \in DOMAIN resources /\ f = FileOf(x)
    BY <1>1, <1>8, <2>1
  <2>2. CASE x \in DOMAIN resources /\ f # FileOf(x)
    <3>1. f \in DOMAIN files
      BY <1>7, <1>11, <2>2 DEF Put
    <3>2. PICK k \in ResKeys : FileOf(k) = f /\ (k \in DOMAIN resources \/ Pending(k))
      BY <3>1 DEF FilesInv
    <3> QED
      BY <1>1, <1>8, <2>2, <3>2
  <2>3. CASE x \notin DOMAIN resources
    <3>1. f \in DOMAIN files /\ f # FileOf(x)
      BY <1>7, <1>11, <2>3 DEF Drop
    <3>2. PICK k \in ResKeys : FileOf(k) = f /\ (k \in DOMAIN resources \/ Pending(k))
      BY <3>1 DEF FilesInv
    <3> QED
      BY <1>1, <1>8, <3>1, <3>2
  <2> QED
    BY <2>1, <2>2, <2>3
<1>12. ASSUME NEW k \in DOMAIN resources', OwnFile(k) PROVE Pending(k)' \/ FileOK(k)'
  BY <1>1, <1>8, <1>9, <1>10, <1>12 DEF FilesInv
<1>13. (\A k : FileOf(k)' = FileOf(k)) /\ ResKeys' = ResKeys
  BY DEF FileOf, ResKeys, Keys
<1> QED
  BY <1>11, <1>12, <1>13, PrimedOwn DEF FilesInv

LEMMA FilesStep == ControllerInv /\ AgeInv /\ PartsInv /\ FilesInv /\ [Next]_vars => FilesInv'
<1> SUFFICES ASSUME ControllerInv, AgeInv, PartsInv, FilesInv, [Next]_vars PROVE FilesInv'
  OBVIOUS
<1>0. ConfInv /\ ResultsInv
  BY DEF ControllerInv
<1>1. ASSUME UNCHANGED <<files, minions, resources>>, changes' = changes PROVE FilesInv'
  <2>1. \A k : Pending(k)' <=> Pending(k)
    BY <1>1 DEF Pending
  <2>2. ASSUME NEW k \in DOMAIN resources, FileOK(k) PROVE FileOK(k)'
    BY <1>1, <2>2, PrimedFile DEF FileOK
  <2>3. (\A k : FileOf(k)' = FileOf(k)) /\ ResKeys' = ResKeys
    BY DEF FileOf, ResKeys, Keys
  <2> QED
    BY <1>1, <2>1, <2>2, <2>3, PrimedOwn DEF FilesInv
<1>2. CASE SyncTask
  <2>1. /\ UNCHANGED <<files, minions, resources>> /\ changes' = <<>> /\ wpc = "sync"
    BY <1>2 DEF SyncTask, syncIngress, syncVirtualServer, syncVirtualServerRoute, AddOrUpdateIngress,
       AddOrUpdateVirtualServer, AddOrUpdateVirtualServerRoute, DeleteIngress, DeleteVirtualServer,
       DeleteVirtualServerRoute, DeleteNothing, StartRebuild, active, configurator
  <2>2. changes = <<>>
    BY <1>0, <2>1 DEF ResultsInv
  <2> QED
    BY <1>1, <2>1, <2>2
<1>3. CASE Rebuild
  <2>1. UNCHANGED <<files, minions>>
    BY <1>3 DEF Rebuild, configurator
  <2>2. CASE FinishRebuild
    BY <2>1, <2>2, FinishFiles
  <2>3. CASE \E k \in building : BuildResource(k)
    BY <1>1, <2>1, <2>3 DEF BuildResource, active, results
  <2> QED
    BY <1>3, <2>2, <2>3 DEF Rebuild
<1>4. ASSUME NEW ok, NEW w, ApplyChange(ok, w) PROVE FilesInv'
  BY <1>4, ApplyFiles
<1>5. ASSUME \/ GetTask \/ TaskDone \/ Informer \/ UNCHANGED vars
             \/ Users(Specs, Uids, 1..MaxClock)
             \/ \E p \in reported : ProcessProblem(p)
      PROVE  UNCHANGED <<files, minions, resources, changes>>
  BY <1>5 DEF GetTask, TaskDone, Informer, StatusArrives, Users, CreateObject, UpdateObject,
     DeleteObject, ProcessProblem, vars, conf, active, results, configurator
<1> QED
  BY <1>1, <1>2, <1>3, <1>4, <1>5 DEF Next, Worker

LEMMA FilesReflect ==
  ASSUME ControllerInv, FilesInv
  PROVE  FilesReflectConfiguration
<1> SUFFICES ASSUME wpc # "apply"
             PROVE  /\ DOMAIN files \subseteq {FileOf(k) : k \in DOMAIN resources}
                    /\ \A k \in DOMAIN resources :
                         OwnFile(k) =>
                           /\ FileOf(k) \in DOMAIN files
                           /\ \/ files[FileOf(k)] = Render(resources[k])
                              \/ MadeFromFormer(files[FileOf(k)], resources[k])
                           /\ k[1] = "Ingress" /\ resources[k].isMaster =>
                                minions[FileOf(k)] = MinionFiles(resources[k])
  BY DEF FilesReflectConfiguration, MinionFiles
<1>1. changes = <<>> /\ pc = "idle" /\ ConfInv /\ UidsInv
  BY DEF ControllerInv, ResultsInv, ConfInv
<1>2. \A k : ~Pending(k)
  BY <1>1 DEF Pending
<1>3. ASSUME NEW k \in DOMAIN resources, OwnFile(k)
      PROVE  /\ FileOf(k) \in DOMAIN files
             /\ \/ files[FileOf(k)] = Render(resources[k])
                \/ MadeFromFormer(files[FileOf(k)], resources[k])
             /\ k[1] = "Ingress" /\ resources[k].isMaster =>
                  minions[FileOf(k)] = MinionFiles(resources[k])
  <2>1. FileOK(k)
    BY <1>2, <1>3 DEF FilesInv
  <2>2. PICK r : /\ BuiltFromHistoric(k, r)
                 /\ files[FileOf(k)] = Render(r)
                 /\ IsEqual(r, resources[k])
    BY <2>1 DEF FileOK
  <2>3. Render(r) = Render(resources[k]) \/ MadeFromFormer(Render(r), resources[k])
    <3>1. /\ ShapeOK(k, resources[k])
          /\ \A j, o : PartOf(k, resources[k], j, o) => Current(j, o)
      BY <1>1, IdleCurrent
    <3> QED
      BY <1>1, <2>2, <3>1, EqualFiles DEF BuiltFromHistoric
  <2> QED
    BY <2>1, <2>2, <2>3 DEF FileOK
<1>4. DOMAIN files \subseteq {FileOf(k) : k \in DOMAIN resources}
  BY <1>2 DEF FilesInv
<1> QED
  BY <1>3, <1>4

\* what the theorems about files and statuses rest on
FileInv == ControllerInv /\ AgeInv /\ PartsInv /\ FilesInv

LEMMA FileInvInit == Init => FileInv
<1> SUFFICES ASSUME Init PROVE FileInv
  OBVIOUS
<1>1. AgeInv
  BY DEF Init, NewConfiguration, Empty, AgeInv, Stored
<1>2. PartsInv /\ FilesInv
  BY DEF Init, NewConfiguration, Empty, PartsInv, FilesInv
<1> QED
  BY <1>1, <1>2, ControllerInit DEF FileInv

LEMMA FileInvStep == FileInv /\ [Next]_vars => FileInv'
<1>1. ControllerInv /\ [Next]_vars => ControllerInv'
  BY StepInv, ConfStep, ResultsStep, TypesStep DEF ControllerInv, UpdateInv
<1> QED
  BY <1>1, AgeStep, PartsStep, FilesStep DEF FileInv

\* Between tasks, in whatever order objects are created, changed, deleted and created
\* again, there is no file but those of the resources that hold a host, and the file
\* of such a resource has the content that follows from its current objects.  So the
\* comparison of generations and annotations in rebuild (IsEqual) misses no change that
\* shows in a file, but for one: an object deleted and created again at the same
\* generation.  Nothing is assumed of the file names; only the content of a file that
\* several Ingresses share is left open.
THEOREM FilesAreCurrent == Spec => []FilesReflectConfiguration
<1>1. FileInv => FilesReflectConfiguration
  BY FilesReflect DEF FileInv
<1> QED
  BY <1>1, FileInvInit, FileInvStep, PTL DEF Spec
===============================================================================
