------------------------- MODULE ConfigurationProofs -------------------------
(***************************************************************************)
(* Configuration is right for all sets of objects and all sequences of     *)
(* calls: which resource holds a host or a path, what has a problem, and   *)
(* what the changes say.  What single operations keep is in                *)
(* ConfigurationLemmas.                                                    *)
(***************************************************************************)
EXTENDS ConfigurationCalls, ConfigurationLemmas

\* how long the provers may work on a step
USE ZenonT(5), SMTT(60)

\* The inductive invariant: hosts and resources are right between calls, the locals
\* of rebuild during a call, and Ingresses are only stored if they are valid.
Inv ==
  /\ TypeOK
  /\ IsFiniteSet(DOMAIN ingresses)
  /\ \A k \in DOMAIN ingresses : validateIngress(ingresses[k])
  /\ HostsInv
  /\ BuiltInv

\* the part of TypeOK that HostsInv does not have
MapsOK ==
  /\ IsMapOf(ingresses, Ingresses)
  /\ IsMapOf(virtualServers, VirtualServers)
  /\ IsMapOf(virtualServerRoutes, VirtualServerRoutes)
  /\ IsFiniteSet(DOMAIN ingresses)
  /\ \A k \in DOMAIN ingresses : validateIngress(ingresses[k])

KeysOK ==
  /\ Range(hosts) \subseteq AllResourceKeys
  /\ DOMAIN problems \subseteq AllKeys
  /\ rejected \in AllKeys \cup {NoKey}

LEMMA InvParts == Inv <=> MapsOK /\ KeysOK /\ HostsInv /\ BuiltInv
  BY DEF Inv, TypeOK, MapsOK, KeysOK, HostsInv, LoopOK

-----------------------------------------------------------------------------
\* The stored objects are as the lemmas of ConfigurationLemmas need them.
LEMMA InvStore ==
  ASSUME MapsOK
  PROVE  StoreOK
<1>1. \A k \in DOMAIN ingresses : ingresses[k] \in Ingresses /\ ingresses[k].key = k
  BY DEF MapsOK, IsMapOf
<1>2. \A k \in DOMAIN virtualServers :
        virtualServers[k] \in VirtualServers /\ virtualServers[k].key = k
  BY DEF MapsOK, IsMapOf
<1>3. \A k \in DOMAIN virtualServerRoutes : virtualServerRoutes[k].key = k
  BY DEF MapsOK, IsMapOf
<1>4. \A k \in DOMAIN ingresses :
        /\ k \in Int /\ ingresses[k].uid \in Int /\ ingresses[k].created \in Int
        /\ ingresses[k].rules \in Seq(Int) /\ ingresses[k].paths \in Seq(Int)
  BY <1>1, ObjectsAssumption DEF ObjectsAssumption
<1>5. \A k \in DOMAIN virtualServers :
        /\ virtualServers[k].uid \in Int /\ virtualServers[k].created \in Int
        /\ virtualServers[k].host \in Int
        /\ virtualServers[k].routes \in Seq([path : Int, route : Int])
  BY <1>2, ObjectsAssumption DEF ObjectsAssumption
<1>6. /\ \A j, k \in DOMAIN ingresses : ingresses[j].uid = ingresses[k].uid => j = k
      /\ \A j, k \in DOMAIN virtualServers :
           virtualServers[j].uid = virtualServers[k].uid => j = k
      /\ \A j \in DOMAIN ingresses, k \in DOMAIN virtualServers :
           ingresses[j].uid # virtualServers[k].uid
  BY <1>1, <1>2, ObjectsAssumption DEF ObjectsAssumption
<1> QED
  BY <1>1, <1>2, <1>3, <1>4, <1>5, <1>6 DEF StoreOK, MapsOK

LEMMA StoredIsResourceKey ==
  ASSUME MapsOK PROVE StoredKeys \subseteq AllResourceKeys
  BY DEF MapsOK, StoredKeys, ResourceKeys, IsMapOf, AllResourceKeys, KeysOf,
         IngressKeys, VirtualServerKeys

LEMMA KeepIsMap ==
  ASSUME NEW S, NEW m, IsMapOf(m, S), NEW o \in S, NEW valid
  PROVE  IsMapOf(Keep(m, o, valid), S)
  BY DEF IsMapOf, Keep, Put, Drop, KeysOf

LEMMA DropIsMap ==
  ASSUME NEW S, NEW m, IsMapOf(m, S), NEW key
  PROVE  IsMapOf(Drop(m, key), S)
  BY DEF IsMapOf, Drop

\* an operation changes the domain of a map by one key
LEMMA KeepFinite ==
  ASSUME NEW m, IsFiniteSet(DOMAIN m), NEW o, NEW valid, NEW key
  PROVE  IsFiniteSet(DOMAIN Keep(m, o, valid)) /\ IsFiniteSet(DOMAIN Drop(m, key))
<1>1. IsFiniteSet(DOMAIN m \cup {o.key})
  BY FS_AddElement
<1>2. IsFiniteSet(DOMAIN m \ {o.key}) /\ IsFiniteSet(DOMAIN m \ {key})
  BY FS_RemoveElement
<1> QED
  BY <1>1, <1>2 DEF Keep, Put, Drop

-----------------------------------------------------------------------------
\* The operations keep the invariant.

LEMMA AddOrUpdateInv ==
  ASSUME Inv,
         \/ \E ing \in Ingresses : AddOrUpdateIngress(ing)
         \/ \E vs \in VirtualServers : AddOrUpdateVirtualServer(vs)
         \/ \E vsr \in VirtualServerRoutes : AddOrUpdateVirtualServerRoute(vsr)
  PROVE  Inv'
<1>1. MapsOK /\ KeysOK /\ HostsInv /\ BuiltInv
  BY InvParts
<1>2. HostsInv' /\ BuiltInv'
  BY <1>1, AddOrUpdateKeeps
<1>3. StartRebuild
  BY DEF AddOrUpdateIngress, AddOrUpdateVirtualServer, AddOrUpdateVirtualServerRoute
<1>4. rejected' \in AllKeys \cup {NoKey}
  BY DEF AddOrUpdateIngress, AddOrUpdateVirtualServer, AddOrUpdateVirtualServerRoute,
         ValidationError, AllKeys, AllResourceKeys, IngressKeys, VirtualServerKeys,
         VirtualServerRouteKeys, KeysOf
<1>5. KeysOK'
  BY <1>1, <1>3, <1>4 DEF KeysOK, StartRebuild, active
<1>6. MapsOK'
  <2>1. ASSUME NEW ing \in Ingresses, AddOrUpdateIngress(ing) PROVE MapsOK'
    <3>1. ingresses' = Keep(ingresses, ing, validateIngress(ing))
      BY <2>1 DEF AddOrUpdateIngress
    <3>2. \A k \in DOMAIN ingresses' :
            \/ ingresses'[k] = ing /\ validateIngress(ing)
            \/ k \in DOMAIN ingresses /\ ingresses'[k] = ingresses[k]
      BY <3>1 DEF Keep, Put, Drop
    <3>3. \A k \in DOMAIN ingresses' : validateIngress(ingresses'[k])
      BY <1>1, <3>2 DEF MapsOK
    <3>4. IsMapOf(ingresses', Ingresses) /\ IsFiniteSet(DOMAIN ingresses')
      BY <1>1, <3>1, KeepIsMap, KeepFinite DEF MapsOK
    <3> QED
      BY <1>1, <2>1, <3>3, <3>4 DEF MapsOK, AddOrUpdateIngress
  <2>2. ASSUME NEW vs \in VirtualServers, AddOrUpdateVirtualServer(vs) PROVE MapsOK'
    BY <1>1, <2>2, KeepIsMap DEF MapsOK, AddOrUpdateVirtualServer
  <2>3. ASSUME NEW vsr \in VirtualServerRoutes, AddOrUpdateVirtualServerRoute(vsr) PROVE MapsOK'
    BY <1>1, <2>3, KeepIsMap DEF MapsOK, AddOrUpdateVirtualServerRoute
  <2> QED
    BY <2>1, <2>2, <2>3
<1> QED
  BY <1>2, <1>5, <1>6 DEF Inv, TypeOK, MapsOK, KeysOK, HostsInv, LoopOK

LEMMA DeleteInv ==
  ASSUME Inv, NEW key,
         DeleteIngress(key) \/ DeleteVirtualServer(key) \/ DeleteVirtualServerRoute(key)
  PROVE  Inv'
<1>1. MapsOK /\ KeysOK /\ HostsInv /\ BuiltInv
  BY InvParts
<1>2. HostsInv' /\ BuiltInv'
  BY <1>1, DeleteKeeps
<1>3. KeysOK'
  BY <1>1 DEF KeysOK, DeleteIngress, DeleteVirtualServer, DeleteVirtualServerRoute,
     DeleteNothing, StartRebuild, active, locals
<1>4. /\ ingresses' = ingresses \/ ingresses' = Drop(ingresses, key)
      /\ virtualServers' = virtualServers \/ virtualServers' = Drop(virtualServers, key)
      /\ virtualServerRoutes' = virtualServerRoutes
           \/ virtualServerRoutes' = Drop(virtualServerRoutes, key)
  BY DEF DeleteIngress, DeleteVirtualServer, DeleteVirtualServerRoute, DeleteNothing, store
<1>5. \A k \in DOMAIN ingresses' : k \in DOMAIN ingresses /\ ingresses'[k] = ingresses[k]
  BY <1>4 DEF Drop
<1>6. \A k \in DOMAIN ingresses' : validateIngress(ingresses'[k])
  BY <1>1, <1>5 DEF MapsOK
<1>7. IsMapOf(ingresses', Ingresses) /\ IsFiniteSet(DOMAIN ingresses')
  BY <1>1, <1>4, DropIsMap, KeepFinite DEF MapsOK
<1>8. /\ IsMapOf(virtualServers', VirtualServers)
      /\ IsMapOf(virtualServerRoutes', VirtualServerRoutes)
  BY <1>1, <1>4, DropIsMap DEF MapsOK
<1> QED
  BY <1>2, <1>3, <1>6, <1>7, <1>8 DEF Inv, TypeOK, MapsOK, KeysOK, HostsInv, LoopOK

-----------------------------------------------------------------------------
\* rebuild keeps the invariant.

LEMMA MapsUnchanged ==
  ASSUME MapsOK, UNCHANGED store
  PROVE  MapsOK'
<1>1. /\ ingresses' = ingresses /\ virtualServers' = virtualServers
      /\ virtualServerRoutes' = virtualServerRoutes
  BY DEF store
<1>2. \A k \in DOMAIN ingresses' : validateIngress(ingresses'[k])
  BY <1>1 DEF MapsOK
<1> QED
  BY <1>1, <1>2 DEF MapsOK

LEMMA RebuildInv ==
  ASSUME Inv, (\E k \in building : BuildResource(k)) \/ FinishRebuild
  PROVE  Inv'
<1>1. MapsOK /\ KeysOK /\ HostsInv /\ BuiltInv /\ StoreOK
  BY InvParts, InvStore
<1>2. UNCHANGED store
  BY DEF BuildResource, FinishRebuild
<1>3. MapsOK'
  BY <1>1, <1>2, MapsUnchanged
<1>4. HostsInv' /\ BuiltInv'
  BY <1>1, BuildInv, BuildBuilt, FinishInv, FinishBuilt
<1>5. ASSUME NEW k \in building, BuildResource(k) PROVE KeysOK'
  BY <1>1, <1>5 DEF KeysOK, BuildResource, active
<1>6. ASSUME FinishRebuild PROVE KeysOK'
  <2>1. /\ hosts' = newHosts /\ problems' = NewProblems /\ rejected' = NoKey
        /\ pc = "rebuild"
    BY <1>6 DEF FinishRebuild
  <2>2. /\ DOMAIN newResources \subseteq StoredKeys /\ Range(newHosts) \subseteq StoredKeys
        /\ StoredKeys \subseteq AllResourceKeys
    BY <1>1, <2>1, StoredIsResourceKey DEF HostsInv, LoopOK
  <2>3. DOMAIN problems' = WithoutActiveHost \cup OrphanMinions \cup OrphanVsrs \cup IgnoredVsrs
    BY <2>1 DEF NewProblems
  <2>4. WithoutActiveHost \subseteq AllKeys
    BY <2>2 DEF WithoutActiveHost, AllKeys
  <2>5. OrphanMinions \subseteq AllKeys /\ OrphanVsrs \subseteq AllKeys /\ IgnoredVsrs \subseteq AllKeys
    BY <1>1 DEF MapsOK, OrphanMinions, OrphanVsrs, IgnoredVsrs, IsMapOf, AllKeys, AllResourceKeys,
       IngressKeys, VirtualServerRouteKeys
  <2> QED
    BY <2>1, <2>2, <2>3, <2>4, <2>5 DEF KeysOK
<1>7. KeysOK'
  BY <1>5, <1>6
<1> QED
  BY <1>3, <1>4, <1>7 DEF Inv, TypeOK, MapsOK, KeysOK, HostsInv, LoopOK

LEMMA StutterInv ==
  ASSUME Inv, UNCHANGED vars
  PROVE  Inv'
<1>1. MapsOK /\ KeysOK /\ HostsInv /\ BuiltInv
  BY InvParts
<1>2. UNCHANGED <<store, active, pc, locals>>
  BY DEF vars, conf
<1>3. HostsInv' /\ BuiltInv' /\ MapsOK'
  BY <1>1, <1>2, UnchangedInv, UnchangedBuilt, MapsUnchanged
<1>4. KeysOK'
  BY <1>1, <1>2 DEF KeysOK, active, locals
<1> QED
  BY <1>3, <1>4 DEF Inv, TypeOK, MapsOK, KeysOK, HostsInv, LoopOK

LEMMA NextInv == Inv /\ [Next]_vars => Inv'
<1> SUFFICES ASSUME Inv, [Next]_vars PROVE Inv'
  OBVIOUS
<1>1. CASE \/ \E ing \in Ingresses : AddOrUpdateIngress(ing)
           \/ \E vs \in VirtualServers : AddOrUpdateVirtualServer(vs)
           \/ \E vsr \in VirtualServerRoutes : AddOrUpdateVirtualServerRoute(vsr)
  BY <1>1, AddOrUpdateInv
<1>2. ASSUME NEW key,
             DeleteIngress(key) \/ DeleteVirtualServer(key) \/ DeleteVirtualServerRoute(key)
      PROVE  Inv'
  BY <1>2, DeleteInv
<1>3. CASE (\E k \in building : BuildResource(k)) \/ FinishRebuild
  BY <1>3, RebuildInv
<1>4. CASE UNCHANGED vars
  BY <1>4, StutterInv
<1> QED
  BY <1>1, <1>2, <1>3, <1>4 DEF Next

LEMMA InitInv == Init => Inv
<1> SUFFICES ASSUME Init PROVE Inv
  OBVIOUS
<1>1. StoredKeys = {} /\ IsFiniteSet({})
  BY FS_EmptySet DEF Init, NewConfiguration, StoredKeys, ResourceKeys, Empty
<1>2. MapsOK
  BY <1>1 DEF Init, NewConfiguration, MapsOK, Empty, IsMapOf
<1>3. KeysOK
  BY DEF Init, NewConfiguration, KeysOK, Empty, Range
<1>4. HostsInv
  BY <1>1 DEF Init, NewConfiguration, HostsInv, LoopOK, HostsRight, Empty, Range
<1>5. BuiltInv
  BY <1>1 DEF Init, NewConfiguration, BuiltInv, HostSet, Unstored, NoKey, Empty
<1> QED
  BY <1>2, <1>3, <1>4, <1>5, InvParts

\* only the end of rebuild returns to idle
LEMMA OnlyFinishReturns ==
  ASSUME Next, pc = "rebuild", pc' = "idle"
  PROVE  FinishRebuild
  BY DEF Next, AddOrUpdateIngress, AddOrUpdateVirtualServer, AddOrUpdateVirtualServerRoute,
     DeleteIngress, DeleteVirtualServer, DeleteVirtualServerRoute, DeleteNothing, StartRebuild,
     BuildResource

-----------------------------------------------------------------------------
\* The inductive invariant holds in every state, for all sets of objects whose
\* metadata is as the API server guarantees.
THEOREM InvHolds == Spec => []Inv
  BY InitInv, NextInv, PTL DEF Spec

\* Type correctness of Configuration and of the locals of rebuild.
THEOREM TypeCorrect == Spec => []TypeOK
<1>1. Inv => TypeOK
  BY DEF Inv
<1> QED
  BY <1>1, InvHolds, PTL

\* For any number of objects and hosts, every claimed host is held by the claimant
\* that chooseObjectMetaWinner prefers to all others: comparing each new claimant
\* with the current holder only, as buildHostsAndResources does, is enough.
THEOREM WinnersHoldHosts == Spec => []HostsHeldByWinner
<1>1. Inv => HostsHeldByWinner
  BY DEF Inv, HostsInv, HostsHeldByWinner, HostsRight
<1> QED
  BY <1>1, InvHolds, PTL

\* For any number of objects and hosts, the hosts marked valid in a FullIngress are
\* the ones it holds, and an active resource carries the stored object.
THEOREM ValidHostsAreHeld == Spec => []ValidHostsAgree
<1>1. HostsInv => ValidHostsAgree
  BY IdleHosts
<1>2. Inv => HostsInv
  BY DEF Inv
<1> QED
  BY <1>1, <1>2, InvHolds, PTL

\* For any number of objects, a stored object is in use or has a problem that says
\* why not, never both and never neither: the addProblemsFor functions, which look
\* at hosts and at the lists of the built resources, find exactly the resources
\* without a host, the minions no active master lists and the VirtualServerRoutes
\* no active VirtualServer lists.
THEOREM NothingUnaccounted == Spec => []UsedOrProblem
<1>1. Init => UsedOrProblem
  BY DEF Init, NewConfiguration, UsedOrProblem, StoredKeys, ResourceKeys, Empty
<1>2. Inv /\ UsedOrProblem /\ [Next]_vars => UsedOrProblem'
  <2> SUFFICES ASSUME Inv, UsedOrProblem, [Next]_vars PROVE UsedOrProblem'
    OBVIOUS
  <2>1. CASE FinishRebuild
    BY <2>1, InvParts, InvStore, FinishUsed
  <2>2. CASE UNCHANGED <<store, active, pc>>
    <3>1. /\ StoredKeys' = StoredKeys /\ pc' = pc
          /\ ingresses' = ingresses /\ virtualServerRoutes' = virtualServerRoutes
          /\ hosts' = hosts /\ resources' = resources /\ problems' = problems
      BY <2>2 DEF store, active, StoredKeys
    <3> QED
      BY <3>1 DEF UsedOrProblem, isMinion
  <2>3. CASE pc' = "rebuild"
    BY <2>3 DEF UsedOrProblem
  <2> QED
    BY <2>1, <2>2, <2>3 DEF Next, AddOrUpdateIngress, AddOrUpdateVirtualServer,
       AddOrUpdateVirtualServerRoute, DeleteIngress, DeleteVirtualServer,
       DeleteVirtualServerRoute, DeleteNothing, StartRebuild, BuildResource, vars, conf
<1> QED
  BY <1>1, <1>2, InvHolds, PTL DEF Spec

\* For any number of minions and paths, a path of the minions of an active master
\* belongs to the one that chooseObjectMetaWinner prefers to all that list it.
THEOREM WinnersHoldPaths == Spec => []PathsHeldByWinner
<1>1. Inv => StoreOK /\ HostsInv /\ BuiltInv
  BY InvParts, InvStore
<1>2. Inv => PathsHeldByWinner
  BY <1>1, IdlePaths
<1> QED
  BY <1>2, InvHolds, PTL

-----------------------------------------------------------------------------
\* What rebuild returns

\* For any number of objects and hosts, the changes that rebuild returns lead from
\* the old resources to the new ones: following the removed, the exchanged and the
\* added hosts and squashing to the last change of a resource deletes exactly the
\* resources that are gone, updates every new or different one, and deletes first.
THEOREM ChangesAreComplete == Spec => ChangesLeadToNewHosts
<1> DEFINE Leads ==
      pc = "rebuild" /\ pc' = "idle" =>
        LET deleted == {c.key : c \in {d \in Range(changes') : d.op = "Delete"}}
            updated == {c.key : c \in {d \in Range(changes') : d.op = "AddOrUpdate"}}
            differs(k) == k \in DOMAIN resources => ~IsEqual(resources[k], resources'[k])
        IN /\ deleted = DOMAIN resources \ DOMAIN resources'
           /\ updated \subseteq DOMAIN resources'
           /\ \A k \in DOMAIN resources' : differs(k) => k \in updated
           /\ Cardinality(deleted) + Cardinality(updated) = Len(changes')
           /\ \A i, j \in DOMAIN changes' :
                changes'[i].op = "AddOrUpdate" /\ changes'[j].op = "Delete" => j < i
<1>1. ASSUME Inv, Next PROVE Leads
  <2>1. HostsInv /\ BuiltInv
    BY <1>1 DEF Inv
  <2> SUFFICES ASSUME FinishRebuild PROVE Leads
    BY <1>1, OnlyFinishReturns
  <2> QED
    BY <2>1, FinishChanges
<1>2. Inv /\ [Next]_vars => [Leads]_conf
  BY <1>1 DEF vars
<1> QED
  BY <1>2, InvHolds, PTL DEF Spec, ChangesLeadToNewHosts

\* For any objects, one that fails validation is told so exactly once and is not in
\* use afterwards, whether it held a host before or not.
THEOREM RejectedOnce == Spec => RejectionReportedOnce
<1> DEFINE Once ==
      pc = "rebuild" /\ pc' = "idle" /\ rejected # NoKey =>
        LET inChanges == {i \in DOMAIN changes' : changes'[i].error}
            inProblems == {p \in reported' : p[1] = rejected}
        IN /\ Cardinality(inChanges) + Cardinality(inProblems) = 1
           /\ \A i \in inChanges : changes'[i].op = "Delete" /\ changes'[i].key = rejected
           /\ \A p \in inProblems : p[2].isError
           /\ rejected \notin DOMAIN resources'
<1>1. ASSUME Inv, Next PROVE Once
  <2>1. HostsInv /\ BuiltInv
    BY <1>1 DEF Inv
  <2> SUFFICES ASSUME FinishRebuild, rejected # NoKey PROVE Once
    BY <1>1, OnlyFinishReturns
  <2> QED
    BY <2>1, FinishRejection
<1>2. Inv /\ [Next]_vars => [Once]_conf
  BY <1>1 DEF vars
<1> QED
  BY <1>2, InvHolds, PTL DEF Spec, RejectionReportedOnce
=============================================================================
