---------------------- MODULE ControllerTaskProofs ----------------------
(***************************************************************************)
(* What Controller keeps about the objects that a task concerns and about  *)
(* the work that is left of it: which resource uses an object and which    *)
(* object has a problem, what rebuild reports, and in which order it is    *)
(* applied.  ControllerStatusProofs needs these invariants to show that    *)
(* the statuses are true.                                                  *)
(***************************************************************************)
EXTENDS ControllerProofs

\* how long the provers may work on a step
USE ZenonT(10), SMTT(60)

\* the objects that resource r of x is made of, and whose status it determines
PartKey(x, r, k) ==
  \/ k = x
  \/ /\ x[1] = "Ingress"
     /\ \E i \in DOMAIN r.minions : k = <<"Ingress", r.minions[i].object.key>>
  \/ /\ x[1] = "VirtualServer"
     /\ \E i \in DOMAIN r.routes : k = <<"VirtualServerRoute", r.routes[i].key>>

Uses(x, k) == x \in DOMAIN resources /\ PartKey(x, resources[x], k)

\* the object of k failed validation, and no later version of it waits
Rejected(k) ==
  /\ k \in DOMAIN cluster /\ cluster[k].class /\ ~IsValid(k, cluster[k])
  /\ k \notin dirty /\ ~(wpc = "sync" /\ k \in processing)

\* what Uses says of the next state
LEMMA PrimedUses ==
  \A x, k : Uses(x, k)' <=> x \in DOMAIN resources' /\ PartKey(x, resources'[x], k)
  BY DEF Uses, PartKey

\* what Rejected says of an object that a step leaves alone
LEMMA PrimedRejected ==
  ASSUME NEW k, Rejected(k)', k \in DOMAIN cluster, cluster'[k] = cluster[k]
  PROVE  /\ cluster[k].class /\ ~IsValid(k, cluster[k])
         /\ k \notin dirty' /\ ~(wpc' = "sync" /\ k \in processing')
<1>1. IsValid(k, cluster[k])' <=> IsValid(k, cluster'[k])
  BY DEF IsValid, validateIngress, validateIngressSpec, isMaster, isMinion, validateMasterSpec,
     validateMinionSpec
<1> QED
  BY <1>1 DEF Rejected

-----------------------------------------------------------------------------
\* The warnings of a VirtualServer.  IsEqual does not compare them; they follow from
\* what it does compare.

\* there are warnings exactly if not every reference of the object leads to a route
References(vs, n) == {i \in 1..n : vs.routes[i].route # 0}
WarningsRight(r) ==
  r.warnings = {} <=> Len(r.routes) = Cardinality(References(r.object, Len(r.object.routes)))

\* it holds of the active resources and of those that rebuild has built so far
WarnInv ==
  /\ \A k \in DOMAIN resources : k[1] = "VirtualServer" => WarningsRight(resources[k])
  /\ \A k \in Range(newHosts) : k[1] = "VirtualServer" => WarningsRight(newResources[k])

\* the loop of buildVirtualServerRoutes, when it has seen c references
Counts(acc, c) ==
  /\ {"routes", "warnings"} \subseteq DOMAIN acc
  /\ acc.routes \in Seq(Range(virtualServerRoutes))
  /\ Len(acc.routes) <= c
  /\ acc.warnings = {} <=> Len(acc.routes) = c

\* one iteration of it
LEMMA AddRouteCounts ==
  ASSUME NEW vs, NEW acc, NEW r, NEW c \in Nat, Counts(acc, c)
  PROVE  Counts(AddRoute(vs, acc, r), IF r.route = 0 THEN c ELSE c + 1)
<1> DEFINE T == Range(virtualServerRoutes)
<1>0. /\ {"routes", "warnings"} \subseteq DOMAIN acc /\ acc.routes \in Seq(T)
      /\ Len(acc.routes) \in Nat /\ Len(acc.routes) <= c
      /\ acc.warnings = {} <=> Len(acc.routes) = c
  BY DEF Counts
<1>1. CASE r.route = 0
  BY <1>1 DEF AddRoute
<1>2. CASE r.route # 0 /\ UsableRoute(vs, r)
  <2> DEFINE v == virtualServerRoutes[r.route]
             new == [acc EXCEPT !.routes = Append(@, v)]
  <2>1. AddRoute(vs, acc, r) = new
    BY <1>2 DEF AddRoute
  <2>2. v \in T
    BY <1>2 DEF UsableRoute, Range
  <2>3. /\ {"routes", "warnings"} \subseteq DOMAIN new
        /\ new.routes = Append(acc.routes, v) /\ new.warnings = acc.warnings
    BY <1>0
  <2> HIDE DEF T, v, new
  <2>4. new.routes \in Seq(T) /\ Len(new.routes) = Len(acc.routes) + 1
    BY <1>0, <2>2, <2>3
  <2> QED
    BY <1>0, <1>2, <2>1, <2>3, <2>4 DEF Counts, T
<1>3. CASE r.route # 0 /\ ~UsableRoute(vs, r)
  <2> DEFINE new == [acc EXCEPT !.warnings = @ \cup {<<"route", r.route>>}]
  <2>1. AddRoute(vs, acc, r) = new
    BY <1>3 DEF AddRoute
  <2>2. /\ {"routes", "warnings"} \subseteq DOMAIN new
        /\ new.routes = acc.routes /\ new.warnings # {}
    BY <1>0
  <2> HIDE DEF T, new
  <2> QED
    BY <1>0, <1>3, <2>1, <2>2 DEF Counts, T
<1> QED
  BY <1>1, <1>2, <1>3

\* the next reference, or none
LEMMA NextReference ==
  ASSUME NEW vs, NEW i \in Nat \ {0}, IsFiniteSet(References(vs, i - 1))
  PROVE  /\ IsFiniteSet(References(vs, i))
         /\ Cardinality(References(vs, i)) =
              IF vs.routes[i].route = 0 THEN Cardinality(References(vs, i - 1))
              ELSE Cardinality(References(vs, i - 1)) + 1
<1>1. \A j : j \in 1..i <=> j \in 1..(i - 1) \/ j = i
  OBVIOUS
<1>2. i \notin 1..(i - 1)
  OBVIOUS
<1>3. CASE vs.routes[i].route = 0
  <2>1. References(vs, i) = References(vs, i - 1)
    BY <1>1, <1>3 DEF References
  <2> QED
    BY <1>3, <2>1
<1>4. CASE vs.routes[i].route # 0
  <2>1. References(vs, i) = References(vs, i - 1) \cup {i}
    BY <1>1, <1>4 DEF References
  <2>2. i \notin References(vs, i - 1)
    BY <1>2 DEF References
  <2> QED
    BY <1>4, <2>1, <2>2, FS_AddElement, SMTT(60)
<1> QED
  BY <1>3, <1>4

\* buildVirtualServerRoutes warns exactly if a reference leads nowhere
LEMMA RoutesCounted ==
  ASSUME NEW vs, NEW S, vs.routes \in Seq(S)
  PROVE  Counts(buildVirtualServerRoutes(vs), Cardinality(References(vs, Len(vs.routes))))
<1> DEFINE rs == vs.routes
           n == Len(rs)
           count(i) == Cardinality(References(vs, i))
<1>1. n \in Nat
  OBVIOUS
<1>2. PICK g : /\ g[0] = [routes |-> <<>>, warnings |-> {}]
               /\ \A i \in 1..n : g[i] = AddRoute(vs, g[i - 1], rs[i])
               /\ g[n] = buildVirtualServerRoutes(vs)
  BY RouteTrace
<1> DEFINE Right(i) == IsFiniteSet(References(vs, i)) /\ Counts(g[i], count(i))
           P == {i \in 0..n : Right(i)}
<1>3. Right(0)
  <2>1. References(vs, 0) = {}
    BY DEF References
  <2>2. IsFiniteSet(References(vs, 0)) /\ count(0) = 0
    BY <2>1, FS_EmptySet
  <2>3. Counts(g[0], 0)
    BY <1>2, SMTT(60) DEF Counts
  <2> QED
    BY <2>2, <2>3
<1>4. ASSUME NEW i \in 1..n, Right(i - 1) PROVE Right(i)
  <2>1. i \in Nat \ {0} /\ IsFiniteSet(References(vs, i - 1)) /\ Counts(g[i - 1], count(i - 1))
    BY <1>1, <1>4
  <2>2. count(i - 1) \in Nat
    BY <2>1, FS_CardinalityType
  <2>3. /\ IsFiniteSet(References(vs, i))
        /\ count(i) = IF rs[i].route = 0 THEN count(i - 1) ELSE count(i - 1) + 1
    BY <2>1, NextReference
  <2>4. g[i] = AddRoute(vs, g[i - 1], rs[i])
    BY <1>2
  <2> HIDE DEF count, rs
  <2>5. Counts(AddRoute(vs, g[i - 1], rs[i]), IF rs[i].route = 0 THEN count(i - 1) ELSE count(i - 1) + 1)
    BY <2>1, <2>2, AddRouteCounts
  <2> QED
    BY <2>3, <2>4, <2>5
<1>5. n \in P
  <2> HIDE DEF Right
  <2>1. 0 \in P /\ \A i \in 1..n : i - 1 \in P => i \in P
    BY <1>1, <1>3, <1>4, SMTT(60)
  <2> HIDE DEF P
  <2>2. \A i \in 0..n : i \in P
    BY <1>1, <2>1, LoopInvariant
  <2> QED
    BY <1>1, <2>2
<1>6. Right(n)
  BY <1>5
<1> QED
  BY <1>2, <1>6

LEMMA NewWarnings ==
  ASSUME StoreOK, NEW k \in StoredKeys, k[1] = "VirtualServer"
  PROVE  WarningsRight(NewResource(k))
<1> DEFINE vs == Object(k)
<1>1. NewResource(k) = NewFullVirtualServer(vs)
  BY DEF NewResource, Object
<1>2. /\ NewResource(k).object = vs /\ NewResource(k).routes = buildVirtualServerRoutes(vs).routes
      /\ NewResource(k).warnings = buildVirtualServerRoutes(vs).warnings
  BY <1>1 DEF NewFullVirtualServer
<1>3. PICK S : vs.routes \in Seq(S)
  BY SMTT(60) DEF StoreOK, StoredKeys, ResourceKeys, Object
<1> HIDE DEF vs
<1>4. Counts(buildVirtualServerRoutes(vs), Cardinality(References(vs, Len(vs.routes))))
  BY <1>3, RoutesCounted
<1> QED
  BY <1>2, <1>4 DEF WarningsRight, Counts

\* warnings that are right depend on the object and the number of routes only
LEMMA SameWarnings ==
  ASSUME NEW r, NEW n, r.object = n.object, Len(r.routes) = Len(n.routes)
  PROVE  /\ r.warnings = n.warnings /\ WarningsRight(r) => WarningsRight(n)
         /\ WarningsRight(r) /\ WarningsRight(n) => (r.warnings = {} <=> n.warnings = {})
  BY DEF WarningsRight

LEMMA PrimedWarnings ==
  /\ \A k : WarningsRight(resources[k])' <=> WarningsRight(resources'[k])
  /\ \A k : WarningsRight(newResources[k])' <=> WarningsRight(newResources'[k])
  BY DEF WarningsRight, References

\* a VirtualServer that holds its host has no warning about the host
LEMMA BuildWarnings ==
  ASSUME StoreOK, HostsInv, BuiltInv, WarnInv, NEW k \in building, BuildResource(k),
         NEW j \in Range(newHosts'), j[1] = "VirtualServer"
  PROVE  WarningsRight(newResources'[j])
<1> DEFINE r == NewResource(k)
           T == TakenHosts(r)
<1>1. /\ LoopOK /\ pc = "rebuild" /\ k \in StoredKeys /\ k \notin DOMAIN newResources
      /\ HostsRight(newHosts, DOMAIN newResources)
  BY DEF HostsInv, LoopOK, BuildResource
<1>2. /\ newHosts' = [h \in DOMAIN newHosts \cup T |-> IF h \in T THEN k ELSE newHosts[h]]
      /\ newResources'[k] = AddWarnings(AcquireHosts(r, T), ClaimedHosts(r) \ T)
      /\ \A i \in DOMAIN newResources : newResources'[i] = Yield(i, T)
  BY <1>1 DEF BuildResource
<1>3. PICK h \in DOMAIN newHosts' : newHosts'[h] = j
  BY DEF Range
<1>4. CASE h \in T
  <2>1. j = k
    BY <1>2, <1>3, <1>4
  <2>2. r.kind = "VirtualServer" /\ {"kind", "object", "warnings"} \subseteq DOMAIN r
    BY <1>1, <2>1, NewResourceRight
  <2>3. "routes" \in DOMAIN r /\ Built(r, k)
    BY <1>1, <2>1, NewResourceBuilt DEF Built
  <2>4. WarningsRight(r)
    BY <1>1, <2>1, NewWarnings
  <2>5. AcquireHosts(r, T) = r
    BY <2>2 DEF AcquireHosts, SetHosts
  <2>6. ClaimedHosts(r) \ T = {}
    BY <1>4, <2>2 DEF TakenHosts, ClaimedHosts
  <2> HIDE DEF r, T
  <2>7. newResources'[k] = AddWarnings(r, {})
    BY <1>2, <2>5, <2>6
  <2>8. /\ AddWarnings(r, {}).object = r.object /\ AddWarnings(r, {}).routes = r.routes
        /\ AddWarnings(r, {}).warnings = r.warnings
    BY <2>2, <2>3 DEF AddWarnings
  <2> QED
    BY <2>1, <2>4, <2>7, <2>8, SameWarnings
<1>5. CASE h \notin T
  <2>1. h \in DOMAIN newHosts /\ newHosts[h] = j
    BY <1>2, <1>3, <1>5
  <2>2. j \in Range(newHosts) /\ j \in DOMAIN newResources
    BY <1>1, <2>1 DEF Range, LoopOK
  <2> DEFINE old == newResources[j]
             lost == {g \in T \cap DOMAIN newHosts : newHosts[g] = j}
  <2>3. WarningsRight(old) /\ Built(old, j) /\ ResourceRight(old, j, newHosts)
    BY <1>1, <2>2 DEF WarnInv, BuiltInv, HostsInv
  <2>4. old.kind = "VirtualServer" /\ {"object", "routes", "warnings"} \subseteq DOMAIN old
    BY <2>3 DEF Built, ResourceRight
  <2>5. lost = {}
    <3>1. \A g \in DOMAIN newHosts : newHosts[g] = j => g = Object(j).host
      BY <1>1 DEF HostsRight, HostsOf
    <3> HIDE DEF T
    <3> QED
      BY <1>5, <2>1, <3>1
  <2>6. newResources'[j] = AddWarnings(ReleaseHosts(old, lost), lost)
    BY <1>2, <2>2 DEF Yield
  <2> HIDE DEF old, lost
  <2>7. ReleaseHosts(old, {}) = old
    BY <2>4 DEF ReleaseHosts, SetHosts
  <2>8. newResources'[j] = AddWarnings(old, {})
    BY <2>5, <2>6, <2>7
  <2>9. /\ AddWarnings(old, {}).object = old.object /\ AddWarnings(old, {}).routes = old.routes
        /\ AddWarnings(old, {}).warnings = old.warnings
    BY <2>4 DEF AddWarnings
  <2> QED
    BY <2>3, <2>8, <2>9, SameWarnings
<1> QED
  BY <1>4, <1>5

\* every step keeps the warnings right
LEMMA WarnStep == ConfInv /\ WarnInv /\ [Next]_vars => WarnInv'
<1> SUFFICES ASSUME ConfInv, WarnInv, [Next]_vars PROVE WarnInv'
  OBVIOUS
<1>0. StoreOK /\ HostsInv /\ BuiltInv
  BY StoreIsOK DEF ConfInv
<1>1. ASSUME UNCHANGED <<resources, newHosts, newResources>> PROVE WarnInv'
  BY <1>1, PrimedWarnings DEF WarnInv
<1>2. ASSUME UNCHANGED resources, newHosts' = Empty PROVE WarnInv'
  <2>1. Range(newHosts') = {}
    BY <1>2 DEF Empty, Range
  <2> QED
    BY <1>2, <2>1, PrimedWarnings DEF WarnInv
<1>3. CASE SyncTask
  <2>1. \/ UNCHANGED <<resources, newHosts, newResources>>
        \/ UNCHANGED resources /\ newHosts' = Empty
    BY <1>3 DEF SyncTask, syncIngress, syncVirtualServer, syncVirtualServerRoute,
       AddOrUpdateIngress, AddOrUpdateVirtualServer, AddOrUpdateVirtualServerRoute, DeleteIngress,
       DeleteVirtualServer, DeleteVirtualServerRoute, DeleteNothing, StartRebuild, active, locals
  <2> QED
    BY <1>1, <1>2, <2>1
<1>4. CASE Rebuild
  <2>1. ASSUME NEW k \in building, BuildResource(k) PROVE WarnInv'
    <3>1. resources' = resources
      BY <2>1 DEF BuildResource, active
    <3>2. \A j \in Range(newHosts') : j[1] = "VirtualServer" => WarningsRight(newResources'[j])
      BY <1>0, <2>1, BuildWarnings
    <3>3. Range(newHosts)' = Range(newHosts')
      BY DEF Range
    <3> QED
      BY <3>1, <3>2, <3>3, PrimedWarnings DEF WarnInv
  <2>2. CASE FinishRebuild
    <3>1. /\ newHosts' = Empty
          /\ resources' = [k \in Range(newHosts) |-> newResources[k]]
      BY <2>2 DEF FinishRebuild
    <3>2. \A k \in DOMAIN resources' : k[1] = "VirtualServer" => WarningsRight(resources'[k])
      BY <3>1 DEF WarnInv
    <3>3. Range(newHosts') = {} /\ Range(newHosts)' = Range(newHosts')
      BY <3>1 DEF Empty, Range
    <3> QED
      BY <3>2, <3>3, PrimedWarnings DEF WarnInv
  <2> QED
    BY <1>4, <2>1, <2>2 DEF Rebuild
<1>5. ASSUME \/ GetTask \/ TaskDone \/ Informer \/ UNCHANGED vars
             \/ Users(Specs, Uids, 1..MaxClock)
             \/ \E ok \in ReloadResults, w \in GeneratorWarnings : ApplyChange(ok, w)
             \/ \E p \in reported : ProcessProblem(p)
      PROVE  UNCHANGED <<resources, newHosts, newResources>>
  BY <1>5 DEF GetTask, TaskDone, Informer, StatusArrives, Users, CreateObject, UpdateObject,
     DeleteObject, ApplyChange, ProcessProblem, vars, conf, active, locals
<1> QED
  BY <1>1, <1>3, <1>4, <1>5 DEF Next, Worker

-----------------------------------------------------------------------------
\* A resource that IsEqual takes for unchanged has the same parts.

LEMMA EqualKeys ==
  ASSUME NEW x, NEW r, NEW n, ShapeOK(x, r), ShapeOK(x, n), IsEqual(r, n), NEW k
  PROVE  PartKey(x, r, k) <=> PartKey(x, n, k)
<1>1. r.kind = x[1] /\ n.kind = x[1] /\ x[1] \in {"Ingress", "VirtualServer"}
  BY DEF ShapeOK, ResKeys
<1>2. CASE x[1] = "Ingress"
  <2> DEFINE ms == r.minions
             ns == n.minions
  <2>1. /\ Len(ms) = Len(ns)
        /\ \A i \in DOMAIN ms : ms[i].object.key = ns[i].object.key
    BY <1>1, <1>2 DEF IsEqual, IsEqualIngress, SameMetaWithAnnotations, SameMeta
  <2>2. (ms = <<>> \/ PathsRight(ms)) /\ (ns = <<>> \/ PathsRight(ns))
    BY <1>2 DEF ShapeOK
  <2>3. DOMAIN ms = DOMAIN ns
    <3>0. <<>> \in Seq(Range(<<>>))
      OBVIOUS
    <3>1. ms \in Seq(Range(ms)) /\ ns \in Seq(Range(ns))
      BY <2>2, <3>0, Zenon DEF PathsRight
    <3> HIDE DEF ms, ns
    <3> QED
      BY <2>1, <3>1
  <2> QED
    BY <1>2, <2>1, <2>3 DEF PartKey
<1>3. CASE x[1] = "VirtualServer"
  <2> DEFINE ms == r.routes
             ns == n.routes
  <2>1. /\ Len(ms) = Len(ns)
        /\ \A i \in DOMAIN ms : ms[i].key = ns[i].key
    BY <1>1, <1>3 DEF IsEqual, IsEqualVirtualServer, SameMeta
  <2>2. DOMAIN ms = DOMAIN ns
    <3>1. ms \in Seq(Range(ms)) /\ ns \in Seq(Range(ns))
      BY <1>3 DEF ShapeOK
    <3> HIDE DEF ms, ns
    <3> QED
      BY <2>1, <3>1
  <2> QED
    BY <1>3, <2>1, <2>2 DEF PartKey
<1> QED
  BY <1>1, <1>2, <1>3

\* and the same warnings, if its object is the same and no other of that name
LEMMA EqualWarnings ==
  ASSUME UidsInv, NEW k, k[1] = "VirtualServer", NEW r, NEW n, ShapeOK(k, r), ShapeOK(k, n),
         Historic(k, r.object), Current(k, n.object), r.object.uid = n.object.uid,
         IsEqual(r, n), WarningsRight(r), WarningsRight(n)
  PROVE  r.warnings = {} <=> n.warnings = {}
<1>1. SameMeta(r.object, n.object) /\ Len(r.routes) = Len(n.routes)
  BY DEF ShapeOK, IsEqual, IsEqualVirtualServer
<1>2. r.object = n.object
  BY <1>1, EqualPart, SMTT(60) DEF Reincarnated
<1> QED
  BY <1>1, <1>2, SameWarnings

\* what rebuild does not report has the same parts as before, and warnings if it had
LEMMA FinishUnreported ==
  ASSUME ConfInv, PartsInv, WarnInv, WarnInv', FinishRebuild, NEW x \in DOMAIN resources',
         ~\E i \in DOMAIN changes' : changes'[i].op = "AddOrUpdate" /\ changes'[i].key = x
  PROVE  /\ x \in DOMAIN resources
         /\ \A k : PartKey(x, resources'[x], k) => PartKey(x, resources[x], k)
         /\ x[1] = "VirtualServer" /\ resources[x].object.uid = resources'[x].object.uid =>
              (resources[x].warnings = {} <=> resources'[x].warnings = {})
<1>1. HostsInv /\ BuiltInv /\ UidsInv /\ pc = "rebuild"
  BY DEF ConfInv, FinishRebuild
<1>2. x \in DOMAIN resources /\ IsEqual(resources[x], resources'[x])
  BY <1>1, FinishSquashed, SMTT(60)
<1>3. ShapeOK(x, resources[x]) /\ Historic(x, resources[x].object)
  BY <1>2 DEF PartsInv, BuiltFromHistoric, PartOf
<1>4. ShapeOK(x, resources'[x]) /\ Current(x, resources'[x].object)
  BY NewCurrent DEF PartOf
<1>5. \A k : PartKey(x, resources'[x], k) => PartKey(x, resources[x], k)
  BY <1>2, <1>3, <1>4, EqualKeys
<1>6. ASSUME x[1] = "VirtualServer", resources[x].object.uid = resources'[x].object.uid
      PROVE  resources[x].warnings = {} <=> resources'[x].warnings = {}
  <2>1. WarningsRight(resources[x]) /\ WarningsRight(resources'[x])
    BY <1>2, <1>6, PrimedWarnings DEF WarnInv
  <2> QED
    BY <1>1, <1>2, <1>3, <1>4, <1>6, <2>1, EqualWarnings
<1> QED
  BY <1>2, <1>5, <1>6

-----------------------------------------------------------------------------
\* Between calls, what is in use or has a problem is stored, an object is used by one
\* resource, and one that is used has no problem.

\* a problem in problems is of a stored object, and no failed validation
ProblemsInv ==
  pc = "idle" => \A k \in DOMAIN problems : /\ k \in Keys /\ Stored(k)
                                            /\ problems[k].isError = FALSE

\* the problems that rebuild collects are of stored objects
LEMMA NewProblemsStored ==
  ASSUME StoreInv, HostsInv, FinishRebuild, NEW k \in DOMAIN NewProblems
  PROVE  k \in Keys /\ Stored(k) /\ NewProblems[k].isError = FALSE
<1>1. DOMAIN newResources = StoredKeys
  BY DEF FinishRebuild, HostsInv, LoopOK
<1>2. k \in WithoutActiveHost \cup OrphanMinions \cup OrphanVsrs \cup IgnoredVsrs
  BY DEF NewProblems
<1>3. k \in Keys /\ Stored(k)
  <2>1. CASE k \in StoredKeys
    BY <2>1 DEF StoredKeys, ResourceKeys, StoreInv, Stored
  <2>2. CASE k \in OrphanMinions
    BY <2>2 DEF OrphanMinions, StoreInv, Stored
  <2>3. CASE k \in OrphanVsrs \cup IgnoredVsrs
    BY <2>3, SMTT(60) DEF OrphanVsrs, IgnoredVsrs, StoreInv, Stored
  <2> QED
    BY <1>1, <1>2, <2>1, <2>2, <2>3 DEF WithoutActiveHost
<1>4. \E reason, message : NewProblems[k] = Problem(FALSE, reason, message)
  <2> DEFINE value == CASE k \in WithoutActiveHost -> Problem(FALSE, "Rejected", NoKey)
       [] k \in OrphanMinions -> Problem(FALSE, "NoIngressMasterFound", NoKey)
       [] k \in OrphanVsrs -> Problem(FALSE, "NoVirtualServerFound", NoKey)
       [] k \in IgnoredVsrs ->
            Problem(FALSE, "Ignored", newHosts[virtualServerRoutes[k[2]].host])
  <2>1. NewProblems[k] = value
    BY <1>2 DEF NewProblems
  <2> DEFINE T == {Problem(FALSE, "Rejected", NoKey), Problem(FALSE, "NoIngressMasterFound", NoKey),
                   Problem(FALSE, "NoVirtualServerFound", NoKey),
                   Problem(FALSE, "Ignored", newHosts[virtualServerRoutes[k[2]].host])}
  <2>2. /\ Problem(FALSE, "Rejected", NoKey) \in T
        /\ Problem(FALSE, "NoIngressMasterFound", NoKey) \in T
        /\ Problem(FALSE, "NoVirtualServerFound", NoKey) \in T
        /\ Problem(FALSE, "Ignored", newHosts[virtualServerRoutes[k[2]].host]) \in T
    OBVIOUS
  <2>3. \A t \in T : \E reason, message : t = Problem(FALSE, reason, message)
    OBVIOUS
  <2> HIDE DEF T
  <2>4. value \in T
    BY <1>2, <2>2, Zenon
  <2> HIDE DEF value
  <2> QED
    BY <2>1, <2>3, <2>4
<1>5. \A reason, message : Problem(FALSE, reason, message).isError = FALSE
  BY DEF Problem
<1> QED
  BY <1>3, <1>4, <1>5

\* every step keeps the problems those of stored objects
LEMMA ProblemsStep == ConfInv /\ ProblemsInv /\ [Next]_vars => ProblemsInv'
<1> SUFFICES ASSUME ConfInv, ProblemsInv, [Next]_vars PROVE ProblemsInv'
  OBVIOUS
<1>1. CASE FinishRebuild
  <2>1. problems' = NewProblems /\ UNCHANGED store
    BY <1>1 DEF FinishRebuild
  <2>2. \A k : Stored(k)' <=> Stored(k)
    BY <2>1 DEF store, Stored
  <2>3. \A k \in DOMAIN problems' : k \in Keys /\ Stored(k) /\ problems'[k].isError = FALSE
    BY <1>1, <2>1, NewProblemsStored DEF ConfInv
  <2> QED
    BY <2>2, <2>3 DEF ProblemsInv, Keys
<1>2. ASSUME UNCHANGED <<store, problems, pc>> PROVE ProblemsInv'
  <2>1. \A k : Stored(k)' <=> Stored(k)
    BY <1>2 DEF store, Stored
  <2> QED
    BY <1>2, <2>1 DEF ProblemsInv, Keys
<1>3. CASE pc' = "rebuild"
  BY <1>3 DEF ProblemsInv
<1>4. CASE SyncTask
  <2>1. UNCHANGED <<store, problems, pc>> \/ pc' = "rebuild"
    BY <1>4 DEF SyncTask, syncIngress, syncVirtualServer, syncVirtualServerRoute,
       AddOrUpdateIngress, AddOrUpdateVirtualServer, AddOrUpdateVirtualServerRoute, DeleteIngress,
       DeleteVirtualServer, DeleteVirtualServerRoute, DeleteNothing, StartRebuild, active
  <2> QED
    BY <1>2, <1>3, <2>1
<1>5. CASE Rebuild
  <2>1. FinishRebuild \/ UNCHANGED <<store, problems, pc>>
    BY <1>5 DEF Rebuild, BuildResource, active
  <2> QED
    BY <1>1, <1>2, <2>1
<1>6. ASSUME \/ GetTask \/ TaskDone \/ Informer \/ UNCHANGED vars
             \/ Users(Specs, Uids, 1..MaxClock)
             \/ \E ok \in ReloadResults, w \in GeneratorWarnings : ApplyChange(ok, w)
             \/ \E p \in reported : ProcessProblem(p)
      PROVE  UNCHANGED <<store, problems, pc>>
  BY <1>6 DEF GetTask, TaskDone, Informer, StatusArrives, Users, CreateObject, UpdateObject,
     DeleteObject, ApplyChange, ProcessProblem, vars, conf, store, active
<1> QED
  BY <1>2, <1>4, <1>5, <1>6 DEF Next, Worker

\* what uses a minion or a route is the holder of its host
LEMMA UserHolds ==
  ASSUME ConfInv, pc = "idle", NEW x, NEW k, Uses(x, k)
  PROVE  /\ x \in StoredKeys /\ x \in Range(hosts) /\ k \in Keys /\ Stored(k)
         /\ \/ k = x
            \/ /\ x[1] = "Ingress" /\ k = <<"Ingress", k[2]>> /\ k[2] \in DOMAIN ingresses
               /\ isMinion(ingresses[k[2]]) /\ hosts[ingresses[k[2]].rules[1]] = x
               /\ \E m \in Range(resources[x].minions) : m.object.key = k[2]
            \/ /\ x[1] = "VirtualServer" /\ k = <<"VirtualServerRoute", k[2]>>
               /\ k[2] \in DOMAIN virtualServerRoutes
               /\ hosts[virtualServerRoutes[k[2]].host] = x
               /\ \E v \in Range(resources[x].routes) : v.key = k[2]
<1> DEFINE r == resources[x]
<1>1. StoreOK /\ HostsInv /\ BuiltInv /\ x \in DOMAIN resources /\ PartKey(x, r, k)
  BY StoreIsOK DEF ConfInv, Uses
<1>2. /\ x \in StoredKeys /\ x \in Range(hosts) /\ HostsRight(hosts, StoredKeys)
      /\ Built(r, x)
  BY <1>1, SMTT(60) DEF HostsInv, LoopOK, HostsRight, Range, BuiltInv
<1>3. PICK h \in DOMAIN hosts : hosts[h] = x
  BY <1>2 DEF Range
<1>4. h \in HostsOf(x)
  BY <1>2, <1>3 DEF HostsRight
<1>5. k \in Keys /\ Stored(k)
  <2>1. PICK o : PartOf(x, r, k, o)
    BY <1>1 DEF PartKey, PartOf
  <2> QED
    BY <1>1, <2>1, IdleCurrent DEF Current
<1>6. CASE k = x
  BY <1>2, <1>5, <1>6
<1>7. ASSUME x[1] = "Ingress", NEW i \in DOMAIN r.minions,
             k = <<"Ingress", r.minions[i].object.key>>
      PROVE  /\ k = <<"Ingress", k[2]>> /\ k[2] \in DOMAIN ingresses
             /\ isMinion(ingresses[k[2]]) /\ hosts[ingresses[k[2]].rules[1]] = x
             /\ \E m \in Range(resources[x].minions) : m.object.key = k[2]
  <2>1. r.minions[i] \in Range(r.minions) /\ r.minions[i].object.key = k[2]
    BY <1>7 DEF Range
  <2>2. isMaster(Object(x)) /\ MinionsRight(r.minions, Object(x).rules[1])
    <3>1. r.minions # <<>>
      BY <1>7
    <3> QED
      BY <1>2, <1>7, <3>1 DEF Built
  <2>3. PICK j \in MinionsOf(Object(x).rules[1]) : r.minions[i].object = ingresses[j]
    BY <2>2 DEF MinionsRight
  <2>4. j = k[2] /\ j \in DOMAIN ingresses /\ isMinion(ingresses[j])
        /\ ingresses[j].rules[1] = Object(x).rules[1]
    BY <1>1, <2>1, <2>3 DEF MinionsOf, StoreOK
  <2>5. h = Object(x).rules[1]
    BY <1>1, <1>2, <1>4, <1>7, <2>2, MasterHost
  <2> QED
    BY <1>3, <1>7, <2>1, <2>4, <2>5
<1>8. ASSUME x[1] = "VirtualServer", NEW i \in DOMAIN r.routes,
             k = <<"VirtualServerRoute", r.routes[i].key>>
      PROVE  /\ k = <<"VirtualServerRoute", k[2]>> /\ k[2] \in DOMAIN virtualServerRoutes
             /\ hosts[virtualServerRoutes[k[2]].host] = x
             /\ \E v \in Range(resources[x].routes) : v.key = k[2]
  <2>1. r.routes[i] \in Range(r.routes) /\ r.routes[i].key = k[2]
    BY <1>8 DEF Range
  <2>2. r.routes[i] \in ListedRoutes(Object(x), DOMAIN Object(x).routes)
    BY <1>2, <1>8, <2>1 DEF Built
  <2>3. PICK j \in DOMAIN virtualServerRoutes :
          r.routes[i] = virtualServerRoutes[j] /\ virtualServerRoutes[j].host = Object(x).host
    BY <2>2 DEF ListedRoutes, UsableRoute, ValidateVirtualServerRouteForVirtualServer
  <2>4. j = k[2]
    BY <1>1, <2>1, <2>3 DEF StoreOK
  <2>5. h = Object(x).host
    BY <1>4, <1>8 DEF HostsOf
  <2> QED
    BY <1>3, <1>8, <2>1, <2>3, <2>4, <2>5
<1> QED
  BY <1>1, <1>2, <1>5, <1>6, <1>7, <1>8 DEF PartKey

\* one resource uses an object, and an object in use has no problem
ActiveInv ==
  /\ \A x, y, k : Uses(x, k) /\ Uses(y, k) => x = y
  /\ \A x, k : Uses(x, k) => k \notin DOMAIN problems

\* between calls that follows from the hosts that the resources hold
LEMMA IdleActive ==
  ASSUME ConfInv, UsedOrProblem, pc = "idle"
  PROVE  ActiveInv
<1>1. ASSUME NEW x, NEW y, NEW k, Uses(x, k), Uses(y, k) PROVE x = y
  <2>1. /\ x \in StoredKeys /\ y \in StoredKeys
        /\ \/ k = x
           \/ /\ x[1] = "Ingress" /\ k = <<"Ingress", k[2]>> /\ k[2] \in DOMAIN ingresses
              /\ isMinion(ingresses[k[2]]) /\ hosts[ingresses[k[2]].rules[1]] = x
           \/ /\ x[1] = "VirtualServer" /\ k = <<"VirtualServerRoute", k[2]>>
              /\ hosts[virtualServerRoutes[k[2]].host] = x
        /\ \/ k = y
           \/ /\ y[1] = "Ingress" /\ k = <<"Ingress", k[2]>> /\ k[2] \in DOMAIN ingresses
              /\ isMinion(ingresses[k[2]]) /\ hosts[ingresses[k[2]].rules[1]] = y
           \/ /\ y[1] = "VirtualServer" /\ k = <<"VirtualServerRoute", k[2]>>
              /\ hosts[virtualServerRoutes[k[2]].host] = y
    BY <1>1, UserHolds, SMTT(60)
  <2>2. \A j \in StoredKeys : /\ j[1] \in {"Ingress", "VirtualServer"}
                              /\ j[1] = "Ingress" => ~isMinion(ingresses[j[2]])
    BY DEF StoredKeys, ResourceKeys
  <2>3. k[1] = "Ingress" \/ k[1] = "VirtualServerRoute" \/ (k = x /\ k = y)
    BY <2>1, <2>2
  <2>4. CASE k \in StoredKeys
    BY <2>1, <2>2, <2>4
  <2>5. CASE k \notin StoredKeys
    <3>1. k # x /\ k # y
      BY <2>1, <2>5
    <3> QED
      BY <2>1, <3>1
  <2> QED
    BY <2>4, <2>5
<1>2. ASSUME NEW x, NEW k, Uses(x, k) PROVE k \notin DOMAIN problems
  <2>1. x \in DOMAIN resources
    BY <1>2 DEF Uses
  <2>2. CASE k = x
    BY <1>2, <2>2, UserHolds DEF UsedOrProblem
  <2>3. CASE /\ x[1] = "Ingress" /\ k = <<"Ingress", k[2]>> /\ k[2] \in DOMAIN ingresses
             /\ isMinion(ingresses[k[2]])
             /\ \E m \in Range(resources[x].minions) : m.object.key = k[2]
    BY <2>1, <2>3, SMTT(60) DEF UsedOrProblem
  <2>4. CASE /\ x[1] = "VirtualServer" /\ k = <<"VirtualServerRoute", k[2]>>
             /\ k[2] \in DOMAIN virtualServerRoutes
             /\ \E v \in Range(resources[x].routes) : v.key = k[2]
    BY <2>1, <2>4, SMTT(60) DEF UsedOrProblem
  <2> QED
    BY <1>2, <2>2, <2>3, <2>4, UserHolds, SMTT(60)
<1> QED
  BY <1>1, <1>2 DEF ActiveInv

\* the steps other than the end of rebuild leave what is active alone
LEMMA ActiveUnchanged ==
  ASSUME [Next]_vars, ~FinishRebuild
  PROVE  resources' = resources /\ problems' = problems
<1>1. CASE SyncTask
  BY <1>1 DEF SyncTask, syncIngress, syncVirtualServer, syncVirtualServerRoute,
     AddOrUpdateIngress, AddOrUpdateVirtualServer, AddOrUpdateVirtualServerRoute, DeleteIngress,
     DeleteVirtualServer, DeleteVirtualServerRoute, DeleteNothing, StartRebuild, active
<1>2. CASE Rebuild
  BY <1>2 DEF Rebuild, BuildResource, active
<1>3. CASE \/ GetTask \/ TaskDone \/ Informer \/ UNCHANGED vars
           \/ Users(Specs, Uids, 1..MaxClock)
           \/ \E ok \in ReloadResults, w \in GeneratorWarnings : ApplyChange(ok, w)
           \/ \E p \in reported : ProcessProblem(p)
  BY <1>3 DEF GetTask, TaskDone, Informer, StatusArrives, Users, CreateObject, UpdateObject,
     DeleteObject, ApplyChange, ProcessProblem, vars, conf, active
<1> QED
  BY <1>1, <1>2, <1>3 DEF Next, Worker

\* only the end of rebuild changes it, and then no call is in progress
LEMMA ActiveStep == ActiveInv /\ (pc = "idle" => ActiveInv)' /\ [Next]_vars => ActiveInv'
<1> SUFFICES ASSUME ActiveInv, (pc = "idle" => ActiveInv)', [Next]_vars PROVE ActiveInv'
  OBVIOUS
<1>1. CASE FinishRebuild
  <2>1. pc' = "idle"
    BY <1>1 DEF FinishRebuild
  <2> QED
    BY <2>1
<1>2. CASE ~FinishRebuild
  <2>1. resources' = resources /\ problems' = problems
    BY <1>2, ActiveUnchanged
  <2>2. \A x, k : Uses(x, k)' <=> Uses(x, k)
    BY <2>1, PrimedUses DEF Uses
  <2> QED
    BY <2>1, <2>2 DEF ActiveInv
<1> QED
  BY <1>1, <1>2

-----------------------------------------------------------------------------
\* While rebuild runs, only the object that is being synced may be in use and no longer
\* stored, and only that one is rejected.

\* an object in use or with a problem is stored, or it is the one being synced
StoredInv ==
  \A k : k \in DOMAIN problems \/ (\E x : Uses(x, k)) =>
    Stored(k) \/ (pc = "rebuild" /\ k \in processing)

\* during rebuild, the task is the rejected object if it failed validation
RejectedInv ==
  /\ pc = "rebuild" => \A k \in processing : Rejected(k) => rejected = k
  /\ rejected = NoKey \/ (pc = "rebuild" /\ rejected \in processing)

\* between calls, only stored objects are in use or have problems
LEMMA IdleStored ==
  ASSUME ConfInv, ProblemsInv, pc = "idle", NEW k, k \in DOMAIN problems \/ \E x : Uses(x, k)
  PROVE  k \in Keys /\ Stored(k)
  BY UserHolds DEF ProblemsInv

\* a step that leaves store alone leaves Stored alone
LEMMA SameStored ==
  ASSUME UNCHANGED store
  PROVE  \A k : Stored(k)' <=> Stored(k)
  BY DEF store, Stored

\* the steps that neither call Configuration nor take or finish a task
LEMMA OutsideWorker ==
  ASSUME Users(Specs, Uids, 1..MaxClock) \/ Informer \/ UNCHANGED vars
  PROVE  /\ UNCHANGED <<store, resources, problems, pc, rejected, changes, reported>>
         /\ UNCHANGED <<processing, wpc, applied, warned>>
  BY DEF Informer, StatusArrives, Users, CreateObject, UpdateObject, DeleteObject, Changed,
     Queue!Add, vars, conf, active, locals, results, tasks, configurator

\* what the worker does between the calls of Configuration
LEMMA IdleWorker ==
  ASSUME ResultsInv, \/ GetTask \/ TaskDone
                     \/ \E ok \in ReloadResults, w \in GeneratorWarnings : ApplyChange(ok, w)
                     \/ \E p \in reported : ProcessProblem(p)
  PROVE  UNCHANGED <<store, resources, problems, pc, rejected>> /\ pc = "idle"
  BY DEF GetTask, TaskDone, ApplyChange, ProcessProblem, ResultsInv, conf, active, locals, store

\* a call of Configuration
LEMMA SyncCalls ==
  ASSUME SyncTask
  PROVE  /\ pc = "idle" /\ UNCHANGED <<resources, problems>> /\ changes' = <<>> /\ reported' = {}
         /\ wpc = "sync" /\ wpc' = "apply"
         /\ UNCHANGED <<cluster, status, queue, dirty, processing, applied, warned, skipped, recreated>>
         /\ pc' = "idle" \/ pc' = "rebuild"
  BY DEF SyncTask, syncIngress, syncVirtualServer, syncVirtualServerRoute,
     AddOrUpdateIngress, AddOrUpdateVirtualServer, AddOrUpdateVirtualServerRoute, DeleteIngress,
     DeleteVirtualServer, DeleteVirtualServerRoute, DeleteNothing, StartRebuild, active, api,
     tasks, configurator, history

\* one iteration of the loop of rebuild
LEMMA BuildLeaves ==
  ASSUME Rebuild, ~FinishRebuild
  PROVE  /\ UNCHANGED <<store, resources, problems, pc, rejected, changes, reported>>
         /\ UNCHANGED <<cluster, status, queue, dirty, processing, wpc, applied, warned, skipped, recreated>>
  BY DEF Rebuild, BuildResource, active, results, api, tasks, configurator, history

\* every step keeps StoredInv
LEMMA StoredStep ==
  ControllerInv /\ ProblemsInv /\ StoredInv /\ (pc = "idle" => StoredInv)' /\ [Next]_vars
    => StoredInv'
<1> SUFFICES ASSUME ControllerInv, ProblemsInv, StoredInv, (pc = "idle" => StoredInv)',
                    [Next]_vars
             PROVE  StoredInv'
  OBVIOUS
<1>0. TasksInv /\ ConfInv /\ ResultsInv
  BY DEF ControllerInv, UpdateInv
<1>1. CASE pc' = "idle"
  BY <1>1
<1>2. ASSUME UNCHANGED <<store, resources, problems, pc, processing>> PROVE StoredInv'
  <2>1. \A x, k : Uses(x, k)' <=> Uses(x, k)
    BY <1>2, PrimedUses DEF Uses
  <2>2. \A k : Stored(k)' <=> Stored(k)
    BY <1>2, SameStored
  <2> QED
    BY <1>2, <2>1, <2>2 DEF StoredInv
<1>3. CASE SyncTask /\ pc' # "idle"
  <2>1. pc = "idle" /\ pc' = "rebuild" /\ UNCHANGED <<resources, problems, processing>>
    BY <1>3, SyncCalls
  <2>2. PICK p \in Keys : processing = {p} /\ SyncedTo(p)
    BY <1>0, <1>3, SyncFollows
  <2>3. \A x, k : Uses(x, k)' <=> Uses(x, k)
    BY <2>1, PrimedUses DEF Uses
  <2>4. ASSUME NEW k, k \in DOMAIN problems \/ \E x : Uses(x, k)
        PROVE  Stored(k)' \/ k \in processing'
    <3>1. k \in Keys /\ Stored(k)
      BY <1>0, <2>1, <2>4, IdleStored
    <3> QED
      BY <2>1, <2>2, <3>1 DEF SyncedTo
  <2> QED
    BY <2>1, <2>3, <2>4 DEF StoredInv
<1>4. CASE Rebuild
  <2>1. CASE FinishRebuild
    BY <1>1, <2>1 DEF FinishRebuild
  <2> QED
    BY <1>2, <1>4, <2>1, BuildLeaves
<1>5. CASE \/ GetTask \/ TaskDone
           \/ \E ok \in ReloadResults, w \in GeneratorWarnings : ApplyChange(ok, w)
           \/ \E p \in reported : ProcessProblem(p)
  BY <1>0, <1>1, <1>5, IdleWorker
<1>6. CASE Users(Specs, Uids, 1..MaxClock) \/ Informer \/ UNCHANGED vars
  BY <1>2, <1>6, OutsideWorker
<1> QED
  BY <1>1, <1>3, <1>4, <1>5, <1>6 DEF Next, Worker

\* an object that is rejected after a step was rejected before it, if it is the same
LEMMA WasRejected ==
  ASSUME NEW k, Rejected(k)', k \in DOMAIN cluster, cluster'[k] = cluster[k],
         dirty \subseteq dirty', wpc' = wpc, processing' = processing
  PROVE  Rejected(k)
  BY PrimedRejected DEF Rejected

\* a user's change makes its key dirty
LEMMA UsersChange ==
  ASSUME TasksInv, Users(Specs, Uids, 1..MaxClock)
  PROVE  \E k \in Keys :
           /\ Changed(k) /\ dirty' = dirty \cup {k}
           /\ \A j : j # k => /\ j \in DOMAIN cluster' <=> j \in DOMAIN cluster
                              /\ j \in DOMAIN cluster => cluster'[j] = cluster[j]
<1>1. PICK k \in Keys : \/ \E s, uid, t : CreateObject(k, s, uid, t)
                        \/ \E s : UpdateObject(k, s)
                        \/ DeleteObject(k)
  BY DEF Users, Keys
<1>2. Changed(k)
  BY <1>1 DEF CreateObject, UpdateObject, DeleteObject
<1>3. dirty' = dirty \cup {k}
  BY <1>2 DEF Changed, Queue!Add, TasksInv
<1>4. \A j : j # k => /\ j \in DOMAIN cluster' <=> j \in DOMAIN cluster
                      /\ j \in DOMAIN cluster => cluster'[j] = cluster[j]
  BY <1>1 DEF CreateObject, UpdateObject, DeleteObject, Put, Drop
<1> QED
  BY <1>2, <1>3, <1>4

\* so what is rejected afterwards is another object, and was rejected before
LEMMA UsersReject ==
  ASSUME TasksInv, Users(Specs, Uids, 1..MaxClock), NEW j, Rejected(j)'
  PROVE  j \in DOMAIN cluster /\ Rejected(j)
<1>1. PICK k \in Keys :
        /\ Changed(k) /\ dirty' = dirty \cup {k}
        /\ \A i : i # k => /\ i \in DOMAIN cluster' <=> i \in DOMAIN cluster
                           /\ i \in DOMAIN cluster => cluster'[i] = cluster[i]
  BY UsersChange
<1>2. j # k /\ j \in DOMAIN cluster'
  BY <1>1 DEF Rejected
<1>3. UNCHANGED <<processing, wpc>>
  BY OutsideWorker
<1> QED
  BY <1>1, <1>2, <1>3, WasRejected

\* SyncTask rejects the object that it finds invalid
LEMMA SyncRejects ==
  ASSUME TasksInv, ConfInv, SyncTask
  PROVE  \E k \in Keys : /\ processing = {k}
                         /\ rejected' = NoKey \/ (rejected' = k /\ pc' = "rebuild")
                         /\ Rejected(k)' => rejected' = k /\ pc' = "rebuild"
<1>1. PICK k \in Keys :
        /\ processing = {k}
        /\ \/ k[1] = "Ingress" /\ syncIngress(k)
           \/ k[1] = "VirtualServer" /\ syncVirtualServer(k)
           \/ k[1] = "VirtualServerRoute" /\ syncVirtualServerRoute(k)
  BY SyncFollows
<1>2. pc = "idle" /\ cluster' = cluster /\ rejected = NoKey
  BY SyncCalls DEF ConfInv, BuiltInv
<1>3. k = <<k[1], k[2]>>
  BY KeyIsPair
<1>4. CASE k \notin DOMAIN cluster
  <2>1. rejected' = NoKey
    BY <1>1, <1>2, <1>4 DEF syncIngress, syncVirtualServer, syncVirtualServerRoute, DeleteIngress,
       DeleteVirtualServer, DeleteVirtualServerRoute, DeleteNothing, locals
  <2>2. ~Rejected(k)'
    BY <1>2, <1>4 DEF Rejected
  <2> QED
    BY <1>1, <2>1, <2>2
<1>5. CASE k \in DOMAIN cluster
  <2> DEFINE o == cluster[k]
  <2>1. o.key = k[2]
    BY <1>5 DEF TasksInv, IsObject
  <2>2. rejected' = ValidationError(k[1], o, IsValid(k, o)) /\ pc' = "rebuild"
    BY <1>1, <1>5 DEF syncIngress, syncVirtualServer, syncVirtualServerRoute, AddOrUpdateIngress,
       AddOrUpdateVirtualServer, AddOrUpdateVirtualServerRoute, StartRebuild, IsValid
  <2>3. rejected' = IF o.class /\ ~IsValid(k, o) THEN k ELSE NoKey
    BY <1>3, <2>1, <2>2 DEF ValidationError
  <2>4. Rejected(k)' => o.class /\ ~IsValid(k, o)
    BY <1>2, <1>5, PrimedRejected
  <2> HIDE DEF o
  <2> QED
    BY <1>1, <2>2, <2>3, <2>4
<1> QED
  BY <1>4, <1>5

\* every step keeps RejectedInv
LEMMA RejectedStep == ControllerInv /\ RejectedInv /\ [Next]_vars => RejectedInv'
<1> SUFFICES ASSUME ControllerInv, RejectedInv, [Next]_vars PROVE RejectedInv'
  OBVIOUS
<1>0. TasksInv /\ ConfInv /\ ResultsInv
  BY DEF ControllerInv, UpdateInv
<1>1. CASE SyncTask
  <2>1. PICK k \in Keys : /\ processing = {k}
                          /\ rejected' = NoKey \/ (rejected' = k /\ pc' = "rebuild")
                          /\ Rejected(k)' => rejected' = k /\ pc' = "rebuild"
    BY <1>0, <1>1, SyncRejects
  <2>2. processing' = {k}
    BY <1>1, <2>1, SyncCalls
  <2> QED
    BY <2>1, <2>2 DEF RejectedInv
<1>2. CASE FinishRebuild
  BY <1>2 DEF FinishRebuild, RejectedInv
<1>3. ASSUME UNCHANGED <<pc, rejected, processing>>, \A k : Rejected(k)' => Rejected(k)
      PROVE  RejectedInv'
  BY <1>3 DEF RejectedInv
<1>4. CASE Rebuild /\ ~FinishRebuild
  <2>1. UNCHANGED <<pc, rejected, processing, cluster, dirty, wpc>>
    BY <1>4, BuildLeaves
  <2>2. \A k : Rejected(k)' => Rejected(k)
    BY <2>1, WasRejected DEF Rejected
  <2> QED
    BY <1>3, <2>1, <2>2
<1>5. CASE \/ GetTask \/ TaskDone
           \/ \E ok \in ReloadResults, w \in GeneratorWarnings : ApplyChange(ok, w)
           \/ \E p \in reported : ProcessProblem(p)
  <2>1. UNCHANGED <<pc, rejected>> /\ pc = "idle"
    BY <1>0, <1>5, IdleWorker
  <2> QED
    BY <2>1 DEF RejectedInv
<1>6. CASE Users(Specs, Uids, 1..MaxClock)
  BY <1>0, <1>3, <1>6, OutsideWorker, UsersReject
<1>7. CASE Informer \/ UNCHANGED vars
  <2>1. UNCHANGED <<pc, rejected, processing, cluster, dirty, wpc>>
    BY <1>7 DEF Informer, StatusArrives, vars, conf, locals, api, tasks
  <2>2. \A k : Rejected(k)' => Rejected(k)
    BY <2>1, WasRejected DEF Rejected
  <2> QED
    BY <1>3, <2>1, <2>2
<1> QED
  BY <1>1, <1>2, <1>4, <1>5, <1>6, <1>7 DEF Next, Worker, Rebuild

-----------------------------------------------------------------------------
\* The queue, the statuses, the objects of a name and the problems to report

\* what is dirty waits or is put back by Done
QueueInv == \A k \in dirty : k \in processing \/ \E i \in DOMAIN queue : queue[i] = k

\* every step keeps QueueInv
LEMMA QueueStep == ControllerInv /\ QueueInv /\ [Next]_vars => QueueInv'
<1> SUFFICES ASSUME ControllerInv, QueueInv, [Next]_vars PROVE QueueInv'
  OBVIOUS
<1>0. TasksInv /\ ResultsInv /\ queue \in Seq(Keys) /\ dirty \subseteq Keys
  BY DEF ControllerInv, UpdateInv, TypesInv
<1>1. ASSUME NEW k \in Keys
      PROVE  LET q == Append(queue, k)
             IN  (\E i \in DOMAIN q : q[i] = k) /\ \A i \in DOMAIN queue : i \in DOMAIN q /\ q[i] = queue[i]
  <2>1. Append(queue, k)[Len(queue) + 1] = k /\ Len(queue) + 1 \in DOMAIN Append(queue, k)
    BY <1>0
  <2>2. \A i \in DOMAIN queue : i \in DOMAIN Append(queue, k) /\ Append(queue, k)[i] = queue[i]
    BY <1>0
  <2> QED
    BY <2>1, <2>2
<1>2. CASE Users(Specs, Uids, 1..MaxClock)
  <2>1. PICK k \in Keys : Changed(k) /\ dirty' = dirty \cup {k}
    BY <1>0, <1>2, UsersChange
  <2>2. /\ processing' = processing
        /\ \/ k \in dirty /\ queue' = queue
           \/ k \in processing /\ queue' = queue
           \/ queue' = Append(queue, k)
    BY <1>0, <2>1 DEF Changed, Queue!Add, TasksInv
  <2>3. ASSUME NEW j \in dirty PROVE j \in processing' \/ \E i \in DOMAIN queue' : queue'[i] = j
    BY <1>1, <2>2, SMTT(60) DEF QueueInv
  <2>4. k \in processing' \/ \E i \in DOMAIN queue' : queue'[i] = k
    BY <1>1, <2>2 DEF QueueInv
  <2> QED
    BY <2>1, <2>3, <2>4 DEF QueueInv
<1>3. CASE GetTask
  <2>1. PICK k \in Keys : Queue!Get(k)
    BY <1>3 DEF GetTask
  <2>2. /\ queue # <<>> /\ k = Head(queue) /\ queue' = Tail(queue)
        /\ processing' = processing \cup {k} /\ dirty' = dirty \ {k}
    BY <2>1 DEF Queue!Get
  <2>3. \A i \in DOMAIN queue : queue[i] = k \/ (i - 1 \in DOMAIN queue' /\ queue'[i - 1] = queue[i])
    BY <1>0, <2>2
  <2> QED
    BY <2>2, <2>3, SMTT(60) DEF QueueInv
<1>4. CASE TaskDone
  <2>1. PICK k \in processing : Queue!Done(k)
    BY <1>4 DEF TaskDone
  <2>2. k \in Keys /\ processing' = processing \ {k} /\ dirty' = dirty
        /\ queue' = IF k \in dirty THEN Append(queue, k) ELSE queue
    BY <1>0, <2>1 DEF Queue!Done, TasksInv
  <2>3. ASSUME NEW j \in dirty PROVE j \in processing' \/ \E i \in DOMAIN queue' : queue'[i] = j
    BY <1>1, <2>2 DEF QueueInv
  <2> QED
    BY <2>2, <2>3 DEF QueueInv
<1>5. ASSUME \/ SyncTask \/ Rebuild \/ Informer \/ UNCHANGED vars
             \/ \E ok \in ReloadResults, w \in GeneratorWarnings : ApplyChange(ok, w)
             \/ \E p \in reported : ProcessProblem(p)
      PROVE  UNCHANGED <<queue, dirty, processing>>
  BY <1>5 DEF SyncTask, Rebuild, Informer, StatusArrives, ApplyChange, ProcessProblem, vars, tasks
<1>6. ASSUME UNCHANGED <<queue, dirty, processing>> PROVE QueueInv'
  BY <1>6 DEF QueueInv
<1> QED
  BY <1>2, <1>3, <1>4, <1>5, <1>6 DEF Next, Worker

\* nothing is written for k
StatusLeft(k) ==
  /\ status'[k] = status[k]
  /\ k \in skipped \cup recreated => k \in skipped' \cup recreated'

\* a status that is to be written is the status afterwards, unless it is skipped
LEMMA Written ==
  ASSUME TypesInv, NEW S, UpdateStatus(S), NEW k \in DOMAIN cluster
  PROVE  /\ k \notin DOMAIN S => StatusLeft(k)
         /\ k \in DOMAIN S /\ k \notin skipped' => status'[k] = S[k]
<1>1. k \in DOMAIN status
  BY DEF TypesInv
<1>2. k \notin DOMAIN S => status'[k] = status[k]
  BY <1>1 DEF UpdateStatus
<1>3. /\ k \in skipped' <=> \/ k \in skipped /\ k \notin DOMAIN S
                            \/ k \in DOMAIN S /\ status'[k] # S[k]
      /\ k \notin DOMAIN S => (k \in recreated' <=> k \in recreated)
  BY <1>1 DEF UpdateStatus
<1> QED
  BY <1>2, <1>3 DEF StatusLeft

\* Unless k is recreated, Configuration has no other object of its name than the cluster.
IncarnationInv ==
  \A k \in DOMAIN cluster \ recreated :
    /\ Stored(k) => StoredObject(k).uid = cluster[k].uid
    /\ k \in DOMAIN resources => resources[k].object.uid = cluster[k].uid

\* what becomes of the UIDs when a user changes an object
LEMMA UsersIncarnation ==
  ASSUME ControllerInv, StoredInv, IncarnationInv, Users(Specs, Uids, 1..MaxClock)
  PROVE  IncarnationInv'
<1>0. TasksInv /\ UpdateInv /\ UNCHANGED <<store, resources>>
  BY OutsideWorker DEF ControllerInv, UpdateInv
<1>1. \A j : (Stored(j)' <=> Stored(j)) /\ StoredObject(j)' = StoredObject(j)
  BY <1>0 DEF store, Stored, StoredObject
<1>2. PICK k \in Keys :
        \/ \E s \in Specs[k], uid \in Uids, t \in 1..MaxClock : CreateObject(k, s, uid, t)
        \/ \E s \in Specs[k] : UpdateObject(k, s)
        \/ DeleteObject(k)
  BY DEF Users, Keys
<1>3. ASSUME NEW j \in DOMAIN cluster', j \notin recreated', j # k
      PROVE  j \in DOMAIN cluster /\ cluster'[j] = cluster[j] /\ j \notin recreated
  <2>1. \/ \E o : cluster' = Put(cluster, k, o) \/ cluster' = [cluster EXCEPT ![k] = o]
        \/ cluster' = Drop(cluster, k)
    BY <1>2 DEF CreateObject, UpdateObject, DeleteObject
  <2>2. recreated' = recreated \/ recreated' = recreated \cup {k} \/ recreated' = recreated \ {k}
    BY <1>2 DEF CreateObject, UpdateObject, DeleteObject, history
  <2>3. j \in DOMAIN cluster /\ cluster'[j] = cluster[j]
    BY <1>3, <2>1 DEF Put, Drop
  <2> QED
    BY <1>3, <2>2, <2>3
<1>4. ASSUME k \in DOMAIN cluster', k \in DOMAIN cluster, k \notin recreated'
      PROVE  cluster'[k].uid = cluster[k].uid /\ k \notin recreated
  <2>1. PICK s \in Specs[k] : UpdateObject(k, s)
    BY <1>2, <1>4 DEF CreateObject, DeleteObject, Drop
  <2>2. IsObject(k, s)
    BY SpecsAssumption DEF SpecsAssumption, Keys
  <2>3. PICK gen : cluster' = [cluster EXCEPT ![k] = Made(s, cluster[k].uid, cluster[k].created, gen)]
    BY <1>0, <2>1, UpdateMakes
  <2>4. Made(s, cluster[k].uid, cluster[k].created, gen).uid = cluster[k].uid
    BY <2>2, MadeFields, SMTT(60)
  <2> QED
    BY <1>4, <2>1, <2>3, <2>4 DEF UpdateObject, history
<1>5. ASSUME k \in DOMAIN cluster', k \notin DOMAIN cluster, k \notin recreated'
      PROVE  ~Stored(k) /\ k \notin DOMAIN resources
  <2>1. k \notin dirty \cup processing
    BY <1>2, <1>5 DEF CreateObject, UpdateObject, DeleteObject, Drop
  <2>2. ~Stored(k)
    BY <1>0, <1>5, <2>1 DEF UpdateInv, Synced, Wanted
  <2> QED
    BY <2>1, <2>2 DEF StoredInv, Uses, PartKey
<1>6. ASSUME NEW j \in DOMAIN cluster' \ recreated'
      PROVE  /\ Stored(j) => StoredObject(j).uid = cluster'[j].uid
             /\ j \in DOMAIN resources => resources[j].object.uid = cluster'[j].uid
  <2>1. CASE j # k
    BY <1>3, <2>1 DEF IncarnationInv
  <2>2. CASE j = k /\ k \in DOMAIN cluster
    BY <1>4, <2>2 DEF IncarnationInv
  <2>3. CASE j = k /\ k \notin DOMAIN cluster
    BY <1>5, <2>3
  <2> QED
    BY <2>1, <2>2, <2>3
<1> QED
  BY <1>0, <1>1, <1>6 DEF IncarnationInv

\* what the worker reports on is what the cluster has, unless it changed since
LEMMA ReportIncarnation ==
  ASSUME ControllerInv, IncarnationInv, wpc = "apply", pc = "idle", NEW S, UpdateStatus(S),
         UNCHANGED <<store, resources, cluster>>
  PROVE  IncarnationInv'
<1>0. ConfInv /\ UpdateInv /\ DOMAIN cluster \subseteq Keys
  BY DEF ControllerInv, UpdateInv, TasksInv
<1>1. \A j : (Stored(j)' <=> Stored(j)) /\ StoredObject(j)' = StoredObject(j)
  BY DEF store, Stored, StoredObject
<1>2. ASSUME NEW k \in DOMAIN cluster, k \notin recreated'
      PROVE  /\ Stored(k) => StoredObject(k).uid = cluster[k].uid
             /\ k \in DOMAIN resources => resources[k].object.uid = cluster[k].uid
  <2>1. CASE k \notin recreated
    BY <2>1 DEF IncarnationInv
  <2>2. CASE k \in recreated
    <3>1. k \notin dirty
      BY <1>2, <2>2 DEF UpdateStatus
    <3>2. Stored(k) => StoredObject(k) = cluster[k]
      BY <1>0, <3>1 DEF UpdateInv, Synced
    <3>3. ASSUME k \in DOMAIN resources PROVE Current(k, resources[k].object)
      BY <1>0, <3>3, IdleCurrent DEF PartOf
    <3> QED
      BY <3>2, <3>3 DEF Current
  <2> QED
    BY <2>1, <2>2
<1> QED
  BY <1>1, <1>2 DEF IncarnationInv

\* every step keeps IncarnationInv
LEMMA IncarnationStep ==
  ControllerInv /\ StoredInv /\ IncarnationInv /\ [Next]_vars => IncarnationInv'
<1> SUFFICES ASSUME ControllerInv, StoredInv, IncarnationInv, [Next]_vars PROVE IncarnationInv'
  OBVIOUS
<1>0. TasksInv /\ ConfInv /\ ResultsInv /\ DOMAIN cluster \subseteq Keys
  BY DEF ControllerInv, UpdateInv, TasksInv
<1>1. ASSUME UNCHANGED <<store, resources, cluster, recreated>> PROVE IncarnationInv'
  <2>1. \A j : (Stored(j)' <=> Stored(j)) /\ StoredObject(j)' = StoredObject(j)
    BY <1>1 DEF store, Stored, StoredObject
  <2> QED
    BY <1>1, <2>1 DEF IncarnationInv
<1>2. CASE SyncTask
  <2>1. UNCHANGED <<resources, cluster, recreated>>
    BY <1>2, SyncCalls
  <2>2. PICK p \in Keys : SyncedTo(p)
    BY <1>0, <1>2, SyncFollows
  <2>3. ASSUME NEW k \in DOMAIN cluster, k \notin recreated, Stored(k)'
        PROVE  StoredObject(k)'.uid = cluster[k].uid
    BY <1>0, <2>2, <2>3 DEF SyncedTo, IncarnationInv
  <2> QED
    BY <2>1, <2>3 DEF IncarnationInv
<1>3. CASE Rebuild /\ FinishRebuild
  <2>1. UNCHANGED <<store, cluster, recreated>>
    BY <1>3 DEF Rebuild, FinishRebuild, api, history
  <2>2. \A j : (Stored(j)' <=> Stored(j)) /\ StoredObject(j)' = StoredObject(j)
    BY <2>1 DEF store, Stored, StoredObject
  <2>3. \A k \in DOMAIN resources' : Stored(k) /\ resources'[k].object = StoredObject(k)
    BY <1>0, <1>3, NewCurrent DEF PartOf, Current
  <2> QED
    BY <2>1, <2>2, <2>3 DEF IncarnationInv
<1>4. CASE Rebuild /\ ~FinishRebuild
  BY <1>1, <1>4, BuildLeaves
<1>5. ASSUME NEW ok, NEW w, ApplyChange(ok, w) PROVE IncarnationInv'
  <2>1. /\ wpc = "apply" /\ pc = "idle" /\ UNCHANGED <<store, resources, cluster>>
        /\ recreated' = recreated \/ \E S : UpdateStatus(S)
    BY <1>5 DEF ApplyChange, updateIngressStatusAndEvents, updateVirtualServerStatusAndEvents,
       UpdateStatusAndEventsOnDelete, store, history
  <2> QED
    BY <1>1, <2>1, ReportIncarnation
<1>6. ASSUME NEW p \in reported, ProcessProblem(p) PROVE IncarnationInv'
  <2>1. /\ wpc = "apply" /\ pc = "idle" /\ UNCHANGED <<store, resources, cluster>>
        /\ \E S : UpdateStatus(S)
    BY <1>6 DEF ProcessProblem, store
  <2> QED
    BY <2>1, ReportIncarnation
<1>7. CASE GetTask \/ TaskDone \/ Informer \/ UNCHANGED vars
  <2>1. UNCHANGED <<store, resources, cluster, recreated>>
    BY <1>7 DEF GetTask, TaskDone, Informer, StatusArrives, vars, api, conf, store, active, history
  <2> QED
    BY <1>1, <2>1
<1>8. CASE Users(Specs, Uids, 1..MaxClock)
  BY <1>8, UsersIncarnation
<1> QED
  BY <1>2, <1>3, <1>4, <1>5, <1>6, <1>7, <1>8 DEF Next, Worker

\* The problems that are still to be reported are problems of Configuration, or the
\* failed validation of an object that is not stored.
ReportInv ==
  /\ pc = "rebuild" \/ wpc # "apply" => reported = {}
  /\ \A p \in reported :
       \/ p[2].isError = FALSE /\ p[1] \in DOMAIN problems
       \/ p[2].isError = TRUE /\ p[1] \in Keys /\ ~Stored(p[1])

\* every step keeps ReportInv
LEMMA ReportStep == ControllerInv /\ RejectedInv /\ ReportInv /\ [Next]_vars => ReportInv'
<1> SUFFICES ASSUME ControllerInv, RejectedInv, ReportInv, [Next]_vars PROVE ReportInv'
  OBVIOUS
<1>0. TasksInv /\ ConfInv /\ ResultsInv
  BY DEF ControllerInv, UpdateInv
<1>1. CASE SyncTask
  BY <1>1, SyncCalls DEF ReportInv
<1>2. CASE Rebuild /\ FinishRebuild
  <2>1. /\ pc = "rebuild" /\ pc' = "idle" /\ wpc' = wpc /\ problems' = NewProblems /\ UNCHANGED store
        /\ \A p \in reported' : \/ p \in detectChangesInProblems(NewProblems, problems)
                                \/ rejected # NoKey /\ p = <<rejected, Problem(TRUE, "Rejected", NoKey)>>
    BY <1>2 DEF Rebuild, FinishRebuild
  <2>2. wpc = "apply"
    BY <1>0, <2>1 DEF ResultsInv
  <2>3. ASSUME NEW p, p \in detectChangesInProblems(NewProblems, problems)
        PROVE  p[2].isError = FALSE /\ p[1] \in DOMAIN problems'
    <3>1. PICK k \in DOMAIN NewProblems : p = <<k, NewProblems[k]>>
      BY <2>3 DEF detectChangesInProblems
    <3>2. NewProblems[k].isError = FALSE
      BY <1>0, <1>2, NewProblemsStored DEF ConfInv
    <3> QED
      BY <2>1, <3>1, <3>2
  <2>4. ASSUME rejected # NoKey, NEW p, p = <<rejected, Problem(TRUE, "Rejected", NoKey)>>
        PROVE  p[2].isError = TRUE /\ p[1] \in Keys /\ ~Stored(p[1])'
    <3>1. rejected \in Keys
      BY <1>0, <2>1, <2>2, <2>4 DEF RejectedInv, TasksInv
    <3>2. Unstored(rejected)
      BY <1>0 DEF ConfInv, BuiltInv
    <3>3. ~Stored(rejected)
      BY <3>1, <3>2, KeyIsPair DEF Unstored, Stored
    <3>4. p[2].isError = TRUE /\ p[1] = rejected
      BY <2>4 DEF Problem
    <3> QED
      BY <2>1, <3>1, <3>3, <3>4, SameStored
  <2>5. Keys' = Keys
    BY DEF Keys
  <2> QED
    BY <2>1, <2>2, <2>3, <2>4, <2>5 DEF ReportInv
<1>3. ASSUME UNCHANGED <<pc, store, problems>>, reported' \subseteq reported,
             reported = {} \/ wpc' = wpc
      PROVE  ReportInv'
  BY <1>3, SameStored DEF ReportInv, Keys
<1>4. CASE Rebuild /\ ~FinishRebuild
  BY <1>3, <1>4, BuildLeaves
<1>5. CASE \/ GetTask \/ TaskDone
           \/ \E ok \in ReloadResults, w \in GeneratorWarnings : ApplyChange(ok, w)
           \/ \E p \in reported : ProcessProblem(p)
  <2>1. UNCHANGED <<pc, store, problems>>
    BY <1>0, <1>5, IdleWorker
  <2>2. reported' \subseteq reported /\ (reported = {} \/ wpc' = wpc)
    BY <1>5 DEF GetTask, TaskDone, ApplyChange, ProcessProblem, ReportInv, conf, results
  <2> QED
    BY <1>3, <2>1, <2>2
<1>6. CASE Users(Specs, Uids, 1..MaxClock) \/ Informer \/ UNCHANGED vars
  BY <1>3, <1>6, OutsideWorker
<1> QED
  BY <1>1, <1>2, <1>4, <1>5, <1>6 DEF Next, Worker

-----------------------------------------------------------------------------
\* The deletions that the worker still has to apply.  One of them may write a status for
\* an object that is in use or has a problem by now; what corrects it comes later.

\* what will correct the status that the i-th change, a deletion, writes
DeleteOK(i) ==
  LET c == changes[i]
  IN /\ c.resource.kind = c.key[1] /\ c.error \in BOOLEAN
     /\ \A x : Uses(x, c.key) =>
          \E j \in DOMAIN changes : changes[j].op = "AddOrUpdate" /\ changes[j].key = x
     /\ c.key \in DOMAIN problems => \E p \in reported : p[1] = c.key
     /\ Rejected(c.key) => c.error = TRUE

\* deletions come first, and each is corrected if it needs to be
DeletesInv ==
  /\ \A i, j \in DOMAIN changes :
       changes[i].op = "AddOrUpdate" /\ changes[j].op = "Delete" => j < i
  /\ \A i \in DOMAIN changes : changes[i].op = "Delete" => DeleteOK(i)

\* what DeleteOK says of the next state
LEMMA PrimedDelete ==
  ASSUME NEW i, NEW x, x = changes'[i].key,
         changes'[i].resource.kind = x[1], changes'[i].error \in BOOLEAN,
         \A y : Uses(y, x)' =>
           \E j \in DOMAIN changes' : changes'[j].op = "AddOrUpdate" /\ changes'[j].key = y,
         x \in DOMAIN problems' => \E p \in reported' : p[1] = x,
         Rejected(x)' => changes'[i].error = TRUE
  PROVE  DeleteOK(i)'
<1>1. \A y : Uses(y, changes[i].key)' <=> Uses(y, x)'
  BY PrimedUses DEF Uses, PartKey
<1>2. Rejected(changes[i].key)' <=> Rejected(x)'
  BY DEF Rejected, IsValid, validateIngress, validateIngressSpec, isMaster, isMinion,
     validateMasterSpec, validateMinionSpec
<1> QED
  BY <1>1, <1>2 DEF DeleteOK

\* a step that keeps the changes and what they depend on keeps DeleteOK
LEMMA DeleteKept ==
  ASSUME UNCHANGED <<resources, problems, reported>>, \A k : Rejected(k)' => Rejected(k),
         NEW i, NEW j, DeleteOK(j), changes'[i] = changes[j],
         \A l \in DOMAIN changes : changes[l].op = "AddOrUpdate" =>
           \E m \in DOMAIN changes' : changes'[m] = changes[l]
  PROVE  DeleteOK(i)'
<1> PICK x : x = changes[j].key
  OBVIOUS
<1>1. /\ changes[j].resource.kind = x[1] /\ changes[j].error \in BOOLEAN
      /\ \A y : Uses(y, x) =>
           \E l \in DOMAIN changes : changes[l].op = "AddOrUpdate" /\ changes[l].key = y
      /\ x \in DOMAIN problems => \E p \in reported : p[1] = x
      /\ Rejected(x) => changes[j].error = TRUE
  BY DEF DeleteOK
<1>2. \A y : Uses(y, x)' <=> Uses(y, x)
  BY PrimedUses DEF Uses
<1>3. \A y : Uses(y, x)' =>
        \E m \in DOMAIN changes' : changes'[m].op = "AddOrUpdate" /\ changes'[m].key = y
  <2> SUFFICES ASSUME NEW y, Uses(y, x)'
               PROVE  \E m \in DOMAIN changes' : changes'[m].op = "AddOrUpdate" /\ changes'[m].key = y
    OBVIOUS
  <2>1. PICK l \in DOMAIN changes : changes[l].op = "AddOrUpdate" /\ changes[l].key = y
    BY <1>1, <1>2
  <2> QED
    BY <2>1
<1>4. /\ x = changes'[i].key /\ changes'[i].resource.kind = x[1] /\ changes'[i].error \in BOOLEAN
      /\ x \in DOMAIN problems' => \E p \in reported' : p[1] = x
      /\ Rejected(x)' => changes'[i].error = TRUE
  BY <1>1
<1> QED
  BY <1>3, <1>4, PrimedDelete

\* The object that failed validation in this call is the only one that is rejected
\* and was in use or had a problem before it.
LEMMA RejectedWasUsed ==
  ASSUME UpdateInv, StoredInv, RejectedInv, NEW k \in Keys, Rejected(k),
         k \in DOMAIN problems \/ \E x : Uses(x, k)
  PROVE  pc = "rebuild" /\ rejected = k
<1>1. Synced(k) /\ ~Wanted(k)
  BY DEF UpdateInv, Rejected, Wanted
<1>2. ~Stored(k)
  BY <1>1 DEF Synced
<1> QED
  BY <1>2 DEF StoredInv, RejectedInv

\* the deletions that rebuild reports
LEMMA FinishDelete ==
  ASSUME ControllerInv, PartsInv, WarnInv, WarnInv', ActiveInv, StoredInv, RejectedInv,
         Rebuild, FinishRebuild, NEW i \in DOMAIN changes', changes'[i].op = "Delete"
  PROVE  DeleteOK(i)'
<1> DEFINE sq == squashResourceChanges(createResourceChanges)
<1> PICK x : x = changes'[i].key
  OBVIOUS
<1>0. ConfInv /\ ResultsInv /\ UpdateInv /\ HostsInv /\ BuiltInv /\ LoopOK
  BY DEF ControllerInv, ConfInv, HostsInv
<1>1. /\ x \in DOMAIN resources /\ x \notin DOMAIN resources'
      /\ changes'[i].error = (x = rejected)
      /\ i \in DOMAIN sq /\ x = sq[i].key
  BY <1>0, FinishSquashed
<1>2. Uses(x, x)
  BY <1>1 DEF Uses, PartKey
<1>3. changes'[i].resource.kind = x[1]
  <2>1. changes' = [j \in DOMAIN sq |-> ResourceChange(sq[j])]
    BY DEF FinishRebuild
  <2> HIDE DEF sq
  <2>2. changes'[i].resource = IF x \in DOMAIN newResources THEN newResources[x] ELSE resources[x]
    BY <1>1, <2>1 DEF ResourceChange
  <2>3. /\ KeyWithKind(resources[x]) = x
        /\ x \in DOMAIN newResources => KeyWithKind(newResources[x]) = x
    BY <1>0, <1>1 DEF LoopOK
  <2> QED
    BY <2>2, <2>3 DEF KeyWithKind
<1>4. ASSUME NEW y, Uses(y, x)'
      PROVE  \E j \in DOMAIN changes' : changes'[j].op = "AddOrUpdate" /\ changes'[j].key = y
  <2> SUFFICES ASSUME ~\E j \in DOMAIN changes' : changes'[j].op = "AddOrUpdate" /\ changes'[j].key = y
               PROVE  FALSE
    OBVIOUS
  <2>1. y \in DOMAIN resources' /\ PartKey(y, resources'[y], x)
    BY <1>4, PrimedUses
  <2>2. Uses(y, x)
    BY <1>0, <2>1, FinishUnreported DEF Uses
  <2> QED
    BY <1>1, <1>2, <2>1, <2>2 DEF ActiveInv
<1>5. x \in DOMAIN problems' => \E p \in reported' : p[1] = x
  <2>1. x \notin DOMAIN problems
    BY <1>2 DEF ActiveInv
  <2>2. /\ problems' = NewProblems
        /\ detectChangesInProblems(NewProblems, problems) \subseteq reported'
    BY DEF FinishRebuild
  <2>3. x \in DOMAIN NewProblems =>
          <<x, NewProblems[x]>> \in detectChangesInProblems(NewProblems, problems)
    BY <2>1 DEF detectChangesInProblems
  <2> QED
    BY <2>2, <2>3
<1>6. Rejected(x)' => changes'[i].error = TRUE
  <2> SUFFICES ASSUME Rejected(x)' PROVE changes'[i].error = TRUE
    OBVIOUS
  <2>1. UNCHANGED <<cluster, dirty, processing, wpc>>
    BY DEF Rebuild, api, tasks
  <2>2. Rejected(x)
    BY <2>1, WasRejected DEF Rejected
  <2>3. x \in Keys
    BY <1>0, <1>1 DEF ResultsInv, ResKeys
  <2>4. rejected = x
    BY <1>0, <1>2, <2>2, <2>3, RejectedWasUsed
  <2> QED
    BY <1>1, <2>4
<1> HIDE DEF sq
<1> QED
  BY <1>1, <1>3, <1>4, <1>5, <1>6, PrimedDelete

\* the steps that leave the object of every rejected key alone
LEMMA SameRejected ==
  ASSUME UNCHANGED <<cluster, dirty, processing, wpc>>
  PROVE  \A k : Rejected(k)' => Rejected(k)
  BY WasRejected DEF Rejected

\* every step keeps DeletesInv
LEMMA DeletesStep ==
  ASSUME ControllerInv, PartsInv, WarnInv, WarnInv', ActiveInv, StoredInv, RejectedInv, DeletesInv,
         [Next]_vars
  PROVE  DeletesInv'
<1>0. TasksInv /\ ConfInv /\ ResultsInv /\ ChangesOK
  BY DEF ControllerInv, UpdateInv, ResultsInv
<1>1. ASSUME changes' = <<>> PROVE DeletesInv'
  <2>1. DOMAIN changes' = {}
    BY <1>1
  <2> QED
    BY <2>1 DEF DeletesInv
<1>2. ASSUME UNCHANGED <<changes, resources, problems, reported>>, \A k : Rejected(k)' => Rejected(k)
      PROVE  DeletesInv'
  <2>1. \A i \in DOMAIN changes' : changes'[i].op = "Delete" => DeleteOK(i)'
    BY <1>2, DeleteKept DEF DeletesInv
  <2> QED
    BY <1>2, <2>1 DEF DeletesInv
<1>3. CASE SyncTask
  BY <1>1, <1>3, SyncCalls
<1>4. CASE Rebuild
  <2>1. CASE FinishRebuild
    <3>1. \A i, j \in DOMAIN changes' :
            changes'[i].op = "AddOrUpdate" /\ changes'[j].op = "Delete" => j < i
      BY <1>0, <2>1, FinishSquashed DEF ConfInv
    <3>2. \A i \in DOMAIN changes' : changes'[i].op = "Delete" => DeleteOK(i)'
      BY <1>4, <2>1, FinishDelete
    <3> QED
      BY <3>1, <3>2 DEF DeletesInv
  <2>2. CASE ~FinishRebuild
    BY <1>2, <1>4, <2>2, BuildLeaves, SameRejected
  <2> QED
    BY <2>1, <2>2
<1>5. ASSUME NEW ok, NEW w, ApplyChange(ok, w) PROVE DeletesInv'
  <2>1. /\ changes # <<>> /\ changes' = Tail(changes)
        /\ UNCHANGED <<resources, problems, reported, cluster, dirty, processing, wpc>>
    BY <1>5 DEF ApplyChange, tasks
  <2>2. /\ 1 \in DOMAIN changes
        /\ \A i \in DOMAIN changes' : i + 1 \in DOMAIN changes /\ changes'[i] = changes[i + 1]
        /\ \A i \in DOMAIN changes :
             i = 1 \/ (i - 1 \in DOMAIN changes' /\ changes'[i - 1] = changes[i])
        /\ \A i \in DOMAIN changes' : i \in Int /\ i >= 1
    <3>1. \A s \in Seq(Range(changes')) : \A i \in DOMAIN s : i \in Int /\ i >= 1
      OBVIOUS
    <3> QED
      BY <1>0, <2>1, <3>1, TailChanges
  <2>3. \A k : Rejected(k)' => Rejected(k)
    BY <2>1, SameRejected
  <2>4. \A i, j \in DOMAIN changes' :
          changes'[i].op = "AddOrUpdate" /\ changes'[j].op = "Delete" => j < i
    <3> SUFFICES ASSUME NEW i \in DOMAIN changes', NEW j \in DOMAIN changes',
                        changes'[i].op = "AddOrUpdate", changes'[j].op = "Delete"
                 PROVE  j < i
      OBVIOUS
    <3>1. j + 1 < i + 1
      BY <2>2 DEF DeletesInv
    <3> QED
      BY <2>2, <3>1, SMTT(60)
  <2>5. ASSUME NEW i \in DOMAIN changes', changes'[i].op = "Delete" PROVE DeleteOK(i)'
    <3>1. i + 1 \in DOMAIN changes /\ changes'[i] = changes[i + 1] /\ DeleteOK(i + 1)
      BY <2>2, <2>5 DEF DeletesInv
    <3>2. changes[1].op # "AddOrUpdate"
      <4>1. changes[1].op = "AddOrUpdate" => i + 1 < 1
        BY <2>2, <2>5, <3>1 DEF DeletesInv
      <4> QED
        BY <2>2, <4>1, SMTT(60)
    <3>3. \A l \in DOMAIN changes : changes[l].op = "AddOrUpdate" =>
            \E m \in DOMAIN changes' : changes'[m] = changes[l]
      BY <2>2, <3>2
    <3>4. PICK j : j = i + 1
      OBVIOUS
    <3> QED
      BY <2>1, <2>3, <3>1, <3>3, <3>4, DeleteKept
  <2> QED
    BY <2>4, <2>5 DEF DeletesInv
<1>6. CASE \E p \in reported : ProcessProblem(p)
  BY <1>1, <1>6 DEF ProcessProblem
<1>7. CASE GetTask \/ TaskDone
  <2>1. changes' = <<>>
    BY <1>0, <1>7 DEF GetTask, TaskDone, ResultsInv, conf, results
  <2> QED
    BY <1>1, <2>1
<1>8. CASE Users(Specs, Uids, 1..MaxClock)
  BY <1>0, <1>2, <1>8, OutsideWorker, UsersReject
<1>9. CASE Informer \/ UNCHANGED vars
  <2>1. UNCHANGED <<cluster, dirty, processing, wpc>>
    BY <1>9 DEF Informer, StatusArrives, vars, api, tasks
  <2> QED
    BY <1>2, <1>9, <2>1, OutsideWorker, SameRejected
<1> QED
  BY <1>3, <1>4, <1>5, <1>6, <1>7, <1>8, <1>9 DEF Next, Worker

-----------------------------------------------------------------------------
\* Whether NGINX reloaded is known of every resource, unless it is still to be updated.

ToUpdate(x) == \E i \in DOMAIN changes : changes[i].op = "AddOrUpdate" /\ changes[i].key = x
AppliedInv == \A x \in DOMAIN resources : x \in DOMAIN applied \/ ToUpdate(x)

\* the change that is applied is the first one, and the others remain
LEMMA AppliedChange ==
  ASSUME ResultsInv, NEW ok, NEW w, ApplyChange(ok, w)
  PROVE  LET c == changes[1]
             x == c.key
         IN /\ 1 \in DOMAIN changes /\ x \in ResKeys
            /\ UNCHANGED <<resources, problems, reported, cluster, dirty, processing, wpc, pc, rejected>>
            /\ \A i \in DOMAIN changes : i # 1 => \E j \in DOMAIN changes' : changes'[j] = changes[i]
            /\ \/ /\ c.op = "AddOrUpdate" /\ x \in DOMAIN resources /\ c.resource = resources[x]
                  /\ applied' = Put(applied, x, ok) /\ warned' = Put(warned, x, w)
                  /\ IF c.resource.kind = "Ingress" THEN updateIngressStatusAndEvents(c.resource, x)
                     ELSE updateVirtualServerStatusAndEvents(c.resource, x, ok, w)
               \/ /\ c.op = "Delete" /\ x \notin DOMAIN resources
                  /\ applied' = Drop(applied, x) /\ warned' = Drop(warned, x)
                  /\ UpdateStatusAndEventsOnDelete(c.resource, x, c.error, ok)
<1>1. ChangesOK /\ changes # <<>> /\ changes' = Tail(changes)
  BY DEF ResultsInv, ApplyChange
<1>2. /\ 1 \in DOMAIN changes /\ Head(changes) = changes[1]
      /\ \A i \in DOMAIN changes : i = 1 \/ (i - 1 \in DOMAIN changes' /\ changes'[i - 1] = changes[i])
  BY <1>1, TailChanges
<1>3. \/ /\ Head(changes).op = "AddOrUpdate"
         /\ applied' = Put(applied, Head(changes).key, ok) /\ warned' = Put(warned, Head(changes).key, w)
         /\ IF Head(changes).resource.kind = "Ingress"
            THEN updateIngressStatusAndEvents(Head(changes).resource, Head(changes).key)
            ELSE updateVirtualServerStatusAndEvents(Head(changes).resource, Head(changes).key, ok, w)
      \/ /\ Head(changes).op = "Delete"
         /\ applied' = Drop(applied, Head(changes).key) /\ warned' = Drop(warned, Head(changes).key)
         /\ UpdateStatusAndEventsOnDelete(Head(changes).resource, Head(changes).key,
                                          Head(changes).error, ok)
  BY DEF ApplyChange
<1>4. UNCHANGED <<resources, problems, reported, cluster, dirty, processing, wpc, pc, rejected>>
  BY DEF ApplyChange, tasks
<1>5. /\ changes[1].key \in ResKeys
      /\ \/ changes[1].op = "Delete" /\ changes[1].key \notin DOMAIN resources
         \/ /\ changes[1].op = "AddOrUpdate" /\ changes[1].key \in DOMAIN resources
            /\ changes[1].resource = resources[changes[1].key]
  BY <1>1, <1>2 DEF ChangesOK
<1> QED
  BY <1>2, <1>3, <1>4, <1>5

\* every step keeps AppliedInv
LEMMA AppliedStep == ControllerInv /\ AppliedInv /\ [Next]_vars => AppliedInv'
<1> SUFFICES ASSUME ControllerInv, AppliedInv, [Next]_vars PROVE AppliedInv'
  OBVIOUS
<1>0. TasksInv /\ ConfInv /\ ResultsInv
  BY DEF ControllerInv, UpdateInv
<1>1. ASSUME UNCHANGED <<resources, applied>>, changes' = changes PROVE AppliedInv'
  BY <1>1 DEF AppliedInv, ToUpdate
<1>2. CASE SyncTask
  <2>1. UNCHANGED <<resources, applied>> /\ changes' = <<>> /\ changes = <<>>
    BY <1>0, <1>2, SyncCalls DEF ResultsInv
  <2> QED
    BY <1>1, <2>1
<1>3. CASE Rebuild
  <2>1. CASE FinishRebuild
    <3>1. applied' = applied /\ changes = <<>>
      BY <1>0, <1>3, <2>1 DEF Rebuild, FinishRebuild, configurator, ResultsInv
    <3>2. \A x \in DOMAIN resources : x \in DOMAIN applied
      BY <3>1 DEF AppliedInv, ToUpdate
    <3>3. \A x \in DOMAIN resources' :
            \/ x \in DOMAIN resources
            \/ \E i \in DOMAIN changes' : changes'[i].op = "AddOrUpdate" /\ changes'[i].key = x
      BY <1>0, <2>1, FinishSquashed, SMTT(60) DEF ConfInv
    <3> QED
      BY <3>1, <3>2, <3>3 DEF AppliedInv, ToUpdate
  <2> QED
    BY <1>1, <1>3, <2>1, BuildLeaves
<1>4. ASSUME NEW ok, NEW w, ApplyChange(ok, w) PROVE AppliedInv'
  <2> PICK x : x = changes[1].key
    OBVIOUS
  <2>1. /\ 1 \in DOMAIN changes /\ resources' = resources
        /\ \A i \in DOMAIN changes : i # 1 => \E j \in DOMAIN changes' : changes'[j] = changes[i]
        /\ \/ applied' = Put(applied, x, ok)
           \/ x \notin DOMAIN resources /\ applied' = Drop(applied, x)
    BY <1>0, <1>4, AppliedChange
  <2>2. ASSUME NEW y \in DOMAIN resources, y # x, ToUpdate(y) PROVE ToUpdate(y)'
    BY <2>1, <2>2 DEF ToUpdate
  <2> QED
    BY <2>1, <2>2 DEF AppliedInv, Put, Drop
<1>5. CASE GetTask \/ TaskDone \/ \E p \in reported : ProcessProblem(p)
  BY <1>1, <1>5 DEF GetTask, TaskDone, ProcessProblem, conf, active, results, configurator
<1>6. CASE Users(Specs, Uids, 1..MaxClock) \/ Informer \/ UNCHANGED vars
  BY <1>1, <1>6, OutsideWorker
<1> QED
  BY <1>2, <1>3, <1>4, <1>5, <1>6 DEF Next, Worker
===============================================================================
