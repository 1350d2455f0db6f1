---------------------------- MODULE Configuration ----------------------------
(***************************************************************************)
(* The Configuration object of internal/k8s/configuration.go: it stores    *)
(* the valid Ingress, VirtualServer and VirtualServerRoute objects of the  *)
(* right class, decides which of them holds which host, and returns the    *)
(* changes and problems that every operation causes.                       *)
(*                                                                         *)
(* Strings that the code only compares and sorts (hosts, namespace/name    *)
(* keys, paths, UIDs) are integers.  Objects are records:                  *)
(*   Ingress             key, uid, created, generation, annotations,       *)
(*                       class, valid, type, rules, paths                  *)
(*   VirtualServer       key, uid, created, generation, class, valid,      *)
(*                       host, routes (a sequence of [path, route])        *)
(*   VirtualServerRoute  key, uid, created, generation, class, valid,      *)
(*                       host, prefixes                                    *)
(* class is hasCorrectIngressClass; valid is the outcome of the field      *)
(* validators the model does not look into; rules is the sequence of the   *)
(* hosts of an Ingress, paths the paths of its first rule; prefixes are    *)
(* the route paths that every subroute of a VirtualServerRoute fits.       *)
(*                                                                         *)
(* rebuild is a loop over the stored resources in key order.  Here every   *)
(* iteration is a step (the lock is held, so nothing else moves meanwhile) *)
(* and the code after the loop is the last step.                           *)
(***************************************************************************)
EXTENDS Integers, Sequences, FiniteSets, FiniteSetsExt, Functions, Folds

VARIABLES
  ingresses,            \* Configuration.ingresses: key -> Ingress
  virtualServers,       \* Configuration.virtualServers
  virtualServerRoutes,  \* Configuration.virtualServerRoutes
  hosts,                \* Configuration.hosts: host -> key with kind of its holder
  resources,            \* the Full* values that hosts points to
  problems,             \* Configuration.problems: key with kind -> problem
  pc,                   \* "idle" or "rebuild"
  building,             \* resources that the loop of rebuild has still to visit
  newHosts,             \* the locals of rebuild
  newResources,
  rejected,             \* object that failed validation in this call, or NoKey
  changes,              \* the results of the last call
  reported

store == <<ingresses, virtualServers, virtualServerRoutes>>
active == <<hosts, resources, problems>>
locals == <<building, newHosts, newResources, rejected>>
results == <<changes, reported>>
conf == <<store, active, pc, locals, results>>

\* a loop over a sequence: the FoldLeft of SequencesExt (the rest of that module would
\* be in the context of every proof)
FoldLeft(op(_, _), base, seq) ==
  MapThenFoldSet(LAMBDA x, y : op(y, x), base, LAMBDA i : seq[i], LAMBDA S : Max(S), DOMAIN seq)

NoKey == <<"", 0>>
Empty == [x \in {} |-> x]

Put(m, k, v) == [x \in DOMAIN m \cup {k} |-> IF x = k THEN v ELSE m[x]]
Drop(m, k) == [x \in DOMAIN m \ {k} |-> m[x]]
\* the elements of a set of integers in ascending order: before the i-th one come
\* the i - 1 that are smaller
Sorted(S) == [i \in 1..Cardinality(S) |-> CHOOSE x \in S : Cardinality({y \in S : y < x}) = i - 1]

-----------------------------------------------------------------------------
\* Objects and the order between them

\* Mutants of the next definition
Bug_NoTieBreak(meta1, meta2) == meta1.created < meta2.created

chooseObjectMetaWinner(meta1, meta2) ==
  \/ meta1.created < meta2.created
  \/ meta1.created = meta2.created /\ meta1.uid > meta2.uid

isMaster(ing) == ing.type = "master"
isMinion(ing) == ing.type = "minion"

validateIngressSpec(ing) == ing.rules # <<>> /\ IsInjective(ing.rules)
validateMasterSpec(ing) == Len(ing.rules) = 1 /\ ing.paths = <<>>
validateMinionSpec(ing) == Len(ing.rules) = 1 /\ ing.paths # <<>>

validateIngress(ing) ==
  /\ ing.valid
  /\ validateIngressSpec(ing)
  /\ isMaster(ing) => validateMasterSpec(ing)
  /\ isMinion(ing) => validateMinionSpec(ing)

ValidateVirtualServerRouteForVirtualServer(vsr, host, path) ==
  vsr.host = host /\ path \in vsr.prefixes

SameMeta(a, b) == a.key = b.key /\ a.generation = b.generation
\* the type of an Ingress is one of its annotations
SameMetaWithAnnotations(a, b) ==
  SameMeta(a, b) /\ a.annotations = b.annotations /\ a.type = b.type

-----------------------------------------------------------------------------
\* Resources: an object together with what rebuild found out about it

\* Mutants of the next definition
Bug_PathNotReleased(acc, claim) ==
  LET k == claim[1]
      p == claim[2]
      held == p \in DOMAIN acc.holder
  IN IF held /\ chooseObjectMetaWinner(ingresses[acc.holder[p]], ingresses[k])
     THEN [acc EXCEPT !.warned = @ \cup {claim}]
     ELSE [acc EXCEPT !.holder = Put(@, p, k), !.valid = @ \cup {claim}]

\* buildFullMinions: claim is a <<minion key, path>>, in the order of the loops
ClaimPath(acc, claim) ==
  LET k == claim[1]
      p == claim[2]
  IN IF p \notin DOMAIN acc.holder
     THEN [acc EXCEPT !.holder = Put(@, p, k), !.valid = @ \cup {claim}]
     ELSE LET h == acc.holder[p]
          IN IF ~chooseObjectMetaWinner(ingresses[h], ingresses[k])
             THEN [acc EXCEPT !.holder = Put(@, p, k),
                              !.valid = (@ \cup {claim}) \ {<<h, p>>},
                              !.warned = @ \cup {<<h, p>>}]
             ELSE [acc EXCEPT !.warned = @ \cup {claim}]

MinionsOf(host) ==
  {k \in DOMAIN ingresses : isMinion(ingresses[k]) /\ ingresses[k].rules[1] = host}
MinionKeys(host) == Sorted(MinionsOf(host))

ClaimPaths(acc, k) ==
  FoldLeft(LAMBDA a, p : ClaimPath(a, <<k, p>>), acc, ingresses[k].paths)
MinionPaths(ks) ==
  FoldLeft(ClaimPaths, [holder |-> Empty, valid |-> {}, warned |-> {}], ks)

FullMinions(ks, acc) ==
  [minions |-> [i \in DOMAIN ks |->
                  [object |-> ingresses[ks[i]],
                   validPaths |-> {c[2] : c \in {d \in acc.valid : d[1] = ks[i]}}]],
   childWarnings |-> acc.warned]
buildFullMinions(host) == FullMinions(MinionKeys(host), MinionPaths(MinionKeys(host)))

NewFullIngress(ing) ==
  LET full == IF isMaster(ing) THEN buildFullMinions(ing.rules[1])
              ELSE [minions |-> <<>>, childWarnings |-> {}]
  IN [kind |-> "Ingress", object |-> ing, isMaster |-> isMaster(ing),
      minions |-> full.minions, childWarnings |-> full.childWarnings,
      validHosts |-> Empty, warnings |-> {}]

UsableRoute(vs, r) ==
  /\ r.route \in DOMAIN virtualServerRoutes
  /\ ValidateVirtualServerRouteForVirtualServer(virtualServerRoutes[r.route], vs.host, r.path)

\* the loop of buildVirtualServerRoutes: route 0 is the empty string, no reference
AddRoute(vs, acc, r) ==
  IF r.route = 0 THEN acc
  ELSE IF UsableRoute(vs, r)
  THEN [acc EXCEPT !.routes = Append(@, virtualServerRoutes[r.route])]
  ELSE [acc EXCEPT !.warnings = @ \cup {<<"route", r.route>>}]

buildVirtualServerRoutes(vs) ==
  FoldLeft(LAMBDA acc, r : AddRoute(vs, acc, r), [routes |-> <<>>, warnings |-> {}], vs.routes)

NewFullVirtualServer(vs) ==
  [kind |-> "VirtualServer", object |-> vs,
   routes |-> buildVirtualServerRoutes(vs).routes,
   warnings |-> buildVirtualServerRoutes(vs).warnings]

KeyWithKind(r) == <<r.kind, r.object.key>>

ClaimedHosts(r) == IF r.kind = "Ingress" THEN Range(r.object.rules) ELSE {r.object.host}

Wins(r, other) == chooseObjectMetaWinner(r.object, other.object)

\* AcquireHost and ReleaseHost do nothing to a FullVirtualServer
SetHosts(r, H, b) ==
  IF r.kind = "Ingress"
  THEN [r EXCEPT !.validHosts = [h \in DOMAIN @ \cup H |-> IF h \in H THEN b ELSE @[h]]]
  ELSE r

\* Mutants of the next definition
Bug_AllHostsAcquired(r, H) == SetHosts(r, IF H = {} THEN {} ELSE ClaimedHosts(r), TRUE)

AcquireHosts(r, H) == SetHosts(r, H, TRUE)
ReleaseHosts(r, H) == SetHosts(r, H, FALSE)

\* the warning that host h is taken by another resource
AddWarnings(r, H) == [r EXCEPT !.warnings = @ \cup {<<"taken", h>> : h \in H}]

\* Mutants of the next definition
Bug_IgnoreMinions(r, other) ==
  /\ SameMetaWithAnnotations(r.object, other.object)
  /\ r.validHosts = other.validHosts
  /\ r.isMaster = other.isMaster

IsEqualIngress(r, other) ==
  /\ SameMetaWithAnnotations(r.object, other.object)
  /\ r.validHosts = other.validHosts
  /\ r.isMaster = other.isMaster
  /\ Len(r.minions) = Len(other.minions)
  /\ \A i \in DOMAIN r.minions :
       SameMetaWithAnnotations(r.minions[i].object, other.minions[i].object)

IsEqualVirtualServer(r, other) ==
  /\ SameMeta(r.object, other.object)
  /\ Len(r.routes) = Len(other.routes)
  /\ \A i \in DOMAIN r.routes : SameMeta(r.routes[i], other.routes[i])

IsEqual(r, other) ==
  /\ r.kind = other.kind
  /\ IF r.kind = "Ingress" THEN IsEqualIngress(r, other) ELSE IsEqualVirtualServer(r, other)

-----------------------------------------------------------------------------
\* buildHostsAndResources: one step per stored resource

ResourceKeys(ings, vss) ==
  {<<"Ingress", k>> : k \in {i \in DOMAIN ings : ~isMinion(ings[i])}}
    \cup {<<"VirtualServer", k>> : k \in DOMAIN vss}

\* getSortedIngressKeys first, getSortedVirtualServerKeys second
IsNext(k) ==
  /\ k \in building
  /\ \A j \in building : IF j[1] = k[1] THEN k[2] <= j[2] ELSE k[1] = "Ingress"

NewResource(k) ==
  IF k[1] = "Ingress" THEN NewFullIngress(ingresses[k[2]])
  ELSE NewFullVirtualServer(virtualServers[k[2]])

\* the hosts that r takes: free ones, and those whose holder does not win
TakenHosts(r) ==
  {h \in ClaimedHosts(r) :
     h \in DOMAIN newHosts => ~Wins(newResources[newHosts[h]], r)}

\* what a holder loses to r, with the warning
Yield(j, taken) ==
  LET lost == {h \in taken \cap DOMAIN newHosts : newHosts[h] = j}
  IN AddWarnings(ReleaseHosts(newResources[j], lost), lost)

BuildResource(k) ==
  LET r == NewResource(k)
      taken == TakenHosts(r)
  IN /\ pc = "rebuild"
     /\ IsNext(k)
     /\ building' = building \ {k}
     /\ newHosts' = [h \in DOMAIN newHosts \cup taken |->
                       IF h \in taken THEN k ELSE newHosts[h]]
     /\ newResources' =
          [j \in DOMAIN newResources \cup {k} |->
             IF j = k
             THEN AddWarnings(AcquireHosts(r, taken), ClaimedHosts(r) \ taken)
             ELSE Yield(j, taken)]
     /\ UNCHANGED <<store, active, pc, rejected, results>>

-----------------------------------------------------------------------------
\* rebuild after the loop: changes

RemovedHosts == DOMAIN hosts \ DOMAIN newHosts
AddedHosts == DOMAIN newHosts \ DOMAIN hosts

UpdatedHosts ==
  {h \in DOMAIN hosts \cap DOMAIN newHosts :
     ~IsEqual(resources[hosts[h]], newResources[newHosts[h]])}

Change(op, k) == [op |-> op, key |-> k]
ChangesFor(op, H, holders) ==
  LET hs == Sorted(H) IN [i \in DOMAIN hs |-> Change(op, holders[hs[i]])]

createResourceChanges ==
  LET handedOver == {h \in UpdatedHosts : hosts[h] # newHosts[h]}
  IN ChangesFor("Delete", RemovedHosts, hosts)
       \o ChangesFor("Delete", handedOver, hosts)
       \o ChangesFor("AddOrUpdate", UpdatedHosts, newHosts)
       \o ChangesFor("AddOrUpdate", AddedHosts, newHosts)

\* Mutants of the next definition
Bug_KeepFirstChange(chs, acc, i) ==
  LET first == chs[i]
  IN IF \E j \in 1..(i - 1) : chs[j].key = chs[i].key THEN acc
     ELSE IF first.op = "Delete" THEN [acc EXCEPT !.deletes = Append(@, first)]
     ELSE [acc EXCEPT !.updates = Append(@, first)]

\* one change per resource, the last one, at the place of the first one
SquashChange(chs, acc, i) ==
  LET last == chs[Max({j \in DOMAIN chs : chs[j].key = chs[i].key})]
  IN IF \E j \in 1..(i - 1) : chs[j].key = chs[i].key THEN acc
     ELSE IF last.op = "Delete" THEN [acc EXCEPT !.deletes = Append(@, last)]
     ELSE [acc EXCEPT !.updates = Append(@, last)]

DeletesFirst(acc) == acc.deletes \o acc.updates

squashResourceChanges(chs) ==
  DeletesFirst(FoldLeft(LAMBDA acc, i : SquashChange(chs, acc, i),
                        [deletes |-> <<>>, updates |-> <<>>], [i \in DOMAIN chs |-> i]))

\* Mutants of the next definition
Bug_ErrorNotAttached(c) ==
  [op |-> c.op, key |-> c.key, error |-> FALSE,
   resource |-> IF c.key \in DOMAIN newResources THEN newResources[c.key]
                ELSE resources[c.key]]

\* a change carries the latest version of its resource, and the validation
\* error of this call if it is about the rejected object
ResourceChange(c) ==
  [op |-> c.op, key |-> c.key, error |-> c.key = rejected,
   resource |-> IF c.key \in DOMAIN newResources THEN newResources[c.key]
                ELSE resources[c.key]]

-----------------------------------------------------------------------------
\* rebuild after the loop: problems

Problem(isError, reason, message) ==
  [isError |-> isError, reason |-> reason, message |-> message]

HasActiveHost(k) ==
  LET r == newResources[k]
  IN IF r.kind = "Ingress" THEN \E h \in DOMAIN r.validHosts : r.validHosts[h]
     ELSE r.object.host \notin DOMAIN newHosts \/ newHosts[r.object.host] = k

\* Mutants of the next definition
Bug_AnyHolderIsMaster(ing) == ing.rules[1] \in DOMAIN newHosts

HasMaster(ing) ==
  /\ ing.rules[1] \in DOMAIN newHosts
  /\ LET r == newResources[newHosts[ing.rules[1]]]
     IN r.kind = "Ingress" /\ r.isMaster

HasVirtualServer(vsr) ==
  vsr.host \in DOMAIN newHosts /\ newHosts[vsr.host][1] = "VirtualServer"

IsIgnored(vsr) ==
  LET routes == newResources[newHosts[vsr.host]].routes
  IN \A i \in DOMAIN routes : routes[i].key # vsr.key

WithoutActiveHost == {k \in DOMAIN newResources : ~HasActiveHost(k)}
OrphanMinions ==
  {<<"Ingress", k>> : k \in {i \in DOMAIN ingresses :
                               isMinion(ingresses[i]) /\ ~HasMaster(ingresses[i])}}
OrphanVsrs ==
  {<<"VirtualServerRoute", k>> : k \in {i \in DOMAIN virtualServerRoutes :
                                          ~HasVirtualServer(virtualServerRoutes[i])}}
IgnoredVsrs ==
  {<<"VirtualServerRoute", k>> : k \in {i \in DOMAIN virtualServerRoutes :
                                          /\ HasVirtualServer(virtualServerRoutes[i])
                                          /\ IsIgnored(virtualServerRoutes[i])}}

NewProblems ==
  [k \in WithoutActiveHost \cup OrphanMinions \cup OrphanVsrs \cup IgnoredVsrs |->
     CASE k \in WithoutActiveHost -> Problem(FALSE, "Rejected", NoKey)
       [] k \in OrphanMinions -> Problem(FALSE, "NoIngressMasterFound", NoKey)
       [] k \in OrphanVsrs -> Problem(FALSE, "NoVirtualServerFound", NoKey)
       [] k \in IgnoredVsrs ->
            Problem(FALSE, "Ignored", newHosts[virtualServerRoutes[k[2]].host])]

detectChangesInProblems(new, old) ==
  {<<k, new[k]>> : k \in {j \in DOMAIN new : j \in DOMAIN old => new[j] # old[j]}}

\* the end of rebuild and of the operation that called it
FinishRebuild ==
  LET squashed == squashResourceChanges(createResourceChanges)
      new == NewProblems
      inChange == \E i \in DOMAIN squashed : squashed[i].key = rejected
  IN /\ pc = "rebuild"
     /\ building = {}
     /\ hosts' = newHosts
     /\ resources' = [k \in Range(newHosts) |-> newResources[k]]
     /\ problems' = new
     /\ changes' = [i \in DOMAIN squashed |-> ResourceChange(squashed[i])]
     /\ reported' = detectChangesInProblems(new, problems) \cup
                      IF rejected = NoKey \/ inChange THEN {}
                      ELSE {<<rejected, Problem(TRUE, "Rejected", NoKey)>>}
     /\ pc' = "idle"
     /\ newHosts' = Empty
     /\ newResources' = Empty
     /\ rejected' = NoKey
     /\ UNCHANGED <<store, building>>

-----------------------------------------------------------------------------
\* The operations

\* the call of rebuild, after the operation has changed the store
StartRebuild ==
  /\ pc = "idle"
  /\ pc' = "rebuild"
  /\ building' = ResourceKeys(ingresses', virtualServers')
  /\ newHosts' = Empty
  /\ newResources' = Empty
  /\ changes' = <<>>
  /\ reported' = {}
  /\ UNCHANGED active

\* Mutants of the next definition
Bug_KeepUnderUid(m, obj, valid) ==
  IF obj.class /\ valid THEN Put(m, obj.uid, obj) ELSE Drop(m, obj.key)

\* an object of another class, or an invalid one, is not kept
Keep(m, obj, valid) ==
  IF obj.class /\ valid THEN Put(m, obj.key, obj) ELSE Drop(m, obj.key)

ValidationError(kind, obj, valid) ==
  IF obj.class /\ ~valid THEN <<kind, obj.key>> ELSE NoKey

AddOrUpdateIngress(ing) ==
  /\ ingresses' = Keep(ingresses, ing, validateIngress(ing))
  /\ rejected' = ValidationError("Ingress", ing, validateIngress(ing))
  /\ UNCHANGED <<virtualServers, virtualServerRoutes>>
  /\ StartRebuild

AddOrUpdateVirtualServer(vs) ==
  /\ virtualServers' = Keep(virtualServers, vs, vs.valid)
  /\ rejected' = ValidationError("VirtualServer", vs, vs.valid)
  /\ UNCHANGED <<ingresses, virtualServerRoutes>>
  /\ StartRebuild

AddOrUpdateVirtualServerRoute(vsr) ==
  /\ virtualServerRoutes' = Keep(virtualServerRoutes, vsr, vsr.valid)
  /\ rejected' = ValidationError("VirtualServerRoute", vsr, vsr.valid)
  /\ UNCHANGED <<ingresses, virtualServers>>
  /\ StartRebuild

\* the three Delete operations return nothing for an object that is not stored
DeleteNothing ==
  /\ pc = "idle"
  /\ changes' = <<>>
  /\ reported' = {}
  /\ UNCHANGED <<store, active, pc, locals>>

DeleteIngress(key) ==
  \/ /\ key \notin DOMAIN ingresses
     /\ DeleteNothing
  \/ /\ key \in DOMAIN ingresses
     /\ ingresses' = Drop(ingresses, key)
     /\ UNCHANGED <<virtualServers, virtualServerRoutes, rejected>>
     /\ StartRebuild

DeleteVirtualServer(key) ==
  \/ /\ key \notin DOMAIN virtualServers
     /\ DeleteNothing
  \/ /\ key \in DOMAIN virtualServers
     /\ virtualServers' = Drop(virtualServers, key)
     /\ UNCHANGED <<ingresses, virtualServerRoutes, rejected>>
     /\ StartRebuild

DeleteVirtualServerRoute(key) ==
  \/ /\ key \notin DOMAIN virtualServerRoutes
     /\ DeleteNothing
  \/ /\ key \in DOMAIN virtualServerRoutes
     /\ virtualServerRoutes' = Drop(virtualServerRoutes, key)
     /\ UNCHANGED <<ingresses, virtualServers, rejected>>
     /\ StartRebuild

NewConfiguration ==
  /\ ingresses = Empty
  /\ virtualServers = Empty
  /\ virtualServerRoutes = Empty
  /\ hosts = Empty
  /\ resources = Empty
  /\ problems = Empty
  /\ pc = "idle"
  /\ building = {}
  /\ newHosts = Empty
  /\ newResources = Empty
  /\ rejected = NoKey
  /\ changes = <<>>
  /\ reported = {}

-----------------------------------------------------------------------------
\* Properties

StoredKeys == ResourceKeys(ingresses, virtualServers)
Object(k) == IF k[1] = "Ingress" THEN ingresses[k[2]] ELSE virtualServers[k[2]]
HostsOf(k) == IF k[1] = "Ingress" THEN Range(Object(k).rules) ELSE {Object(k).host}
ListedOnce(p, ps) == \A i, j \in DOMAIN ps : ps[i] = p /\ ps[j] = p => i = j

\* Between calls, the hosts of Configuration are exactly the hosts that a stored
\* Ingress (not a minion) or VirtualServer claims, and each is held by the
\* claimant that chooseObjectMetaWinner prefers to every other claimant, the oldest
\* and among equally old ones the one with the greatest UID, in whatever order the
\* objects arrived, changed and left (buildHostsAndResources).  The documentation
\* has another order (OldestThenSmallestUidWins).
HostsHeldByWinner ==
  pc = "idle" =>
    /\ DOMAIN hosts = UNION {HostsOf(k) : k \in StoredKeys}
    /\ \A h \in DOMAIN hosts :
         /\ hosts[h] \in StoredKeys
         /\ h \in HostsOf(hosts[h])
         /\ \A k \in StoredKeys \ {hosts[h]} :
              h \in HostsOf(k) => chooseObjectMetaWinner(Object(hosts[h]), Object(k))

\* Between calls, the hosts marked valid in an active FullIngress (the server
\* blocks NGINX gets from it) are exactly the hosts it holds in hosts, and the
\* FullIngress or FullVirtualServer carries the object that is stored.
ValidHostsAgree ==
  pc = "idle" =>
    \A k \in DOMAIN resources :
      /\ k \in StoredKeys
      /\ SameMeta(resources[k].object, Object(k))
      /\ k[1] = "Ingress" =>
           {h \in DOMAIN resources[k].validHosts : resources[k].validHosts[h]}
             = {h \in DOMAIN hosts : hosts[h] = k}

\* Between calls, a stored object is in use or has a problem, never both and
\* never neither: a resource is in use when it holds a host, a minion when an
\* active master lists it, a VirtualServerRoute when an active VirtualServer
\* does (the three addProblemsFor functions against what the changes carry).
UsedOrProblem ==
  pc = "idle" =>
    /\ \A k \in StoredKeys : k \in DOMAIN problems <=> k \notin Range(hosts)
    /\ \A i \in DOMAIN ingresses : isMinion(ingresses[i]) =>
         (<<"Ingress", i>> \in DOMAIN problems <=>
            \A k \in DOMAIN resources : k[1] = "Ingress" =>
              \A m \in Range(resources[k].minions) : m.object.key # i)
    /\ \A i \in DOMAIN virtualServerRoutes :
         (<<"VirtualServerRoute", i>> \in DOMAIN problems <=>
            \A k \in DOMAIN resources : k[1] = "VirtualServer" =>
              \A v \in Range(resources[k].routes) : v.key # i)

\* Between calls, a path that minions of an active master claim belongs to the one
\* that chooseObjectMetaWinner prefers: it is valid in no other, and in that one if
\* it lists the path once.  A minion that lists a path twice takes it from itself,
\* and the path is valid in none (buildFullMinions; the comment on
\* FullMinion.ValidPaths knows only of paths taken by other minions).
PathsHeldByWinner ==
  pc = "idle" =>
    \A k \in DOMAIN resources : k[1] = "Ingress" =>
      \A m \in Range(resources[k].minions) : \A p \in Range(m.object.paths) :
        \E w \in Range(resources[k].minions) :
          /\ p \in Range(w.object.paths)
          /\ \A o \in Range(resources[k].minions) :
               /\ p \in o.validPaths <=> o = w /\ ListedOnce(p, w.object.paths)
               /\ p \in Range(o.object.paths) =>
                    o = w \/ chooseObjectMetaWinner(w.object, o.object)

\* The changes rebuild returns lead from the old active resources to the new
\* ones: a resource that lost its last host is deleted, one that is new or
\* differs from before is updated, none appears twice, nothing else is deleted,
\* and the deletes come first (createResourceChanges, squashResourceChanges).
ChangesLeadToNewHosts ==
  [][pc = "rebuild" /\ pc' = "idle" =>
       LET deleted == {c.key : c \in {d \in Range(changes') : d.op = "Delete"}}
           updated == {c.key : c \in {d \in Range(changes') : d.op = "AddOrUpdate"}}
           differs(k) == k \in DOMAIN resources => ~IsEqual(resources[k], resources'[k])
       IN /\ deleted = DOMAIN resources \ DOMAIN resources'
          /\ updated \subseteq DOMAIN resources'
          /\ \A k \in DOMAIN resources' : differs(k) => k \in updated
          /\ Cardinality(deleted) + Cardinality(updated) = Len(changes')
          /\ \A i, j \in DOMAIN changes' :
               changes'[i].op = "AddOrUpdate" /\ changes'[j].op = "Delete" => j < i]_conf

\* An object that fails validation is told so exactly once, in the change that
\* removes it or in a problem of its own, and is not in use afterwards (the end
\* of the AddOrUpdate operations).
RejectionReportedOnce ==
  [][pc = "rebuild" /\ pc' = "idle" /\ rejected # NoKey =>
       LET inChanges == {i \in DOMAIN changes' : changes'[i].error}
           inProblems == {p \in reported' : p[1] = rejected}
       IN /\ Cardinality(inChanges) + Cardinality(inProblems) = 1
          /\ \A i \in inChanges : changes'[i].op = "Delete" /\ changes'[i].key = rejected
          /\ \A p \in inProblems : p[2].isError
          /\ rejected \notin DOMAIN resources']_conf

\* What docs-web/configuration/handling-host-collisions.md:36 says of collisions:
\* the oldest resource wins, among equally old ones the one with the smallest UID.
\* It does not hold of chooseObjectMetaWinner, which lets the greatest UID win.
OldestThenSmallestUidWins ==
  pc = "idle" =>
    \A h \in DOMAIN hosts : \A k \in StoredKeys :
      LET winner == Object(hosts[h])
          other == Object(k)
      IN h \in HostsOf(k) =>
           \/ winner.created < other.created
           \/ winner.created = other.created /\ winner.uid <= other.uid

=============================================================================
