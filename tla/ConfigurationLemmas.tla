------------------------- MODULE ConfigurationLemmas -------------------------
(***************************************************************************)
(* What the operations of Configuration keep, whatever objects they are    *)
(* called with: the lemmas of ConfigurationProofs, where the objects come  *)
(* from fixed sets, and of ControllerProofs, where users make them.        *)
(*                                                                         *)
(* The invariant of the loop of rebuild is that newHosts is right for the  *)
(* resources built so far (HostsRight): it names exactly the hosts they    *)
(* claim, and for each the claimant that wins against all others.  A new   *)
(* claimant is only compared with the holder, so that the step needs the   *)
(* order to be total (UIDs differ) and transitive.  The second invariant   *)
(* (BuiltInv) is that the resources list the right minions with the right  *)
(* paths and the right VirtualServerRoutes, and that the old resources     *)
(* hold the old hosts, with which createResourceChanges compares.          *)
(*                                                                         *)
(* The second half is about the loops: the sorted keys over which rebuild  *)
(* iterates, the routes of a VirtualServer, the paths of minions, and the  *)
(* changes that rebuild returns.  The model writes a loop of the code as   *)
(* FoldLeft(LAMBDA acc, x : ..., base, s), the value at DOMAIN s of a      *)
(* function defined by recursion over sets of indices, the greatest index  *)
(* last.  FoldExists says that there is such a function, FoldTrace gives   *)
(* the values of the accumulator after every iteration, and LoopInvariant  *)
(* is the induction.                                                       *)
(***************************************************************************)
EXTENDS Configuration, FiniteSetTheorems, TLAPS

\* how long the provers may work on a step
USE ZenonT(5), SMTT(60)

\* what the lemmas need of the stored objects
StoreOK ==
  /\ IsFiniteSet(DOMAIN ingresses)
  /\ \A k \in DOMAIN ingresses :
       /\ k \in Int /\ ingresses[k].key = k
       /\ ingresses[k].uid \in Int /\ ingresses[k].created \in Int
       /\ ingresses[k].rules \in Seq(Int) /\ ingresses[k].paths \in Seq(Int)
       /\ validateIngress(ingresses[k])
  /\ \A k \in DOMAIN virtualServers :
       /\ virtualServers[k].key = k
       /\ virtualServers[k].uid \in Int /\ virtualServers[k].created \in Int
       /\ virtualServers[k].host \in Int
       /\ virtualServers[k].routes \in Seq([path : Int, route : Int])
  /\ \A k \in DOMAIN virtualServerRoutes : virtualServerRoutes[k].key = k
  /\ \A j, k \in DOMAIN ingresses : ingresses[j].uid = ingresses[k].uid => j = k
  /\ \A j, k \in DOMAIN virtualServers : virtualServers[j].uid = virtualServers[k].uid => j = k
  /\ \A j \in DOMAIN ingresses, k \in DOMAIN virtualServers :
       ingresses[j].uid # virtualServers[k].uid

\* hs gives every host that a resource of K claims to the winner among them
HostsRight(hs, K) ==
  /\ DOMAIN hs = UNION {HostsOf(k) : k \in K}
  /\ \A h \in DOMAIN hs :
       /\ hs[h] \in K
       /\ h \in HostsOf(hs[h])
       /\ \A k \in K \ {hs[h]} :
            h \in HostsOf(k) => chooseObjectMetaWinner(Object(hs[h]), Object(k))

\* r is the resource of the stored object k, and the hosts marked valid in it are
\* the ones that hs gives it
ResourceRight(r, k, hs) ==
  /\ {"kind", "object", "warnings"} \subseteq DOMAIN r
  /\ r.kind = k[1]
  /\ r.object = Object(k)
  /\ k[1] = "Ingress" =>
       /\ "validHosts" \in DOMAIN r
       /\ \A h : (h \in DOMAIN r.validHosts /\ r.validHosts[h] = TRUE)
                   <=> (h \in DOMAIN hs /\ hs[h] = k)
       /\ \A h \in DOMAIN r.validHosts : r.validHosts[h] \in BOOLEAN

\* where the loop stands, and what the maps of resources are keyed by
LoopOK ==
  /\ pc \in {"idle", "rebuild"}
  /\ DOMAIN resources = Range(hosts)
  /\ \A k \in DOMAIN resources : KeyWithKind(resources[k]) = k
  /\ building \subseteq StoredKeys
  /\ DOMAIN newResources = (IF pc = "rebuild" THEN StoredKeys \ building ELSE {})
  /\ \A k \in DOMAIN newResources : KeyWithKind(newResources[k]) = k
  /\ Range(newHosts) \subseteq DOMAIN newResources

HostsInv ==
  /\ LoopOK
  /\ pc = "rebuild" =>
       /\ HostsRight(newHosts, DOMAIN newResources)
       /\ \A k \in DOMAIN newResources : ResourceRight(newResources[k], k, newHosts)
  /\ pc = "idle" =>
       /\ HostsRight(hosts, StoredKeys)
       /\ \A k \in DOMAIN resources : ResourceRight(resources[k], k, hosts)

-----------------------------------------------------------------------------
\* Facts about the stored objects and the order between them

LEMMA StoredResource ==
  ASSUME StoreOK, NEW k \in StoredKeys
  PROVE  /\ k = <<k[1], k[2]>>
         /\ k[1] \in {"Ingress", "VirtualServer"}
         /\ Object(k).key = k[2]
         /\ Object(k).uid \in Int /\ Object(k).created \in Int
  BY DEF StoreOK, StoredKeys, ResourceKeys, Object

\* of two stored objects one wins: their UIDs differ
LEMMA WinnerTotal ==
  ASSUME StoreOK, NEW j \in StoredKeys, NEW k \in StoredKeys, j # k,
         ~chooseObjectMetaWinner(Object(j), Object(k))
  PROVE  chooseObjectMetaWinner(Object(k), Object(j))
<1>1. Object(j).uid # Object(k).uid
  BY DEF StoreOK, StoredKeys, ResourceKeys, Object
<1>2. /\ Object(j).uid \in Int /\ Object(j).created \in Int
      /\ Object(k).uid \in Int /\ Object(k).created \in Int
  BY StoredResource
<1> QED
  BY <1>1, <1>2 DEF chooseObjectMetaWinner

LEMMA WinnerTransitive ==
  ASSUME StoreOK, NEW i \in StoredKeys, NEW j \in StoredKeys, NEW k \in StoredKeys,
         chooseObjectMetaWinner(Object(i), Object(j)),
         chooseObjectMetaWinner(Object(j), Object(k))
  PROVE  chooseObjectMetaWinner(Object(i), Object(k))
<1>1. /\ Object(i).uid \in Int /\ Object(i).created \in Int
      /\ Object(j).uid \in Int /\ Object(j).created \in Int
      /\ Object(k).uid \in Int /\ Object(k).created \in Int
  BY StoredResource
<1> QED
  BY <1>1 DEF chooseObjectMetaWinner

LEMMA NewResourceRight ==
  ASSUME StoreOK, NEW k \in StoredKeys
  PROVE  LET r == NewResource(k)
         IN /\ {"kind", "object", "warnings"} \subseteq DOMAIN r
            /\ r.kind = k[1] /\ r.object = Object(k)
            /\ k[1] = "Ingress" => "validHosts" \in DOMAIN r /\ r.validHosts = Empty
            /\ ClaimedHosts(r) = HostsOf(k)
            /\ KeyWithKind(r) = k
  BY StoredResource DEF NewResource, NewFullIngress, NewFullVirtualServer, ClaimedHosts, HostsOf,
     Object, KeyWithKind

LEMMA AddWarningsKeeps ==
  ASSUME NEW r, NEW H
  PROVE  LET s == AddWarnings(r, H)
         IN /\ DOMAIN s = DOMAIN r
            /\ \A f \in DOMAIN r \ {"warnings"} : s[f] = r[f]
  BY DEF AddWarnings

LEMMA ReleaseHostsSets ==
  ASSUME NEW r, NEW H
  PROVE  LET s == ReleaseHosts(r, H)
         IN /\ DOMAIN s = DOMAIN r
            /\ \A f \in DOMAIN r \ {"validHosts"} : s[f] = r[f]
            /\ r.kind = "Ingress" /\ "validHosts" \in DOMAIN r =>
                 /\ DOMAIN s.validHosts = DOMAIN r.validHosts \cup H
                 /\ \A h \in H : s.validHosts[h] = FALSE
                 /\ \A h \in DOMAIN r.validHosts \ H : s.validHosts[h] = r.validHosts[h]
  BY DEF ReleaseHosts, SetHosts

\* a step that leaves the store alone does not change what is right
LEMMA StoreUnchanged ==
  ASSUME UNCHANGED store
  PROVE  /\ StoredKeys' = StoredKeys
         /\ \A hs, K : HostsRight(hs, K) => HostsRight(hs, K)'
         /\ \A r, k, hs : ResourceRight(r, k, hs) => ResourceRight(r, k, hs)'
<1>1. StoredKeys' = StoredKeys
  BY DEF store, StoredKeys
<1>2. \A hs, K : HostsRight(hs, K) => HostsRight(hs, K)'
  <2> SUFFICES ASSUME NEW hs, NEW K, HostsRight(hs, K) PROVE HostsRight(hs, K)'
    OBVIOUS
  <2>1. (UNION {HostsOf(k) : k \in K})' = UNION {HostsOf(k) : k \in K}
    BY DEF store, HostsOf, Object
  <2>2. \A k : Object(k)' = Object(k) /\ HostsOf(k)' = HostsOf(k)
    BY DEF store, HostsOf, Object
  <2>3. \A j, k : chooseObjectMetaWinner(Object(j), Object(k)) =>
                   chooseObjectMetaWinner(Object(j), Object(k))'
    BY <2>2 DEF chooseObjectMetaWinner
  <2> QED
    BY <2>1, <2>2, <2>3 DEF HostsRight
<1>3. \A r, k, hs : ResourceRight(r, k, hs) => ResourceRight(r, k, hs)'
  BY DEF store, ResourceRight, Object
<1> QED
  BY <1>1, <1>2, <1>3

-----------------------------------------------------------------------------
\* One iteration of the loop of rebuild

LEMMA BuildHosts ==
  ASSUME StoreOK, HostsInv, pc = "rebuild", NEW k \in building, BuildResource(k)
  PROVE  HostsRight(newHosts, DOMAIN newResources)'
<1> DEFINE r == NewResource(k)
           T == TakenHosts(r)
           K == DOMAIN newResources
<1>1. /\ LoopOK /\ k \in StoredKeys /\ k \notin K /\ K \subseteq StoredKeys
      /\ HostsRight(newHosts, K)
      /\ \A j \in K : newResources[j].object = Object(j)
  BY DEF HostsInv, LoopOK, ResourceRight
<1>2. r.object = Object(k) /\ ClaimedHosts(r) = HostsOf(k)
  BY <1>1, NewResourceRight
<1>3. /\ newHosts' = [h \in DOMAIN newHosts \cup T |-> IF h \in T THEN k ELSE newHosts[h]]
      /\ DOMAIN newResources' = K \cup {k}
      /\ UNCHANGED store
  BY DEF BuildResource
<1>4. /\ T \subseteq HostsOf(k)
      /\ \A h \in HostsOf(k) : h \in T \/ h \in DOMAIN newHosts
      /\ \A h \in DOMAIN newHosts \cap HostsOf(k) :
           h \in T <=> ~chooseObjectMetaWinner(Object(newHosts[h]), Object(k))
  BY <1>1, <1>2 DEF TakenHosts, Wins, HostsRight
<1> HIDE DEF r, T
<1>5. DOMAIN newHosts' = UNION {HostsOf(j) : j \in K \cup {k}}
  BY <1>1, <1>3, <1>4 DEF HostsRight
<1>6. ASSUME NEW h \in DOMAIN newHosts'
      PROVE  /\ newHosts'[h] \in K \cup {k}
             /\ h \in HostsOf(newHosts'[h])
             /\ \A j \in (K \cup {k}) \ {newHosts'[h]} :
                  h \in HostsOf(j) => chooseObjectMetaWinner(Object(newHosts'[h]), Object(j))
  <2>1. CASE h \in T
    <3>1. newHosts'[h] = k /\ h \in HostsOf(k)
      BY <1>3, <1>4, <2>1
    <3>2. ASSUME NEW j \in K, h \in HostsOf(j)
          PROVE  chooseObjectMetaWinner(Object(k), Object(j))
      <4> DEFINE w == newHosts[h]
      <4>1. h \in DOMAIN newHosts /\ w \in K
        BY <1>1, <3>2 DEF HostsRight
      <4>2. chooseObjectMetaWinner(Object(k), Object(w))
        BY <1>1, <1>4, <2>1, <3>1, <4>1, WinnerTotal
      <4>3. j = w \/ chooseObjectMetaWinner(Object(w), Object(j))
        BY <1>1, <3>2, <4>1 DEF HostsRight
      <4> HIDE DEF w
      <4> QED
        BY <1>1, <4>1, <4>2, <4>3, WinnerTransitive
    <3> QED
      BY <3>1, <3>2
  <2>2. CASE h \notin T
    <3>1. h \in DOMAIN newHosts /\ newHosts'[h] = newHosts[h]
      BY <1>3, <2>2
    <3>2. h \in HostsOf(k) => chooseObjectMetaWinner(Object(newHosts[h]), Object(k))
      BY <1>4, <2>2, <3>1
    <3> QED
      BY <1>1, <3>1, <3>2 DEF HostsRight
  <2> QED
    BY <2>1, <2>2
<1>7. HostsRight(newHosts', DOMAIN newResources')
  BY <1>3, <1>5, <1>6 DEF HostsRight
<1> QED
  BY <1>3, <1>7, StoreUnchanged

LEMMA BuildResources ==
  ASSUME StoreOK, HostsInv, pc = "rebuild", NEW k \in building, BuildResource(k)
  PROVE  \A j \in DOMAIN newResources' : ResourceRight(newResources'[j], j, newHosts')
<1> DEFINE r == NewResource(k)
           T == TakenHosts(r)
           K == DOMAIN newResources
<1>1. /\ LoopOK /\ k \in StoredKeys /\ k \notin K
      /\ \A h \in DOMAIN newHosts : newHosts[h] \in K
      /\ \A j \in K : ResourceRight(newResources[j], j, newHosts)
  BY DEF HostsInv, LoopOK, HostsRight
<1>2. /\ newHosts' = [h \in DOMAIN newHosts \cup T |-> IF h \in T THEN k ELSE newHosts[h]]
      /\ DOMAIN newResources' = K \cup {k}
      /\ newResources'[k] = AddWarnings(AcquireHosts(r, T), ClaimedHosts(r) \ T)
      /\ \A j \in K : newResources'[j] = Yield(j, T)
  BY <1>1 DEF BuildResource
<1>3. ResourceRight(newResources'[k], k, newHosts')
  <2> DEFINE s == AcquireHosts(r, T)
             t == newResources'[k]
  <2>1. /\ {"kind", "object", "warnings"} \subseteq DOMAIN r
        /\ r.kind = k[1] /\ r.object = Object(k)
        /\ k[1] = "Ingress" => "validHosts" \in DOMAIN r /\ r.validHosts = Empty
    BY <1>1, NewResourceRight
  <2> HIDE DEF r, T
  <2>2. /\ DOMAIN s = DOMAIN r /\ s.kind = k[1] /\ s.object = Object(k)
        /\ k[1] = "Ingress" => DOMAIN s.validHosts = T /\ \A h \in T : s.validHosts[h] = TRUE
    <3>1. /\ DOMAIN s = DOMAIN r
          /\ \A f \in DOMAIN r \ {"validHosts"} : s[f] = r[f]
          /\ r.kind = "Ingress" /\ "validHosts" \in DOMAIN r =>
               /\ DOMAIN s.validHosts = DOMAIN r.validHosts \cup T
               /\ \A h \in T : s.validHosts[h] = TRUE
      BY DEF AcquireHosts, SetHosts
    <3> HIDE DEF s
    <3> QED
      BY <2>1, <3>1 DEF Empty
  <2> HIDE DEF s
  <2>3. /\ DOMAIN t = DOMAIN r /\ t.kind = k[1] /\ t.object = Object(k)
        /\ k[1] = "Ingress" => DOMAIN t.validHosts = T /\ \A h \in T : t.validHosts[h] = TRUE
    <3>1. \A f \in DOMAIN s \ {"warnings"} : t[f] = s[f]
      BY <1>2, AddWarningsKeeps DEF s
    <3>2. DOMAIN t = DOMAIN s
      BY <1>2, AddWarningsKeeps DEF s
    <3> QED
      BY <2>1, <2>2, <3>1, <3>2
  <2> HIDE DEF t
  <2>4. \A h : h \in T <=> (h \in DOMAIN newHosts' /\ newHosts'[h] = k)
    BY <1>1, <1>2
  <2>5. ResourceRight(t, k, newHosts')
    BY <2>1, <2>3, <2>4 DEF ResourceRight
  <2> QED
    BY <2>5 DEF t
<1>4. ASSUME NEW j \in K
      PROVE  ResourceRight(newResources'[j], j, newHosts')
  <2> DEFINE old == newResources[j]
             lost == {h \in T \cap DOMAIN newHosts : newHosts[h] = j}
             s == ReleaseHosts(old, lost)
             t == newResources'[j]
  <2>1. ResourceRight(old, j, newHosts)
    BY <1>1
  <2>2. t = AddWarnings(s, lost)
    BY <1>2 DEF Yield
  <2>3. \A h : (h \in DOMAIN newHosts' /\ newHosts'[h] = j)
                <=> (h \in DOMAIN newHosts /\ newHosts[h] = j /\ h \notin lost)
    BY <1>1, <1>2
  <2> HIDE DEF r, T, lost, old
  <2>4. /\ DOMAIN s = DOMAIN old /\ s.kind = j[1] /\ s.object = Object(j)
        /\ j[1] = "Ingress" =>
             /\ DOMAIN s.validHosts = DOMAIN old.validHosts \cup lost
             /\ \A h \in lost : s.validHosts[h] = FALSE
             /\ \A h \in DOMAIN old.validHosts \ lost : s.validHosts[h] = old.validHosts[h]
    <3>1. /\ DOMAIN s = DOMAIN old
          /\ \A f \in DOMAIN old \ {"validHosts"} : s[f] = old[f]
          /\ old.kind = "Ingress" /\ "validHosts" \in DOMAIN old =>
               /\ DOMAIN s.validHosts = DOMAIN old.validHosts \cup lost
               /\ \A h \in lost : s.validHosts[h] = FALSE
               /\ \A h \in DOMAIN old.validHosts \ lost : s.validHosts[h] = old.validHosts[h]
      BY ReleaseHostsSets
    <3> HIDE DEF s
    <3> QED
      BY <2>1, <3>1 DEF ResourceRight
  <2> HIDE DEF s, t
  <2>5. DOMAIN t = DOMAIN s /\ \A f \in DOMAIN s \ {"warnings"} : t[f] = s[f]
    BY <2>2, AddWarningsKeeps
  <2>6. /\ {"kind", "object", "warnings"} \subseteq DOMAIN t
        /\ t.kind = j[1] /\ t.object = Object(j)
        /\ j[1] = "Ingress" => "validHosts" \in DOMAIN t /\ t.validHosts = s.validHosts
    BY <2>1, <2>4, <2>5 DEF ResourceRight
  <2>7. ASSUME j[1] = "Ingress"
        PROVE  /\ \A h : (h \in DOMAIN t.validHosts /\ t.validHosts[h] = TRUE)
                            <=> (h \in DOMAIN newHosts' /\ newHosts'[h] = j)
               /\ \A h \in DOMAIN t.validHosts : t.validHosts[h] \in BOOLEAN
    <3>1. /\ DOMAIN t.validHosts = DOMAIN old.validHosts \cup lost
          /\ \A h \in lost : t.validHosts[h] = FALSE
          /\ \A h \in DOMAIN old.validHosts \ lost : t.validHosts[h] = old.validHosts[h]
      BY <2>4, <2>6, <2>7
    <3>2. /\ \A h : (h \in DOMAIN old.validHosts /\ old.validHosts[h] = TRUE)
                       <=> (h \in DOMAIN newHosts /\ newHosts[h] = j)
          /\ \A h \in DOMAIN old.validHosts : old.validHosts[h] \in BOOLEAN
      BY <2>1, <2>7 DEF ResourceRight
    <3> QED
      BY <2>3, <3>1, <3>2
  <2>8. ResourceRight(t, j, newHosts')
    BY <2>6, <2>7 DEF ResourceRight
  <2> QED
    BY <2>8 DEF t
<1> QED
  BY <1>2, <1>3, <1>4

LEMMA BuildInv ==
  ASSUME StoreOK, HostsInv, NEW k \in building, BuildResource(k)
  PROVE  HostsInv'
<1>1. /\ LoopOK /\ pc = "rebuild" /\ pc' = "rebuild"
      /\ k \in StoredKeys
      /\ UNCHANGED <<store, active, rejected>>
  BY DEF HostsInv, LoopOK, BuildResource
<1>2. HostsRight(newHosts, DOMAIN newResources)'
  BY <1>1, BuildHosts
<1>3. \A j \in DOMAIN newResources' : ResourceRight(newResources'[j], j, newHosts')
  BY <1>1, BuildResources
<1>4. \A j \in DOMAIN newResources' : ResourceRight(newResources[j], j, newHosts)'
  BY <1>1, <1>3, StoreUnchanged
<1>5. StoredKeys' = StoredKeys
  BY <1>1, StoreUnchanged
<1>6. /\ building' = building \ {k}
      /\ DOMAIN newResources' = DOMAIN newResources \cup {k}
  BY DEF BuildResource
<1>7. \A j \in DOMAIN newResources' : KeyWithKind(newResources'[j]) = j
  <2>1. ASSUME NEW j \in DOMAIN newResources' PROVE KeyWithKind(newResources'[j]) = j
    <3>1. j \in StoredKeys
      BY <1>1, <1>6 DEF LoopOK
    <3>2. newResources'[j].kind = j[1] /\ newResources'[j].object = Object(j)
      BY <1>3 DEF ResourceRight
    <3> QED
      BY <1>1, <3>1, <3>2, StoredResource DEF KeyWithKind
  <2> QED
    BY <2>1
<1>8. Range(newHosts') \subseteq DOMAIN newResources'
  BY <1>2 DEF HostsRight, Range
<1>9. DOMAIN newResources' = StoredKeys' \ building'
  BY <1>1, <1>5, <1>6 DEF LoopOK
<1>10. LoopOK'
  BY <1>1, <1>5, <1>6, <1>7, <1>8, <1>9 DEF LoopOK, active, KeyWithKind
<1> QED
  BY <1>1, <1>2, <1>4, <1>10 DEF HostsInv

-----------------------------------------------------------------------------
\* The end of rebuild, and the operations that call it

LEMMA FinishInv ==
  ASSUME StoreOK, HostsInv, FinishRebuild
  PROVE  HostsInv'
<1>1. /\ LoopOK /\ pc = "rebuild" /\ pc' = "idle" /\ building = {} /\ building' = {}
      /\ hosts' = newHosts
      /\ resources' = [k \in Range(newHosts) |-> newResources[k]]
      /\ problems' = NewProblems
      /\ newHosts' = Empty /\ newResources' = Empty /\ rejected' = NoKey
      /\ UNCHANGED store
  BY DEF HostsInv, FinishRebuild
<1>2. DOMAIN newResources = StoredKeys /\ Range(newHosts) \subseteq StoredKeys
  BY <1>1 DEF LoopOK
<1>3. StoredKeys' = StoredKeys
  BY <1>1, StoreUnchanged
<1>4. HostsRight(hosts, StoredKeys)'
  BY <1>1, <1>2, <1>3, StoreUnchanged DEF HostsInv
<1>5. \A k \in DOMAIN resources' : ResourceRight(resources'[k], k, hosts')
  BY <1>1, <1>2 DEF HostsInv
<1>6. \A k \in DOMAIN resources' : ResourceRight(resources[k], k, hosts)'
  BY <1>1, <1>5, StoreUnchanged
<1>7. /\ DOMAIN resources' = Range(hosts')
      /\ \A k \in DOMAIN resources' : KeyWithKind(resources'[k]) = k
  BY <1>1, <1>2 DEF LoopOK
<1>8. LoopOK'
  BY <1>1, <1>3, <1>7 DEF LoopOK, Empty, Range, KeyWithKind
<1> QED
  BY <1>1, <1>4, <1>6, <1>8 DEF HostsInv

\* the operations start the loop with nothing built, whatever they did to the store
LEMMA StartInv ==
  ASSUME HostsInv, StartRebuild
  PROVE  HostsInv'
<1>1. /\ pc' = "rebuild" /\ building' = StoredKeys'
      /\ newHosts' = Empty /\ newResources' = Empty /\ UNCHANGED active
  BY DEF StartRebuild, StoredKeys
<1>2. LoopOK'
  BY <1>1 DEF HostsInv, LoopOK, active, Empty, Range, KeyWithKind
<1>3. HostsRight(newHosts, DOMAIN newResources)'
  BY <1>1 DEF HostsRight, Empty
<1> QED
  BY <1>1, <1>2, <1>3 DEF HostsInv, Empty

LEMMA UnchangedInv ==
  ASSUME HostsInv, UNCHANGED <<store, active, pc, locals>>
  PROVE  HostsInv'
<1>1. /\ StoredKeys' = StoredKeys
      /\ \A hs, K : HostsRight(hs, K) => HostsRight(hs, K)'
      /\ \A r, k, hs : ResourceRight(r, k, hs) => ResourceRight(r, k, hs)'
  BY StoreUnchanged
<1>2. LoopOK'
  BY <1>1 DEF HostsInv, LoopOK, active, locals, KeyWithKind
<1> QED
  BY <1>1, <1>2 DEF HostsInv, active, locals

\* between rebuilds the hosts marked valid are the ones held
LEMMA IdleHosts == HostsInv => ValidHostsAgree
<1>1. ASSUME HostsInv, pc = "idle", NEW k \in DOMAIN resources
      PROVE  /\ k \in StoredKeys
             /\ SameMeta(resources[k].object, Object(k))
             /\ k[1] = "Ingress" =>
                  {h \in DOMAIN resources[k].validHosts : resources[k].validHosts[h]}
                    = {h \in DOMAIN hosts : hosts[h] = k}
  <2>1. k \in StoredKeys /\ ResourceRight(resources[k], k, hosts)
    BY <1>1 DEF HostsInv, LoopOK, HostsRight, Range
  <2>2. SameMeta(resources[k].object, Object(k))
    BY <2>1 DEF ResourceRight, SameMeta
  <2>3. ASSUME k[1] = "Ingress"
        PROVE  {h \in DOMAIN resources[k].validHosts : resources[k].validHosts[h]}
                 = {h \in DOMAIN hosts : hosts[h] = k}
    BY <2>1, <2>3 DEF ResourceRight
  <2> QED
    BY <2>1, <2>2, <2>3
<1> QED
  BY <1>1 DEF ValidHostsAgree

-----------------------------------------------------------------------------
\* Sequences

LEMMA AppendRange ==
  ASSUME NEW T, NEW s \in Seq(T), NEW v \in T
  PROVE  Append(s, v) \in Seq(T) /\ Range(Append(s, v)) = Range(s) \cup {v}
<1>1. Append(s, v) \in Seq(T)
  OBVIOUS
<1>2. DOMAIN s = 1..Len(s) /\ DOMAIN Append(s, v) = 1..(Len(s) + 1) /\ Len(s) \in Nat
  OBVIOUS
<1>3. Append(s, v)[Len(s) + 1] = v /\ \A i \in 1..Len(s) : Append(s, v)[i] = s[i]
  OBVIOUS
<1>4. \A i : i \in 1..(Len(s) + 1) <=> i \in 1..Len(s) \/ i = Len(s) + 1
  BY <1>2
<1> QED
  BY <1>1, <1>2, <1>3, <1>4 DEF Range

LEMMA SeqOfRange ==
  ASSUME NEW S, NEW s \in Seq(S)
  PROVE  s \in Seq(Range(s))
<1>1. Len(s) \in Nat /\ DOMAIN s = 1..Len(s) /\ s = [i \in 1..Len(s) |-> s[i]]
  OBVIOUS
<1>2. \A i \in 1..Len(s) : s[i] \in Range(s)
  BY <1>1 DEF Range
<1>3. [i \in 1..Len(s) |-> s[i]] \in Seq(Range(s))
  BY <1>1, <1>2
<1> QED
  BY <1>1, <1>3

-----------------------------------------------------------------------------
\* The routes of a VirtualServer

\* what buildVirtualServerRoutes lists: the VirtualServerRoutes that the routes of vs
\* refer to and that fit
ListedRoutes(vs, I) ==
  {virtualServerRoutes[vs.routes[i].route] :
     i \in {j \in I : vs.routes[j].route # 0 /\ UsableRoute(vs, vs.routes[j])}}

\* one iteration
LEMMA AddRouteAdds ==
  ASSUME NEW vs, NEW acc, NEW r, NEW T,
         {"routes", "warnings"} \subseteq DOMAIN acc, acc.routes \in Seq(T),
         r.route # 0 /\ UsableRoute(vs, r) => virtualServerRoutes[r.route] \in T
  PROVE  LET new == AddRoute(vs, acc, r)
             listed == IF r.route # 0 /\ UsableRoute(vs, r) THEN {virtualServerRoutes[r.route]} ELSE {}
         IN  /\ {"routes", "warnings"} \subseteq DOMAIN new
             /\ new.routes \in Seq(T)
             /\ Range(new.routes) = Range(acc.routes) \cup listed
<1>1. CASE r.route # 0 /\ UsableRoute(vs, r)
  <2> DEFINE v == virtualServerRoutes[r.route]
             new == AddRoute(vs, acc, r)
  <2>1. new = [acc EXCEPT !.routes = Append(@, v)]
    BY <1>1 DEF AddRoute
  <2>2. /\ {"routes", "warnings"} \subseteq DOMAIN new
        /\ new.routes = Append(acc.routes, v)
    BY <2>1
  <2>3. v \in T
    BY <1>1
  <2> HIDE DEF v, new
  <2>4. /\ Append(acc.routes, v) \in Seq(T)
        /\ Range(Append(acc.routes, v)) = Range(acc.routes) \cup {v}
    BY <2>3, AppendRange
  <2> QED
    BY <1>1, <2>2, <2>4 DEF new, v
<1>2. CASE ~(r.route # 0 /\ UsableRoute(vs, r))
  <2>1. AddRoute(vs, acc, r) = acc \/ AddRoute(vs, acc, r) = [acc EXCEPT !.warnings = @ \cup {<<"route", r.route>>}]
    BY <1>2 DEF AddRoute
  <2> QED
    BY <1>2, <2>1
<1> QED
  BY <1>1, <1>2

-----------------------------------------------------------------------------
\* The paths of minions.  The invariant of the loops (ClaimsRight) is about the claims
\* made so far: the holder of a path is the winner among the minions that claim it,
\* and the path is valid in the holder unless the holder has claimed it again.

\* of two stored Ingresses one wins, and none wins against itself
LEMMA IngressTotal ==
  ASSUME StoreOK, NEW j \in DOMAIN ingresses, NEW k \in DOMAIN ingresses
  PROVE  /\ j # k /\ ~chooseObjectMetaWinner(ingresses[j], ingresses[k])
              => chooseObjectMetaWinner(ingresses[k], ingresses[j])
         /\ ~chooseObjectMetaWinner(ingresses[j], ingresses[j])
<1>1. /\ ingresses[j].uid \in Int /\ ingresses[j].created \in Int
      /\ ingresses[k].uid \in Int /\ ingresses[k].created \in Int
      /\ j # k => ingresses[j].uid # ingresses[k].uid
  BY DEF StoreOK
<1> QED
  BY <1>1 DEF chooseObjectMetaWinner

LEMMA IngressTransitive ==
  ASSUME StoreOK, NEW i \in DOMAIN ingresses, NEW j \in DOMAIN ingresses, NEW k \in DOMAIN ingresses,
         chooseObjectMetaWinner(ingresses[i], ingresses[j]),
         chooseObjectMetaWinner(ingresses[j], ingresses[k])
  PROVE  chooseObjectMetaWinner(ingresses[i], ingresses[k])
<1>1. /\ ingresses[i].uid \in Int /\ ingresses[i].created \in Int
      /\ ingresses[j].uid \in Int /\ ingresses[j].created \in Int
      /\ ingresses[k].uid \in Int /\ ingresses[k].created \in Int
  BY DEF StoreOK
<1> QED
  BY <1>1 DEF chooseObjectMetaWinner

\* holder and valid are right after the claims of C, of which those of D were made
\* more than once
ClaimsRight(holder, valid, C, D) ==
  /\ \A c \in C : c = <<c[1], c[2]>> /\ c[1] \in DOMAIN ingresses
  /\ D \subseteq C /\ valid \subseteq C
  /\ \A k, p : <<k, p>> \in C =>
       /\ p \in DOMAIN holder
       /\ holder[p] = k \/ chooseObjectMetaWinner(ingresses[holder[p]], ingresses[k])
  /\ \A p \in DOMAIN holder : <<holder[p], p>> \in C /\ holder[p] \in DOMAIN ingresses
  /\ \A k, p : <<k, p>> \in valid <=>
       p \in DOMAIN holder /\ holder[p] = k /\ <<k, p>> \notin D

IsAccumulator(acc) == DOMAIN acc = {"holder", "valid", "warned"}

LEMMA ClaimPathCases ==
  ASSUME NEW acc, IsAccumulator(acc), NEW k, NEW p
  PROVE  LET h == acc.holder[p]
             new == ClaimPath(acc, <<k, p>>)
         IN  /\ IsAccumulator(new)
             /\ \/ /\ p \notin DOMAIN acc.holder
                   /\ new.holder = Put(acc.holder, p, k)
                   /\ new.valid = acc.valid \cup {<<k, p>>}
                \/ /\ p \in DOMAIN acc.holder
                   /\ ~chooseObjectMetaWinner(ingresses[h], ingresses[k])
                   /\ new.holder = Put(acc.holder, p, k)
                   /\ new.valid = (acc.valid \cup {<<k, p>>}) \ {<<h, p>>}
                \/ /\ p \in DOMAIN acc.holder
                   /\ chooseObjectMetaWinner(ingresses[h], ingresses[k])
                   /\ new.holder = acc.holder /\ new.valid = acc.valid
<1> DEFINE c == <<k, p>>
           h == acc.holder[p]
           new == ClaimPath(acc, c)
<1>1. c[1] = k /\ c[2] = p
  OBVIOUS
<1>2. CASE p \notin DOMAIN acc.holder
  <2>1. new = [acc EXCEPT !.holder = Put(@, p, k), !.valid = @ \cup {c}]
    BY <1>1, <1>2 DEF ClaimPath
  <2> QED
    BY <1>2, <2>1 DEF IsAccumulator
<1>3. CASE p \in DOMAIN acc.holder /\ ~chooseObjectMetaWinner(ingresses[h], ingresses[k])
  <2>1. new = [acc EXCEPT !.holder = Put(@, p, k), !.valid = (@ \cup {c}) \ {<<h, p>>},
                          !.warned = @ \cup {<<h, p>>}]
    BY <1>1, <1>3 DEF ClaimPath
  <2> QED
    BY <1>3, <2>1 DEF IsAccumulator
<1>4. CASE p \in DOMAIN acc.holder /\ chooseObjectMetaWinner(ingresses[h], ingresses[k])
  <2>1. new = [acc EXCEPT !.warned = @ \cup {c}]
    BY <1>1, <1>4 DEF ClaimPath
  <2> QED
    BY <1>4, <2>1 DEF IsAccumulator
<1> QED
  BY <1>2, <1>3, <1>4

Again(C, c) == IF c \in C THEN {c} ELSE {}

LEMMA TakesPath ==
  ASSUME StoreOK, NEW holder, NEW valid, NEW C, NEW D, ClaimsRight(holder, valid, C, D),
         NEW k \in DOMAIN ingresses, NEW p, p \notin DOMAIN holder
  PROVE  ClaimsRight(Put(holder, p, k), valid \cup {<<k, p>>}, C \cup {<<k, p>>},
                     D \cup Again(C, <<k, p>>))
<1> DEFINE new == Put(holder, p, k)
<1>1. \A j : <<j, p>> \notin C
  BY DEF ClaimsRight
<1>2. D \cup Again(C, <<k, p>>) = D
  BY <1>1 DEF Again
<1>3. /\ DOMAIN new = DOMAIN holder \cup {p} /\ new[p] = k
      /\ \A q \in DOMAIN holder : new[q] = holder[q]
  BY DEF Put
<1> HIDE DEF new
<1>4. ClaimsRight(new, valid \cup {<<k, p>>}, C \cup {<<k, p>>}, D)
  BY <1>1, <1>3 DEF ClaimsRight
<1> QED
  BY <1>2, <1>4 DEF new

LEMMA TakesPathFrom ==
  ASSUME StoreOK, NEW holder, NEW valid, NEW C, NEW D, ClaimsRight(holder, valid, C, D),
         NEW k \in DOMAIN ingresses, NEW p \in DOMAIN holder,
         ~chooseObjectMetaWinner(ingresses[holder[p]], ingresses[k])
  PROVE  ClaimsRight(Put(holder, p, k), (valid \cup {<<k, p>>}) \ {<<holder[p], p>>},
                     C \cup {<<k, p>>}, D \cup Again(C, <<k, p>>))
<1> DEFINE new == Put(holder, p, k)
           h == holder[p]
           v == (valid \cup {<<k, p>>}) \ {<<h, p>>}
           D2 == D \cup Again(C, <<k, p>>)
<1>1. /\ DOMAIN new = DOMAIN holder /\ new[p] = k
      /\ \A q \in DOMAIN holder \ {p} : new[q] = holder[q]
  BY DEF Put
<1>2. h \in DOMAIN ingresses /\ <<h, p>> \in C
  BY DEF ClaimsRight
<1>3. CASE h = k
  <2>1. <<k, p>> \in C /\ D2 = D \cup {<<k, p>>}
    BY <1>2, <1>3 DEF Again
  <2>2. \A q \in DOMAIN holder : new[q] = holder[q]
    BY <1>1, <1>3
  <2>3. \A j, q : <<j, q>> \in v <=> <<j, q>> \in valid /\ ~(j = k /\ q = p)
    BY <1>3
  <2> HIDE DEF new, v, D2, h
  <2>4. ClaimsRight(new, v, C \cup {<<k, p>>}, D2)
    <3>1. v \subseteq C
      BY <2>1 DEF ClaimsRight, v
    <3> QED
      BY <1>1, <2>1, <2>2, <2>3, <3>1 DEF ClaimsRight
  <2> QED
    BY <2>4 DEF new, v, D2, h
<1>4. CASE h # k
  <2>1. <<k, p>> \notin C /\ D2 = D
    BY <1>4 DEF ClaimsRight, Again
  <2>2. chooseObjectMetaWinner(ingresses[k], ingresses[h])
    BY <1>2, <1>4, IngressTotal
  <2>3. ASSUME NEW j, <<j, p>> \in C PROVE chooseObjectMetaWinner(ingresses[k], ingresses[j])
    <3>1. j \in DOMAIN ingresses /\ (h = j \/ chooseObjectMetaWinner(ingresses[h], ingresses[j]))
      BY <2>3 DEF ClaimsRight
    <3> HIDE DEF h
    <3> QED
      BY <1>2, <2>2, <3>1, IngressTransitive
  <2>4. \A j, q : <<j, q>> \in v <=> (<<j, q>> \in valid /\ q # p) \/ (j = k /\ q = p)
    <3>1. \A j : <<j, p>> \in valid => j = h
      BY DEF ClaimsRight
    <3> QED
      BY <1>4, <3>1
  <2>5. v \subseteq C \cup {<<k, p>>}
    BY DEF ClaimsRight
  <2> HIDE DEF new, v, D2, h
  <2>6. \A j, q : <<j, q>> \in v <=> q \in DOMAIN new /\ new[q] = j /\ <<j, q>> \notin D
    BY <1>1, <2>1, <2>4 DEF ClaimsRight
  <2>7. ClaimsRight(new, v, C \cup {<<k, p>>}, D)
    BY <1>1, <2>3, <2>5, <2>6 DEF ClaimsRight
  <2> QED
    BY <2>1, <2>7 DEF new, v, h, D2
<1> QED
  BY <1>3, <1>4

LEMMA LosesPath ==
  ASSUME StoreOK, NEW holder, NEW valid, NEW C, NEW D, ClaimsRight(holder, valid, C, D),
         NEW k \in DOMAIN ingresses, NEW p \in DOMAIN holder,
         chooseObjectMetaWinner(ingresses[holder[p]], ingresses[k])
  PROVE  ClaimsRight(holder, valid, C \cup {<<k, p>>}, D \cup Again(C, <<k, p>>))
<1> DEFINE D2 == D \cup Again(C, <<k, p>>)
<1>1. holder[p] # k
  BY IngressTotal
<1>2. D2 \subseteq C /\ \A j, q : <<j, q>> \in D2 => <<j, q>> \in D \/ (j = k /\ q = p)
  BY DEF Again, ClaimsRight
<1>3. D \subseteq D2
  OBVIOUS
<1> HIDE DEF D2
<1>4. ClaimsRight(holder, valid, C \cup {<<k, p>>}, D2)
  BY <1>1, <1>2, <1>3 DEF ClaimsRight
<1> QED
  BY <1>4 DEF D2

LEMMA ClaimPathRight ==
  ASSUME StoreOK, NEW acc, IsAccumulator(acc), NEW C, NEW D,
         ClaimsRight(acc.holder, acc.valid, C, D),
         NEW k \in DOMAIN ingresses, NEW p
  PROVE  LET new == ClaimPath(acc, <<k, p>>)
         IN  /\ IsAccumulator(new)
             /\ ClaimsRight(new.holder, new.valid, C \cup {<<k, p>>}, D \cup Again(C, <<k, p>>))
<1> DEFINE new == ClaimPath(acc, <<k, p>>)
           h == acc.holder[p]
<1>1. /\ IsAccumulator(new)
      /\ \/ /\ p \notin DOMAIN acc.holder
            /\ new.holder = Put(acc.holder, p, k)
            /\ new.valid = acc.valid \cup {<<k, p>>}
         \/ /\ p \in DOMAIN acc.holder
            /\ ~chooseObjectMetaWinner(ingresses[h], ingresses[k])
            /\ new.holder = Put(acc.holder, p, k)
            /\ new.valid = (acc.valid \cup {<<k, p>>}) \ {<<h, p>>}
         \/ /\ p \in DOMAIN acc.holder
            /\ chooseObjectMetaWinner(ingresses[h], ingresses[k])
            /\ new.holder = acc.holder /\ new.valid = acc.valid
  BY ClaimPathCases
<1> HIDE DEF new
<1>2. ClaimsRight(new.holder, new.valid, C \cup {<<k, p>>}, D \cup Again(C, <<k, p>>))
  BY <1>1, TakesPath, TakesPathFrom, LosesPath
<1> QED
  BY <1>1, <1>2 DEF new

PathClaims(k) == {<<k, ingresses[k].paths[j]>> : j \in DOMAIN ingresses[k].paths}

Repeated(k) == {c \in PathClaims(k) : ~ListedOnce(c[2], ingresses[k].paths)}

\* all claims of the minions of K, and those made more than once
ClaimsOf(K) == UNION {PathClaims(k) : k \in K}

RepeatedOf(K) == UNION {Repeated(k) : k \in K}

\* The minions of a master: each path is valid in the minion that wins against all
\* others that claim it, if that one lists it once.  It says which paths are valid
\* from the objects alone.
PathsRight(ms) ==
  /\ ms \in Seq(Range(ms))
  /\ \A i, j \in DOMAIN ms : ms[i].object.key = ms[j].object.key => i = j
  /\ \A i \in DOMAIN ms : \A p :
       p \in ms[i].validPaths <=>
         /\ p \in Range(ms[i].object.paths)
         /\ ListedOnce(p, ms[i].object.paths)
         /\ \A j \in DOMAIN ms \ {i} :
              p \in Range(ms[j].object.paths) => chooseObjectMetaWinner(ms[i].object, ms[j].object)
  /\ \A i \in DOMAIN ms : \A p \in Range(ms[i].object.paths) :
       \E w \in DOMAIN ms :
         /\ p \in Range(ms[w].object.paths)
         /\ \A j \in DOMAIN ms \ {w} :
              p \in Range(ms[j].object.paths) => chooseObjectMetaWinner(ms[w].object, ms[j].object)

MinionsRight(ms, host) ==
  /\ {ms[i].object : i \in DOMAIN ms} = {ingresses[k] : k \in MinionsOf(host)}
  /\ PathsRight(ms)

LEMMA IngressAsymmetric ==
  ASSUME StoreOK, NEW j \in DOMAIN ingresses, NEW k \in DOMAIN ingresses,
         chooseObjectMetaWinner(ingresses[j], ingresses[k])
  PROVE  ~chooseObjectMetaWinner(ingresses[k], ingresses[j])
<1>1. /\ ingresses[j].uid \in Int /\ ingresses[j].created \in Int
      /\ ingresses[k].uid \in Int /\ ingresses[k].created \in Int
  BY DEF StoreOK
<1> QED
  BY <1>1 DEF chooseObjectMetaWinner

LEMMA FullMinionsRight ==
  ASSUME StoreOK, NEW ks \in Seq(DOMAIN ingresses), IsInjective(ks), NEW acc,
         ClaimsRight(acc.holder, acc.valid, ClaimsOf(Range(ks)), RepeatedOf(Range(ks)))
  PROVE  LET ms == FullMinions(ks, acc).minions
         IN  PathsRight(ms) /\ {ms[i].object : i \in DOMAIN ms} = {ingresses[k] : k \in Range(ks)}
<1> DEFINE ms == FullMinions(ks, acc).minions
           K == Range(ks)
           C == ClaimsOf(K)
           D == RepeatedOf(K)
           holder == acc.holder
           valid == acc.valid
           paths(i) == ingresses[ks[i]].paths
           wins(i, j) == chooseObjectMetaWinner(ingresses[ks[i]], ingresses[ks[j]])
<1>1. /\ DOMAIN ks = 1..Len(ks) /\ Len(ks) \in Nat /\ \A i \in DOMAIN ks : ks[i] \in DOMAIN ingresses
      /\ \A i, j \in DOMAIN ks : ks[i] = ks[j] => i = j
  BY DEF IsInjective
<1>2. /\ DOMAIN ms = DOMAIN ks
      /\ \A i \in DOMAIN ks : /\ ms[i].object = ingresses[ks[i]]
                              /\ ms[i].validPaths = {c[2] : c \in {d \in valid : d[1] = ks[i]}}
      /\ ms \in Seq(Range(ms))
  <2>1. ms = [i \in DOMAIN ks |->
                  [object |-> ingresses[ks[i]],
                   validPaths |-> {c[2] : c \in {d \in valid : d[1] = ks[i]}}]]
    BY DEF FullMinions
  <2> HIDE DEF ms, valid
  <2>2. /\ DOMAIN ms = DOMAIN ks
        /\ \A i \in DOMAIN ks : /\ ms[i].object = ingresses[ks[i]]
                                /\ ms[i].validPaths = {c[2] : c \in {d \in valid : d[1] = ks[i]}}
    BY <2>1
  <2>3. ms \in [1..Len(ks) -> Range(ms)]
    BY <1>1, <2>1, <2>2 DEF Range
  <2> QED
    BY <1>1, <2>2, <2>3
<1> HIDE DEF ms
<1>3. \A k, p : <<k, p>> \in C <=> k \in K /\ p \in Range(ingresses[k].paths)
  BY DEF ClaimsOf, PathClaims, Range
<1>4. \A k, p : <<k, p>> \in D <=> <<k, p>> \in C /\ ~ListedOnce(p, ingresses[k].paths)
  <2>1. \A k, p : <<k, p>> \in D <=> \E j \in K : <<k, p>> \in Repeated(j)
    BY DEF RepeatedOf
  <2>2. \A j, k, p : <<k, p>> \in Repeated(j) <=>
          k = j /\ p \in Range(ingresses[k].paths) /\ ~ListedOnce(p, ingresses[k].paths)
    BY DEF Repeated, PathClaims, Range
  <2> HIDE DEF C, D, K
  <2>3. ASSUME NEW k, NEW p
        PROVE  <<k, p>> \in D <=> <<k, p>> \in C /\ ~ListedOnce(p, ingresses[k].paths)
    <3>1. <<k, p>> \in D <=> k \in K /\ <<k, p>> \in Repeated(k)
      BY <2>1, <2>2
    <3>2. <<k, p>> \in C <=> k \in K /\ p \in Range(ingresses[k].paths)
      BY <1>3
    <3>3. <<k, p>> \in Repeated(k) <=>
            p \in Range(ingresses[k].paths) /\ ~ListedOnce(p, ingresses[k].paths)
      BY <2>2
    <3> QED
      BY <3>1, <3>2, <3>3
  <2> QED
    BY <2>3
<1>5. ClaimsRight(holder, valid, C, D)
  OBVIOUS
<1> HIDE DEF C, D, holder, valid
<1>6. \A k \in K : \E i \in DOMAIN ks : k = ks[i]
  BY DEF Range
<1>7. \A i \in DOMAIN ks : ks[i] \in K
  BY DEF Range
<1> HIDE DEF K
<1>8. ASSUME NEW i \in DOMAIN ks, NEW p
      PROVE  p \in ms[i].validPaths <=> <<ks[i], p>> \in valid
  <2>1. \A d \in valid : d = <<d[1], d[2]>>
    BY <1>5 DEF ClaimsRight
  <2>2. ms[i].validPaths = {c[2] : c \in {d \in valid : d[1] = ks[i]}}
    BY <1>2
  <2> QED
    BY <2>1, <2>2
\* the holder of a path that a minion claims is a minion that claims it, and wins
<1>9. ASSUME NEW i \in DOMAIN ks, NEW p \in Range(paths(i))
      PROVE  \E w \in DOMAIN ks :
               /\ p \in DOMAIN holder /\ holder[p] = ks[w]
               /\ p \in Range(paths(w))
               /\ \A j \in DOMAIN ks \ {w} : p \in Range(paths(j)) => wins(w, j)
  <2>1. <<ks[i], p>> \in C
    BY <1>3, <1>7
  <2>2. p \in DOMAIN holder /\ <<holder[p], p>> \in C
    BY <1>5, <2>1 DEF ClaimsRight
  <2>3. PICK w \in DOMAIN ks : holder[p] = ks[w]
    BY <1>3, <1>6, <2>2
  <2>4. p \in Range(paths(w))
    BY <1>3, <2>2, <2>3
  <2>5. ASSUME NEW j \in DOMAIN ks \ {w}, p \in Range(paths(j)) PROVE wins(w, j)
    <3>1. <<ks[j], p>> \in C /\ ks[j] # ks[w]
      BY <1>1, <1>3, <1>7, <2>5
    <3> QED
      BY <1>5, <2>3, <3>1 DEF ClaimsRight
  <2> QED
    BY <2>2, <2>3, <2>4, <2>5
<1>10. ASSUME NEW i \in DOMAIN ks, NEW p
       PROVE  p \in ms[i].validPaths <=>
                /\ p \in Range(paths(i)) /\ ListedOnce(p, paths(i))
                /\ \A j \in DOMAIN ks \ {i} : p \in Range(paths(j)) => wins(i, j)
  <2>1. p \in ms[i].validPaths <=>
          p \in DOMAIN holder /\ holder[p] = ks[i] /\ <<ks[i], p>> \notin D
    BY <1>5, <1>8 DEF ClaimsRight
  <2>2. CASE p \notin Range(paths(i))
    <3>1. <<ks[i], p>> \notin C
      BY <1>3, <2>2
    <3>2. ~(p \in DOMAIN holder /\ holder[p] = ks[i])
      BY <1>5, <3>1 DEF ClaimsRight
    <3> QED
      BY <2>1, <2>2, <3>2
  <2>3. CASE p \in Range(paths(i))
    <3>1. PICK w \in DOMAIN ks :
               /\ p \in DOMAIN holder /\ holder[p] = ks[w]
               /\ p \in Range(paths(w))
               /\ \A j \in DOMAIN ks \ {w} : p \in Range(paths(j)) => wins(w, j)
      BY <1>9, <2>3
    <3>2. <<ks[i], p>> \in D <=> ~ListedOnce(p, paths(i))
      BY <1>3, <1>4, <1>7, <2>3
    <3>3. CASE w = i
      BY <2>1, <2>3, <3>1, <3>2, <3>3
    <3>4. CASE w # i
      <4>1. holder[p] # ks[i] /\ wins(w, i)
        BY <1>1, <2>3, <3>1, <3>4
      <4>2. ~wins(i, w)
        BY <1>1, <4>1, IngressAsymmetric
      <4> QED
        BY <2>1, <3>1, <3>4, <4>1, <4>2
    <3> QED
      BY <3>3, <3>4
  <2> QED
    BY <2>2, <2>3
<1>11. PathsRight(ms)
  <2>1. \A i, j \in DOMAIN ms : ms[i].object.key = ms[j].object.key => i = j
    BY <1>1, <1>2 DEF StoreOK
  <2>2. \A i \in DOMAIN ms : \A p :
          p \in ms[i].validPaths <=>
            /\ p \in Range(ms[i].object.paths)
            /\ ListedOnce(p, ms[i].object.paths)
            /\ \A j \in DOMAIN ms \ {i} :
                 p \in Range(ms[j].object.paths) => chooseObjectMetaWinner(ms[i].object, ms[j].object)
    BY <1>2, <1>10
  <2>3. \A i \in DOMAIN ms : \A p \in Range(ms[i].object.paths) :
         \E w \in DOMAIN ms :
           /\ p \in Range(ms[w].object.paths)
           /\ \A j \in DOMAIN ms \ {w} :
                p \in Range(ms[j].object.paths) => chooseObjectMetaWinner(ms[w].object, ms[j].object)
    <3> TAKE i \in DOMAIN ms
    <3> TAKE p \in Range(ms[i].object.paths)
    <3>1. i \in DOMAIN ks /\ p \in Range(paths(i))
      BY <1>2
    <3>2. PICK w \in DOMAIN ks :
            /\ p \in Range(paths(w))
            /\ \A j \in DOMAIN ks \ {w} : p \in Range(paths(j)) => wins(w, j)
      <4> HIDE DEF paths, wins
      <4> QED
        BY <1>9, <3>1
    <3> QED
      BY <1>2, <3>2
  <2> QED
    BY <1>2, <2>1, <2>2, <2>3 DEF PathsRight
<1>12. {ms[i].object : i \in DOMAIN ms} = {ingresses[k] : k \in Range(ks)}
  BY <1>2 DEF Range
<1> QED
  BY <1>11, <1>12 DEF ms

-----------------------------------------------------------------------------
\* The second invariant: what is built is right, and what it was built for

\* what rebuild found out about the children of the stored object k
Built(r, k) ==
  /\ k[1] = "Ingress" =>
       /\ {"isMaster", "minions"} \subseteq DOMAIN r
       /\ r.isMaster = isMaster(Object(k))
       /\ isMaster(Object(k)) => MinionsRight(r.minions, Object(k).rules[1])
       /\ ~isMaster(Object(k)) => r.minions = <<>>
  /\ k[1] = "VirtualServer" =>
       /\ "routes" \in DOMAIN r
       /\ r.routes \in Seq(Range(r.routes))
       /\ Range(r.routes) = ListedRoutes(Object(k), DOMAIN Object(k).routes)

\* acquiring and releasing hosts, and warnings, do not concern the children
LEMMA SameChildren ==
  ASSUME NEW r, NEW s, NEW k, Built(r, k), DOMAIN s = DOMAIN r,
         \A f \in DOMAIN r \ {"validHosts", "warnings"} : s[f] = r[f]
  PROVE  Built(s, k)
<1>1. CASE k[1] = "Ingress"
  <2>1. {"isMaster", "minions"} \subseteq DOMAIN r
    BY <1>1 DEF Built
  <2>2. s.isMaster = r.isMaster /\ s.minions = r.minions
    BY <2>1
  <2> QED
    BY <1>1, <2>1, <2>2 DEF Built
<1>2. CASE k[1] = "VirtualServer"
  <2>1. "routes" \in DOMAIN r
    BY <1>2 DEF Built
  <2>2. s.routes = r.routes
    BY <2>1
  <2> QED
    BY <1>2, <2>1, <2>2 DEF Built
<1> QED
  BY <1>1, <1>2 DEF Built

LEMMA SetHostsKeeps ==
  ASSUME NEW r, NEW H, NEW b
  PROVE  LET s == SetHosts(r, H, b)
         IN  DOMAIN s = DOMAIN r /\ \A f \in DOMAIN r \ {"validHosts"} : s[f] = r[f]
  BY DEF SetHosts

\* a step that leaves the store alone does not change what is built
LEMMA BuiltUnchanged ==
  ASSUME UNCHANGED store, NEW r, NEW k, Built(r, k)
  PROVE  Built(r, k)'
<1>1. /\ ingresses' = ingresses /\ virtualServers' = virtualServers
      /\ virtualServerRoutes' = virtualServerRoutes
  BY DEF store
<1>2. Object(k)' = Object(k)
  BY <1>1 DEF Object
<1>3. \A vs, I : ListedRoutes(vs, I)' = ListedRoutes(vs, I)
  BY <1>1 DEF ListedRoutes, UsableRoute, ValidateVirtualServerRouteForVirtualServer
<1>4. \A ms, host : MinionsRight(ms, host) => MinionsRight(ms, host)'
  <2>1. \A host : MinionsOf(host)' = MinionsOf(host)
    BY <1>1 DEF MinionsOf, isMinion
  <2>2. \A ms : PathsRight(ms) => PathsRight(ms)'
    BY DEF PathsRight, ListedOnce, chooseObjectMetaWinner, Range
  <2>3. ASSUME NEW ms, NEW host, MinionsRight(ms, host) PROVE MinionsRight(ms, host)'
    <3>1. {ingresses[i] : i \in MinionsOf(host)}' = {ingresses[i] : i \in MinionsOf(host)}
      BY <1>1, <2>1
    <3> QED
      BY <2>2, <2>3, <3>1 DEF MinionsRight
  <2> QED
    BY <2>3
<1>5. isMaster(Object(k))' <=> isMaster(Object(k))
  BY <1>2 DEF isMaster
<1>6. CASE k[1] = "Ingress"
  <2>1. /\ {"isMaster", "minions"} \subseteq DOMAIN r
        /\ r.isMaster = isMaster(Object(k))
        /\ isMaster(Object(k)) => MinionsRight(r.minions, Object(k).rules[1])
        /\ ~isMaster(Object(k)) => r.minions = <<>>
    BY <1>6 DEF Built
  <2>2. r.isMaster = isMaster(Object(k))'
    BY <1>2, <2>1 DEF isMaster
  <2>3. isMaster(Object(k)) => MinionsRight(r.minions, Object(k).rules[1])'
    BY <1>2, <1>4, <2>1
  <2> QED
    BY <1>5, <1>6, <2>1, <2>2, <2>3 DEF Built
<1>7. CASE k[1] # "Ingress"
  BY <1>2, <1>3, <1>7 DEF Built, Range
<1> QED
  BY <1>6, <1>7

\* the hosts that the active resource r of k holds, said without the store, which
\* has already changed during rebuild
HoldsRight(r, k, hs) ==
  /\ k[1] = "Ingress" =>
       \A h : (h \in DOMAIN r.validHosts /\ r.validHosts[h] = TRUE)
                <=> (h \in DOMAIN hs /\ hs[h] = k)
  /\ k[1] # "Ingress" => \A h \in DOMAIN hs : hs[h] = k => h = r.object.host

HostSet(hs) == IsFiniteSet(DOMAIN hs) /\ DOMAIN hs \subseteq Int

Unstored(k) ==
  /\ k[1] = "Ingress" => k[2] \notin DOMAIN ingresses
  /\ k[1] = "VirtualServer" => k[2] \notin DOMAIN virtualServers
  /\ k[1] = "VirtualServerRoute" => k[2] \notin DOMAIN virtualServerRoutes

BuiltInv ==
  /\ \A k \in DOMAIN newResources : Built(newResources[k], k)
  /\ pc = "idle" => \A k \in DOMAIN resources : Built(resources[k], k)
  /\ \A k \in DOMAIN resources : HoldsRight(resources[k], k, hosts)
  /\ HostSet(hosts) /\ HostSet(newHosts)
  /\ pc = "idle" => rejected = NoKey
  /\ Unstored(rejected)

LEMMA UnchangedBuilt ==
  ASSUME BuiltInv, UNCHANGED <<store, active, pc, locals>>
  PROVE  BuiltInv'
<1>1. /\ UNCHANGED store /\ hosts' = hosts /\ resources' = resources /\ pc' = pc
      /\ newHosts' = newHosts /\ newResources' = newResources /\ rejected' = rejected
  BY DEF active, locals
<1>2. \A r, k : Built(r, k) => Built(r, k)'
  BY <1>1, BuiltUnchanged
<1>3. (\A j \in DOMAIN resources : HoldsRight(resources[j], j, hosts))'
  BY <1>1 DEF BuiltInv, HoldsRight
<1>4. HostSet(hosts)' /\ HostSet(newHosts)' /\ Unstored(rejected)'
  BY <1>1 DEF BuiltInv, HostSet, Unstored, store
<1> QED
  BY <1>1, <1>2, <1>3, <1>4 DEF BuiltInv

-----------------------------------------------------------------------------
\* What rebuild does not use it reports

\* addProblemsForResourcesWithoutActiveHost after the loop
LEMMA ActiveHostIsHeld ==
  ASSUME HostsInv, pc = "rebuild", NEW k \in DOMAIN newResources
  PROVE  HasActiveHost(k) <=> k \in Range(newHosts)
<1> DEFINE r == newResources[k]
<1>1. /\ HostsRight(newHosts, DOMAIN newResources) /\ ResourceRight(r, k, newHosts)
      /\ k \in StoredKeys
  BY DEF HostsInv, LoopOK
<1>2. k \in Range(newHosts) <=> \E h \in DOMAIN newHosts : newHosts[h] = k
  BY DEF Range
<1>3. CASE k[1] = "Ingress"
  <2>1. /\ r.kind = "Ingress"
        /\ \A h : (h \in DOMAIN r.validHosts /\ r.validHosts[h] = TRUE)
                    <=> (h \in DOMAIN newHosts /\ newHosts[h] = k)
        /\ \A h \in DOMAIN r.validHosts : r.validHosts[h] \in BOOLEAN
    BY <1>1, <1>3 DEF ResourceRight
  <2> QED
    BY <1>2, <2>1 DEF HasActiveHost
<1>4. CASE k[1] # "Ingress"
  <2>1. r.kind # "Ingress" /\ r.object = Object(k) /\ HostsOf(k) = {r.object.host}
    BY <1>1, <1>4 DEF ResourceRight, HostsOf
  <2>2. r.object.host \in DOMAIN newHosts
    BY <1>1, <2>1 DEF HostsRight
  <2>3. \A h \in DOMAIN newHosts : newHosts[h] = k => h = r.object.host
    BY <1>1, <2>1 DEF HostsRight
  <2> QED
    BY <1>2, <2>1, <2>2, <2>3 DEF HasActiveHost
<1> QED
  BY <1>3, <1>4

\* a master has one rule, and holds its host or none
LEMMA MasterHost ==
  ASSUME StoreOK, NEW k \in StoredKeys, k[1] = "Ingress", isMaster(Object(k)), NEW h \in HostsOf(k)
  PROVE  h = Object(k).rules[1]
<1>1. Object(k).rules \in Seq(Int) /\ Len(Object(k).rules) = 1
  BY DEF StoreOK, StoredKeys, ResourceKeys, Object, validateIngress, validateMasterSpec
<1>2. DOMAIN Object(k).rules = {1}
  BY <1>1
<1> QED
  BY <1>2 DEF HostsOf, Range

\* addProblemsForOrphanMinions after the loop: a minion without a master is one that
\* no active master lists
LEMMA MasterListsMinion ==
  ASSUME StoreOK, HostsInv, BuiltInv, pc = "rebuild", building = {},
         NEW i \in DOMAIN ingresses, isMinion(ingresses[i])
  PROVE  HasMaster(ingresses[i]) <=>
           \E k \in Range(newHosts) : k[1] = "Ingress" /\
             \E m \in Range(newResources[k].minions) : m.object.key = i
<1> DEFINE host == ingresses[i].rules[1]
<1>1. /\ DOMAIN newResources = StoredKeys /\ Range(newHosts) \subseteq StoredKeys
      /\ HostsRight(newHosts, StoredKeys)
      /\ \A k \in StoredKeys : /\ newResources[k].kind = k[1]
                               /\ newResources[k].object = Object(k)
                               /\ Built(newResources[k], k)
  BY DEF HostsInv, LoopOK, ResourceRight, BuiltInv
<1>2. \A j \in DOMAIN ingresses : ingresses[j].key = j
  BY DEF StoreOK
<1>3. ASSUME HasMaster(ingresses[i])
      PROVE  \E k \in Range(newHosts) : k[1] = "Ingress" /\
               \E m \in Range(newResources[k].minions) : m.object.key = i
  <2> DEFINE k == newHosts[host]
             ms == newResources[k].minions
  <2>1. host \in DOMAIN newHosts /\ newResources[k].kind = "Ingress" /\ newResources[k].isMaster
    BY <1>3 DEF HasMaster
  <2>2. k \in StoredKeys /\ k \in Range(newHosts) /\ host \in HostsOf(k)
    BY <1>1, <2>1 DEF HostsRight, Range
  <2>3. k[1] = "Ingress" /\ Built(newResources[k], k)
    BY <1>1, <2>1, <2>2
  <2>4. isMaster(Object(k)) /\ MinionsRight(ms, Object(k).rules[1])
    BY <2>1, <2>3 DEF Built
  <2>5. host = Object(k).rules[1]
    BY <2>2, <2>3, <2>4, MasterHost
  <2>6. i \in MinionsOf(Object(k).rules[1])
    BY <2>5 DEF MinionsOf
  <2>7. ingresses[i] \in {ms[n].object : n \in DOMAIN ms}
    BY <2>4, <2>6 DEF MinionsRight
  <2>8. PICK n \in DOMAIN ms : ms[n].object = ingresses[i]
    BY <2>7
  <2>9. ms[n] \in Range(ms) /\ ms[n].object.key = i
    BY <1>2, <2>8 DEF Range
  <2> HIDE DEF k, ms
  <2> QED
    BY <2>2, <2>3, <2>9 DEF ms
<1>4. ASSUME NEW k \in Range(newHosts), k[1] = "Ingress",
             NEW m \in Range(newResources[k].minions), m.object.key = i
      PROVE  HasMaster(ingresses[i])
  <2> DEFINE ms == newResources[k].minions
  <2>1. k \in StoredKeys /\ Built(newResources[k], k) /\ newResources[k].kind = "Ingress"
    BY <1>1, <1>4
  <2>2. PICK n \in DOMAIN ms : m = ms[n]
    BY DEF Range
  <2>3. isMaster(Object(k)) /\ newResources[k].isMaster /\ MinionsRight(ms, Object(k).rules[1])
    <3>1. ms # <<>>
      BY <2>2
    <3> QED
      BY <1>4, <2>1, <3>1 DEF Built
  <2>4. m.object \in {ingresses[j] : j \in MinionsOf(Object(k).rules[1])}
    BY <2>2, <2>3 DEF MinionsRight
  <2>5. PICK j \in MinionsOf(Object(k).rules[1]) : m.object = ingresses[j]
    BY <2>4
  <2>6. j = i /\ host = Object(k).rules[1]
    BY <1>2, <1>4, <2>5 DEF MinionsOf
  <2>7. PICK h \in DOMAIN newHosts : newHosts[h] = k
    BY DEF Range
  <2>8. h \in HostsOf(k)
    BY <1>1, <2>7 DEF HostsRight
  <2>9. h = host
    BY <1>4, <2>1, <2>3, <2>6, <2>8, MasterHost
  <2> QED
    BY <2>1, <2>3, <2>7, <2>9 DEF HasMaster
<1> QED
  BY <1>3, <1>4

\* addProblemsForOrphanOrIgnoredVsrs after the loop
LEMMA ServerListsRoute ==
  ASSUME StoreOK, HostsInv, BuiltInv, pc = "rebuild", building = {},
         NEW i \in DOMAIN virtualServerRoutes
  PROVE  HasVirtualServer(virtualServerRoutes[i]) /\ ~IsIgnored(virtualServerRoutes[i]) <=>
           \E k \in Range(newHosts) : k[1] = "VirtualServer" /\
             \E v \in Range(newResources[k].routes) : v.key = i
<1> DEFINE vsr == virtualServerRoutes[i]
<1>1. /\ DOMAIN newResources = StoredKeys /\ Range(newHosts) \subseteq StoredKeys
      /\ HostsRight(newHosts, StoredKeys)
      /\ \A k \in StoredKeys : Built(newResources[k], k)
  BY DEF HostsInv, LoopOK, BuiltInv
<1>2. \A j \in DOMAIN virtualServerRoutes : virtualServerRoutes[j].key = j
  BY DEF StoreOK
<1>3. ASSUME HasVirtualServer(vsr), ~IsIgnored(vsr)
      PROVE  \E k \in Range(newHosts) : k[1] = "VirtualServer" /\
               \E v \in Range(newResources[k].routes) : v.key = i
  <2> DEFINE k == newHosts[vsr.host]
  <2>1. k \in Range(newHosts) /\ k[1] = "VirtualServer"
    BY <1>3 DEF HasVirtualServer, Range
  <2>2. PICK j \in DOMAIN newResources[k].routes : newResources[k].routes[j].key = vsr.key
    BY <1>3 DEF IsIgnored
  <2>3. vsr.key = i
    BY <1>2
  <2>4. newResources[k].routes[j] \in Range(newResources[k].routes)
    BY DEF Range
  <2> HIDE DEF k, vsr
  <2> QED
    BY <2>1, <2>2, <2>3, <2>4
<1>4. ASSUME NEW k \in Range(newHosts), k[1] = "VirtualServer",
             NEW v \in Range(newResources[k].routes), v.key = i
      PROVE  HasVirtualServer(vsr) /\ ~IsIgnored(vsr)
  <2> DEFINE rs == newResources[k].routes
  <2>1. k \in StoredKeys /\ Built(newResources[k], k)
    BY <1>1, <1>4
  <2>2. Range(rs) = ListedRoutes(Object(k), DOMAIN Object(k).routes)
    BY <1>4, <2>1 DEF Built
  <2>3. PICK n : /\ v = virtualServerRoutes[Object(k).routes[n].route]
                 /\ UsableRoute(Object(k), Object(k).routes[n])
    BY <2>2 DEF ListedRoutes
  <2>4. v = vsr /\ vsr.host = Object(k).host
    BY <1>2, <1>4, <2>3 DEF UsableRoute, ValidateVirtualServerRouteForVirtualServer
  <2>5. PICK h \in DOMAIN newHosts : newHosts[h] = k
    BY DEF Range
  <2>6. h = vsr.host
    BY <1>1, <1>4, <2>4, <2>5 DEF HostsRight, HostsOf
  <2>7. HasVirtualServer(vsr)
    BY <1>4, <2>5, <2>6 DEF HasVirtualServer
  <2>8. PICK n2 \in DOMAIN rs : rs[n2] = v
    BY DEF Range
  <2>9. ~IsIgnored(vsr)
    BY <2>4, <2>5, <2>6, <2>8 DEF IsIgnored
  <2> QED
    BY <2>7, <2>9
<1> QED
  BY <1>3, <1>4

LEMMA FinishUsed ==
  ASSUME StoreOK, HostsInv, BuiltInv, FinishRebuild
  PROVE  UsedOrProblem'
<1>1. /\ LoopOK /\ pc = "rebuild" /\ building = {}
      /\ hosts' = newHosts /\ problems' = NewProblems
      /\ resources' = [k \in Range(newHosts) |-> newResources[k]]
      /\ UNCHANGED store
  BY DEF HostsInv, FinishRebuild
<1>2. DOMAIN newResources = StoredKeys /\ StoredKeys' = StoredKeys
  BY <1>1, StoreUnchanged DEF LoopOK
<1>3. DOMAIN problems' = WithoutActiveHost \cup OrphanMinions \cup OrphanVsrs \cup IgnoredVsrs
  BY <1>1 DEF NewProblems
<1>4. ASSUME NEW k \in StoredKeys
      PROVE  k \in DOMAIN problems' <=> k \notin Range(hosts')
  <2>1. k \notin OrphanMinions /\ k \notin OrphanVsrs /\ k \notin IgnoredVsrs
    BY DEF StoredKeys, ResourceKeys, OrphanMinions, OrphanVsrs, IgnoredVsrs
  <2>2. HasActiveHost(k) <=> k \in Range(newHosts)
    BY <1>1, <1>2, ActiveHostIsHeld
  <2> QED
    BY <1>1, <1>2, <1>3, <2>1, <2>2 DEF WithoutActiveHost
<1>5. ASSUME NEW i \in DOMAIN ingresses, isMinion(ingresses[i])
      PROVE  <<"Ingress", i>> \in DOMAIN problems' <=>
               \A k \in DOMAIN resources' : k[1] = "Ingress" =>
                 \A m \in Range(resources'[k].minions) : m.object.key # i
  <2>1. <<"Ingress", i>> \notin StoredKeys
    BY <1>5 DEF StoredKeys, ResourceKeys
  <2>2. <<"Ingress", i>> \in DOMAIN problems' <=> ~HasMaster(ingresses[i])
    BY <1>2, <1>3, <1>5, <2>1 DEF WithoutActiveHost, OrphanMinions, OrphanVsrs, IgnoredVsrs
  <2>3. HasMaster(ingresses[i]) <=>
           \E k \in Range(newHosts) : k[1] = "Ingress" /\
             \E m \in Range(newResources[k].minions) : m.object.key = i
    BY <1>1, <1>5, MasterListsMinion
  <2> QED
    BY <1>1, <2>2, <2>3
<1>6. ASSUME NEW i \in DOMAIN virtualServerRoutes
      PROVE  <<"VirtualServerRoute", i>> \in DOMAIN problems' <=>
               \A k \in DOMAIN resources' : k[1] = "VirtualServer" =>
                 \A v \in Range(resources'[k].routes) : v.key # i
  <2>1. <<"VirtualServerRoute", i>> \notin StoredKeys
    BY DEF StoredKeys, ResourceKeys
  <2>2. <<"VirtualServerRoute", i>> \in DOMAIN problems' <=>
          ~(HasVirtualServer(virtualServerRoutes[i]) /\ ~IsIgnored(virtualServerRoutes[i]))
    BY <1>2, <1>3, <2>1 DEF WithoutActiveHost, OrphanMinions, OrphanVsrs, IgnoredVsrs
  <2>3. HasVirtualServer(virtualServerRoutes[i]) /\ ~IsIgnored(virtualServerRoutes[i]) <=>
           \E k \in Range(newHosts) : k[1] = "VirtualServer" /\
             \E v \in Range(newResources[k].routes) : v.key = i
    BY <1>1, ServerListsRoute
  <2> QED
    BY <1>1, <2>2, <2>3
<1>7. virtualServerRoutes' = virtualServerRoutes /\ ingresses' = ingresses
  BY <1>1 DEF store
<1> QED
  BY <1>2, <1>4, <1>5, <1>6, <1>7 DEF UsedOrProblem, Range, isMinion

\* the paths of the minions of an active master
LEMMA IdlePaths ==
  ASSUME StoreOK, HostsInv, BuiltInv
  PROVE  PathsHeldByWinner
<1> SUFFICES ASSUME pc = "idle", NEW k \in DOMAIN resources, k[1] = "Ingress",
                    NEW m \in Range(resources[k].minions), NEW p \in Range(m.object.paths)
             PROVE  \E w \in Range(resources[k].minions) :
                      /\ p \in Range(w.object.paths)
                      /\ \A o \in Range(resources[k].minions) :
                           /\ p \in o.validPaths <=> o = w /\ ListedOnce(p, w.object.paths)
                           /\ p \in Range(o.object.paths) =>
                                o = w \/ chooseObjectMetaWinner(w.object, o.object)
  BY DEF PathsHeldByWinner
<1> DEFINE ms == resources[k].minions
<1>1. Built(resources[k], k)
  BY DEF BuiltInv
<1>2. PICK i \in DOMAIN ms : m = ms[i]
  BY DEF Range
<1>3. MinionsRight(ms, Object(k).rules[1])
  <2>1. ms # <<>>
    BY <1>2
  <2> QED
    BY <1>1, <2>1 DEF Built
<1> HIDE DEF ms
<1>4. /\ \A a, b \in DOMAIN ms : ms[a].object.key = ms[b].object.key => a = b
      /\ \A a \in DOMAIN ms : p \in ms[a].validPaths <=>
           /\ p \in Range(ms[a].object.paths)
           /\ ListedOnce(p, ms[a].object.paths)
           /\ \A j \in DOMAIN ms \ {a} :
                p \in Range(ms[j].object.paths) => chooseObjectMetaWinner(ms[a].object, ms[j].object)
  BY <1>3 DEF MinionsRight, PathsRight
<1>5. PICK w \in DOMAIN ms :
        /\ p \in Range(ms[w].object.paths)
        /\ \A j \in DOMAIN ms \ {w} :
             p \in Range(ms[j].object.paths) => chooseObjectMetaWinner(ms[w].object, ms[j].object)
  <2>1. \A a \in DOMAIN ms : \A q \in Range(ms[a].object.paths) :
          \E w \in DOMAIN ms :
            /\ q \in Range(ms[w].object.paths)
            /\ \A j \in DOMAIN ms \ {w} :
                 q \in Range(ms[j].object.paths) => chooseObjectMetaWinner(ms[w].object, ms[j].object)
    BY <1>3, Zenon DEF MinionsRight, PathsRight
  <2>2. p \in Range(ms[i].object.paths)
    BY <1>2
  <2> QED
    BY <2>1, <2>2, Zenon
<1>6. ASSUME NEW j \in DOMAIN ms
      PROVE  /\ p \in ms[j].validPaths <=> ms[j] = ms[w] /\ ListedOnce(p, ms[w].object.paths)
             /\ p \in Range(ms[j].object.paths) =>
                  ms[j] = ms[w] \/ chooseObjectMetaWinner(ms[w].object, ms[j].object)
  <2>1. CASE j = w
    BY <1>4, <1>5, <2>1
  <2>2. CASE j # w
    <3>1. ms[j] # ms[w]
      BY <1>4, <2>2
    <3>2. ms[j].object \in {ingresses[a] : a \in DOMAIN ingresses}
          /\ ms[w].object \in {ingresses[a] : a \in DOMAIN ingresses}
      BY <1>3 DEF MinionsRight, MinionsOf
    <3>3. PICK a \in DOMAIN ingresses : ms[j].object = ingresses[a]
      BY <3>2
    <3>4. PICK b \in DOMAIN ingresses : ms[w].object = ingresses[b]
      BY <3>2
    <3>5. p \notin ms[j].validPaths
      <4> SUFFICES ASSUME p \in ms[j].validPaths PROVE FALSE
        OBVIOUS
      <4>1. chooseObjectMetaWinner(ingresses[a], ingresses[b])
        BY <1>4, <1>5, <2>2, <3>3, <3>4
      <4>2. chooseObjectMetaWinner(ingresses[b], ingresses[a])
        BY <1>4, <1>5, <2>2, <3>3, <3>4
      <4> QED
        BY <4>1, <4>2, IngressAsymmetric
    <3> QED
      BY <1>5, <2>2, <3>1, <3>5
  <2> QED
    BY <2>1, <2>2
<1>7. ms[w] \in Range(ms) /\ \A o \in Range(ms) : \E j \in DOMAIN ms : o = ms[j]
  BY DEF Range
<1>8. \A o \in Range(ms) :
        /\ p \in o.validPaths <=> o = ms[w] /\ ListedOnce(p, ms[w].object.paths)
        /\ p \in Range(o.object.paths) => o = ms[w] \/ chooseObjectMetaWinner(ms[w].object, o.object)
  BY <1>6, <1>7
<1> QED
  BY <1>5, <1>7, <1>8 DEF ms

-----------------------------------------------------------------------------
\* The changes that rebuild returns

LEMMA EqualSameKey ==
  ASSUME NEW r, NEW s, IsEqual(r, s)
  PROVE  KeyWithKind(r) = KeyWithKind(s)
  BY DEF IsEqual, IsEqualIngress, IsEqualVirtualServer, SameMetaWithAnnotations, SameMeta, KeyWithKind

\* the keys that createResourceChanges deletes and updates
DeletedKeys == {hosts[h] : h \in RemovedHosts \cup {g \in UpdatedHosts : hosts[g] # newHosts[g]}}

UpdatedKeys == {newHosts[h] : h \in UpdatedHosts \cup AddedHosts}

\* what the hosts say of the keys: a resource is deleted when it lost its last host,
\* updated when it is new or differs
LEMMA ChangedKeys ==
  ASSUME HostsInv, BuiltInv, pc = "rebuild", building = {}
  PROVE  /\ DeletedKeys \ UpdatedKeys = Range(hosts) \ Range(newHosts)
         /\ UpdatedKeys \subseteq Range(newHosts)
         /\ \A k \in Range(newHosts) :
              (k \in Range(hosts) => ~IsEqual(resources[k], newResources[k])) => k \in UpdatedKeys
<1>1. /\ DOMAIN resources = Range(hosts)
      /\ \A k \in Range(hosts) : KeyWithKind(resources[k]) = k /\ HoldsRight(resources[k], k, hosts)
      /\ Range(newHosts) \subseteq DOMAIN newResources
      /\ \A k \in Range(newHosts) : /\ KeyWithKind(newResources[k]) = k
                                    /\ ResourceRight(newResources[k], k, newHosts)
  BY DEF HostsInv, LoopOK, BuiltInv
<1>2. /\ \A h \in DOMAIN hosts : hosts[h] \in Range(hosts)
      /\ \A h \in DOMAIN newHosts : newHosts[h] \in Range(newHosts)
      /\ \A k \in Range(hosts) : \E h \in DOMAIN hosts : hosts[h] = k
      /\ \A k \in Range(newHosts) : \E h \in DOMAIN newHosts : newHosts[h] = k
  BY DEF Range
\* a host that is in no change is held as before
<1>3. ASSUME NEW g \in DOMAIN newHosts, newHosts[g] \notin UpdatedKeys
      PROVE  g \in DOMAIN hosts /\ hosts[g] = newHosts[g] /\ IsEqual(resources[newHosts[g]], newResources[newHosts[g]])
  <2>1. g \notin AddedHosts /\ g \notin UpdatedHosts
    BY <1>3 DEF UpdatedKeys
  <2>2. g \in DOMAIN hosts /\ IsEqual(resources[hosts[g]], newResources[newHosts[g]])
    BY <2>1 DEF AddedHosts, UpdatedHosts
  <2>3. KeyWithKind(resources[hosts[g]]) = KeyWithKind(newResources[newHosts[g]])
    BY <2>2, EqualSameKey
  <2> QED
    BY <1>1, <1>2, <2>2, <2>3
<1>4. UpdatedKeys \subseteq Range(newHosts)
  BY <1>2 DEF UpdatedKeys, UpdatedHosts, AddedHosts
<1>5. ASSUME NEW k \in Range(newHosts), k \in Range(hosts) => ~IsEqual(resources[k], newResources[k])
      PROVE  k \in UpdatedKeys
  BY <1>2, <1>3, <1>5
<1>6. ASSUME NEW k \in DeletedKeys, k \notin UpdatedKeys, k \in Range(newHosts) PROVE FALSE
  <2>1. PICK g \in DOMAIN newHosts : newHosts[g] = k
    BY <1>2, <1>6
  <2>2. g \in DOMAIN hosts /\ hosts[g] = k /\ IsEqual(resources[k], newResources[k])
    BY <1>3, <1>6, <2>1
  <2>3. PICK h : /\ h \in RemovedHosts \/ (h \in UpdatedHosts /\ hosts[h] # newHosts[h])
                 /\ hosts[h] = k
    BY DEF DeletedKeys
  <2>4. h \in DOMAIN hosts /\ (h \in DOMAIN newHosts => newHosts[h] # k)
    BY <2>3 DEF RemovedHosts, UpdatedHosts
  <2>5. /\ HoldsRight(resources[k], k, hosts) /\ ResourceRight(newResources[k], k, newHosts)
        /\ KeyWithKind(resources[k]) = k
    BY <1>1, <1>2, <1>6, <2>4, <2>3
  <2>6. resources[k].kind = k[1]
    BY <2>5 DEF KeyWithKind
  <2>7. CASE k[1] = "Ingress"
    <3>1. resources[k].validHosts = newResources[k].validHosts
      BY <2>2, <2>6, <2>7 DEF IsEqual, IsEqualIngress
    <3>2. h \in DOMAIN resources[k].validHosts /\ resources[k].validHosts[h] = TRUE
      BY <2>3, <2>4, <2>5, <2>7 DEF HoldsRight
    <3>3. h \in DOMAIN newHosts /\ newHosts[h] = k
      BY <2>5, <2>7, <3>1, <3>2 DEF ResourceRight
    <3> QED
      BY <2>4, <3>3
  <2>8. CASE k[1] # "Ingress"
    <3>1. h = g
      BY <2>2, <2>3, <2>4, <2>5, <2>8 DEF HoldsRight
    <3> QED
      BY <2>1, <2>4, <3>1
  <2> QED
    BY <2>7, <2>8
<1>7. ASSUME NEW k \in Range(hosts), k \notin Range(newHosts) PROVE k \in DeletedKeys
  <2>1. PICK h \in DOMAIN hosts : hosts[h] = k
    BY <1>2
  <2>2. CASE h \notin DOMAIN newHosts
    BY <2>1, <2>2 DEF DeletedKeys, RemovedHosts
  <2>3. CASE h \in DOMAIN newHosts
    <3>1. newHosts[h] # k /\ newHosts[h] \in Range(newHosts)
      BY <1>2, <1>7, <2>3
    <3>2. ~IsEqual(resources[k], newResources[newHosts[h]])
      <4> SUFFICES ASSUME IsEqual(resources[k], newResources[newHosts[h]]) PROVE FALSE
        OBVIOUS
      <4>1. KeyWithKind(resources[k]) = KeyWithKind(newResources[newHosts[h]])
        BY EqualSameKey
      <4> QED
        BY <1>1, <3>1, <4>1
    <3>3. h \in UpdatedHosts /\ hosts[h] # newHosts[h]
      BY <2>1, <2>3, <3>1, <3>2 DEF UpdatedHosts
    <3> QED
      BY <2>1, <3>3 DEF DeletedKeys
  <2> QED
    BY <2>2, <2>3
<1>8. DeletedKeys \subseteq Range(hosts)
  BY <1>2 DEF DeletedKeys, RemovedHosts, UpdatedHosts
<1> QED
  BY <1>4, <1>5, <1>6, <1>7, <1>8

-----------------------------------------------------------------------------
\* The operations

\* an object that fails validation is no longer stored
LEMMA RejectedUnstored ==
  ASSUME NEW o,
         \/ AddOrUpdateIngress(o)
         \/ AddOrUpdateVirtualServer(o)
         \/ AddOrUpdateVirtualServerRoute(o)
  PROVE  Unstored(rejected)'
<1>1. CASE AddOrUpdateIngress(o)
  BY <1>1 DEF AddOrUpdateIngress, ValidationError, Keep, Drop, Unstored, NoKey
<1>2. CASE AddOrUpdateVirtualServer(o)
  BY <1>2 DEF AddOrUpdateVirtualServer, ValidationError, Keep, Drop, Unstored, NoKey
<1>3. CASE AddOrUpdateVirtualServerRoute(o)
  BY <1>3 DEF AddOrUpdateVirtualServerRoute, ValidationError, Keep, Drop, Unstored, NoKey
<1> QED
  BY <1>1, <1>2, <1>3

-----------------------------------------------------------------------------
\* Induction

\* the bodies of the loops: e says which loop it is, and gives the values that its body
\* uses and does not change
LoopBody(e, acc, x) ==
  CASE e[1] = "route" -> AddRoute(e[2], acc, x)
    [] e[1] = "path" -> ClaimPath(acc, <<e[2], x>>)
    [] e[1] = "minion" -> ClaimPaths(acc, x)
    [] e[1] = "change" -> SquashChange(e[2], acc, x)

\* the Max of FiniteSetsExt: FoldLeft takes the greatest index last
Greatest(t) == CHOOSE x \in t : \A y \in t : x >= y

\* the equation of the function with which FoldLeft is defined, over 1..n
FoldEquation(g, e, base, s, n) ==
  g = [t \in SUBSET (1..n) |-> IF t = {} THEN base ELSE LoopBody(e, g[t \ {Greatest(t)}], s[Greatest(t)])]

\* the principle of the least number, the form of induction that these proofs use
LeastNumber == \A T \in SUBSET Nat : T # {} => \E m \in T : \A y \in T : m <= y

LEMMA Least == LeastNumber
<1> SUFFICES ASSUME NEW T \in SUBSET Nat, T # {} PROVE \E m \in T : \A y \in T : m <= y
  BY DEF LeastNumber
<1>1. PICK x \in T : \A y \in T : ~(<<y, x>> \in OpToRel(<, Nat))
  BY WFMin, NatLessThanWellFounded
<1>2. ASSUME NEW y \in T PROVE ~(y < x)
  BY <1>1 DEF OpToRel
<1> QED
  BY <1>2

\* what holds before a loop and is kept by every iteration holds after each of them
LEMMA LoopInvariant ==
  ASSUME NEW n \in Nat, NEW P, 0 \in P, \A i \in 1..n : i - 1 \in P => i \in P
  PROVE  \A i \in 0..n : i \in P
<1> DEFINE T == {i \in 0..n : i \notin P}
<1> SUFFICES ASSUME T # {} PROVE FALSE
  OBVIOUS
<1>1. T \in SUBSET Nat
  OBVIOUS
<1>2. PICK m \in T : \A y \in T : m <= y
  BY <1>1, Least DEF LeastNumber
<1>3. m \in 1..n /\ m - 1 \in 0..n
  BY <1>2
<1>4. m - 1 \notin T
  BY <1>2, <1>3
<1> QED
  BY <1>3, <1>4

LEMMA GreatestUnique ==
  ASSUME NEW n \in Nat, NEW t \in SUBSET (1..n), NEW m \in t, \A x \in t : m >= x
  PROVE  Greatest(t) = m
<1> DEFINE k == Greatest(t)
<1>1. k \in t /\ \A x \in t : k >= x
  BY DEF Greatest
<1>2. \A x \in t : x \in Int
  OBVIOUS
<1> HIDE DEF k
<1>3. k = m
  BY <1>1, <1>2
<1> QED
  BY <1>3 DEF k

\* the recursive definition has a solution for every n
LEMMA FoldExists ==
  ASSUME NEW e, NEW base, NEW s, NEW n \in Nat
  PROVE  \E g : FoldEquation(g, e, base, s, n)
<1> DEFINE T == {k \in Nat : ~\E g : FoldEquation(g, e, base, s, k)}
<1> SUFFICES ASSUME T # {} PROVE FALSE
  OBVIOUS
<1>1. PICK m \in T : \A y \in T : m <= y
  BY Least, T \in SUBSET Nat DEF LeastNumber
<1>2. \E g : FoldEquation(g, e, base, s, 0)
  <2> DEFINE g == [t \in SUBSET (1..0) |-> base]
  <2>1. FoldEquation(g, e, base, s, 0)
    BY SUBSET (1..0) = {{}} DEF FoldEquation
  <2> QED
    BY <2>1
<1>3. m # 0 /\ m - 1 \in Nat /\ m - 1 \notin T
  BY <1>1, <1>2
<1>4. PICK g : FoldEquation(g, e, base, s, m - 1)
  BY <1>3
<1> DEFINE h == [t \in SUBSET (1..m) |-> IF m \in t THEN LoopBody(e, g[t \ {m}], s[m]) ELSE g[t]]
<1>5. \A t \in SUBSET (1..m) :
        h[t] = IF t = {} THEN base ELSE LoopBody(e, h[t \ {Greatest(t)}], s[Greatest(t)])
  <2> TAKE t \in SUBSET (1..m)
  <2>1. CASE m \in t
    <3>1. m \in Nat /\ \A x \in t : m >= x
      OBVIOUS
    <3>2. Greatest(t) = m
      BY <2>1, <3>1, GreatestUnique
    <3>3. h[t \ {m}] = g[t \ {m}]
      OBVIOUS
    <3>4. h[t] = LoopBody(e, g[t \ {m}], s[m])
      BY <2>1
    <3> HIDE DEF h
    <3> QED
      BY <2>1, <3>2, <3>3, <3>4
  <2>2. CASE m \notin t
    <3>1. t \in SUBSET (1..(m - 1)) /\ h[t] = g[t]
      BY <1>3, <2>2
    <3>2. t # {} => h[t \ {Greatest(t)}] = g[t \ {Greatest(t)}]
      BY <2>2
    <3>3. g[t] = IF t = {} THEN base ELSE LoopBody(e, g[t \ {Greatest(t)}], s[Greatest(t)])
      BY <1>4, <3>1 DEF FoldEquation
    <3> HIDE DEF h
    <3> QED
      BY <3>1, <3>2, <3>3
  <2> QED
    BY <2>1, <2>2
<1>6. FoldEquation(h, e, base, s, m)
  <2>1. h = [t \in SUBSET (1..m) |-> h[t]]
    OBVIOUS
  <2> HIDE DEF h
  <2> QED
    BY <1>5, <2>1 DEF FoldEquation
<1> QED
  BY <1>1, <1>6

\* the values of an accumulator after every iteration, from base to v
FoldChain(g, e, base, s, v) ==
  /\ g[0] = base
  /\ \A i \in 1..Len(s) : g[i] = LoopBody(e, g[i - 1], s[i])
  /\ g[Len(s)] = v

\* For every sequence s there are values g[0], ..., g[Len(s)] of the accumulator:
\* g[0] is the one before the loop, each iteration leads from g[i - 1] to g[i], and
\* the last one is what the recursive function returns for all indices, so that it
\* is the result of FoldLeft.
LEMMA FoldTrace ==
  ASSUME NEW e, NEW base, NEW S, NEW s \in Seq(S), NEW h,
         FoldEquation(h, e, base, s, Len(s))
  PROVE  \E g : FoldChain(g, e, base, s, h[DOMAIN s])
<1> DEFINE n == Len(s)
           g == [i \in 0..n |-> h[1..i]]
<1>1. n \in Nat /\ DOMAIN s = 1..n
  OBVIOUS
<1>2. FoldEquation(h, e, base, s, n)
  OBVIOUS
<1>3. g[0] = base
  BY <1>1, <1>2, 1..0 = {} DEF FoldEquation
<1>4. ASSUME NEW i \in 1..n PROVE g[i] = LoopBody(e, g[i - 1], s[i])
  <2>1. i \in Nat /\ 1..i \in SUBSET (1..i) /\ i \in 1..i /\ \A x \in 1..i : i >= x
    BY <1>1
  <2>2. Greatest(1..i) = i
    BY ONLY <2>1, GreatestUnique
  <2>3. (1..i) \ {i} = 1..(i - 1)
    OBVIOUS
  <2>4. h[1..i] = LoopBody(e, h[1..(i - 1)], s[i])
    <3>1. i \in Nat /\ i \in 1..i /\ \A x \in 1..i : x \in 1..n
      BY <1>1
    <3>2. 1..i \in SUBSET (1..n) /\ 1..i # {}
      BY <3>1, Zenon
    <3>3. h[1..i] = LoopBody(e, h[(1..i) \ {Greatest(1..i)}], s[Greatest(1..i)])
      BY <1>2, <3>2, Zenon DEF FoldEquation
    <3> QED
      BY <2>2, <2>3, <3>3, Zenon
  <2>5. i \in 0..n /\ i - 1 \in 0..n
    BY <1>1
  <2> QED
    BY <2>4, <2>5
<1>5. g[n] = h[DOMAIN s]
  BY <1>1
<1> HIDE DEF g
<1> QED
  BY <1>1, <1>3, <1>4, <1>5, Zenon DEF FoldChain

LEMMA GreatestIn ==
  ASSUME NEW n \in Nat, NEW t \in SUBSET (1..n), t # {}
  PROVE  Greatest(t) \in t /\ \A x \in t : Greatest(t) >= x
<1> DEFINE U == {u \in 0..n : \A x \in t : x <= u}
<1>1. n \in U
  OBVIOUS
<1>2. PICK u \in U : \A y \in U : u <= y
  BY <1>1, Least, U \in SUBSET Nat, U # {} DEF LeastNumber
<1>3. u \in t
  <2> SUFFICES ASSUME u \notin t PROVE FALSE
    OBVIOUS
  <2>1. \A x \in t : x \in 1..n /\ x <= u /\ x # u
    BY <1>2
  <2>2. u # 0
    <3>1. PICK x : x \in t
      OBVIOUS
    <3>2. x \in 1..n /\ x <= u
      BY <2>1, <3>1
    <3> QED
      BY <3>2
  <2>3. u \in 0..n
    OBVIOUS
  <2>4. \A x \in t : x <= u - 1
    BY <2>1, <2>3
  <2>5. u - 1 \in U
    BY <2>2, <2>3, <2>4
  <2> QED
    BY <1>2, <2>5
<1> QED
  BY <1>2, <1>3 DEF Greatest

-----------------------------------------------------------------------------
\* Sorted

\* The elements of a finite set of integers, each of them once
LEMMA SortedFacts ==
  ASSUME NEW S, IsFiniteSet(S), S \subseteq Int
  PROVE  /\ Sorted(S) \in Seq(S)
         /\ Range(Sorted(S)) = S
         /\ IsInjective(Sorted(S))
<1> DEFINE n == Cardinality(S)
           below(x) == {y \in S : y < x}
           rank == [x \in S |-> Cardinality(below(x))]
<1>1. n \in Nat
  BY FS_CardinalityType
<1>2. ASSUME NEW x \in S
      PROVE  /\ IsFiniteSet(below(x)) /\ rank[x] \in 0..(n - 1)
             /\ \A z \in S : x < z => rank[x] < rank[z]
  <2>1. below(x) \in SUBSET S /\ below(x) # S
    OBVIOUS
  <2>2. IsFiniteSet(below(x)) /\ Cardinality(below(x)) <= n /\ Cardinality(below(x)) # n
    BY <2>1, FS_Subset
  <2>3. Cardinality(below(x)) \in Nat
    BY <2>2, FS_CardinalityType
  <2>4. ASSUME NEW z \in S, x < z PROVE rank[x] < rank[z]
    <3>1. below(z) \in SUBSET S
      OBVIOUS
    <3>2. IsFiniteSet(below(z))
      BY <3>1, FS_Subset, IsFiniteSet(S)
    <3>3. below(x) \in SUBSET below(z) /\ below(x) # below(z)
      <4>1. x \in below(z) /\ x \notin below(x)
        BY <2>4
      <4>2. \A y \in below(x) : y \in below(z)
        BY <2>4
      <4> HIDE DEF below
      <4> QED
        BY <4>1, <4>2
    <3>4. Cardinality(below(x)) <= Cardinality(below(z)) /\ Cardinality(below(z)) # Cardinality(below(x))
      BY <3>2, <3>3, FS_Subset
    <3>5. Cardinality(below(z)) \in Nat
      BY <3>2, FS_CardinalityType
    <3> HIDE DEF below
    <3> QED
      BY <2>3, <3>4, <3>5
  <2> HIDE DEF below
  <2> QED
    BY <1>1, <2>2, <2>3, <2>4
<1>3. /\ rank \in [S -> 0..(n - 1)]
      /\ \A x, z \in S : rank[x] = rank[z] => x = z
      /\ \A x \in S : rank[x] = Cardinality(below(x)) /\ rank[x] \in Nat
  <2>1. rank \in [S -> 0..(n - 1)] /\ \A x \in S : rank[x] = Cardinality(below(x))
    BY <1>2
  <2>2. \A x, z \in S : x < z => rank[x] < rank[z]
    BY <1>2
  <2> HIDE DEF rank, below
  <2>3. \A x \in S : rank[x] \in Nat
    BY <1>1, <2>1
  <2>4. \A x, z \in S : rank[x] = rank[z] => x = z
    BY <2>2, <2>3
  <2> QED
    BY <2>1, <2>3, <2>4
<1> HIDE DEF rank
<1>4. \A j \in 0..(n - 1) : \E x \in S : rank[x] = j
  <2>1. IsFiniteSet(0..(n - 1)) /\ Cardinality(0..(n - 1)) = n
    BY <1>1, FS_Interval
  <2>2. rank \in Injection(S, 0..(n - 1))
    BY <1>3 DEF Injection, IsInjective
  <2>3. rank \in Surjection(S, 0..(n - 1))
    BY <2>1, <2>2, FS_Injection
  <2> QED
    BY <2>3 DEF Surjection
<1> DEFINE s == Sorted(S)
<1>5. s = [i \in 1..n |-> CHOOSE x \in S : Cardinality(below(x)) = i - 1]
  BY Zenon DEF Sorted
<1>6. /\ DOMAIN s = 1..n
      /\ \A i \in 1..n : s[i] = CHOOSE x \in S : Cardinality(below(x)) = i - 1
      /\ s = [i \in 1..n |-> s[i]]
  <2> HIDE DEF s, below, n
  <2>1. DOMAIN s = 1..n
    BY <1>5, Zenon
  <2>2. \A i \in 1..n : s[i] = CHOOSE x \in S : Cardinality(below(x)) = i - 1
    BY <1>5, Zenon
  <2>3. s = [i \in 1..n |-> s[i]]
    BY <1>5
  <2> QED
    BY <2>1, <2>2, <2>3
<1> HIDE DEF s, below
<1>7. \A i \in 1..n : s[i] \in S /\ rank[s[i]] = i - 1
  <2> SUFFICES ASSUME NEW i \in 1..n PROVE s[i] \in S /\ rank[s[i]] = i - 1
    OBVIOUS
  <2>1. i - 1 \in 0..(n - 1)
    BY <1>1
  <2>2. \E x \in S : Cardinality(below(x)) = i - 1
    BY <1>3, <1>4, <2>1
  <2>3. s[i] \in S /\ Cardinality(below(s[i])) = i - 1
    BY <1>6, <2>2
  <2> QED
    BY <1>3, <2>3
<1>8. s \in Seq(S)
  <2>1. s \in [1..n -> S]
    BY <1>6, <1>7
  <2> QED
    BY <1>1, <2>1
<1>9. ASSUME NEW x \in S PROVE \E i \in 1..n : s[i] = x
  <2>1. rank[x] \in 0..(n - 1)
    BY <1>3
  <2>2. rank[x] + 1 \in 1..n /\ (rank[x] + 1) - 1 = rank[x]
    BY <1>1, <2>1
  <2> QED
    BY <1>3, <1>7, <2>2
<1>10. Range(s) = S
  <2>1. Range(s) = {s[i] : i \in 1..n}
    BY <1>6 DEF Range
  <2> QED
    BY <1>7, <1>9, <2>1
<1>11. IsInjective(s)
  <2>1. \A i, j \in 1..n : s[i] = s[j] => i - 1 = j - 1
    BY <1>7
  <2>2. \A i, j \in 1..n : i - 1 = j - 1 => i = j
    BY <1>1
  <2> QED
    BY <1>6, <2>1, <2>2 DEF IsInjective
<1> QED
  BY <1>8, <1>10, <1>11 DEF s

-----------------------------------------------------------------------------
\* The values of the accumulator after every iteration

\* buildVirtualServerRoutes
LEMMA RouteTrace ==
  ASSUME NEW vs, NEW S, vs.routes \in Seq(S)
  PROVE  \E g : /\ g[0] = [routes |-> <<>>, warnings |-> {}]
                /\ \A i \in 1..Len(vs.routes) : g[i] = AddRoute(vs, g[i - 1], vs.routes[i])
                /\ g[Len(vs.routes)] = buildVirtualServerRoutes(vs)
<1> DEFINE s == vs.routes
           base == [routes |-> <<>>, warnings |-> {}]
           e == <<"route", vs>>
           n == Len(s)
           h == CHOOSE iter : iter = [t \in SUBSET DOMAIN s |->
                  IF t = {} THEN base ELSE AddRoute(vs, iter[t \ {Max(t)}], s[Max(t)])]
<1>1. \A acc, x : LoopBody(e, acc, x) = AddRoute(vs, acc, x)
  BY DEF LoopBody
<1>2. \A t : Greatest(t) = Max(t)
  BY Zenon DEF Greatest, Max
<1>3. n \in Nat /\ DOMAIN s = 1..n
  OBVIOUS
<1>4. buildVirtualServerRoutes(vs) = h[DOMAIN s]
  BY Zenon DEF buildVirtualServerRoutes, FoldLeft, MapThenFoldSet
<1> HIDE DEF s, base, e, n
<1>5. FoldEquation(h, e, base, s, n)
  <2>1. PICK f : FoldEquation(f, e, base, s, n)
    BY <1>3, FoldExists
  <2>2. f = [t \in SUBSET DOMAIN s |->
               IF t = {} THEN base ELSE AddRoute(vs, f[t \ {Max(t)}], s[Max(t)])]
    BY <1>1, <1>2, <1>3, <2>1 DEF FoldEquation
  <2>3. h = [t \in SUBSET DOMAIN s |->
               IF t = {} THEN base ELSE AddRoute(vs, h[t \ {Max(t)}], s[Max(t)])]
    BY <2>2, Zenon
  <2> HIDE DEF h
  <2> QED
    BY <1>1, <1>2, <1>3, <2>3 DEF FoldEquation
<1> HIDE DEF h
<1>6. s \in Seq(S) /\ FoldEquation(h, e, base, s, Len(s))
  BY <1>5 DEF s, n
<1>7. PICK g : FoldChain(g, e, base, s, h[DOMAIN s])
  BY <1>6, FoldTrace
<1>8. /\ g[0] = base
      /\ \A i \in 1..Len(s) : g[i] = LoopBody(e, g[i - 1], s[i])
      /\ g[Len(s)] = h[DOMAIN s]
  BY <1>7 DEF FoldChain
<1> QED
  BY <1>1, <1>4, <1>8 DEF s, base

\* the paths of a minion in buildFullMinions
LEMMA PathTrace ==
  ASSUME NEW acc0, NEW k, NEW S, ingresses[k].paths \in Seq(S)
  PROVE  \E g : /\ g[0] = acc0
                /\ \A i \in 1..Len(ingresses[k].paths) : g[i] = ClaimPath(g[i - 1], <<k, ingresses[k].paths[i]>>)
                /\ g[Len(ingresses[k].paths)] = ClaimPaths(acc0, k)
<1> DEFINE s == ingresses[k].paths
           base == acc0
           e == <<"path", k>>
           n == Len(s)
           h == CHOOSE iter : iter = [t \in SUBSET DOMAIN s |->
                  IF t = {} THEN base ELSE ClaimPath(iter[t \ {Max(t)}], <<k, s[Max(t)]>>)]
<1>1. \A acc, x : LoopBody(e, acc, x) = ClaimPath(acc, <<k, x>>)
  BY DEF LoopBody
<1>2. \A t : Greatest(t) = Max(t)
  BY Zenon DEF Greatest, Max
<1>3. n \in Nat /\ DOMAIN s = 1..n
  OBVIOUS
<1>4. ClaimPaths(acc0, k) = h[DOMAIN s]
  BY Zenon DEF ClaimPaths, FoldLeft, MapThenFoldSet
<1> HIDE DEF s, base, e, n
<1>5. FoldEquation(h, e, base, s, n)
  <2>1. PICK f : FoldEquation(f, e, base, s, n)
    BY <1>3, FoldExists
  <2>2. f = [t \in SUBSET DOMAIN s |->
               IF t = {} THEN base ELSE ClaimPath(f[t \ {Max(t)}], <<k, s[Max(t)]>>)]
    BY <1>1, <1>2, <1>3, <2>1, ZenonT(30) DEF FoldEquation
  <2>3. h = [t \in SUBSET DOMAIN s |->
               IF t = {} THEN base ELSE ClaimPath(h[t \ {Max(t)}], <<k, s[Max(t)]>>)]
    BY <2>2, Zenon
  <2> HIDE DEF h
  <2> QED
    BY <1>1, <1>2, <1>3, <2>3 DEF FoldEquation
<1> HIDE DEF h
<1>6. s \in Seq(S) /\ FoldEquation(h, e, base, s, Len(s))
  BY <1>5 DEF s, n
<1>7. PICK g : FoldChain(g, e, base, s, h[DOMAIN s])
  BY <1>6, FoldTrace
<1>8. /\ g[0] = base
      /\ \A i \in 1..Len(s) : g[i] = LoopBody(e, g[i - 1], s[i])
      /\ g[Len(s)] = h[DOMAIN s]
  BY <1>7 DEF FoldChain
<1> QED
  BY <1>1, <1>4, <1>8 DEF s, base

\* the minions in buildFullMinions
LEMMA MinionTrace ==
  ASSUME NEW S, NEW ks \in Seq(S)
  PROVE  \E g : /\ g[0] = [holder |-> Empty, valid |-> {}, warned |-> {}]
                /\ \A i \in 1..Len(ks) : g[i] = ClaimPaths(g[i - 1], ks[i])
                /\ g[Len(ks)] = MinionPaths(ks)
<1> DEFINE s == ks
           base == [holder |-> Empty, valid |-> {}, warned |-> {}]
           e == <<"minion", 0>>
           n == Len(s)
           h == CHOOSE iter : iter = [t \in SUBSET DOMAIN s |->
                  IF t = {} THEN base ELSE ClaimPaths(iter[t \ {Max(t)}], s[Max(t)])]
<1>1. \A acc, x : LoopBody(e, acc, x) = ClaimPaths(acc, x)
  BY DEF LoopBody
<1>2. \A t : Greatest(t) = Max(t)
  BY Zenon DEF Greatest, Max
<1>3. n \in Nat /\ DOMAIN s = 1..n
  OBVIOUS
<1>4. MinionPaths(ks) = h[DOMAIN s]
  BY Zenon DEF MinionPaths, FoldLeft, MapThenFoldSet
<1> HIDE DEF s, base, e, n
<1>5. FoldEquation(h, e, base, s, n)
  <2>1. PICK f : FoldEquation(f, e, base, s, n)
    BY <1>3, FoldExists
  <2>2. f = [t \in SUBSET DOMAIN s |->
               IF t = {} THEN base ELSE ClaimPaths(f[t \ {Max(t)}], s[Max(t)])]
    BY <1>1, <1>2, <1>3, <2>1 DEF FoldEquation
  <2>3. h = [t \in SUBSET DOMAIN s |->
               IF t = {} THEN base ELSE ClaimPaths(h[t \ {Max(t)}], s[Max(t)])]
    BY <2>2, Zenon
  <2> HIDE DEF h
  <2> QED
    BY <1>1, <1>2, <1>3, <2>3 DEF FoldEquation
<1> HIDE DEF h
<1>6. s \in Seq(S) /\ FoldEquation(h, e, base, s, Len(s))
  BY <1>5 DEF s, n
<1>7. PICK g : FoldChain(g, e, base, s, h[DOMAIN s])
  BY <1>6, FoldTrace
<1>8. /\ g[0] = base
      /\ \A i \in 1..Len(s) : g[i] = LoopBody(e, g[i - 1], s[i])
      /\ g[Len(s)] = h[DOMAIN s]
  BY <1>7 DEF FoldChain
<1> QED
  BY <1>1, <1>4, <1>8 DEF s, base

\* squashResourceChanges
LEMMA SquashTrace ==
  ASSUME NEW S, NEW chs \in Seq(S)
  PROVE  \E g : /\ g[0] = [deletes |-> <<>>, updates |-> <<>>]
                /\ \A i \in 1..Len(chs) : g[i] = SquashChange(chs, g[i - 1], i)
                /\ squashResourceChanges(chs) = DeletesFirst(g[Len(chs)])
<1> DEFINE s == [i \in DOMAIN chs |-> i]
           base == [deletes |-> <<>>, updates |-> <<>>]
           e == <<"change", chs>>
           n == Len(s)
           h == CHOOSE iter : iter = [t \in SUBSET DOMAIN s |->
                  IF t = {} THEN base ELSE SquashChange(chs, iter[t \ {Max(t)}], s[Max(t)])]
<1>1. \A acc, x : LoopBody(e, acc, x) = SquashChange(chs, acc, x)
  BY DEF LoopBody
<1>2. \A t : Greatest(t) = Max(t)
  BY Zenon DEF Greatest, Max
<1>3. /\ n \in Nat /\ DOMAIN s = 1..n /\ s \in Seq(Nat) /\ n = Len(chs)
      /\ \A i \in 1..n : s[i] = i
  <2>1. Len(chs) \in Nat /\ DOMAIN chs = 1..Len(chs)
    OBVIOUS
  <2>2. s \in [1..Len(chs) -> Nat]
    BY <2>1
  <2> QED
    BY <2>1, <2>2
<1>4. squashResourceChanges(chs) = DeletesFirst(h[DOMAIN s])
  BY Zenon DEF squashResourceChanges, FoldLeft, MapThenFoldSet
<1> HIDE DEF s, base, e, n
<1>5. FoldEquation(h, e, base, s, n)
  <2>1. PICK f : FoldEquation(f, e, base, s, n)
    BY <1>3, FoldExists
  <2>2. f = [t \in SUBSET DOMAIN s |->
               IF t = {} THEN base ELSE SquashChange(chs, f[t \ {Max(t)}], s[Max(t)])]
    BY <1>1, <1>2, <1>3, <2>1 DEF FoldEquation
  <2>3. h = [t \in SUBSET DOMAIN s |->
               IF t = {} THEN base ELSE SquashChange(chs, h[t \ {Max(t)}], s[Max(t)])]
    BY <2>2, Zenon
  <2> HIDE DEF h
  <2> QED
    BY <1>1, <1>2, <1>3, <2>3, ZenonT(30) DEF FoldEquation
<1> HIDE DEF h
<1>6. s \in Seq(Nat) /\ FoldEquation(h, e, base, s, Len(s))
  BY <1>3, <1>5 DEF n
<1>7. PICK g : FoldChain(g, e, base, s, h[DOMAIN s])
  BY <1>6, FoldTrace
<1>8. /\ g[0] = base
      /\ \A i \in 1..Len(s) : g[i] = LoopBody(e, g[i - 1], s[i])
      /\ g[Len(s)] = h[DOMAIN s]
  BY <1>7 DEF FoldChain
<1>9. Len(s) = Len(chs)
  BY <1>3 DEF n
<1> QED
  BY <1>1, <1>3, <1>4, <1>8, <1>9 DEF base

-----------------------------------------------------------------------------
\* The routes of a VirtualServer and the paths of minions

LEMMA RoutesListed ==
  ASSUME NEW vs, NEW S, vs.routes \in Seq(S)
  PROVE  /\ buildVirtualServerRoutes(vs).routes \in Seq(ListedRoutes(vs, DOMAIN vs.routes))
         /\ Range(buildVirtualServerRoutes(vs).routes) = ListedRoutes(vs, DOMAIN vs.routes)
<1> DEFINE rs == vs.routes
           n == Len(rs)
           base == [routes |-> <<>>, warnings |-> {}]
           T == ListedRoutes(vs, DOMAIN rs)
<1>1. n \in Nat /\ DOMAIN rs = 1..n
  OBVIOUS
<1>2. PICK g : /\ g[0] = base
               /\ \A i \in 1..n : g[i] = AddRoute(vs, g[i - 1], rs[i])
               /\ g[n] = buildVirtualServerRoutes(vs)
  BY RouteTrace
<1> DEFINE Right(i) == /\ {"routes", "warnings"} \subseteq DOMAIN g[i]
                       /\ g[i].routes \in Seq(T)
                       /\ Range(g[i].routes) = ListedRoutes(vs, 1..i)
           P == {i \in 0..n : Right(i)}
<1>4. Right(0)
  <2>1. ListedRoutes(vs, 1..0) = {} /\ Range(<<>>) = {}
    BY DEF ListedRoutes, Range
  <2>2. g[0].routes = <<>> /\ {"routes", "warnings"} \subseteq DOMAIN g[0]
    BY <1>2
  <2>3. <<>> \in Seq(T)
    OBVIOUS
  <2> QED
    BY <2>1, <2>2, <2>3
<1>5. ASSUME NEW i \in 1..n, Right(i - 1) PROVE Right(i)
  <2> DEFINE r == rs[i]
             listed == IF r.route # 0 /\ UsableRoute(vs, r) THEN {virtualServerRoutes[r.route]} ELSE {}
  <2>1. listed \subseteq T
    BY <1>1 DEF ListedRoutes
  <2>2. r.route # 0 /\ UsableRoute(vs, r) => virtualServerRoutes[r.route] \in T
    BY <2>1
  <2>3. /\ {"routes", "warnings"} \subseteq DOMAIN g[i]
        /\ g[i].routes \in Seq(T)
        /\ Range(g[i].routes) = Range(g[i - 1].routes) \cup listed
    <3> DEFINE acc == g[i - 1]
    <3>1. {"routes", "warnings"} \subseteq DOMAIN acc /\ acc.routes \in Seq(T)
      BY <1>5
    <3>2. g[i] = AddRoute(vs, acc, r)
      BY <1>2
    <3> HIDE DEF T, acc, r
    <3>3. /\ {"routes", "warnings"} \subseteq DOMAIN AddRoute(vs, acc, r)
          /\ AddRoute(vs, acc, r).routes \in Seq(T)
          /\ Range(AddRoute(vs, acc, r).routes) = Range(acc.routes) \cup listed
      BY <2>2, <3>1, AddRouteAdds
    <3> QED
      BY <3>2, <3>3 DEF acc
  <2>4. ListedRoutes(vs, 1..i) = ListedRoutes(vs, 1..(i - 1)) \cup listed
    <3>1. \A j : j \in 1..i <=> j \in 1..(i - 1) \/ j = i
      BY <1>1
    <3> QED
      BY <3>1 DEF ListedRoutes
  <2> QED
    BY <1>5, <2>3, <2>4
<1>6. n \in P
  <2> HIDE DEF Right
  <2>1. 0 \in P /\ \A i \in 1..n : i - 1 \in P => i \in P
    BY <1>1, <1>4, <1>5
  <2> HIDE DEF P
  <2>2. \A i \in 0..n : i \in P
    BY <1>1, <2>1, LoopInvariant
  <2> QED
    BY <1>1, <2>2
<1> QED
  BY <1>1, <1>2, <1>6

\* the paths of one minion
LEMMA ClaimPathsRight ==
  ASSUME StoreOK, NEW acc, IsAccumulator(acc), NEW C, NEW D,
         ClaimsRight(acc.holder, acc.valid, C, D),
         NEW k \in DOMAIN ingresses, \A p : <<k, p>> \notin C
  PROVE  LET new == ClaimPaths(acc, k)
         IN  /\ IsAccumulator(new)
             /\ ClaimsRight(new.holder, new.valid, C \cup PathClaims(k), D \cup Repeated(k))
<1> DEFINE ps == ingresses[k].paths
           n == Len(ps)
           Cs(i) == C \cup {<<k, ps[j]>> : j \in 1..i}
           Ds(i) == D \cup {<<k, ps[j]>> : j \in {m \in 1..i : \E l \in 1..(m - 1) : ps[l] = ps[m]}}
<1>1. ps \in Seq(Int)
  BY DEF StoreOK
<1>2. n \in Nat /\ DOMAIN ps = 1..n
  BY <1>1
<1>3. PICK g : /\ g[0] = acc
               /\ \A i \in 1..n : g[i] = ClaimPath(g[i - 1], <<k, ps[i]>>)
               /\ g[n] = ClaimPaths(acc, k)
  <2>1. PICK S : ingresses[k].paths \in Seq(S)
    BY <1>1
  <2> QED
    BY <2>1, PathTrace
<1> DEFINE Right(i) == IsAccumulator(g[i]) /\ ClaimsRight(g[i].holder, g[i].valid, Cs(i), Ds(i))
           P == {i \in 0..n : Right(i)}
<1>5. Right(0)
  <2>1. Cs(0) = C /\ Ds(0) = D
    OBVIOUS
  <2> HIDE DEF Cs, Ds
  <2> QED
    BY <1>3, <2>1
<1>6. ASSUME NEW i \in 1..n, Right(i - 1) PROVE Right(i)
  <2>1. \A j : j \in 1..i <=> j \in 1..(i - 1) \/ j = i
    BY <1>2
  <2>2. Cs(i) = Cs(i - 1) \cup {<<k, ps[i]>>}
    BY <2>1
  <2>3. <<k, ps[i]>> \in Cs(i - 1) <=> \E l \in 1..(i - 1) : ps[l] = ps[i]
    OBVIOUS
  <2>4. Ds(i) = Ds(i - 1) \cup Again(Cs(i - 1), <<k, ps[i]>>)
    <3>1. CASE <<k, ps[i]>> \in Cs(i - 1)
      <4>1. Again(Cs(i - 1), <<k, ps[i]>>) = {<<k, ps[i]>>}
        BY <3>1 DEF Again
      <4> QED
        BY <2>1, <2>3, <3>1, <4>1
    <3>2. CASE <<k, ps[i]>> \notin Cs(i - 1)
      <4>1. Again(Cs(i - 1), <<k, ps[i]>>) = {}
        BY <3>2 DEF Again
      <4> QED
        BY <2>1, <2>3, <3>2, <4>1
    <3> QED
      BY <3>1, <3>2
  <2> HIDE DEF Cs, Ds
  <2> DEFINE a == g[i - 1]
             new == ClaimPath(a, <<k, ps[i]>>)
  <2>5. IsAccumulator(a) /\ ClaimsRight(a.holder, a.valid, Cs(i - 1), Ds(i - 1))
    BY <1>6
  <2>6. g[i] = new
    BY <1>3
  <2> HIDE DEF a
  <2>7. /\ IsAccumulator(new)
        /\ ClaimsRight(new.holder, new.valid, Cs(i - 1) \cup {<<k, ps[i]>>},
                       Ds(i - 1) \cup Again(Cs(i - 1), <<k, ps[i]>>))
    BY <2>5, ClaimPathRight
  <2> HIDE DEF new
  <2> QED
    BY <2>2, <2>4, <2>6, <2>7
<1>7. n \in P
  <2> HIDE DEF Right
  <2>1. 0 \in P /\ \A i \in 1..n : i - 1 \in P => i \in P
    BY <1>2, <1>5, <1>6
  <2> HIDE DEF P
  <2>2. \A i \in 0..n : i \in P
    BY <1>2, <2>1, LoopInvariant
  <2> QED
    BY <1>2, <2>2
<1>8. Cs(n) = C \cup PathClaims(k)
  BY <1>2 DEF PathClaims
<1>9. Ds(n) = D \cup Repeated(k)
  <2>1. ASSUME NEW m \in 1..n
        PROVE  (\E l \in 1..(m - 1) : ps[l] = ps[m]) => ~ListedOnce(ps[m], ps)
    BY <1>2 DEF ListedOnce
  <2>2. ASSUME NEW m \in 1..n, ~ListedOnce(ps[m], ps)
        PROVE  \E j \in 1..n : ps[j] = ps[m] /\ \E l \in 1..(j - 1) : ps[l] = ps[j]
    <3>1. PICK i \in 1..n, j \in 1..n : ps[i] = ps[m] /\ ps[j] = ps[m] /\ i # j
      BY <1>2, <2>2 DEF ListedOnce
    <3>2. CASE i < j
      BY <3>1, <3>2
    <3>3. CASE j < i
      BY <3>1, <3>3
    <3> QED
      BY <3>1, <3>2, <3>3
  <2>3. Repeated(k) = {<<k, ps[m]>> : m \in {l \in 1..n : ~ListedOnce(ps[l], ps)}}
    BY <1>2 DEF Repeated, PathClaims
  <2> QED
    BY <2>1, <2>2, <2>3
<1> HIDE DEF Cs, Ds
<1> QED
  BY <1>3, <1>7, <1>8, <1>9

\* the minions of a host
LEMMA MinionPathsRight ==
  ASSUME StoreOK, NEW ks \in Seq(DOMAIN ingresses), IsInjective(ks)
  PROVE  LET new == MinionPaths(ks)
         IN  ClaimsRight(new.holder, new.valid, ClaimsOf(Range(ks)), RepeatedOf(Range(ks)))
<1> DEFINE n == Len(ks)
           base == [holder |-> Empty, valid |-> {}, warned |-> {}]
           K(i) == {ks[j] : j \in 1..i}
<1>1. n \in Nat /\ DOMAIN ks = 1..n /\ \A i \in 1..n : ks[i] \in DOMAIN ingresses
  OBVIOUS
<1>2. PICK g : /\ g[0] = base
               /\ \A i \in 1..n : g[i] = ClaimPaths(g[i - 1], ks[i])
               /\ g[n] = MinionPaths(ks)
  BY MinionTrace
<1> DEFINE Right(i) == /\ IsAccumulator(g[i])
                       /\ ClaimsRight(g[i].holder, g[i].valid, ClaimsOf(K(i)), RepeatedOf(K(i)))
           P == {i \in 0..n : Right(i)}
<1>4. Right(0)
  <2>1. ClaimsOf(K(0)) = {} /\ RepeatedOf(K(0)) = {}
    BY DEF ClaimsOf, RepeatedOf
  <2>2. IsAccumulator(base)
    BY DEF IsAccumulator
  <2>3. ClaimsRight(Empty, {}, {}, {})
    BY DEF ClaimsRight, Empty
  <2>4. base.holder = Empty /\ base.valid = {}
    OBVIOUS
  <2> HIDE DEF base, K
  <2> QED
    BY <1>2, <2>1, <2>2, <2>3, <2>4
<1>5. ASSUME NEW i \in 1..n, Right(i - 1) PROVE Right(i)
  <2> DEFINE k == ks[i]
             a == g[i - 1]
             new == ClaimPaths(a, k)
  <2>1. \A j : j \in 1..i <=> j \in 1..(i - 1) \/ j = i
    BY <1>1
  <2>2. K(i) = K(i - 1) \cup {k}
    BY <2>1
  <2>3. k \notin K(i - 1) /\ k \in DOMAIN ingresses
    BY <1>1 DEF IsInjective
  <2>4. /\ ClaimsOf(K(i)) = ClaimsOf(K(i - 1)) \cup PathClaims(k)
        /\ RepeatedOf(K(i)) = RepeatedOf(K(i - 1)) \cup Repeated(k)
    <3> HIDE DEF K, k
    <3> QED
      BY <2>2 DEF ClaimsOf, RepeatedOf
  <2>5. \A p : <<k, p>> \notin ClaimsOf(K(i - 1))
    <3> HIDE DEF K, k
    <3> QED
      BY <2>3 DEF ClaimsOf, PathClaims
  <2>6. /\ IsAccumulator(a)
        /\ ClaimsRight(a.holder, a.valid, ClaimsOf(K(i - 1)), RepeatedOf(K(i - 1)))
    BY <1>5
  <2>7. g[i] = new
    BY <1>2
  <2> HIDE DEF a, K, k
  <2>8. /\ IsAccumulator(new)
        /\ ClaimsRight(new.holder, new.valid, ClaimsOf(K(i - 1)) \cup PathClaims(k),
                       RepeatedOf(K(i - 1)) \cup Repeated(k))
    BY <2>3, <2>5, <2>6, ClaimPathsRight
  <2> HIDE DEF new
  <2> QED
    BY <2>4, <2>7, <2>8
<1>6. n \in P
  <2> HIDE DEF Right
  <2>1. 0 \in P /\ \A i \in 1..n : i - 1 \in P => i \in P
    BY <1>1, <1>4, <1>5
  <2> HIDE DEF P
  <2>2. \A i \in 0..n : i \in P
    BY <1>1, <2>1, LoopInvariant
  <2> QED
    BY <1>1, <2>2
<1>7. K(n) = Range(ks)
  BY <1>1 DEF Range
<1> HIDE DEF K
<1> QED
  BY <1>2, <1>6, <1>7

LEMMA MinionsBuilt ==
  ASSUME StoreOK, NEW host
  PROVE  MinionsRight(buildFullMinions(host).minions, host)
<1> DEFINE ks == MinionKeys(host)
           acc == MinionPaths(ks)
<1>1. MinionsOf(host) \subseteq DOMAIN ingresses /\ IsFiniteSet(MinionsOf(host))
      /\ MinionsOf(host) \subseteq Int
  <2>1. MinionsOf(host) \subseteq DOMAIN ingresses
    BY DEF MinionsOf
  <2>2. IsFiniteSet(MinionsOf(host))
    BY <2>1, FS_Subset DEF StoreOK
  <2> QED
    BY <2>1, <2>2 DEF StoreOK
<1>2. ks \in Seq(MinionsOf(host)) /\ Range(ks) = MinionsOf(host) /\ IsInjective(ks)
  BY <1>1, SortedFacts DEF MinionKeys
<1> HIDE DEF ks
<1>3. ks \in Seq(DOMAIN ingresses)
  BY <1>1, <1>2
<1>4. ClaimsRight(acc.holder, acc.valid, ClaimsOf(Range(ks)), RepeatedOf(Range(ks)))
  BY <1>2, <1>3, MinionPathsRight
<1> HIDE DEF acc
<1>5. LET ms == FullMinions(ks, acc).minions
      IN  PathsRight(ms) /\ {ms[i].object : i \in DOMAIN ms} = {ingresses[k] : k \in Range(ks)}
  BY <1>2, <1>3, <1>4, FullMinionsRight
<1>6. buildFullMinions(host) = FullMinions(ks, acc)
  BY DEF buildFullMinions, ks, acc
<1> QED
  BY <1>2, <1>5, <1>6 DEF MinionsRight

LEMMA NewResourceBuilt ==
  ASSUME StoreOK, NEW k \in StoredKeys
  PROVE  Built(NewResource(k), k)
<1>1. CASE k[1] = "Ingress"
  <2> DEFINE r == NewResource(k)
  <2>1. r = NewFullIngress(Object(k))
    BY <1>1 DEF NewResource, Object
  <2>2. /\ {"isMaster", "minions"} \subseteq DOMAIN r
        /\ r.isMaster = isMaster(Object(k))
    BY <2>1 DEF NewFullIngress
  <2>3. /\ isMaster(Object(k)) => r.minions = buildFullMinions(Object(k).rules[1]).minions
        /\ ~isMaster(Object(k)) => r.minions = <<>>
    BY <2>1 DEF NewFullIngress
  <2> HIDE DEF r
  <2>4. isMaster(Object(k)) => MinionsRight(r.minions, Object(k).rules[1])
    BY <2>3, MinionsBuilt
  <2> QED
    BY <1>1, <2>2, <2>3, <2>4 DEF Built, r
<1>2. CASE k[1] = "VirtualServer"
  <2> DEFINE r == NewResource(k)
             vs == Object(k)
  <2>1. r = NewFullVirtualServer(vs)
    BY <1>2 DEF NewResource, Object
  <2>2. "routes" \in DOMAIN r /\ r.routes = buildVirtualServerRoutes(vs).routes
    BY <2>1 DEF NewFullVirtualServer
  <2>3. PICK S : vs.routes \in Seq(S)
    BY <1>2 DEF StoreOK, StoredKeys, ResourceKeys, Object
  <2> HIDE DEF r, vs
  <2>4. /\ r.routes \in Seq(ListedRoutes(vs, DOMAIN vs.routes))
        /\ Range(r.routes) = ListedRoutes(vs, DOMAIN vs.routes)
    BY <2>2, <2>3, RoutesListed
  <2> QED
    BY <1>2, <2>2, <2>4 DEF Built, r, vs
<1> QED
  BY <1>1, <1>2, StoredResource

-----------------------------------------------------------------------------
\* The second invariant

LEMMA RangeFinite ==
  ASSUME NEW S, NEW s \in Seq(S)
  PROVE  IsFiniteSet(Range(s)) /\ Range(s) \subseteq S
<1>1. Len(s) \in Nat /\ DOMAIN s = 1..Len(s) /\ s = [i \in DOMAIN s |-> s[i]]
      /\ \A i \in DOMAIN s : s[i] \in S
  OBVIOUS
<1>2. IsFiniteSet(DOMAIN s)
  <2>1. 1 \in Int /\ Len(s) \in Int
    BY <1>1
  <2>2. IsFiniteSet(1..Len(s))
    BY ONLY <2>1, FS_Interval
  <2> QED
    BY <1>1, <2>2
<1>3. s \in Surjection(DOMAIN s, Range(s))
  BY <1>1 DEF Surjection, Range
<1> QED
  BY <1>1, <1>2, <1>3, FS_Surjection DEF Range

LEMMA ClaimedFinite ==
  ASSUME StoreOK, NEW k \in StoredKeys
  PROVE  IsFiniteSet(HostsOf(k)) /\ HostsOf(k) \subseteq Int
<1>1. CASE k[1] = "Ingress"
  <2>1. Object(k).rules \in Seq(Int)
    BY <1>1 DEF StoreOK, StoredKeys, ResourceKeys, Object
  <2> QED
    BY <1>1, <2>1, RangeFinite DEF HostsOf
<1>2. CASE k[1] = "VirtualServer"
  <2>1. Object(k).host \in Int
    BY <1>2 DEF StoreOK, StoredKeys, ResourceKeys, Object
  <2> QED
    BY <1>2, <2>1, FS_Singleton DEF HostsOf
<1> QED
  BY <1>1, <1>2, StoredResource

LEMMA BuildBuilt ==
  ASSUME StoreOK, HostsInv, BuiltInv, NEW k \in building, BuildResource(k)
  PROVE  BuiltInv'
<1> DEFINE r == NewResource(k)
           T == TakenHosts(r)
           K == DOMAIN newResources
<1>1. /\ LoopOK /\ pc = "rebuild" /\ pc' = "rebuild" /\ k \in StoredKeys /\ k \notin K
      /\ UNCHANGED <<store, active, rejected>>
  BY DEF HostsInv, LoopOK, BuildResource
<1>2. /\ newHosts' = [h \in DOMAIN newHosts \cup T |-> IF h \in T THEN k ELSE newHosts[h]]
      /\ DOMAIN newResources' = K \cup {k}
      /\ newResources'[k] = AddWarnings(AcquireHosts(r, T), ClaimedHosts(r) \ T)
      /\ \A j \in K : newResources'[j] = Yield(j, T)
  BY <1>1 DEF BuildResource
<1>3. Built(r, k)
  BY <1>1, NewResourceBuilt
<1>4. ClaimedHosts(r) = HostsOf(k)
  BY <1>1, NewResourceRight
<1>5. T \subseteq HostsOf(k)
  BY <1>4 DEF TakenHosts
<1> HIDE DEF r, T
<1>6. Built(newResources'[k], k)
  <2> DEFINE s == AcquireHosts(r, T)
             t == newResources'[k]
  <2>1. DOMAIN s = DOMAIN r /\ \A f \in DOMAIN r \ {"validHosts"} : s[f] = r[f]
    BY SetHostsKeeps DEF AcquireHosts
  <2>2. DOMAIN t = DOMAIN s /\ \A f \in DOMAIN s \ {"warnings"} : t[f] = s[f]
    BY <1>2, AddWarningsKeeps
  <2> HIDE DEF s, t
  <2>3. Built(t, k)
    BY <1>3, <2>1, <2>2, SameChildren
  <2> QED
    BY <2>3 DEF t
<1>7. ASSUME NEW j \in K PROVE Built(newResources'[j], j)
  <2> DEFINE old == newResources[j]
             lost == {h \in T \cap DOMAIN newHosts : newHosts[h] = j}
             s == ReleaseHosts(old, lost)
             t == newResources'[j]
  <2>1. t = AddWarnings(s, lost)
    BY <1>2 DEF Yield
  <2>2. Built(old, j)
    BY DEF BuiltInv
  <2> HIDE DEF lost, old
  <2>3. DOMAIN s = DOMAIN old /\ \A f \in DOMAIN old \ {"validHosts"} : s[f] = old[f]
    BY SetHostsKeeps DEF ReleaseHosts
  <2> HIDE DEF s, t
  <2>4. DOMAIN t = DOMAIN s /\ \A f \in DOMAIN s \ {"warnings"} : t[f] = s[f]
    BY <2>1, AddWarningsKeeps
  <2>5. Built(t, j)
    BY <2>2, <2>3, <2>4, SameChildren
  <2> QED
    BY <2>5 DEF t
<1>8. ASSUME NEW j \in DOMAIN newResources' PROVE Built(newResources[j], j)'
  <2>1. Built(newResources'[j], j)
    BY <1>2, <1>6, <1>7
  <2> QED
    BY <1>1, <2>1, BuiltUnchanged
<1>9. HostSet(newHosts')
  <2>1. IsFiniteSet(HostsOf(k)) /\ HostsOf(k) \subseteq Int
    BY <1>1, ClaimedFinite
  <2>2. IsFiniteSet(T)
    BY <1>5, <2>1, FS_Subset
  <2>3. DOMAIN newHosts' = DOMAIN newHosts \cup T
    BY <1>2
  <2>4. IsFiniteSet(DOMAIN newHosts) /\ DOMAIN newHosts \subseteq Int
    BY DEF BuiltInv, HostSet
  <2>5. IsFiniteSet(DOMAIN newHosts \cup T)
    BY <2>2, <2>4, FS_Union
  <2> QED
    BY <1>5, <2>1, <2>3, <2>4, <2>5 DEF HostSet
<1>10. Unstored(rejected)'
  BY <1>1 DEF BuiltInv, Unstored, store
<1>11. hosts' = hosts /\ resources' = resources
  BY <1>1 DEF active
<1>12. (\A j \in DOMAIN resources : HoldsRight(resources[j], j, hosts))'
  BY <1>11 DEF BuiltInv, HoldsRight
<1>13. HostSet(hosts)' /\ HostSet(newHosts)'
  BY <1>9, <1>11 DEF BuiltInv, HostSet
<1> QED
  BY <1>1, <1>8, <1>10, <1>12, <1>13 DEF BuiltInv

LEMMA FinishBuilt ==
  ASSUME StoreOK, HostsInv, BuiltInv, FinishRebuild
  PROVE  BuiltInv'
<1>1. /\ LoopOK /\ pc = "rebuild" /\ pc' = "idle" /\ building = {}
      /\ hosts' = newHosts
      /\ resources' = [k \in Range(newHosts) |-> newResources[k]]
      /\ newHosts' = Empty /\ newResources' = Empty /\ rejected' = NoKey
      /\ UNCHANGED store
  BY DEF HostsInv, FinishRebuild
<1>2. /\ DOMAIN newResources = StoredKeys /\ Range(newHosts) \subseteq StoredKeys
      /\ HostsRight(newHosts, StoredKeys)
      /\ \A k \in StoredKeys : ResourceRight(newResources[k], k, newHosts)
  BY <1>1 DEF HostsInv, LoopOK
<1>3. ASSUME NEW k \in DOMAIN resources' PROVE Built(resources[k], k)'
  <2>1. Built(resources'[k], k)
    BY <1>1, <1>2 DEF BuiltInv
  <2> QED
    BY <1>1, <2>1, BuiltUnchanged
<1>4. ASSUME NEW k \in DOMAIN resources' PROVE HoldsRight(resources[k], k, hosts)'
  <2>1. resources'[k] = newResources[k] /\ k \in StoredKeys
    BY <1>1, <1>2
  <2>2. CASE k[1] = "Ingress"
    <3>1. \A h : (h \in DOMAIN newResources[k].validHosts /\ newResources[k].validHosts[h] = TRUE)
                    <=> (h \in DOMAIN newHosts /\ newHosts[h] = k)
      BY <1>2, <2>1, <2>2 DEF ResourceRight
    <3> QED
      BY <1>1, <2>1, <2>2, <3>1 DEF HoldsRight
  <2>3. CASE k[1] # "Ingress"
    <3>1. \A h \in DOMAIN newHosts : newHosts[h] = k => h = newResources[k].object.host
      BY <1>2, <2>1, <2>3 DEF HostsRight, ResourceRight, HostsOf
    <3> QED
      BY <1>1, <2>1, <2>3, <3>1 DEF HoldsRight
  <2> QED
    BY <2>2, <2>3
<1>5. HostSet(hosts)' /\ HostSet(newHosts)'
  BY <1>1, FS_EmptySet DEF BuiltInv, HostSet, Empty
<1>6. Unstored(rejected)'
  BY <1>1 DEF Unstored, NoKey
<1> QED
  BY <1>1, <1>3, <1>4, <1>5, <1>6 DEF BuiltInv, Empty

\* the operations, which reject only what they do not store
LEMMA StartBuilt ==
  ASSUME BuiltInv, StartRebuild, Unstored(rejected)'
  PROVE  BuiltInv'
<1>1. /\ pc' = "rebuild" /\ newHosts' = Empty /\ newResources' = Empty /\ UNCHANGED active
  BY DEF StartRebuild
<1>2. hosts' = hosts /\ resources' = resources
  BY <1>1 DEF active
<1>3. (\A j \in DOMAIN resources : HoldsRight(resources[j], j, hosts))'
  BY <1>2 DEF BuiltInv, HoldsRight
<1>4. HostSet(hosts)' /\ HostSet(newHosts)'
  BY <1>1, <1>2, FS_EmptySet DEF BuiltInv, HostSet, Empty
<1> QED
  BY <1>1, <1>3, <1>4 DEF BuiltInv, Empty

-----------------------------------------------------------------------------
\* squashResourceChanges: one change per key, the last one, the deletes first

LastIndex(chs, i) == Max({j \in DOMAIN chs : chs[j].key = chs[i].key})

LastChange(chs, i) == chs[LastIndex(chs, i)]

LastChanges(chs) == {LastChange(chs, i) : i \in DOMAIN chs}

\* s has the last changes of the indices in J, each once
SquashedTo(s, chs, J) ==
  /\ s \in Seq(Range(chs))
  /\ Range(s) = {LastChange(chs, j) : j \in J}
  /\ \A a, b \in DOMAIN s : s[a].key = s[b].key => a = b

LEMMA LastFacts ==
  ASSUME NEW S, NEW chs \in Seq(S), NEW i \in DOMAIN chs
  PROVE  /\ LastIndex(chs, i) \in DOMAIN chs
         /\ LastChange(chs, i) \in Range(chs)
         /\ LastChange(chs, i).key = chs[i].key
         /\ \A j \in DOMAIN chs : chs[j].key = chs[i].key => j <= LastIndex(chs, i)
         /\ \A j \in DOMAIN chs : chs[j].key = chs[i].key => LastChange(chs, j) = LastChange(chs, i)
<1> DEFINE T == {j \in DOMAIN chs : chs[j].key = chs[i].key}
           n == Len(chs)
<1>1. n \in Nat /\ DOMAIN chs = 1..n
  OBVIOUS
<1>2. T \in SUBSET (1..n) /\ T # {}
  BY <1>1
<1>3. LastIndex(chs, i) = Greatest(T)
  BY Zenon DEF LastIndex, Max, Greatest
<1>4. Greatest(T) \in T /\ \A x \in T : Greatest(T) >= x
  BY <1>1, <1>2, GreatestIn
<1>5. LastIndex(chs, i) \in T /\ \A x \in T : LastIndex(chs, i) >= x
  BY <1>3, <1>4, Zenon
<1>6. /\ LastIndex(chs, i) \in DOMAIN chs
      /\ chs[LastIndex(chs, i)].key = chs[i].key
      /\ \A j \in DOMAIN chs : chs[j].key = chs[i].key => LastIndex(chs, i) >= j
  BY <1>5, Zenon
<1>7. ASSUME NEW j \in DOMAIN chs, chs[j].key = chs[i].key PROVE LastChange(chs, j) = LastChange(chs, i)
  BY <1>7, Zenon DEF LastChange, LastIndex
<1>8. ASSUME NEW j \in DOMAIN chs, chs[j].key = chs[i].key PROVE j <= LastIndex(chs, i)
  <2>1. LastIndex(chs, i) >= j /\ LastIndex(chs, i) \in 1..n /\ j \in 1..n
    BY <1>1, <1>6, <1>8
  <2> QED
    BY <1>1, <2>1
<1> QED
  BY <1>6, <1>7, <1>8 DEF LastChange, Range

\* one iteration, for the sequence to which the change is appended
LEMMA SquashAppends ==
  ASSUME NEW S, NEW chs \in Seq(S), NEW i \in DOMAIN chs, NEW J, J \subseteq 1..(i - 1),
         NEW s, SquashedTo(s, chs, J),
         \A j \in 1..(i - 1) : chs[j].key # chs[i].key
  PROVE  SquashedTo(Append(s, LastChange(chs, i)), chs, J \cup {i})
<1> DEFINE v == LastChange(chs, i)
           t == Append(s, v)
<1>1. v \in Range(chs) /\ v.key = chs[i].key
  BY LastFacts
<1>2. s \in Seq(Range(chs)) /\ Range(s) = {LastChange(chs, j) : j \in J}
  BY DEF SquashedTo
<1>3. \A j \in 1..(i - 1) : j \in DOMAIN chs
  OBVIOUS
<1> HIDE DEF v
<1>4. t \in Seq(Range(chs)) /\ Range(t) = Range(s) \cup {v}
  BY <1>1, <1>2, AppendRange
<1>5. Range(t) = {LastChange(chs, j) : j \in J \cup {i}}
  <2>1. {LastChange(chs, j) : j \in J \cup {i}} = {LastChange(chs, j) : j \in J} \cup {LastChange(chs, i)}
    BY Zenon
  <2> QED
    BY <1>2, <1>4, <2>1 DEF v
<1>6. ASSUME NEW a \in DOMAIN s PROVE s[a].key # v.key
  <2>1. s[a] \in Range(s)
    BY DEF Range
  <2>2. PICK j \in J : s[a] = LastChange(chs, j)
    BY <1>2, <2>1
  <2>3. j \in DOMAIN chs /\ chs[j].key # chs[i].key
    BY <1>3, <2>2
  <2>4. LastChange(chs, j).key = chs[j].key
    BY <2>3, LastFacts
  <2> QED
    BY <1>1, <2>2, <2>3, <2>4
<1>7. DOMAIN s = 1..Len(s) /\ DOMAIN t = 1..(Len(s) + 1) /\ Len(s) \in Nat
      /\ t[Len(s) + 1] = v /\ \A a \in 1..Len(s) : t[a] = s[a]
  BY <1>2
<1>8. \A a, b \in DOMAIN s : s[a].key = s[b].key => a = b
  BY DEF SquashedTo
<1>9. \A a : a \in DOMAIN t <=> a \in DOMAIN s \/ a = Len(s) + 1
  BY <1>7
<1> HIDE DEF t
<1>10. ASSUME NEW a \in DOMAIN t, NEW b \in DOMAIN t, t[a].key = t[b].key PROVE a = b
  <2>1. CASE a \in DOMAIN s /\ b \in DOMAIN s
    BY <1>7, <1>8, <1>10, <2>1
  <2>2. CASE a = Len(s) + 1 /\ b \in DOMAIN s
    BY <1>6, <1>7, <1>10, <2>2
  <2>3. CASE a \in DOMAIN s /\ b = Len(s) + 1
    BY <1>6, <1>7, <1>10, <2>3
  <2> QED
    BY <1>9, <2>1, <2>2, <2>3
<1> QED
  BY <1>4, <1>5, <1>10 DEF SquashedTo, t, v

\* the indices whose changes are squashed to a delete, and to an update
Deleting(chs, I) == {j \in I : LastChange(chs, j).op = "Delete"}

Updating(chs, I) == {j \in I : LastChange(chs, j).op # "Delete"}

Accumulated(acc, chs, i) ==
  /\ {"deletes", "updates"} \subseteq DOMAIN acc
  /\ SquashedTo(acc.deletes, chs, Deleting(chs, 1..i))
  /\ SquashedTo(acc.updates, chs, Updating(chs, 1..i))

LEMMA SquashStep ==
  ASSUME NEW S, NEW chs \in Seq(S), NEW i \in DOMAIN chs, NEW acc, Accumulated(acc, chs, i - 1)
  PROVE  Accumulated(SquashChange(chs, acc, i), chs, i)
<1> DEFINE D == Deleting(chs, 1..(i - 1))
           U == Updating(chs, 1..(i - 1))
           v == LastChange(chs, i)
           new == SquashChange(chs, acc, i)
<1>0. i \in Nat /\ 1..i = 1..(i - 1) \cup {i} /\ \A j \in 1..(i - 1) : j \in DOMAIN chs
  OBVIOUS
<1>1. new = IF \E j \in 1..(i - 1) : chs[j].key = chs[i].key THEN acc
            ELSE IF v.op = "Delete" THEN [acc EXCEPT !.deletes = Append(@, v)]
            ELSE [acc EXCEPT !.updates = Append(@, v)]
  BY Zenon DEF SquashChange, LastChange, LastIndex
<1>2. /\ v.op = "Delete" => Deleting(chs, 1..i) = D \cup {i} /\ Updating(chs, 1..i) = U
      /\ v.op # "Delete" => Deleting(chs, 1..i) = D /\ Updating(chs, 1..i) = U \cup {i}
  BY <1>0 DEF Deleting, Updating
<1>3. D \subseteq 1..(i - 1) /\ U \subseteq 1..(i - 1)
  BY DEF Deleting, Updating
<1>4. /\ {"deletes", "updates"} \subseteq DOMAIN acc
      /\ SquashedTo(acc.deletes, chs, D) /\ SquashedTo(acc.updates, chs, U)
  BY DEF Accumulated
<1>5. CASE \E j \in 1..(i - 1) : chs[j].key = chs[i].key
  <2>1. PICK j \in 1..(i - 1) : chs[j].key = chs[i].key
    BY <1>5
  <2>2. LastChange(chs, j) = v
    BY <1>0, <2>1, LastFacts
  <2>3. /\ {LastChange(chs, m) : m \in Deleting(chs, 1..i)} = {LastChange(chs, m) : m \in D}
        /\ {LastChange(chs, m) : m \in Updating(chs, 1..i)} = {LastChange(chs, m) : m \in U}
    <3>1. (v.op = "Delete" => j \in D) /\ (v.op # "Delete" => j \in U)
      BY <2>1, <2>2 DEF Deleting, Updating
    <3> HIDE DEF D, U
    <3> QED
      BY <1>2, <2>2, <3>1
  <2>4. new = acc
    BY <1>1, <1>5
  <2> HIDE DEF D, U, new
  <2> QED
    BY <1>4, <2>3, <2>4 DEF Accumulated, SquashedTo, new
<1>6. CASE \A j \in 1..(i - 1) : chs[j].key # chs[i].key
  <2> HIDE DEF D, U, v
  <2>1. CASE v.op = "Delete"
    <3>1. new = [acc EXCEPT !.deletes = Append(@, v)]
      BY <1>1, <1>6, <2>1
    <3>2. /\ {"deletes", "updates"} \subseteq DOMAIN new
          /\ new.deletes = Append(acc.deletes, v) /\ new.updates = acc.updates
      BY <1>4, <3>1
    <3>3. SquashedTo(Append(acc.deletes, LastChange(chs, i)), chs, D \cup {i})
      BY <1>3, <1>4, <1>6, SquashAppends
    <3> HIDE DEF new
    <3> QED
      BY <1>2, <1>4, <2>1, <3>2, <3>3 DEF Accumulated, v, new
  <2>2. CASE v.op # "Delete"
    <3>1. new = [acc EXCEPT !.updates = Append(@, v)]
      BY <1>1, <1>6, <2>2
    <3>2. /\ {"deletes", "updates"} \subseteq DOMAIN new
          /\ new.updates = Append(acc.updates, v) /\ new.deletes = acc.deletes
      BY <1>4, <3>1
    <3>3. SquashedTo(Append(acc.updates, LastChange(chs, i)), chs, U \cup {i})
      BY <1>3, <1>4, <1>6, SquashAppends
    <3> HIDE DEF new
    <3> QED
      BY <1>2, <1>4, <2>2, <3>2, <3>3 DEF Accumulated, v, new
  <2> QED
    BY <2>1, <2>2
<1> QED
  BY <1>5, <1>6

LEMMA SquashFacts ==
  ASSUME NEW S, NEW chs \in Seq(S)
  PROVE  LET sq == squashResourceChanges(chs)
         IN  /\ sq \in Seq(Range(chs))
             /\ Range(sq) = LastChanges(chs)
             /\ \A a, b \in DOMAIN sq : sq[a].key = sq[b].key => a = b
             /\ \A a, b \in DOMAIN sq : sq[a].op # "Delete" /\ sq[b].op = "Delete" => b < a
<1> DEFINE n == Len(chs)
           base == [deletes |-> <<>>, updates |-> <<>>]
           sq == squashResourceChanges(chs)
<1>1. n \in Nat /\ DOMAIN chs = 1..n
  OBVIOUS
<1>2. PICK g : /\ g[0] = base
               /\ \A i \in 1..Len(chs) : g[i] = SquashChange(chs, g[i - 1], i)
               /\ squashResourceChanges(chs) = DeletesFirst(g[Len(chs)])
  BY SquashTrace
<1>3. sq = DeletesFirst(g[n])
  BY <1>2
<1>4. \A i \in 1..n : g[i] = SquashChange(chs, g[i - 1], i)
  BY <1>2
<1> HIDE DEF base, sq
<1> DEFINE Right(i) == Accumulated(g[i], chs, i)
           P == {i \in 0..n : Right(i)}
<1>5. Right(0)
  <2>1. Deleting(chs, 1..0) = {} /\ Updating(chs, 1..0) = {}
    BY 1..0 = {} DEF Deleting, Updating
  <2>2. SquashedTo(<<>>, chs, {})
    BY DEF SquashedTo, Range
  <2>3. {"deletes", "updates"} \subseteq DOMAIN g[0] /\ g[0].deletes = <<>> /\ g[0].updates = <<>>
    <3>1. g[0] = [deletes |-> <<>>, updates |-> <<>>]
      BY <1>2, Zenon DEF base
    <3> QED
      BY ONLY <3>1
  <2> QED
    BY <2>1, <2>2, <2>3 DEF Accumulated
<1>6. ASSUME NEW i \in 1..n, i - 1 \in P PROVE i \in P
  <2>1. Right(i - 1) /\ i \in DOMAIN chs /\ i \in 0..n
    BY <1>1, <1>6
  <2>2. Accumulated(SquashChange(chs, g[i - 1], i), chs, i)
    BY <2>1, SquashStep
  <2>3. Right(i)
    BY <1>4, <2>2
  <2> HIDE DEF Right
  <2> QED
    BY <2>1, <2>3
<1>7. \A i \in 0..n : i \in P
  <2>1. 0 \in P
    <3> HIDE DEF Right
    <3> QED
      BY <1>1, <1>5
  <2> HIDE DEF P
  <2> QED
    BY <1>1, <1>6, <2>1, LoopInvariant
<1>8. Accumulated(g[n], chs, n)
  BY <1>1, <1>7
<1> HIDE DEF P, Right
<1> DEFINE d == g[n].deletes
           u == g[n].updates
<1>9. SquashedTo(d, chs, Deleting(chs, DOMAIN chs)) /\ SquashedTo(u, chs, Updating(chs, DOMAIN chs))
  BY <1>1, <1>8 DEF Accumulated
<1>10. sq = d \o u
  BY <1>3 DEF DeletesFirst
<1> HIDE DEF d, u
<1>11. /\ d \in Seq(Range(chs)) /\ u \in Seq(Range(chs))
       /\ Range(d) = {LastChange(chs, j) : j \in Deleting(chs, DOMAIN chs)}
       /\ Range(u) = {LastChange(chs, j) : j \in Updating(chs, DOMAIN chs)}
       /\ \A a, b \in DOMAIN d : d[a].key = d[b].key => a = b
       /\ \A a, b \in DOMAIN u : u[a].key = u[b].key => a = b
  BY <1>9 DEF SquashedTo
<1> DEFINE m == Len(d)
<1>12. /\ m \in Nat /\ Len(u) \in Nat /\ DOMAIN d = 1..m /\ DOMAIN u = 1..Len(u)
       /\ sq \in Seq(Range(chs)) /\ DOMAIN sq = 1..(m + Len(u))
       /\ \A a \in 1..m : sq[a] = d[a]
       /\ \A a \in 1..Len(u) : sq[m + a] = u[a]
  BY <1>10, <1>11
<1> HIDE DEF m
<1>13. ASSUME NEW a \in DOMAIN sq
       PROVE  \/ a \in DOMAIN d /\ sq[a] = d[a] /\ a <= m
              \/ a > m /\ a - m \in DOMAIN u /\ sq[a] = u[a - m]
  <2>1. CASE a <= m
    BY <1>12, <2>1
  <2>2. CASE a > m
    <3>1. a - m \in 1..Len(u) /\ m + (a - m) = a
      BY <1>12, <2>2
    <3> QED
      BY <1>12, <2>2, <3>1
  <2> QED
    BY <1>12, <2>1, <2>2
<1>14. /\ \A a \in DOMAIN d : d[a].op = "Delete"
       /\ \A a \in DOMAIN u : u[a].op # "Delete"
  <2>1. ASSUME NEW a \in DOMAIN d PROVE d[a].op = "Delete"
    <3>1. d[a] \in Range(d)
      BY DEF Range
    <3> QED
      BY <1>11, <3>1 DEF Deleting
  <2>2. ASSUME NEW a \in DOMAIN u PROVE u[a].op # "Delete"
    <3>1. u[a] \in Range(u)
      BY DEF Range
    <3> QED
      BY <1>11, <3>1 DEF Updating
  <2> QED
    BY <2>1, <2>2
<1>15. Range(sq) = LastChanges(chs)
  <2>1. Range(sq) = Range(d) \cup Range(u)
    <3>1. ASSUME NEW a \in DOMAIN d PROVE d[a] \in Range(sq)
      <4>1. a \in DOMAIN sq /\ sq[a] = d[a]
        BY <1>12
      <4> QED
        BY <4>1 DEF Range
    <3>2. ASSUME NEW a \in DOMAIN u PROVE u[a] \in Range(sq)
      <4>1. m + a \in DOMAIN sq /\ sq[m + a] = u[a]
        BY <1>12
      <4> QED
        BY <4>1 DEF Range
    <3>3. ASSUME NEW a \in DOMAIN sq PROVE sq[a] \in Range(d) \cup Range(u)
      BY <1>13 DEF Range
    <3> QED
      BY <3>1, <3>2, <3>3 DEF Range
  <2>2. DOMAIN chs = Deleting(chs, DOMAIN chs) \cup Updating(chs, DOMAIN chs)
    BY DEF Deleting, Updating
  <2> QED
    BY <1>11, <2>1, <2>2 DEF LastChanges
<1>16. ASSUME NEW a \in DOMAIN d, NEW b \in DOMAIN u PROVE d[a].key # u[b].key
  <2>1. d[a] \in Range(d) /\ u[b] \in Range(u)
    BY DEF Range
  <2>2. PICK i \in DOMAIN chs : d[a] = LastChange(chs, i)
    BY <1>11, <2>1 DEF Deleting
  <2>3. PICK j \in DOMAIN chs : u[b] = LastChange(chs, j)
    BY <1>11, <2>1 DEF Updating
  <2>4. LastChange(chs, i).key = chs[i].key /\ LastChange(chs, j).key = chs[j].key
    BY LastFacts
  <2>5. chs[i].key = chs[j].key => LastChange(chs, i) = LastChange(chs, j)
    BY LastFacts
  <2> QED
    BY <1>14, <2>2, <2>3, <2>4, <2>5
<1>17. ASSUME NEW a \in DOMAIN sq, NEW b \in DOMAIN sq, sq[a].key = sq[b].key PROVE a = b
  <2>1. a \in Nat /\ b \in Nat
    BY <1>12
  <2>2. CASE a \in DOMAIN d /\ sq[a] = d[a] /\ b \in DOMAIN d /\ sq[b] = d[b]
    BY <1>11, <1>17, <2>2
  <2>3. CASE a - m \in DOMAIN u /\ sq[a] = u[a - m] /\ b - m \in DOMAIN u /\ sq[b] = u[b - m]
    <3>1. a - m = b - m
      BY <1>11, <1>17, <2>3
    <3> QED
      BY <1>12, <2>1, <3>1
  <2>4. CASE a \in DOMAIN d /\ sq[a] = d[a] /\ b - m \in DOMAIN u /\ sq[b] = u[b - m]
    BY <1>16, <1>17, <2>4
  <2>5. CASE b \in DOMAIN d /\ sq[b] = d[b] /\ a - m \in DOMAIN u /\ sq[a] = u[a - m]
    BY <1>16, <1>17, <2>5
  <2> QED
    BY <1>13, <2>2, <2>3, <2>4, <2>5
<1>18. ASSUME NEW a \in DOMAIN sq, NEW b \in DOMAIN sq, sq[a].op # "Delete", sq[b].op = "Delete"
       PROVE  b < a
  <2>1. a > m
    BY <1>13, <1>14, <1>18
  <2>2. b <= m
    BY <1>13, <1>14, <1>18
  <2> QED
    BY <1>12, <2>1, <2>2
<1> QED
  BY <1>12, <1>15, <1>17, <1>18 DEF sq

-----------------------------------------------------------------------------
\* createResourceChanges, and what rebuild returns

LEMMA ChangesForFacts ==
  ASSUME NEW op, NEW H, IsFiniteSet(H), H \subseteq Int, NEW holders
  PROVE  LET s == ChangesFor(op, H, holders)
         IN  s \in Seq(Range(s)) /\ Range(s) = {Change(op, holders[h]) : h \in H}
<1> DEFINE hs == Sorted(H)
           s == ChangesFor(op, H, holders)
<1>1. hs \in Seq(H) /\ Range(hs) = H
  BY SortedFacts
<1>2. s = [i \in DOMAIN hs |-> Change(op, holders[hs[i]])]
  BY DEF ChangesFor
<1> HIDE DEF hs, s
<1>3. Len(hs) \in Nat /\ DOMAIN hs = 1..Len(hs)
  BY <1>1
<1>4. DOMAIN s = DOMAIN hs /\ \A i \in DOMAIN hs : s[i] = Change(op, holders[hs[i]])
  BY <1>2
<1>5. s \in [1..Len(hs) -> Range(s)]
  <2>1. \A i \in DOMAIN s : s[i] \in Range(s)
    BY DEF Range
  <2> QED
    BY <1>2, <1>3, <1>4, <2>1
<1>6. s \in Seq(Range(s))
  BY <1>3, <1>5
<1>7. Range(s) = {Change(op, holders[h]) : h \in H}
  <2>1. ASSUME NEW i \in DOMAIN s PROVE s[i] \in {Change(op, holders[h]) : h \in H}
    <3>1. hs[i] \in H
      BY <1>1, <1>3, <1>4
    <3> QED
      BY <1>4, <3>1
  <2>2. ASSUME NEW h \in H PROVE Change(op, holders[h]) \in Range(s)
    <3>1. PICK i \in DOMAIN hs : hs[i] = h
      BY <1>1 DEF Range
    <3> QED
      BY <1>4, <3>1 DEF Range
  <2> QED
    BY <2>1, <2>2 DEF Range
<1> QED
  BY <1>6, <1>7 DEF s

\* what there is to know of s \o t
IsConcat(st, s, t) ==
  /\ DOMAIN st = 1..(Len(s) + Len(t))
  /\ \A a \in 1..Len(s) : st[a] = s[a]
  /\ \A a \in 1..Len(t) : st[Len(s) + a] = t[a]

KeysIn(s) == {s[i].key : i \in DOMAIN s}

\* deletes d, then updates u: the squashed change of a key is an update if there is one
LEMMA LastOfTwo ==
  ASSUME NEW S, NEW d \in Seq(S), NEW u \in Seq(S), NEW chs \in Seq(S), IsConcat(chs, d, u),
         \A i \in DOMAIN d : d[i].op = "Delete",
         \A i \in DOMAIN u : u[i].op = "AddOrUpdate"
  PROVE  /\ \A c \in LastChanges(chs) :
              \/ c.op = "Delete" /\ c.key \in KeysIn(d) \ KeysIn(u)
              \/ c.op = "AddOrUpdate" /\ c.key \in KeysIn(u)
         /\ \A k \in KeysIn(d) \cup KeysIn(u) : \E c \in LastChanges(chs) : c.key = k
<1> DEFINE m == Len(d)
           dkeys == {d[i].key : i \in DOMAIN d}
           ukeys == {u[i].key : i \in DOMAIN u}
<1>1. /\ m \in Nat /\ Len(u) \in Nat /\ DOMAIN d = 1..m /\ DOMAIN u = 1..Len(u)
      /\ DOMAIN chs = 1..(m + Len(u))
      /\ \A a \in 1..m : chs[a] = d[a]
      /\ \A a \in 1..Len(u) : chs[m + a] = u[a]
  BY DEF IsConcat
<1> HIDE DEF m
<1>2. ASSUME NEW a \in DOMAIN chs
      PROVE  \/ a \in DOMAIN d /\ chs[a] = d[a] /\ a <= m
             \/ a > m /\ a - m \in DOMAIN u /\ chs[a] = u[a - m]
  <2>1. CASE a <= m
    BY <1>1, <2>1
  <2>2. CASE a > m
    <3>1. a - m \in 1..Len(u) /\ m + (a - m) = a
      BY <1>1, <2>2
    <3> QED
      BY <1>1, <2>2, <3>1
  <2> QED
    BY <1>1, <2>1, <2>2
<1>3. ASSUME NEW i \in DOMAIN chs
      PROVE  \/ LastChange(chs, i).op = "Delete" /\ LastChange(chs, i).key \in dkeys \ ukeys
             \/ LastChange(chs, i).op = "AddOrUpdate" /\ LastChange(chs, i).key \in ukeys
  <2> DEFINE l == LastIndex(chs, i)
             c == LastChange(chs, i)
  <2>1. /\ l \in DOMAIN chs /\ c = chs[l] /\ c.key = chs[i].key
        /\ \A j \in DOMAIN chs : chs[j].key = chs[i].key => j <= l
    BY <1>1, LastFacts DEF LastChange
  <2> HIDE DEF l, c
  <2>2. CASE l \in DOMAIN d /\ chs[l] = d[l] /\ l <= m
    <3>1. c.op = "Delete" /\ c.key \in dkeys
      BY <2>1, <2>2
    <3>2. c.key \notin ukeys
      <4> SUFFICES ASSUME NEW j \in DOMAIN u, u[j].key = c.key PROVE FALSE
        OBVIOUS
      <4>1. m + j \in DOMAIN chs /\ chs[m + j] = u[j] /\ j >= 1 /\ j \in Nat
        BY <1>1
      <4>2. m + j <= l
        BY <2>1, <4>1
      <4> QED
        BY <1>1, <2>1, <2>2, <4>1, <4>2
    <3> QED
      BY <3>1, <3>2 DEF c
  <2>3. CASE l - m \in DOMAIN u /\ chs[l] = u[l - m]
    <3>1. c.op = "AddOrUpdate" /\ c.key \in ukeys
      BY <2>1, <2>3
    <3> QED
      BY <3>1 DEF c
  <2> QED
    BY <1>2, <2>1, <2>2, <2>3
<1>4. ASSUME NEW k \in dkeys \cup ukeys
      PROVE  \E i \in DOMAIN chs : LastChange(chs, i).key = k
  <2>1. \E i \in DOMAIN chs : chs[i].key = k
    <3>1. CASE k \in dkeys
      <4>1. PICK j \in DOMAIN d : d[j].key = k
        BY <3>1
      <4>2. j \in DOMAIN chs /\ chs[j] = d[j]
        BY <1>1
      <4> QED
        BY <4>1, <4>2
    <3>2. CASE k \in ukeys
      <4>1. PICK j \in DOMAIN u : u[j].key = k
        BY <3>2
      <4>2. m + j \in DOMAIN chs /\ chs[m + j] = u[j]
        BY <1>1
      <4> QED
        BY <4>1, <4>2
    <3> QED
      BY <3>1, <3>2
  <2>2. PICK i \in DOMAIN chs : chs[i].key = k
    BY <2>1
  <2>3. LastChange(chs, i).key = k
    BY <1>1, <2>2, LastFacts
  <2> QED
    BY <2>3
<1> HIDE DEF dkeys, ukeys
<1>5. \A c \in {LastChange(chs, i) : i \in DOMAIN chs} :
        \/ c.op = "Delete" /\ c.key \in dkeys \ ukeys
        \/ c.op = "AddOrUpdate" /\ c.key \in ukeys
  BY <1>3
<1>6. \A k \in dkeys \cup ukeys : \E c \in {LastChange(chs, i) : i \in DOMAIN chs} : c.key = k
  BY <1>4
<1> QED
  BY <1>1, <1>5, <1>6 DEF dkeys, ukeys, KeysIn, LastChanges

LEMMA ConcatRange ==
  ASSUME NEW S, NEW s \in Seq(S), NEW t \in Seq(S), NEW st, IsConcat(st, s, t)
  PROVE  Range(st) = Range(s) \cup Range(t)
<1> DEFINE m == Len(s)
<1>1. /\ m \in Nat /\ Len(t) \in Nat /\ DOMAIN s = 1..m /\ DOMAIN t = 1..Len(t)
      /\ DOMAIN st = 1..(m + Len(t))
      /\ \A a \in 1..m : st[a] = s[a]
      /\ \A a \in 1..Len(t) : st[m + a] = t[a]
  BY DEF IsConcat
<1> HIDE DEF m
<1>2. ASSUME NEW a \in DOMAIN st PROVE st[a] \in Range(s) \cup Range(t)
  <2>1. CASE a <= m
    BY <1>1, <2>1 DEF Range
  <2>2. CASE a > m
    <3>1. a - m \in 1..Len(t) /\ m + (a - m) = a
      BY <1>1, <2>2
    <3>2. st[a] = t[a - m]
      BY <1>1, <3>1
    <3> QED
      BY <1>1, <3>1, <3>2 DEF Range
  <2> QED
    BY <1>1, <2>1, <2>2
<1>3. ASSUME NEW a \in DOMAIN s PROVE s[a] \in Range(st)
  <2>1. a \in DOMAIN st /\ st[a] = s[a]
    BY <1>1
  <2> QED
    BY <2>1 DEF Range
<1>4. ASSUME NEW a \in DOMAIN t PROVE t[a] \in Range(st)
  <2>1. m + a \in DOMAIN st /\ st[m + a] = t[a]
    BY <1>1
  <2> QED
    BY <2>1 DEF Range
<1>5. Range(st) = Range(s) \cup Range(t)
  BY <1>2, <1>3, <1>4 DEF Range
<1> QED
  BY <1>5

LEMMA CreatedChanges ==
  ASSUME HostSet(hosts), HostSet(newHosts)
  PROVE  \E d, u, S :
           /\ d \in Seq(S) /\ u \in Seq(S)
           /\ createResourceChanges \in Seq(S) /\ IsConcat(createResourceChanges, d, u)
           /\ \A i \in DOMAIN d : d[i].op = "Delete"
           /\ \A i \in DOMAIN u : u[i].op = "AddOrUpdate"
           /\ KeysIn(d) = DeletedKeys
           /\ KeysIn(u) = UpdatedKeys
<1> DEFINE handed == {h \in UpdatedHosts : hosts[h] # newHosts[h]}
           A == ChangesFor("Delete", RemovedHosts, hosts)
           B == ChangesFor("Delete", handed, hosts)
           C == ChangesFor("AddOrUpdate", UpdatedHosts, newHosts)
           E == ChangesFor("AddOrUpdate", AddedHosts, newHosts)
           DS == Range(A) \cup Range(B)
           UT == Range(C) \cup Range(E)
<1>1. /\ RemovedHosts \subseteq DOMAIN hosts /\ handed \subseteq DOMAIN hosts
      /\ UpdatedHosts \subseteq DOMAIN hosts /\ AddedHosts \subseteq DOMAIN newHosts
  BY DEF RemovedHosts, AddedHosts, UpdatedHosts
<1>2. /\ IsFiniteSet(RemovedHosts) /\ IsFiniteSet(handed)
      /\ IsFiniteSet(UpdatedHosts) /\ IsFiniteSet(AddedHosts)
  <2>1. IsFiniteSet(DOMAIN hosts) /\ IsFiniteSet(DOMAIN newHosts)
    BY DEF HostSet
  <2> HIDE DEF handed
  <2> QED
    BY <1>1, <2>1, FS_Subset
<1>3. /\ RemovedHosts \subseteq Int /\ handed \subseteq Int
      /\ UpdatedHosts \subseteq Int /\ AddedHosts \subseteq Int
  BY <1>1 DEF HostSet
<1>4. createResourceChanges = A \o B \o C \o E
  BY DEF createResourceChanges
<1>5. A \in Seq(Range(A)) /\ Range(A) = {Change("Delete", hosts[h]) : h \in RemovedHosts}
  BY <1>2, <1>3, ChangesForFacts
<1>6. B \in Seq(Range(B)) /\ Range(B) = {Change("Delete", hosts[h]) : h \in handed}
  <2> HIDE DEF handed
  <2> QED
    BY <1>2, <1>3, ChangesForFacts
<1>7. C \in Seq(Range(C)) /\ Range(C) = {Change("AddOrUpdate", newHosts[h]) : h \in UpdatedHosts}
  BY <1>2, <1>3, ChangesForFacts
<1>8. E \in Seq(Range(E)) /\ Range(E) = {Change("AddOrUpdate", newHosts[h]) : h \in AddedHosts}
  BY <1>2, <1>3, ChangesForFacts
<1> HIDE DEF A, B, C, E, handed
<1> DEFINE d == A \o B
           u == C \o E
<1>9. d \in Seq(DS) /\ Range(d) = DS
  <2>1. A \in Seq(DS) /\ B \in Seq(DS)
    BY <1>5, <1>6
  <2> HIDE DEF DS
  <2>2. d \in Seq(DS) /\ IsConcat(d, A, B)
    BY ONLY <2>1 DEF IsConcat
  <2> HIDE DEF d
  <2> QED
    BY <2>1, <2>2, ConcatRange, ZenonT(30) DEF DS
<1>10. u \in Seq(UT) /\ Range(u) = UT
  <2>1. C \in Seq(UT) /\ E \in Seq(UT)
    BY <1>7, <1>8
  <2> HIDE DEF UT
  <2>2. u \in Seq(UT) /\ IsConcat(u, C, E)
    BY ONLY <2>1 DEF IsConcat
  <2> HIDE DEF u
  <2> QED
    BY <2>1, <2>2, ConcatRange, ZenonT(30) DEF UT
<1>11. createResourceChanges = d \o u
  <2>1. A \in Seq(DS \cup UT) /\ B \in Seq(DS \cup UT) /\ C \in Seq(DS \cup UT) /\ E \in Seq(DS \cup UT)
    BY <1>5, <1>6, <1>7, <1>8
  <2> HIDE DEF DS, UT
  <2>2. A \o B \o C \o E = (A \o B) \o (C \o E)
    BY ONLY <2>1
  <2> QED
    BY <1>4, <2>2
<1> HIDE DEF d, u
<1>12. d \in Seq(DS \cup UT) /\ u \in Seq(DS \cup UT)
  BY <1>9, <1>10
<1>13. DS = {Change("Delete", hosts[h]) : h \in RemovedHosts \cup handed}
  BY <1>5, <1>6
<1>14. UT = {Change("AddOrUpdate", newHosts[h]) : h \in UpdatedHosts \cup AddedHosts}
  BY <1>7, <1>8
<1> HIDE DEF DS, UT
<1>22. createResourceChanges \in Seq(DS \cup UT) /\ IsConcat(createResourceChanges, d, u)
  BY ONLY <1>11, <1>12 DEF IsConcat
<1>15. \A i \in DOMAIN d : d[i] \in DS
  BY <1>9 DEF Range
<1>16. \A i \in DOMAIN u : u[i] \in UT
  BY <1>10 DEF Range
<1>17. \A op, k : Change(op, k).op = op /\ Change(op, k).key = k
  BY DEF Change
<1>18. \A i \in DOMAIN d : d[i].op = "Delete"
  BY <1>13, <1>15, <1>17
<1>19. \A i \in DOMAIN u : u[i].op = "AddOrUpdate"
  BY <1>14, <1>16, <1>17
<1>20. KeysIn(d) = DeletedKeys
  <2>1. DeletedKeys = {hosts[h] : h \in RemovedHosts \cup handed}
    BY DEF DeletedKeys, handed
  <2>2. \A i \in DOMAIN d : \E h \in RemovedHosts \cup handed : d[i].key = hosts[h]
    BY <1>13, <1>15, <1>17
  <2>3. ASSUME NEW h \in RemovedHosts \cup handed PROVE \E i \in DOMAIN d : d[i].key = hosts[h]
    <3>1. Change("Delete", hosts[h]) \in Range(d)
      BY <1>9, <1>13
    <3>2. PICK i \in DOMAIN d : d[i] = Change("Delete", hosts[h])
      BY <3>1 DEF Range
    <3> QED
      BY <1>17, <3>2
  <2> QED
    BY <2>1, <2>2, <2>3 DEF KeysIn
<1>21. KeysIn(u) = UpdatedKeys
  <2>1. UpdatedKeys = {newHosts[h] : h \in UpdatedHosts \cup AddedHosts}
    BY DEF UpdatedKeys
  <2>2. \A i \in DOMAIN u : \E h \in UpdatedHosts \cup AddedHosts : u[i].key = newHosts[h]
    BY <1>14, <1>16, <1>17
  <2>3. ASSUME NEW h \in UpdatedHosts \cup AddedHosts PROVE \E i \in DOMAIN u : u[i].key = newHosts[h]
    <3>1. Change("AddOrUpdate", newHosts[h]) \in Range(u)
      BY <1>10, <1>14
    <3>2. PICK i \in DOMAIN u : u[i] = Change("AddOrUpdate", newHosts[h])
      BY <3>1 DEF Range
    <3> QED
      BY <1>17, <3>2
  <2> QED
    BY <2>1, <2>2, <2>3 DEF KeysIn
<1> QED
  BY <1>12, <1>22, <1>18, <1>19, <1>20, <1>21

LEMMA SquashedChanges ==
  ASSUME HostSet(hosts), HostSet(newHosts)
  PROVE  LET sq == squashResourceChanges(createResourceChanges)
         IN  /\ sq \in Seq(Range(sq))
             /\ \A a, b \in DOMAIN sq : sq[a].key = sq[b].key => a = b
             /\ \A a, b \in DOMAIN sq : sq[a].op # "Delete" /\ sq[b].op = "Delete" => b < a
             /\ \A a \in DOMAIN sq : \/ sq[a].op = "Delete" /\ sq[a].key \in DeletedKeys \ UpdatedKeys
                                     \/ sq[a].op = "AddOrUpdate" /\ sq[a].key \in UpdatedKeys
             /\ \A k \in DeletedKeys \cup UpdatedKeys : \E a \in DOMAIN sq : sq[a].key = k
<1> DEFINE chs == createResourceChanges
           sq == squashResourceChanges(chs)
           last == LastChanges(chs)
<1>1. PICK del, upd, CS :
           /\ del \in Seq(CS) /\ upd \in Seq(CS)
           /\ chs \in Seq(CS) /\ IsConcat(chs, del, upd)
           /\ \A i \in DOMAIN del : del[i].op = "Delete"
           /\ \A i \in DOMAIN upd : upd[i].op = "AddOrUpdate"
           /\ KeysIn(del) = DeletedKeys
           /\ KeysIn(upd) = UpdatedKeys
  BY CreatedChanges
<1> HIDE DEF chs
<1>2. /\ chs \in Seq(CS)
      /\ \A c \in last : \/ c.op = "Delete" /\ c.key \in DeletedKeys \ UpdatedKeys
                         \/ c.op = "AddOrUpdate" /\ c.key \in UpdatedKeys
      /\ \A k \in DeletedKeys \cup UpdatedKeys : \E c \in last : c.key = k
  <2>0. chs \in Seq(CS) /\ IsConcat(chs, del, upd)
    BY <1>1
  <2>1. /\ \A c \in last :
             \/ c.op = "Delete" /\ c.key \in KeysIn(del) \ KeysIn(upd)
             \/ c.op = "AddOrUpdate" /\ c.key \in KeysIn(upd)
        /\ \A k \in KeysIn(del) \cup KeysIn(upd) :
             \E c \in last : c.key = k
    BY <1>1, <2>0, LastOfTwo
  <2>2. KeysIn(del) = DeletedKeys /\ KeysIn(upd) = UpdatedKeys
    BY <1>1, Zenon
  <2> HIDE DEF last
  <2> QED
    BY <2>0, <2>1, <2>2, Zenon
<1> HIDE DEF last
<1>3. /\ sq \in Seq(Range(chs)) /\ Range(sq) = last
      /\ \A a, b \in DOMAIN sq : sq[a].key = sq[b].key => a = b
      /\ \A a, b \in DOMAIN sq : sq[a].op # "Delete" /\ sq[b].op = "Delete" => b < a
  BY <1>2, SquashFacts DEF last
<1> HIDE DEF sq
<1>4. sq \in Seq(Range(sq))
  <2>1. Len(sq) \in Nat /\ DOMAIN sq = 1..Len(sq) /\ sq = [i \in DOMAIN sq |-> sq[i]]
    BY <1>3
  <2>2. \A i \in DOMAIN sq : sq[i] \in Range(sq)
    BY DEF Range
  <2>3. sq \in [1..Len(sq) -> Range(sq)]
    BY <2>1, <2>2
  <2> QED
    BY <2>1, <2>3
<1>5. \A a \in DOMAIN sq : sq[a] \in last
  BY <1>3 DEF Range
<1>6. ASSUME NEW k \in DeletedKeys \cup UpdatedKeys PROVE \E a \in DOMAIN sq : sq[a].key = k
  <2>1. PICK c \in last : c.key = k
    BY <1>2
  <2>2. PICK a \in DOMAIN sq : sq[a] = c
    BY <1>3 DEF Range
  <2> QED
    BY <2>1, <2>2
<1> QED
  BY <1>2, <1>3, <1>4, <1>5, <1>6 DEF sq, chs

LEMMA FinishSquashed ==
  ASSUME HostsInv, BuiltInv, FinishRebuild
  PROVE  /\ changes' \in Seq(Range(changes'))
         /\ \A i, j \in DOMAIN changes' : changes'[i].key = changes'[j].key => i = j
         /\ \A i, j \in DOMAIN changes' :
              changes'[i].op = "AddOrUpdate" /\ changes'[j].op = "Delete" => j < i
         /\ \A i \in DOMAIN changes' :
              LET c == changes'[i]
              IN  \/ /\ c.op = "Delete" /\ c.key \in DOMAIN resources \ DOMAIN resources'
                  \/ /\ c.op = "AddOrUpdate" /\ c.key \in DOMAIN resources'
                     /\ c.resource = resources'[c.key]
         /\ \A i \in DOMAIN changes' : changes'[i].error = (changes'[i].key = rejected)
         /\ \A k \in DOMAIN resources \ DOMAIN resources' : \E i \in DOMAIN changes' : changes'[i].key = k
         /\ \A k \in DOMAIN resources' :
              (k \in DOMAIN resources => ~IsEqual(resources[k], resources'[k])) =>
                \E i \in DOMAIN changes' : changes'[i].key = k
         /\ DOMAIN changes' = DOMAIN squashResourceChanges(createResourceChanges)
         /\ \A i \in DOMAIN changes' : changes'[i].key = squashResourceChanges(createResourceChanges)[i].key
<1> DEFINE sq == squashResourceChanges(createResourceChanges)
<1>1. /\ pc = "rebuild" /\ building = {} /\ hosts' = newHosts
      /\ resources' = [k \in Range(newHosts) |-> newResources[k]]
      /\ changes' = [i \in DOMAIN sq |-> ResourceChange(sq[i])]
  BY DEF FinishRebuild
<1>2. DOMAIN resources = Range(hosts) /\ HostSet(hosts) /\ HostSet(newHosts)
      /\ Range(newHosts) \subseteq DOMAIN newResources
  BY DEF HostsInv, LoopOK, BuiltInv
<1>3. /\ DeletedKeys \ UpdatedKeys = Range(hosts) \ Range(newHosts)
      /\ UpdatedKeys \subseteq Range(newHosts)
      /\ \A k \in Range(newHosts) :
              (k \in Range(hosts) => ~IsEqual(resources[k], newResources[k])) => k \in UpdatedKeys
  BY <1>1, ChangedKeys
<1>4. /\ sq \in Seq(Range(sq))
      /\ \A a, b \in DOMAIN sq : sq[a].key = sq[b].key => a = b
      /\ \A a, b \in DOMAIN sq : sq[a].op # "Delete" /\ sq[b].op = "Delete" => b < a
      /\ \A a \in DOMAIN sq : \/ sq[a].op = "Delete" /\ sq[a].key \in DeletedKeys \ UpdatedKeys
                              \/ sq[a].op = "AddOrUpdate" /\ sq[a].key \in UpdatedKeys
      /\ \A k \in DeletedKeys \cup UpdatedKeys : \E a \in DOMAIN sq : sq[a].key = k
  BY <1>2, SquashedChanges
<1> HIDE DEF sq
<1>5. /\ Len(sq) \in Nat /\ DOMAIN sq = 1..Len(sq)
      /\ DOMAIN changes' = DOMAIN sq
      /\ \A i \in DOMAIN sq : changes'[i] = ResourceChange(sq[i])
  BY <1>1, <1>4
<1>6. \A c : /\ ResourceChange(c).op = c.op /\ ResourceChange(c).key = c.key
             /\ ResourceChange(c).error = (c.key = rejected)
             /\ c.key \in DOMAIN newResources => ResourceChange(c).resource = newResources[c.key]
  BY DEF ResourceChange
<1>7. \A i \in DOMAIN sq : /\ changes'[i].op = sq[i].op /\ changes'[i].key = sq[i].key
                           /\ changes'[i].error = (sq[i].key = rejected)
                           /\ sq[i].key \in DOMAIN newResources =>
                                changes'[i].resource = newResources[sq[i].key]
  BY <1>5, <1>6
<1>8. changes' \in Seq(Range(changes'))
  <2>1. \A i \in DOMAIN changes' : changes'[i] \in Range(changes')
    BY DEF Range
  <2>2. changes' \in [1..Len(sq) -> Range(changes')]
    BY <1>1, <1>5, <2>1
  <2> QED
    BY <1>5, <2>2
<1>9. \A i \in DOMAIN changes' :
        LET c == changes'[i]
        IN  \/ /\ c.op = "Delete" /\ c.key \in DOMAIN resources \ DOMAIN resources'
            \/ /\ c.op = "AddOrUpdate" /\ c.key \in DOMAIN resources'
               /\ c.resource = resources'[c.key]
  <2> SUFFICES ASSUME NEW i \in DOMAIN sq
               PROVE  \/ /\ changes'[i].op = "Delete" /\ changes'[i].key \in DOMAIN resources \ DOMAIN resources'
                      \/ /\ changes'[i].op = "AddOrUpdate" /\ changes'[i].key \in DOMAIN resources'
                         /\ changes'[i].resource = resources'[changes'[i].key]
    BY <1>5
  <2>1. CASE sq[i].op = "Delete" /\ sq[i].key \in DeletedKeys \ UpdatedKeys
    BY <1>1, <1>2, <1>3, <1>7, <2>1
  <2>2. CASE sq[i].op = "AddOrUpdate" /\ sq[i].key \in UpdatedKeys
    BY <1>1, <1>2, <1>3, <1>7, <2>2
  <2> QED
    BY <1>4, <2>1, <2>2
<1>10. /\ \A i, j \in DOMAIN changes' : changes'[i].key = changes'[j].key => i = j
       /\ \A i, j \in DOMAIN changes' :
            changes'[i].op = "AddOrUpdate" /\ changes'[j].op = "Delete" => j < i
       /\ \A i \in DOMAIN changes' : changes'[i].error = (changes'[i].key = rejected)
  BY <1>4, <1>5, <1>7, ZenonT(30)
<1>11. \A k \in DeletedKeys \cup UpdatedKeys : \E i \in DOMAIN changes' : changes'[i].key = k
  BY <1>4, <1>5, <1>7
<1>12. \A k \in DOMAIN resources \ DOMAIN resources' : k \in DeletedKeys
  BY <1>1, <1>2, <1>3
<1>13. \A k \in DOMAIN resources' :
         (k \in DOMAIN resources => ~IsEqual(resources[k], resources'[k])) => k \in UpdatedKeys
  BY <1>1, <1>2, <1>3
<1>14. DOMAIN changes' = DOMAIN sq /\ \A i \in DOMAIN changes' : changes'[i].key = sq[i].key
  BY <1>5, <1>7
<1> QED
  BY <1>8, <1>9, <1>10, <1>11, <1>12, <1>13, <1>14 DEF sq

LEMMA KeysCounted ==
  ASSUME NEW S, NEW s \in Seq(S), \A i, j \in DOMAIN s : s[i].key = s[j].key => i = j
  PROVE  IsFiniteSet(KeysIn(s)) /\ Cardinality(KeysIn(s)) = Len(s)
<1> DEFINE f == [i \in DOMAIN s |-> s[i].key]
<1>1. Len(s) \in Nat /\ DOMAIN s = 1..Len(s)
  OBVIOUS
<1>2. IsFiniteSet(1..Len(s)) /\ Cardinality(1..Len(s)) = Len(s)
  <2>1. 1 \in Int /\ Len(s) \in Int
    BY <1>1
  <2>2. /\ IsFiniteSet(1..Len(s))
        /\ Cardinality(1..Len(s)) = IF 1 > Len(s) THEN 0 ELSE Len(s) - 1 + 1
    BY ONLY <2>1, FS_Interval
  <2> QED
    BY <1>1, <2>2
<1>3. f \in Injection(DOMAIN s, KeysIn(s)) /\ f \in Surjection(DOMAIN s, KeysIn(s))
  BY DEF Injection, Surjection, IsInjective, KeysIn
<1> HIDE DEF f
<1> QED
  BY <1>1, <1>2, <1>3, FS_Surjection

LEMMA FinishChanges ==
  ASSUME HostsInv, BuiltInv, FinishRebuild
  PROVE  LET deleted == {c.key : c \in {d \in Range(changes') : d.op = "Delete"}}
             updated == {c.key : c \in {d \in Range(changes') : d.op = "AddOrUpdate"}}
             differs(k) == k \in DOMAIN resources => ~IsEqual(resources[k], resources'[k])
         IN /\ deleted = DOMAIN resources \ DOMAIN resources'
            /\ updated \subseteq DOMAIN resources'
            /\ \A k \in DOMAIN resources' : differs(k) => k \in updated
            /\ Cardinality(deleted) + Cardinality(updated) = Len(changes')
            /\ \A i, j \in DOMAIN changes' :
                 changes'[i].op = "AddOrUpdate" /\ changes'[j].op = "Delete" => j < i
<1> DEFINE chs == changes'
           R == Range(chs)
           deleted == {c.key : c \in {d \in R : d.op = "Delete"}}
           updated == {c.key : c \in {d \in R : d.op = "AddOrUpdate"}}
           old == DOMAIN resources
           new == DOMAIN resources'
<1>1. /\ chs \in Seq(R)
      /\ \A i, j \in DOMAIN chs : chs[i].key = chs[j].key => i = j
      /\ \A i, j \in DOMAIN chs : chs[i].op = "AddOrUpdate" /\ chs[j].op = "Delete" => j < i
      /\ \A i \in DOMAIN chs : \/ chs[i].op = "Delete" /\ chs[i].key \in old \ new
                               \/ chs[i].op = "AddOrUpdate" /\ chs[i].key \in new
      /\ \A k \in old \ new : \E i \in DOMAIN chs : chs[i].key = k
      /\ \A k \in new : (k \in old => ~IsEqual(resources[k], resources'[k])) =>
                          \E i \in DOMAIN chs : chs[i].key = k
  BY FinishSquashed
<1>2. \A c : c \in R <=> \E i \in DOMAIN chs : chs[i] = c
  BY DEF Range
<1>3. Cardinality(KeysIn(chs)) = Len(chs) /\ IsFiniteSet(KeysIn(chs))
  <2> HIDE DEF chs, R
  <2> QED
    BY <1>1, KeysCounted
<1> HIDE DEF chs, R, old, new
<1>4. deleted = old \ new
  <2>1. ASSUME NEW c \in R, c.op = "Delete" PROVE c.key \in old \ new
    BY <1>1, <1>2, <2>1
  <2>2. ASSUME NEW k \in old \ new PROVE \E c \in R : c.op = "Delete" /\ c.key = k
    BY <1>1, <1>2
  <2> QED
    BY <2>1, <2>2
<1>5. updated \subseteq new
  BY <1>1, <1>2
<1>6. ASSUME NEW k \in new, k \in old => ~IsEqual(resources[k], resources'[k])
      PROVE  k \in updated
  <2>1. PICK i \in DOMAIN chs : chs[i].key = k
    BY <1>1, <1>6
  <2>2. chs[i] \in R /\ chs[i].op = "AddOrUpdate"
    BY <1>1, <1>2, <2>1
  <2> QED
    BY <2>1, <2>2
<1>7. KeysIn(chs) = deleted \cup updated
  <2>1. ASSUME NEW i \in DOMAIN chs PROVE chs[i].key \in deleted \cup updated
    BY <1>1, <1>2
  <2>2. ASSUME NEW c \in R PROVE c.key \in KeysIn(chs)
    BY <1>2 DEF KeysIn
  <2> QED
    BY <2>1, <2>2 DEF KeysIn
<1>8. deleted \cap updated = {}
  BY <1>4, <1>5
<1> HIDE DEF deleted, updated
<1>9. IsFiniteSet(deleted) /\ IsFiniteSet(updated)
  BY <1>3, <1>7, FS_Subset
<1>10. Cardinality(deleted \cup updated) = Cardinality(deleted) + Cardinality(updated) - Cardinality({})
  BY <1>8, <1>9, FS_Union
<1>11. Cardinality(deleted) \in Nat /\ Cardinality(updated) \in Nat /\ Cardinality({}) = 0
  BY <1>9, FS_CardinalityType, FS_EmptySet
<1>12. Cardinality(deleted) + Cardinality(updated) = Len(chs)
  BY <1>3, <1>7, <1>10, <1>11
<1>13. \A k \in new : (k \in old => ~IsEqual(resources[k], resources'[k])) => k \in updated
  BY <1>6
<1> QED
  BY <1>1, <1>4, <1>5, <1>12, <1>13 DEF chs, R, old, new, deleted, updated

LEMMA FinishRejection ==
  ASSUME HostsInv, BuiltInv, FinishRebuild, rejected # NoKey
  PROVE  LET inChanges == {i \in DOMAIN changes' : changes'[i].error}
             inProblems == {p \in reported' : p[1] = rejected}
         IN /\ Cardinality(inChanges) + Cardinality(inProblems) = 1
            /\ \A i \in inChanges : changes'[i].op = "Delete" /\ changes'[i].key = rejected
            /\ \A p \in inProblems : p[2].isError
            /\ rejected \notin DOMAIN resources'
<1> DEFINE chs == changes'
           sq == squashResourceChanges(createResourceChanges)
           inChanges == {i \in DOMAIN chs : chs[i].error}
           inProblems == {p \in reported' : p[1] = rejected}
           error == <<rejected, Problem(TRUE, "Rejected", NoKey)>>
           inChange == \E i \in DOMAIN sq : sq[i].key = rejected
<1>1. /\ pc = "rebuild" /\ building = {} /\ hosts' = newHosts
      /\ resources' = [k \in Range(newHosts) |-> newResources[k]]
      /\ reported' = detectChangesInProblems(NewProblems, problems) \cup
                       IF inChange THEN {} ELSE {error}
  BY DEF FinishRebuild
<1>2. DOMAIN newResources = StoredKeys /\ Range(newHosts) \subseteq StoredKeys /\ Unstored(rejected)
  BY <1>1 DEF HostsInv, LoopOK, BuiltInv
<1>3. rejected \notin StoredKeys
  BY <1>2 DEF StoredKeys, ResourceKeys, Unstored
<1>4. rejected \notin DOMAIN resources'
  BY <1>1, <1>2, <1>3
<1>5. rejected \notin DOMAIN NewProblems
  <2>1. rejected \notin WithoutActiveHost
    BY <1>2, <1>3 DEF WithoutActiveHost
  <2>2. rejected \notin OrphanMinions /\ rejected \notin OrphanVsrs /\ rejected \notin IgnoredVsrs
    BY <1>2 DEF OrphanMinions, OrphanVsrs, IgnoredVsrs, Unstored
  <2> QED
    BY <2>1, <2>2 DEF NewProblems
<1>6. \A p \in detectChangesInProblems(NewProblems, problems) : p[1] # rejected
  <2>1. \A p \in detectChangesInProblems(NewProblems, problems) : p[1] \in DOMAIN NewProblems
    BY DEF detectChangesInProblems
  <2> QED
    BY <1>5, <2>1
<1>7. inProblems = IF inChange THEN {} ELSE {error}
  <2>1. error[1] = rejected
    OBVIOUS
  <2> HIDE DEF error, inChange
  <2> QED
    BY <1>1, <1>6, <2>1
<1>8. error[2].isError
  BY DEF Problem
<1>9. /\ \A i, j \in DOMAIN chs : chs[i].key = chs[j].key => i = j
      /\ \A i \in DOMAIN chs : chs[i].error = (chs[i].key = rejected)
      /\ \A i \in DOMAIN chs : \/ chs[i].op = "Delete"
                               \/ chs[i].op = "AddOrUpdate" /\ chs[i].key \in DOMAIN resources'
      /\ DOMAIN chs = DOMAIN sq /\ \A i \in DOMAIN chs : chs[i].key = sq[i].key
  BY FinishSquashed
<1> HIDE DEF chs, sq, error
<1>10. inChange <=> \E i \in DOMAIN chs : chs[i].key = rejected
  BY <1>9
<1>11. inChanges = {i \in DOMAIN chs : chs[i].key = rejected}
  BY <1>9
<1>12. \A i \in inChanges : chs[i].op = "Delete" /\ chs[i].key = rejected
  BY <1>4, <1>9, <1>11, ZenonT(30)
<1>13. Cardinality(inChanges) + Cardinality(inProblems) = 1
  <2>1. Cardinality({}) = 0 /\ \A x : Cardinality({x}) = 1
    BY FS_EmptySet, FS_Singleton
  <2>2. CASE inChange
    <3>1. PICK i \in DOMAIN chs : chs[i].key = rejected
      BY <1>10, <2>2
    <3>2. inChanges = {i}
      BY <1>9, <1>11, <3>1
    <3>3. inProblems = {}
      BY <1>7, <2>2
    <3> HIDE DEF inChanges, inProblems
    <3> QED
      BY <2>1, <3>2, <3>3
  <2>3. CASE ~inChange
    <3>1. inChanges = {}
      BY <1>10, <1>11, <2>3
    <3>2. inProblems = {error}
      BY <1>7, <2>3
    <3> HIDE DEF inChanges, inProblems
    <3> QED
      BY <2>1, <3>1, <3>2
  <2> HIDE DEF inChange
  <2> QED
    BY <2>2, <2>3
<1>14. \A p \in inProblems : p[2].isError
  <2> HIDE DEF inProblems, inChange
  <2> QED
    BY <1>7, <1>8
<1> HIDE DEF inProblems
<1> QED
  BY <1>4, <1>12, <1>13, <1>14 DEF chs, inProblems

-----------------------------------------------------------------------------
\* The operations

LEMMA AddOrUpdateKeeps ==
  ASSUME HostsInv, BuiltInv, NEW o,
         \/ AddOrUpdateIngress(o)
         \/ AddOrUpdateVirtualServer(o)
         \/ AddOrUpdateVirtualServerRoute(o)
  PROVE  HostsInv' /\ BuiltInv'
<1>1. StartRebuild
  BY DEF AddOrUpdateIngress, AddOrUpdateVirtualServer, AddOrUpdateVirtualServerRoute
<1> QED
  BY <1>1, RejectedUnstored, StartInv, StartBuilt

LEMMA DeleteKeeps ==
  ASSUME HostsInv, BuiltInv, NEW key,
         DeleteIngress(key) \/ DeleteVirtualServer(key) \/ DeleteVirtualServerRoute(key)
  PROVE  HostsInv' /\ BuiltInv'
<1>1. CASE DeleteNothing
  BY <1>1, UnchangedInv, UnchangedBuilt DEF DeleteNothing
<1>2. CASE StartRebuild /\ UNCHANGED rejected
  <2>1. rejected' = NoKey
    BY <1>2 DEF StartRebuild, BuiltInv
  <2>2. Unstored(rejected)'
    BY <2>1 DEF Unstored, NoKey
  <2> QED
    BY <1>2, <2>2, StartInv, StartBuilt
<1> QED
  BY <1>1, <1>2 DEF DeleteIngress, DeleteVirtualServer, DeleteVirtualServerRoute
===============================================================================
