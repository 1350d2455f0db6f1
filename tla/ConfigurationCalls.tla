-------------------------- MODULE ConfigurationCalls --------------------------
(***************************************************************************)
(* Any sequence of calls of the operations of Configuration, with objects  *)
(* of given sets.                                                          *)
(***************************************************************************)
EXTENDS Configuration

CONSTANTS Ingresses, VirtualServers, VirtualServerRoutes

\* the types of the fields, and what the API server guarantees of the metadata that
\* decides collisions: two objects under different names never have the same UID
ASSUME ObjectsAssumption ==
  /\ \A o \in Ingresses \cup VirtualServers :
       o.key \in Int /\ o.uid \in Int /\ o.created \in Int
  /\ \A o \in Ingresses : o.rules \in Seq(Int) /\ o.paths \in Seq(Int)
  /\ \A o \in VirtualServers :
       o.host \in Int /\ o.routes \in Seq([path : Int, route : Int])
  /\ \A a, b \in Ingresses : a.uid = b.uid => a.key = b.key
  /\ \A a, b \in VirtualServers : a.uid = b.uid => a.key = b.key
  /\ \A a \in Ingresses, b \in VirtualServers : a.uid # b.uid

vars == conf

Init == NewConfiguration

Next ==
  \/ \E ing \in Ingresses : AddOrUpdateIngress(ing) \/ DeleteIngress(ing.key)
  \/ \E vs \in VirtualServers : AddOrUpdateVirtualServer(vs) \/ DeleteVirtualServer(vs.key)
  \/ \E vsr \in VirtualServerRoutes :
       AddOrUpdateVirtualServerRoute(vsr) \/ DeleteVirtualServerRoute(vsr.key)
  \/ \E k \in building : BuildResource(k)
  \/ FinishRebuild

Spec == Init /\ [][Next]_vars

-----------------------------------------------------------------------------
KeysOf(S) == {o.key : o \in S}
\* a map of objects of S by their keys
IsMapOf(m, S) == DOMAIN m \subseteq KeysOf(S) /\ \A k \in DOMAIN m : m[k] \in S /\ m[k].key = k
IngressKeys == KeysOf(Ingresses)
VirtualServerKeys == KeysOf(VirtualServers)
VirtualServerRouteKeys == KeysOf(VirtualServerRoutes)
AllResourceKeys == ({"Ingress"} \X IngressKeys) \cup ({"VirtualServer"} \X VirtualServerKeys)
AllKeys == AllResourceKeys \cup ({"VirtualServerRoute"} \X VirtualServerRouteKeys)

\* Type invariant: every map of Configuration is keyed by the key of the object
\* it holds, hosts and the locals of rebuild only name stored resources, and the
\* loop of rebuild has built exactly the resources it no longer has to visit.
TypeOK ==
  /\ IsMapOf(ingresses, Ingresses)
  /\ IsMapOf(virtualServers, VirtualServers)
  /\ IsMapOf(virtualServerRoutes, VirtualServerRoutes)
  /\ Range(hosts) \subseteq AllResourceKeys
  /\ DOMAIN resources = Range(hosts)
  /\ \A k \in DOMAIN resources : KeyWithKind(resources[k]) = k
  /\ DOMAIN problems \subseteq AllKeys
  /\ pc \in {"idle", "rebuild"}
  /\ building \subseteq StoredKeys
  /\ DOMAIN newResources = (IF pc = "rebuild" THEN StoredKeys \ building ELSE {})
  /\ \A k \in DOMAIN newResources : KeyWithKind(newResources[k]) = k
  /\ Range(newHosts) \subseteq DOMAIN newResources
  /\ rejected \in AllKeys \cup {NoKey}

=============================================================================
