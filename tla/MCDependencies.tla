--------------------------- MODULE MCDependencies ---------------------------
(* Model-checking instance of Dependencies: an Ingress, a master with its  *)
(* minions and a VirtualServer that share secrets and services.            *)
EXTENDS Dependencies

NoFields == [fields |-> {}, allow |-> Nil, deny |-> Nil, options |-> Nil, secret |-> "",
             trusted |-> "", verifyServer |-> FALSE, wellFormed |-> TRUE]

JWT(s) == [NoFields EXCEPT !.fields = {"jwt"}, !.secret = s]
IngressMTLS(s) == [NoFields EXCEPT !.fields = {"ingressMTLS"}, !.secret = s]
EgressMTLS(s, t) == [NoFields EXCEPT !.fields = {"egressMTLS"}, !.secret = s, !.trusted = t]

Secret(t, v, n) == [type |-> t, valid |-> v, ver |-> n]

MCInitSecrets == "cert" :> Secret("tls", TRUE, 1) @@ "ca" :> Secret("ca", TRUE, 1)
                 @@ "key" :> Secret("jwk", TRUE, 1)
MCInitPolicies == "p" :> IngressMTLS("ca") @@ "q" :> JWT("key")

MCSecretValues == {Secret("tls", TRUE, 2), Secret("tls", FALSE, 2), Secret("ca", TRUE, 2),
                   Secret("jwk", TRUE, 2), Secret("opaque", TRUE, 1)}
MCPolicyValues == {EgressMTLS("cert", "ca"), JWT("key"), [JWT("key") EXCEPT !.secret = ""]}

MCConfigMapValues == {[params |-> 1, broken |-> FALSE], [params |-> 2, broken |-> TRUE]}

NoReferences == [tls |-> Nil, jwt |-> Nil, minionJWT |-> Nil, waf |-> Nil, services |-> {},
                 spec |-> <<>>, routes |-> <<>>, subroutes |-> <<>>]

MCResources ==
  "i" :> ([NoReferences EXCEPT !.tls = "cert", !.waf = "w", !.services = {"s"}] @@ [kind |-> "ingress"])
  @@ "m" :> ([NoReferences EXCEPT !.tls = "", !.minionJWT = "key", !.services = {"s"}]
             @@ [kind |-> "master"])
  @@ "v" :> ([NoReferences EXCEPT !.tls = "cert", !.services = {"s"}, !.spec = <<"p">>,
              !.routes = <<[policies |-> <<"q">>, ref |-> TRUE]>>, !.subroutes = <<<<>>>>]
             @@ [kind |-> "vs"])
=============================================================================
