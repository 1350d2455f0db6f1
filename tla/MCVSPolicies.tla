---------------------------- MODULE MCVSPolicies ----------------------------
(* Model-checking instance of VSPolicies: two policies, two secrets.       *)
EXTENDS VSPolicies

NoFields == [fields |-> {}, allow |-> Nil, deny |-> Nil, options |-> Nil, secret |-> "",
             trusted |-> "", verifyServer |-> FALSE, wellFormed |-> TRUE]

Allow == [NoFields EXCEPT !.fields = {"accessControl"}, !.allow = <<"a">>]
Deny == [NoFields EXCEPT !.fields = {"accessControl"}, !.deny = <<"d">>]
Limit(o) == [NoFields EXCEPT !.fields = {"rateLimit"}, !.options = o]
JWT(s) == [NoFields EXCEPT !.fields = {"jwt"}, !.secret = s]
IngressMTLS(s) == [NoFields EXCEPT !.fields = {"ingressMTLS"}, !.secret = s]
EgressMTLS(s, t, v) == [NoFields EXCEPT !.fields = {"egressMTLS"}, !.secret = s,
                                        !.trusted = t, !.verifyServer = v]
Two == [Allow EXCEPT !.fields = {"accessControl", "rateLimit"}]

MCPolicyValues == {Allow, JWT("s2"), IngressMTLS("s1"), EgressMTLS("s1", "s2", TRUE)}

MCListers ==
  [{"p1", "p2"} -> {Nil, Allow, Deny, Limit(1), Limit(2), JWT("s1"), JWT("s2"), Two,
                    IngressMTLS("s1"), EgressMTLS("s1", "s2", TRUE),
                    EgressMTLS("", "s2", FALSE), EgressMTLS("s1", "", TRUE)}]

MCStores == {s \in [{"s1", "s2"} -> {"missing", "invalid", "tls", "ca", "jwk"}] :
               s["s1"] # "invalid" /\ s["s2"] # "missing"}

Route(ps, ref) == [policies |-> ps, ref |-> ref]

\* The references of the spec, of two routes and of two subroutes.
MCInputs ==
  { [tls |-> "s1", spec |-> <<"p1", "p2">>, routes |-> <<Route(<<>>, FALSE)>>, subroutes |-> <<>>],
    [tls |-> Nil, spec |-> <<"p1">>, routes |-> <<Route(<<"p1", "p2">>, FALSE)>>, subroutes |-> <<>>],
    [tls |-> "s2", spec |-> <<>>, routes |-> <<Route(<<"p1">>, FALSE), Route(<<"p2">>, TRUE)>>,
     subroutes |-> <<<<>>, <<"p1">>>>],
    [tls |-> "s1", spec |-> <<"p2">>, routes |-> <<Route(<<>>, TRUE)>>,
     subroutes |-> <<<<"p2", "p1">>, <<>>>>],
    [tls |-> "", spec |-> <<"p2">>, routes |-> <<Route(<<"p1">>, TRUE), Route(<<"p2">>, TRUE)>>,
     subroutes |-> <<<<>>>>] }
=============================================================================
