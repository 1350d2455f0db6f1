-------------------------- MODULE MCIngressConfig --------------------------
(* Inputs of IngressConfig for TLC.  Settings: one annotation at a time in *)
(* the master, in a minion and in the ConfigMap, and the groups that are   *)
(* parsed together.  Backends: an Ingress, a mergeable Ingress and a       *)
(* VirtualServer whose Services and ConfigMap then change.                 *)
EXTENDS IngressConfig

Web == <<"web", <<>>>>
Web1 == <<"web", <<1>>>>
P80 == <<8, 0>>
P180 == <<1, 8, 0>>

St(plus) == [plus |-> plus, appProtect |-> plus, internalRoutes |-> TRUE]

Path(p, svc, port) == [path |-> p, exact |-> FALSE, svc |-> svc, port |-> port]
Exact(p, svc, port) == [Path(p, svc, port) EXCEPT !.exact = TRUE]

Ing(name, type, rules, backend, ann) ==
    [name |-> name, type |-> type, rules |-> rules, backend |-> backend,
     ann |-> ann, validHosts |-> {"h"}, validPaths |-> {"", "/", "/a", "/b"}]

Service(type, ports, subsets, probe) ==
    [type |-> type, ports |-> ports, subsets |-> subsets, probe |-> probe]

Subset(port, addrs) == [port |-> port, addrs |-> addrs]

Ports == (P80 :> 8080) @@ (P180 :> 8080)

Steady == Service("ClusterIP", Ports, <<Subset(8080, {"a1"})>>, "p1")

Services == [s \in {Web, Web1} |-> Steady]

\* A partial function from k with one of the values, or without it.
May(k, values) == {<<>>} \cup {k :> v : v \in values}

Raw(k, st) ==
    IF k = "lb-method" /\ ~st.plus THEN Good ELSE {"yes", "no", "plus", Junk}

Master(ann) == Ing("master", "master", <<[host |-> "h", paths |-> <<>>]>>, Nil, ann)
Minion(name, paths, ann) ==
    Ing(name, "minion", <<[host |-> "h", paths |-> paths]>>,
        [type |-> "backend", svc |-> Web, port |-> P80], ann)

Input(plus, kind, ings, ups, c, cm, bound) ==
    [st |-> St(plus), kind |-> kind, ings |-> ings, ups |-> ups,
     cluster |-> c, configMap |-> cm, bound |-> bound]

Mergeable(plus, master, minion, cm) ==
    Input(plus, "mergeable",
          <<Master(master), Minion("m1", <<Path("/a", Web, P80)>>, minion),
            Minion("m2", <<Path("/b", Web, P80)>>, <<>>)>>,
          <<>>, Services, cm, 0)

Single(plus, ann, cm) ==
    Input(plus, "regular",
          <<Ing("i", "regular", <<[host |-> "h", paths |-> <<Path("/a", Web, P80)>>]>>,
                Nil, ann)>>, <<>>, Services, cm, 0)

Valid(inputs) ==
    {x \in inputs : \A i \in DOMAIN x.ings :
        ValidateIngressAnnotations(x.ings[i].ann, x.st)}

\* The annotations that are checked against one another come as a group.
SingleKeys == ValueAnnotations \ (HSTSKeys \cup JWTAnnotations \cup
    (ForcedAnnotations \ {"slow-start"}))

OneKeyInputs ==
    UNION {UNION {
        {Mergeable(plus, a, b, c) :
            a \in May(k, Raw(k, St(plus))), b \in May(k, Raw(k, St(plus))),
            c \in IF k \in ConfigMapKeys THEN May(k, {"yes", Junk}) ELSE {<<>>}} :
        k \in SingleKeys} : plus \in BOOLEAN}

HSTS(values) ==
    {a @@ b @@ c : a \in May("hsts", values), b \in May("hsts-max-age", values),
                   c \in May("hsts-behind-proxy", values)}

GroupInputs ==
    UNION {
        {Mergeable(TRUE, a, b, c) : a \in HSTS({"yes", Junk}),
            b \in HSTS({"no"}), c \in HSTS({"no"})},
        {Mergeable(plus, a, b, <<>>) : plus \in BOOLEAN,
            a \in May("listen-ports", {<<"no">>, <<"high">>, <<"high", "yes", Junk>>}),
            b \in May("listen-ports", {<<"yes">>})},
        {Single(plus, a @@ b, c) : plus \in BOOLEAN,
            a \in May("grpc-services", {{Web}, {Web1}}),
            b \in May("rewrites", {{Web}}), c \in May("http2", {"yes", Junk})},
        {Mergeable(TRUE, a, b @@ c, <<>>) :
            a \in May("jwt-key", {"yes"}), b \in May("jwt-key", {"no"}),
            c \in May("jwt-login-url", {"yes"})},
        {Single(plus, <<>>, c) : plus \in BOOLEAN,
            c \in UNION {May(k, {"yes", Junk}) : k \in ConfigMapKeys}}}

\* One minion with two paths, with and without a login page; the other one has
\* the second path when the first has not.
LoginInputs ==
    {[Mergeable(TRUE, <<>>, b @@ c, <<>>) EXCEPT
        !.ings[2].rules = <<[host |-> "h", paths |-> <<Path("/a", Web, P80),
                                                      Path("/b", Web1, P80)>>]>>,
        !.ings[2].validPaths = valid, !.ings[3].validPaths = {"/b"} \ valid,
        !.bound = 1] :
        valid \in {{"/a"}, {"/a", "/b"}},
        b \in May("jwt-key", {"yes"}), c \in May("jwt-login-url", {"yes"})}

\* Two paths that may name the same location, beside a default backend, and
\* minions with such paths.
PathInputs ==
    LET paths == {Path("", Web, P80), Path("/", Web, P80), Path("/a", Web, P80),
                  Exact("/", Web, P80)}
        backend == [type |-> "backend", svc |-> Web1, port |-> P80]
    IN  {Input(FALSE, "regular",
            <<Ing("i", "regular", <<[host |-> "h", paths |-> <<p, q>>]>>, b, <<>>)>>,
            <<>>, Services, <<>>, 0) :
            p \in paths, q \in paths, b \in {Nil, backend}}
        \cup {Input(FALSE, "mergeable",
            <<Master(<<>>), Minion("m1", <<x[1]>>, <<>>), Minion("m2", <<x[2]>>, <<>>)>>,
            <<>>, Services, <<>>, 0) :
            x \in {y \in paths \X paths : y[1].path # y[2].path}}

Probed == ("health-checks" :> "yes") @@ ("health-checks-mandatory" :> "yes")
Queues == May("health-checks-mandatory-queue", {"yes", "huge"})

\* An Ingress with a default backend and a host it did not win.
RegularInputs ==
    {Input(plus, "regular",
        <<Ing("i", "regular",
              <<[host |-> "h", paths |-> <<Path("/a", Web, P80), Path("/b", s, p)>>],
                [host |-> "lost", paths |-> <<Path("/", Web, P80)>>]>>,
              b, a)>>, <<>>, Services, <<>>, 2) :
        plus \in BOOLEAN, s \in {Web1}, p \in {P80},
        b \in {Nil, [type |-> "backend", svc |-> Web, port |-> P180]},
        a \in {<<>>} \cup {Probed @@ q : q \in Queues}}

\* Three changes: one backend, and two that share their key.
LongInputs ==
    {Input(plus, "regular",
        <<Ing("i", "regular", <<[host |-> "h", paths |-> ps]>>, Nil, <<>>)>>,
        <<>>, Restrict(Services, {ps[i].svc : i \in DOMAIN ps}), <<>>, 3) :
        plus \in BOOLEAN,
        ps \in {<<Path("/a", Web, P80)>>, <<Path("/a", Web, P180), Path("/b", Web1, P80)>>}}

MergedInputs ==
    {[Mergeable(plus, "max-fails" :> "yes", a, <<>>) EXCEPT !.bound = 2] :
        plus \in BOOLEAN, a \in {<<>>, "max-fails" :> "no", "slow-start" :> "yes"}}

Up(name, svc, sub, own) ==
    [name |-> <<"vs", name>>, svc |-> svc, port |-> P80, sub |-> sub, own |-> own]

VSInputs ==
    {Input(plus, "vs", <<>>,
        <<Up("u1", Web, FALSE, a), Up("u2", Web1, TRUE, <<>>)>>,
        Services, <<>>, 2) : plus \in BOOLEAN,
        a \in {<<>>, "max-fails" :> "no",
               ("slow-start" :> "yes") @@ ("lb-method" :> "yes")}}

MCInputs ==
    Valid(OneKeyInputs \cup GroupInputs \cup LoginInputs \cup PathInputs
            \cup RegularInputs \cup LongInputs \cup MergedInputs \cup VSInputs)

MCServiceStates ==
    {Steady,
     Service("none", <<>>, <<>>, "none"),
     Service("ExternalName", Ports, <<>>, "none"),
     Service("ClusterIP", Ports, <<>>, "none"),
     Service("ClusterIP", Ports, <<Subset(8080, {"a1", "a2"})>>, "p2"),
     Service("ClusterIP", P80 :> Named,
             <<Subset(8080, {"a1"}), Subset(9090, {"a2"})>>, "p1")}

MCConfigMaps ==
    {<<>>, "resolver-addresses" :> "yes", "lb-method" :> "yes",
     ("ingress-template" :> Junk) @@ ("max-fails" :> "no")}

MCSubPods == {"a1"}

=============================================================================
