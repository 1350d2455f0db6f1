--------------------------- MODULE MCConfiguration ---------------------------
(***************************************************************************)
(* Instances of ConfigurationCalls.  In each, a generation number stands   *)
(* for one specification, so that two versions of an object with the same  *)
(* generation have the same specification, as the API server guarantees    *)
(* for an object that keeps its name.                                      *)
(***************************************************************************)
EXTENDS ConfigurationCalls

Ing(key, uid, created, gen, type, rules, paths) ==
  [key |-> key, uid |-> uid, created |-> created, generation |-> gen,
   annotations |-> "a", class |-> TRUE, valid |-> TRUE, type |-> type,
   rules |-> rules, paths |-> paths]
VS(key, uid, created, gen, host, routes) ==
  [key |-> key, uid |-> uid, created |-> created, generation |-> gen,
   class |-> TRUE, valid |-> TRUE, host |-> host, routes |-> routes]
VSR(key, gen, host, prefixes) ==
  [key |-> key, uid |-> 100 + key, created |-> 1, generation |-> gen,
   class |-> TRUE, valid |-> TRUE, host |-> host, prefixes |-> prefixes]

Foreign(o) == [o EXCEPT !.class = FALSE]
Invalid(o) == [o EXCEPT !.valid = FALSE]
WithAnnotations(o, a) == [o EXCEPT !.annotations = a]

\* Hosts: two Ingresses and a VirtualServer compete for two hosts.  Each exists in
\* two incarnations, of age 1 and 2; equal ages occur, and UIDs order them both ways.
HostIngresses ==
  LET versions(key, uid, t) ==
        {Ing(key, uid, t, 1, "regular", <<1>>, <<>>),
         Ing(key, uid, t, 2, "regular", <<2, 1>>, <<>>)}
  IN versions(1, 12, 1) \cup versions(1, 21, 2) \cup versions(2, 11, 1) \cup versions(2, 23, 2)
       \cup {Ing(1, 12, 1, 3, "regular", <<1, 1>>, <<>>),
             Foreign(Ing(2, 11, 1, 1, "regular", <<1>>, <<>>)),
             WithAnnotations(Ing(2, 23, 2, 1, "regular", <<1>>, <<>>), "b")}
HostVirtualServers ==
  {VS(1, 13, 1, 1, 1, <<>>), VS(1, 22, 2, 1, 1, <<>>), VS(1, 22, 2, 2, 2, <<>>),
   Invalid(VS(1, 22, 2, 3, 2, <<>>)), Foreign(VS(1, 13, 1, 1, 1, <<>>))}

\* Minions: two masters of host 1, one of which turns into a regular Ingress, two
\* minions with overlapping paths that also move to host 2, list a path twice or lose
\* their paths, and a VirtualServer that may take the host from the masters.
MinionIngresses ==
  {Ing(1, 121, 2, 1, "master", <<1>>, <<>>), Ing(1, 121, 2, 1, "regular", <<1>>, <<>>),
   Ing(2, 112, 1, 1, "minion", <<1>>, <<1>>), Ing(2, 122, 2, 1, "minion", <<1>>, <<1>>),
   Ing(2, 122, 2, 2, "minion", <<1>>, <<1, 2>>), Ing(2, 122, 2, 3, "minion", <<2>>, <<1>>),
   Ing(2, 122, 2, 4, "minion", <<1>>, <<1, 1>>),
   Ing(3, 123, 2, 1, "minion", <<1>>, <<2, 1>>), Ing(3, 123, 2, 2, "minion", <<1>>, <<>>),
   Ing(3, 113, 1, 1, "minion", <<1>>, <<2, 1>>),
   Ing(4, 124, 2, 1, "master", <<1>>, <<>>), Ing(4, 124, 2, 2, "master", <<1, 2>>, <<>>)}
MinionVirtualServers == {VS(1, 111, 1, 1, 1, <<>>), VS(1, 111, 1, 2, 2, <<>>)}

\* Routes: two VirtualServers and an Ingress compete for host 1, and the
\* VirtualServers refer to two VirtualServerRoutes that fit them or not.
RouteIngresses ==
  {Ing(1, 212, 1, 1, "regular", <<1>>, <<>>), Ing(1, 212, 1, 2, "regular", <<2>>, <<>>)}
RouteVirtualServers ==
  LET to(p, v) == [path |-> p, route |-> v]
  IN {VS(1, 221, 2, 1, 1, <<to(1, 1), to(2, 2)>>), VS(1, 221, 2, 2, 1, <<to(2, 1), to(1, 0)>>),
      VS(2, 222, 2, 1, 1, <<to(1, 2)>>), VS(2, 222, 2, 2, 2, <<to(1, 1)>>)}
RouteVirtualServerRoutes ==
  {VSR(1, 1, 1, {1, 2}), VSR(1, 2, 2, {1}), VSR(1, 3, 1, {1}), Invalid(VSR(1, 4, 1, {1})),
   VSR(2, 1, 1, {2}), VSR(2, 2, 1, {1}), Foreign(VSR(2, 2, 1, {1}))}
-----------------------------------------------------------------------------
\* One run for all of them: the scenario decides which objects are stored; what is
\* rejected may come from any of them.

Scenarios ==
  {[ingresses |-> HostIngresses, servers |-> HostVirtualServers, routes |-> {}],
   [ingresses |-> MinionIngresses, servers |-> MinionVirtualServers, routes |-> {}],
   [ingresses |-> RouteIngresses, servers |-> RouteVirtualServers,
    routes |-> RouteVirtualServerRoutes]}

AllIngresses == UNION {s.ingresses : s \in Scenarios}
AllVirtualServers == UNION {s.servers : s \in Scenarios}
AllVirtualServerRoutes == UNION {s.routes : s \in Scenarios}

VARIABLE scenario

InScenario ==
  /\ Range(ingresses) \subseteq scenario.ingresses
  /\ Range(virtualServers) \subseteq scenario.servers
  /\ Range(virtualServerRoutes) \subseteq scenario.routes

MCInit == Init /\ scenario \in Scenarios
MCNext == Next /\ UNCHANGED scenario /\ InScenario'
MCSpec == MCInit /\ [][MCNext]_<<vars, scenario>>
=============================================================================
