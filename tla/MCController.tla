---------------------------- MODULE MCController -----------------------------
(***************************************************************************)
(* Instances of Controller: what users may write into each object.         *)
(***************************************************************************)
EXTENDS Controller, TLC

Ing(key, type, rules, paths) ==
  [key |-> key, uid |-> 0, created |-> 0, generation |-> 0, annotations |-> "a",
   class |-> TRUE, valid |-> TRUE, type |-> type, rules |-> rules, paths |-> paths]
VS(key, host, routes) ==
  [key |-> key, uid |-> 0, created |-> 0, generation |-> 0,
   class |-> TRUE, valid |-> TRUE, host |-> host, routes |-> routes]
VSR(key, host, prefixes) ==
  [key |-> key, uid |-> 0, created |-> 0, generation |-> 0,
   class |-> TRUE, valid |-> TRUE, host |-> host, prefixes |-> prefixes]
To(path, route) == [path |-> path, route |-> route]
Foreign(s) == [s EXCEPT !.class = FALSE]
Invalid(s) == [s EXCEPT !.valid = FALSE]

I(n) == <<"Ingress", n>>
V(n) == <<"VirtualServer", n>>
R(n) == <<"VirtualServerRoute", n>>

\* Ingress 4 has the file of Ingress 3
FileNames == [n \in 1..4 |-> IF n = 4 THEN 3 ELSE n]

\* two Ingresses and a VirtualServer compete for two hosts
HostSpecs ==
  I(1) :> {Ing(1, "regular", <<1>>, <<>>), Ing(1, "regular", <<2, 1>>, <<>>)}
    @@ I(2) :> {Ing(2, "regular", <<1>>, <<>>), Ing(2, "regular", <<2>>, <<>>)}
    @@ V(1) :> {VS(1, 1, <<>>), Invalid(VS(1, 2, <<>>))}

\* a master that may become a regular Ingress, two minions with a common path, one
\* of which may become invalid, and a VirtualServer that may take the host
MinionSpecs ==
  I(1) :> {Ing(1, "master", <<1>>, <<>>), Ing(1, "regular", <<1>>, <<>>)}
    @@ I(2) :> {Ing(2, "minion", <<1>>, <<1>>), Ing(2, "minion", <<1>>, <<>>)}
    @@ I(3) :> {Ing(3, "minion", <<1>>, <<1, 2>>)}
    @@ V(1) :> {VS(1, 1, <<>>)}

\* a VirtualServer and its two VirtualServerRoutes, of which one changes its host,
\* and an Ingress that competes for the host
RouteSpecs ==
  V(1) :> {VS(1, 1, <<To(1, 1), To(2, 2)>>), VS(1, 1, <<To(1, 1)>>)}
    @@ R(1) :> {VSR(1, 1, {1}), VSR(1, 2, {1}), Invalid(VSR(1, 1, {1}))}
    @@ R(2) :> {VSR(2, 1, {2})}
    @@ I(1) :> {Ing(1, "regular", <<1>>, <<>>)}

\* one host, an Ingress and a VirtualServer
PairSpecs ==
  I(1) :> {Ing(1, "regular", <<1>>, <<>>), Ing(1, "regular", <<2>>, <<>>)}
    @@ V(1) :> {VS(1, 1, <<>>)}

\* two Ingresses that change places
SwapSpecs ==
  I(1) :> {Ing(1, "regular", <<2, 1>>, <<>>)}
    @@ I(2) :> {Ing(2, "regular", <<1>>, <<>>), Ing(2, "regular", <<2>>, <<>>)}

\* a VirtualServer that may lose its host to an Ingress, and its VirtualServerRoute
WarningSpecs ==
  V(1) :> {VS(1, 1, <<To(1, 1)>>)}
    @@ R(1) :> {VSR(1, 1, {1}), Invalid(VSR(1, 1, {1}))}
    @@ I(1) :> {Ing(1, "regular", <<1>>, <<>>)}

\* two Ingresses whose names make the same file name, one of which may change its class
SharedSpecs ==
  I(3) :> {Ing(3, "regular", <<1>>, <<>>), Foreign(Ing(3, "regular", <<1>>, <<>>))}
    @@ I(4) :> {Ing(4, "regular", <<2>>, <<>>), Ing(4, "regular", <<3>>, <<>>)}

-----------------------------------------------------------------------------
\* A scenario is a choice of objects, UIDs, ages, edits, outcomes of reloads and
\* warnings, and of whether the worker may see an old status.  The run goes through
\* all of its scenarios.

CONSTANT Scenarios

Calm == [uids |-> 1..4, ages |-> {1}, edits |-> 4, reloads |-> {TRUE}, warnings |-> {{}},
         lag |-> FALSE]

CoreScenarios ==
  {[specs |-> HostSpecs, uids |-> 1..3, ages |-> 1..2] @@ Calm,
   [specs |-> MinionSpecs] @@ Calm,
   [specs |-> RouteSpecs, uids |-> 1..3, reloads |-> BOOLEAN] @@ Calm,
   [specs |-> WarningSpecs, uids |-> 1..3, warnings |-> {{}, {V(1)}, {R(1)}}, lag |-> TRUE] @@ Calm,
   [specs |-> SharedSpecs] @@ Calm}
PairScenario == {[specs |-> PairSpecs, uids |-> 1..3, ages |-> 1..2, edits |-> 3, lag |-> TRUE] @@ Calm}
SwapScenario == {[specs |-> SwapSpecs, uids |-> 1..2, ages |-> 1..2] @@ Calm}

\* the constants of Controller: all that some scenario offers
AllSpecs ==
  [k \in UNION {DOMAIN s.specs : s \in Scenarios} |->
     UNION {s.specs[k] : s \in {t \in Scenarios : k \in DOMAIN t.specs}}]
AllUids == UNION {s.uids : s \in Scenarios}
AllReloadResults == UNION {s.reloads : s \in Scenarios}
AllWarnings == UNION {s.warnings : s \in Scenarios}

VARIABLE scenario

MCInit == Init /\ scenario \in Scenarios
MCUsers ==
  /\ edits < scenario.edits
  /\ Users(scenario.specs, scenario.uids, scenario.ages)
  /\ UNCHANGED scenario
MCWorker ==
  /\ scenario.lag \/ seen = status
  /\ Worker(scenario.reloads, scenario.warnings)
  /\ UNCHANGED scenario
MCInformer == Informer /\ UNCHANGED scenario
MCNext == MCUsers \/ MCWorker \/ MCInformer
\* the worker may have to wait for the informer
MCSpec ==
  MCInit /\ [][MCNext]_<<vars, scenario>> /\ WF_<<vars, scenario>>(MCWorker \/ MCInformer)
=============================================================================
