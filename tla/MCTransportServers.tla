-------------------------- MODULE MCTransportServers -------------------------
(***************************************************************************)
(* Instances of TransportServers: two TransportServers, one service, and   *)
(* GlobalConfigurations that add, remove and renumber listeners.           *)
(***************************************************************************)
EXTENDS TransportServers, TLC

TS(listener, protocol, host) ==
  [listener |-> listener, protocol |-> protocol, host |-> host, service |-> "s", valid |-> TRUE]
Tcp(listener) == TS(listener, "TCP", 0)
Passthrough(host) == TS(PassthroughName, PassthroughProtocol, host)
Listener(name, port) == [name |-> name, port |-> port, protocol |-> "TCP"]

\* a TCP server that changes its listener, and one that competes for it
TcpSpecs ==
  1 :> {Tcp("a"), Tcp("b"), [Tcp("a") EXCEPT !.valid = FALSE]} @@ 2 :> {Tcp("a"), Tcp("b")}
\* TLS Passthrough servers that change their hosts, become invalid or turn to TCP
PassthroughSpecs ==
  1 :> {Passthrough(1), Passthrough(2), TS("a", "TCP", 1)}
    @@ 2 :> {Passthrough(1), Passthrough(2), Tcp("a")}
OneListener == <<Listener("a", 1)>>
\* b is added, a is renumbered, two configurations are invalid
AddingConfigs ==
  {OneListener, <<Listener("a", 1), Listener("b", 2)>>, <<Listener("b", 1), Listener("a", 2)>>,
   <<Listener("a", 1), Listener("b", 1)>>, <<Listener("a", 80)>>}
\* b takes the place of a
OtherListener == <<Listener("b", 2)>>
RemovingConfigs == {OneListener, OtherListener}
-----------------------------------------------------------------------------
\* A scenario is a choice of specifications and GlobalConfigurations.  A run goes
\* through all of its scenarios, with NGINX and with NGINX Plus.

CONSTANT Scenarios

CoreScenarios ==
  {[specs |-> TcpSpecs, configs |-> AddingConfigs],
   [specs |-> PassthroughSpecs, configs |-> {OtherListener}]}
TcpScenario == {[specs |-> TcpSpecs, configs |-> AddingConfigs]}
RemovingScenario == {[specs |-> TcpSpecs, configs |-> RemovingConfigs]}

\* the constants of TransportServers: all that some scenario offers
AllSpecs == [k \in 1..2 |-> UNION {s.specs[k] : s \in Scenarios}]
AllConfigs == UNION {s.configs : s \in Scenarios}

VARIABLE scenario

MCInit == Init /\ scenario \in Scenarios
MCNext == (Users(scenario.specs, scenario.configs) \/ Worker) /\ UNCHANGED scenario
MCSpec == MCInit /\ [][MCNext]_<<vars, scenario>>
=============================================================================
