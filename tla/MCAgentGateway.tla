---------------------------- MODULE MCAgentGateway ----------------------------
(* Small instances, side by side, of the server's view of its agents: a
   behaviour is one of an agent's connections or of the host inventory. *)
EXTENDS Gateway, Fleet, TLC

VARIABLE part

Alike == Permutations(Workers) \union Permutations(Hosts)

Init == part \in {"connections", "hosts"} /\ GatewayInit /\ FleetInit

Next ==
  /\ UNCHANGED part
  /\ \/ part = "connections" /\ GatewayNext /\ UNCHANGED fleetVars
     \/ part = "hosts" /\ FleetNext /\ UNCHANGED gatewayVars

\* A second failure once the command is sent only on the first connection.  Of two
\* hosts, one request or one failure; both only beside a host that is new.
Few ==
  /\ gatewayFaults' > 1 => home'[2] = None \/ call'[1].step = "new"
  /\ ops' + faults' > 1 => Cardinality({h \in Hosts : stage'[h] # "new"}) <= 1

BoundedSpec == Init /\ [][Next /\ Few]_<<part, gatewayVars, fleetVars>>
=============================================================================
