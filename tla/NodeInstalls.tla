---------------------------- MODULE NodeInstalls ----------------------------
(* Nodes beside another component, with which it shares no state.          *)
EXTENDS Naturals

CONSTANTS Nodes, Machines, Internal, HostKeys, Installs, Nowhere, MaxInstalls, MaxBreaks

ASSUME NodesAssumption ==
  /\ Nowhere \notin Nodes \cup Machines \cup HostKeys
  /\ Internal \subseteq Machines
  /\ MaxInstalls \in Nat /\ MaxBreaks \in Nat

VARIABLES node, hostkey, joining, cluster, install, spare, strange

N == INSTANCE Nodes
       WITH None <- Nowhere, Tasks <- Installs, MaxTasks <- MaxInstalls, MaxFaults <- MaxBreaks,
            row <- node, task <- install, left <- spare, odd <- strange
nodeVars == <<node, hostkey, joining, cluster, install, spare, strange>>

(* A node shown as ready is in the cluster under its own name; its first   *)
(* host key is trusted ever after (node_service.go).                       *)
ReadyHasJoined == N!ReadyHasJoined
KeyIsPinned == N!KeyIsPinned
=============================================================================
