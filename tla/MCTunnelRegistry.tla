-------------------------- MODULE MCTunnelRegistry --------------------------
(***************************************************************************)
(* Small instances of TunnelRegistry.  Both names hash to the last index,  *)
(* so that probing, the wrap at the end of the host range and the reuse of *)
(* a released host all happen.                                             *)
(***************************************************************************)
EXTENDS TunnelRegistry

CONSTANTS c1, c2, a1, a2, a3

\* Each name at the last index, so that the second probe wraps to the first.
LastIndexHash == [c \in Clusters |-> maxHosts - 1]

\* Each agent ID is used in one cluster; c1 has two agents (a rollout).
OwnAgents == {<<c1, a1>>, <<c1, a2>>, <<c2, a3>>}

\* One agent per cluster.
OneAgentEach == {<<c1, a1>>, <<c2, a2>>}
=============================================================================
