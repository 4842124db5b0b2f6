-------------------------- MODULE ClusterDirectory --------------------------
(***************************************************************************)
(* What the tunnel provider promises its callers (core.TunnelProvider): a  *)
(* directory from cluster names to addresses in which no two clusters ever *)
(* have the same address.  TunnelRegistry is shown to implement it.        *)
(***************************************************************************)
EXTENDS GoMaps

CONSTANTS Names, Addresses

VARIABLE addr   \* the address of every known cluster

DirectoryInit == addr = EmptyMap

\* ResolveAddress of name answers address from now on.
Assign(name, address) ==
    /\ \A n \in DOMAIN addr \ {name} : addr[n] # address
    /\ addr' = MapPut(addr, name, address)

\* The cluster is gone, ResolveAddress reports ErrClusterNotFound.
Remove(name) ==
    /\ name \in DOMAIN addr
    /\ addr' = MapDelete(addr, name)

DirectoryNext ==
    \/ \E name \in Names, address \in Addresses : Assign(name, address)
    \/ \E name \in Names : Remove(name)

DirectorySpec == DirectoryInit /\ [][DirectoryNext]_addr
=============================================================================
