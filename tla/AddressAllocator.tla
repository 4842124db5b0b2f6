-------------------------- MODULE AddressAllocator --------------------------
(***************************************************************************)
(* The pool of loopback hosts of the tunnel provider                       *)
(* (internal/providers/chisel/address_allocator.go).  The pool itself, the *)
(* set usedHosts, is a variable of TunnelRegistry: every method runs with  *)
(* the Service's mutex held.  This module holds the pure part: how a       *)
(* cluster name is turned into the sequence of hosts that allocate probes, *)
(* and which of them it picks.                                             *)
(***************************************************************************)
EXTENDS Integers, FiniteSetsExt

CONSTANTS
    Clusters,  \* cluster names
    Octet,     \* usable values of one octet (254 in the code)
    UintMod,   \* 2^32 in the code: the arithmetic on indices is uint32
    HashKey    \* hashKey: the FNV-1a hash of a name, a fixed uint32 per name

maxHosts == Octet * Octet * Octet

ASSUME AllocatorAssumption ==
    /\ Octet \in Nat \ {0}
    /\ UintMod \in Nat \ {0}
    /\ maxHosts <= UintMod
    /\ HashKey \in [Clusters -> 0..(UintMod - 1)]

\* The loopback addresses 127.a.b.c, written <<a, b, c>>.
Hosts == (1..Octet) \X (1..Octet) \X (1..Octet)

hostFromIndex(idx) ==
    <<(idx \div (Octet * Octet)) + 1,
      ((idx \div Octet) % Octet) + 1,
      (idx % Octet) + 1>>

\* (base + i) % uint32(maxHosts): the sum wraps at the width of uint32 first.
probeIndex(cluster, i) == ((HashKey[cluster] + i) % UintMod) % maxHosts

\* The host tried in iteration i of the loop of allocate.
candidate(cluster, i) == hostFromIndex(probeIndex(cluster, i))

\* (mutation) usedHosts is not consulted
freeProbesAll(cluster, used) == 0..(maxHosts - 1)

\* The iterations that would find an unused host, and the hosts a name can get.
freeProbes(cluster, used) ==
    {i \in 0..(maxHosts - 1) : candidate(cluster, i) \notin used}
probedHosts(cluster) == {candidate(cluster, i) : i \in 0..(maxHosts - 1)}

\* allocate returns an error exactly when every probed host is used ...
exhausted(cluster, used) == freeProbes(cluster, used) = {}

\* ... and otherwise the first unused host of the probe sequence.
allocate(cluster, used) == candidate(cluster, Min(freeProbes(cluster, used)))
=============================================================================
