------------------------ MODULE TunnelRegistryProofs ------------------------
(***************************************************************************)
(* The safety properties of TunnelRegistry, for every set of clusters,     *)
(* agents and concurrent calls and every size of the address space, after  *)
(* those of its AddressAllocator.                                          *)
(***************************************************************************)
EXTENDS TunnelRegistry, WellFoundedInduction, TLAPS

(***************************************************************************)
(* Go maps.                                                                *)
(***************************************************************************)
\* m[k] = v adds or changes the entry of k and no other.
LEMMA MapPutFacts ==
    ASSUME NEW m, NEW k, NEW v
    PROVE  /\ DOMAIN MapPut(m, k, v) = DOMAIN m \cup {k}
           /\ MapPut(m, k, v)[k] = v
           /\ \A x \in DOMAIN m : x # k => MapPut(m, k, v)[x] = m[x]
BY DEF MapPut

\* delete(m, k) removes k and changes no other entry.
LEMMA MapDeleteFacts ==
    ASSUME NEW m, NEW k
    PROVE  /\ DOMAIN MapDelete(m, k) = DOMAIN m \ {k}
           /\ \A x \in DOMAIN m : x # k => MapDelete(m, k)[x] = m[x]
BY DEF MapDelete

\* An assignment to a map keeps its type.
LEMMA MapPutType ==
    ASSUME NEW K, NEW V, NEW m, IsMap(m, K, V), NEW k \in K, NEW v \in V
    PROVE  IsMap(MapPut(m, k, v), K, V)
BY DEF MapPut, IsMap

\* A deletion from a map keeps its type.
LEMMA MapDeleteType ==
    ASSUME NEW K, NEW V, NEW m, IsMap(m, K, V), NEW k
    PROVE  IsMap(MapDelete(m, k), K, V)
BY DEF MapDelete, IsMap

\* The empty map has every map type.
LEMMA EmptyMapType ==
    ASSUME NEW K, NEW V
    PROVE  IsMap(EmptyMap, K, V) /\ DOMAIN EmptyMap = {}
BY DEF EmptyMap, IsMap
-----------------------------------------------------------------------------
(***************************************************************************)
(* What allocate returns, for every size of the address space.             *)
(***************************************************************************)
\* A nonempty set of naturals has a least element, and Min picks it.
LEMMA MinOfNaturals ==
    ASSUME NEW S \in SUBSET Nat, S # {}
    PROVE  Min(S) \in S /\ \A n \in S : Min(S) <= n
<1> DEFINE Less == {p \in Nat \X Nat : p[1] < p[2]}
<1>1. OpToRel(<, Nat) = Less
  BY Zenon DEF OpToRel
<1>2. IsWellFoundedOn(Less, Nat)
  BY <1>1, NatLessThanWellFounded, Zenon
<1>3. PICK x \in S : \A y \in S : ~(<<y, x>> \in Less)
  <2> HIDE DEF Less
  <2>1. S \subseteq Nat
    OBVIOUS
  <2> QED  BY <1>2, <2>1, WFMin, Zenon
<1>4. ASSUME NEW y \in S PROVE x <= y
  <2>1. <<y, x>> \in Nat \X Nat /\ <<y, x>>[1] = y /\ <<y, x>>[2] = x
    OBVIOUS
  <2>2. ~(<<y, x>>[1] < <<y, x>>[2])
    BY <1>3, <2>1, Zenon
  <2> QED  BY <2>1, <2>2
<1> QED  BY <1>4, Zenon DEF Min

\* maxHosts is a positive natural number.
LEMMA MaxHostsType == maxHosts \in Nat \ {0}
BY AllocatorAssumption DEF maxHosts

\* Quotient and remainder by a positive number (b), as one decomposition.
LEMMA DivMod ==
    ASSUME NEW a \in Nat, NEW b \in Nat \ {0}
    PROVE  /\ a \div b \in Nat
           /\ a % b \in 0..(b - 1)
           /\ a = b * (a \div b) + (a % b)
OBVIOUS

\* A quotient by b is below c when the dividend is below b * c.
LEMMA DivBound ==
    ASSUME NEW a \in Nat, NEW b \in Nat \ {0}, NEW c \in Nat, a < b * c
    PROVE  a \div b \in 0..(c - 1)
<1> DEFINE q == a \div b
<1>1. q \in Nat /\ b * q <= a
  BY DivMod
<1> HIDE DEF q
<1>2. SUFFICES ASSUME q >= c PROVE FALSE
  BY <1>1 DEF q
<1>3. b * q >= b * c
  BY <1>1, <1>2
<1> QED  BY <1>1, <1>3

\* hostFromIndex yields an address of the pool for every index below maxHosts.
LEMMA HostFromIndexType ==
    ASSUME NEW idx \in 0..(maxHosts - 1)
    PROVE  hostFromIndex(idx) \in Hosts
<1> USE AllocatorAssumption
<1> DEFINE OO == Octet * Octet
<1>1. OO \in Nat \ {0} /\ idx \in Nat /\ idx < OO * Octet
  BY DEF maxHosts
<1>2. idx \div OO \in 0..(Octet - 1)
  <2> HIDE DEF OO
  <2> QED  BY <1>1, DivBound, Zenon
<1>3. (idx \div Octet) % Octet \in 0..(Octet - 1)
  BY <1>1, DivMod
<1>4. idx % Octet \in 0..(Octet - 1)
  BY <1>1, DivMod
<1>5. /\ (idx \div OO) + 1 \in 1..Octet
      /\ ((idx \div Octet) % Octet) + 1 \in 1..Octet
      /\ (idx % Octet) + 1 \in 1..Octet
  BY <1>2, <1>3, <1>4
<1> QED  BY <1>5, Zenon DEF hostFromIndex, Hosts

\* The probe sequence stays below maxHosts.
LEMMA ProbeIndexType ==
    ASSUME NEW c \in Clusters, NEW i \in 0..(maxHosts - 1)
    PROVE  probeIndex(c, i) \in 0..(maxHosts - 1)
<1> USE AllocatorAssumption, MaxHostsType
<1>1. HashKey[c] + i \in Nat
  OBVIOUS
<1>2. (HashKey[c] + i) % UintMod \in Nat
  BY <1>1, DivMod
<1> QED  BY <1>2, DivMod, Zenon DEF probeIndex

\* allocate: a host it returns is in the pool, was unused, and is on the probe
\* sequence of the cluster's name.
THEOREM AllocateFresh ==
    ASSUME NEW c \in Clusters, NEW used, ~exhausted(c, used)
    PROVE  /\ allocate(c, used) \in Hosts
           /\ allocate(c, used) \notin used
           /\ allocate(c, used) \in probedHosts(c)
<1> DEFINE F == freeProbes(c, used)
<1>1. F \in SUBSET Nat /\ F # {} /\ F \subseteq 0..(maxHosts - 1)
  BY MaxHostsType DEF exhausted, freeProbes
<1>2. Min(F) \in F
  <2> HIDE DEF F
  <2> QED  BY <1>1, MinOfNaturals
<1>3. PICK i \in 0..(maxHosts - 1) :
        allocate(c, used) = candidate(c, i) /\ candidate(c, i) \notin used
  BY <1>2 DEF allocate, freeProbes
<1>4. candidate(c, i) \in Hosts
  BY HostFromIndexType, ProbeIndexType DEF candidate
<1> QED  BY <1>3, <1>4 DEF probedHosts

\* exhausted: allocate only fails when all hosts of the probe sequence are used.
THEOREM ExhaustedMeansProbedUsed ==
    ASSUME NEW c \in Clusters, NEW used
    PROVE  exhausted(c, used) <=> probedHosts(c) \subseteq used
BY DEF exhausted, freeProbes, probedHosts

-----------------------------------------------------------------------------
(***************************************************************************)
(* Where the sum of hash and probe number does not wrap at 2^32, the probe *)
(* sequence visits the whole pool.                                         *)
(***************************************************************************)

\* Quotient and remainder are determined by the decomposition.
LEMMA DivModUnique ==
    ASSUME NEW b \in Nat \ {0}, NEW q \in Nat, NEW r \in 0..(b - 1),
           NEW a \in Nat, a = b * q + r
    PROVE  a \div b = q /\ a % b = r
<1> DEFINE k == a \div b
           m == a % b
<1>1. k \in Nat /\ m \in 0..(b - 1) /\ a = b * k + m
  BY DivMod, Zenon
<1> HIDE DEF k, m
<1>2. ASSUME k < q PROVE FALSE
  <2>1. b * q >= b * (k + 1)
    BY <1>1, <1>2
  <2>2. b * (k + 1) = b * k + b
    BY <1>1
  <2> QED  BY <1>1, <2>1, <2>2
<1>3. ASSUME q < k PROVE FALSE
  <2>1. b * k >= b * (q + 1)
    BY <1>1, <1>3
  <2>2. b * (q + 1) = b * q + b
    OBVIOUS
  <2> QED  BY <1>1, <2>1, <2>2
<1>4. k = q
  BY <1>1, <1>2, <1>3
<1>5. m = r
  BY <1>1, <1>4
<1> QED  BY <1>4, <1>5 DEF k, m

\* A remainder is what the quotient leaves.
LEMMA ModFromDiv ==
    ASSUME NEW a \in Nat, NEW b \in Nat \ {0}
    PROVE  a % b = a - b * (a \div b)
<1> DEFINE k == a \div b
           m == a % b
<1>1. k \in Nat /\ m \in Nat /\ a = b * k + m
  BY DivMod
<1> HIDE DEF k, m
<1> QED  BY <1>1 DEF k, m

\* hostFromIndex is onto: every address of the pool has an index.
LEMMA HostFromIndexOnto ==
    ASSUME NEW h \in Hosts
    PROVE  \E idx \in 0..(maxHosts - 1) : hostFromIndex(idx) = h
<1> USE AllocatorAssumption
<1> DEFINE x == h[1] - 1
           y == h[2] - 1
           z == h[3] - 1
           OO == Octet * Octet
           yz == Octet * y + z
           xy == Octet * x + y
           idx == OO * x + yz
<1>1. h = <<h[1], h[2], h[3]>> /\ h[1] \in 1..Octet /\ h[2] \in 1..Octet /\ h[3] \in 1..Octet
  BY DEF Hosts
<1>2. x \in 0..(Octet - 1) /\ y \in 0..(Octet - 1) /\ z \in 0..(Octet - 1)
  BY <1>1
<1>3. h = <<x + 1, y + 1, z + 1>>
  BY <1>1
<1> HIDE DEF x, y, z
<1>4. Octet * y \in Nat /\ Octet * y <= Octet * (Octet - 1) /\ Octet * (Octet - 1) = OO - Octet
  BY <1>2
<1>5. OO \in Nat \ {0} /\ yz \in 0..(OO - 1)
  BY <1>2, <1>4
<1>6. OO * x \in Nat /\ OO * x <= OO * (Octet - 1) /\ OO * (Octet - 1) = maxHosts - OO
  BY <1>2 DEF maxHosts
<1>7. idx \in 0..(maxHosts - 1) /\ idx \in Nat
  BY <1>5, <1>6, MaxHostsType
<1>8. Octet * x \in Nat /\ xy \in Nat /\ idx = Octet * xy + z
  BY <1>2
<1>9. x \in Nat /\ Octet \in Nat \ {0} /\ idx = OO * x + yz /\ xy = Octet * x + y
  BY <1>2
<1> HIDE DEF OO, yz, xy, idx
<1>10. idx \div OO = x
  BY <1>5, <1>7, <1>9, DivModUnique, Zenon
<1>11. idx \div Octet = xy /\ idx % Octet = z
  <2>1. Octet \in Nat \ {0} /\ xy \in Nat /\ idx \in Nat /\ z \in 0..(Octet - 1)
    BY <1>2, <1>7, <1>8
  <2>2. idx = Octet * xy + z
    BY <1>8
  <2>3. idx \div Octet = xy
    BY <2>1, <2>2, DivModUnique, Zenon
  <2>4. idx % Octet = z
    BY <2>1, <2>2, <2>3, ModFromDiv, SMTT(30)
  <2> QED  BY <2>3, <2>4
<1>12. xy % Octet = y
  <2>1. Octet \in Nat \ {0} /\ x \in Nat /\ xy \in Nat /\ y \in 0..(Octet - 1)
    BY <1>2, <1>8, <1>9
  <2>2. xy = Octet * x + y
    BY <1>9
  <2>3. xy \div Octet = x
    BY <2>1, <2>2, DivModUnique, Zenon
  <2> QED  BY <2>1, <2>2, <2>3, ModFromDiv, SMTT(30)
<1>13. hostFromIndex(idx) = <<x + 1, y + 1, z + 1>>
  BY <1>10, <1>11, <1>12, Zenon DEF hostFromIndex, OO
<1> QED  BY <1>3, <1>7, <1>13

\* A name whose hash leaves room for maxHosts probes below 2^32 reaches every
\* index.
LEMMA NoWrapReachesIndex ==
    ASSUME NEW c \in Clusters, HashKey[c] + maxHosts <= UintMod,
           NEW t \in 0..(maxHosts - 1)
    PROVE  \E i \in 0..(maxHosts - 1) : probeIndex(c, i) = t
<1> USE AllocatorAssumption, MaxHostsType
<1> DEFINE B == HashKey[c]
           M == maxHosts
           k == B \div M
           m == B % M
<1>1. B \in Nat /\ M \in Nat \ {0}
  OBVIOUS
<1>2. k \in Nat /\ m \in 0..(M - 1) /\ B = M * k + m
  BY <1>1, DivMod, Zenon
<1>3. ASSUME NEW i \in 0..(M - 1) PROVE (B + i) % UintMod = B + i
  <2>1. B + i \in 0..(UintMod - 1)
    BY <1>1
  <2>2. B + i = UintMod * 0 + (B + i)
    BY <1>1
  <2> QED  BY <1>1, <2>1, <2>2, DivModUnique
<1> HIDE DEF B, M, k, m
<1>4. CASE t >= m
  <2>1. t - m \in 0..(M - 1) /\ B + (t - m) = M * k + t /\ B + (t - m) \in Nat
    BY <1>1, <1>2, <1>4 DEF M
  <2>2. (B + (t - m)) % M = t
    <3> DEFINE a == B + (t - m)
    <3>1. M \in Nat \ {0} /\ k \in Nat /\ a \in Nat
      BY <1>1, <1>2, <2>1
    <3>2. t \in 0..(M - 1) /\ a = M * k + t
      BY <2>1 DEF M
    <3> HIDE DEF a
    <3>3. a \div M = k
      BY <3>1, <3>2, DivModUnique, Zenon
    <3>4. a % M = a - M * (a \div M)
      BY <3>1, ModFromDiv, Zenon
    <3>5. a % M = t
      BY <3>1, <3>2, <3>3, <3>4
    <3> QED  BY <3>5 DEF a
  <2> QED  BY <1>3, <2>1, <2>2 DEF probeIndex, B, M
<1>5. CASE t < m
  <2> DEFINE i == (t - m) + M
  <2>1. i \in 0..(M - 1)
    BY <1>1, <1>2, <1>5 DEF M
  <2>2. B + i = M * k + M + t /\ M * k \in Nat
    BY <1>1, <1>2, <1>5 DEF M
  <2>3. M * (k + 1) = M * k + M
    BY <1>1, <1>2
  <2>4. B + i = M * (k + 1) + t /\ B + i \in Nat
    BY <1>1, <2>1, <2>2, <2>3 DEF M
  <2> HIDE DEF i
  <2>5. (B + i) % M = t
    <3> DEFINE a == B + i
               l == k + 1
    <3>1. M \in Nat \ {0} /\ l \in Nat /\ a \in Nat
      BY <1>1, <1>2, <2>4
    <3>2. t \in 0..(M - 1) /\ a = M * l + t
      BY <2>4 DEF M
    <3> HIDE DEF a, l
    <3>3. a \div M = l
      BY <3>1, <3>2, DivModUnique, Zenon
    <3>4. a % M = a - M * (a \div M)
      BY <3>1, ModFromDiv, Zenon
    <3>5. a % M = t
      BY <3>1, <3>2, <3>3, <3>4
    <3> QED  BY <3>5 DEF a
  <2> QED  BY <1>3, <2>1, <2>5 DEF probeIndex, B, M
<1> QED  BY <1>1, <1>2, <1>4, <1>5 DEF M

\* For such a name allocate fails only when the whole pool is in use.
THEOREM NoWrapExhaustsPool ==
    ASSUME NEW c \in Clusters, HashKey[c] + maxHosts <= UintMod, NEW used
    PROVE  exhausted(c, used) <=> Hosts \subseteq used
<1>1. probedHosts(c) \subseteq Hosts
  BY HostFromIndexType, ProbeIndexType DEF probedHosts, candidate
<1>2. ASSUME NEW h \in Hosts PROVE h \in probedHosts(c)
  <2>1. PICK t \in 0..(maxHosts - 1) : hostFromIndex(t) = h
    BY HostFromIndexOnto
  <2>2. PICK i \in 0..(maxHosts - 1) : probeIndex(c, i) = t
    BY NoWrapReachesIndex
  <2> QED  BY <2>1, <2>2 DEF probedHosts, candidate
<1> QED  BY <1>1, <1>2, ExhaustedMeansProbedUsed
-----------------------------------------------------------------------------
(***************************************************************************)
(* Type correctness.  The bound on failCounts needs HealthInv: a count is  *)
(* only raised while it is below the threshold.                            *)
(***************************************************************************)
TypeInv == TypeOK /\ HealthInv

\* NewService starts with empty maps.
LEMMA TypeInit == Init => TypeInv
<1> SUFFICES ASSUME Init PROVE TypeInv
  OBVIOUS
<1>1. /\ IsMap(clusters, Clusters, Entry) /\ IsMap(pending, Rpcs, Call)
      /\ IsMap(users, Agents \cup {Sentinel}, Credential)
      /\ IsMap(snapshot, Clusters, Probe)
      /\ IsMap(failCounts, Clusters, 1..FailThreshold)
      /\ DOMAIN failCounts = {} /\ DOMAIN users = {}
  BY EmptyMapType DEF Init
<1>2. serial \in 0..MaxRegistrations
  BY RegistryAssumption DEF Init
<1> QED  BY <1>1, <1>2, Zenon DEF Init, TypeInv, TypeOK, HealthInv

\* The locked part of a registration, whatever its outcome, keeps the types.
LEMMA DropType ==
    ASSUME TypeOK, NEW c
    PROVE  /\ hostsWithout(c) \in SUBSET Hosts
           /\ IsMap(usersWithout(c), Agents \cup {Sentinel}, Credential)
           /\ \A u \in DOMAIN usersWithout(c) \ {Sentinel} :
                  usersWithout(c)[u].host \in Hosts
           /\ IsMap(clustersWithout(c), Clusters, Entry)
<1>1. hostsWithout(c) \in SUBSET Hosts
  BY DEF TypeOK, hostsWithout
<1>2. IsMap(usersWithout(c), Agents \cup {Sentinel}, Credential)
  BY MapDeleteType DEF TypeOK, usersWithout
<1>3. IsMap(clustersWithout(c), Clusters, Entry)
  BY MapDeleteType DEF TypeOK, clustersWithout
<1>4. \A u \in DOMAIN usersWithout(c) \ {Sentinel} : usersWithout(c)[u].host \in Hosts
  BY DEF TypeOK, usersWithout, MapDelete
<1> QED  BY <1>1, <1>2, <1>3, <1>4

\* hostsWithout is what is left of the pool, so allocate's answer is new.
LEMMA FreshHost ==
    ASSUME TypeOK, NEW c \in Clusters, ~exhausted(c, hostsWithout(c))
    PROVE  /\ allocate(c, hostsWithout(c)) \in Hosts
           /\ allocate(c, hostsWithout(c)) \notin hostsWithout(c)
           /\ allocate(c, hostsWithout(c)) \in probedHosts(c)
BY AllocateFresh

\* What a call that has signed its CSR carries to the lock.
LEMMA PendingType ==
    ASSUME TypeOK, NEW r \in DOMAIN pending
    PROVE  /\ r \in Rpcs
           /\ pending[r].cluster \in Clusters
           /\ pending[r].agent \in Agents
           /\ pending[r].pass \in 1..MaxRegistrations
BY DEF TypeOK, IsMap, Call

\* The variables of the health check keep their invariant when they do not
\* change.
LEMMA HealthUnchanged ==
    ASSUME HealthInv, UNCHANGED health
    PROVE  HealthInv'
BY DEF HealthInv, health

\* A successful RegisterCluster keeps the types: allocate returns an address of the pool.
LEMMA TypeRegister ==
    ASSUME TypeInv, NEW r, RegisterCluster(r)
    PROVE  TypeInv'
<1> DEFINE c == pending[r].cluster
           a == pending[r].agent
           p == pending[r].pass
           h == allocate(c, hostsWithout(c))
<1>1. TypeOK /\ HealthInv
  BY DEF TypeInv
<1>2. c \in Clusters /\ a \in Agents /\ p \in 1..MaxRegistrations
  BY <1>1, PendingType DEF RegisterCluster
<1>3. h \in Hosts
  BY <1>1, <1>2, FreshHost, SMTT(30) DEF RegisterCluster
<1>4. /\ usedHosts' = hostsWithout(c) \cup {h}
      /\ users' = MapPut(usersWithout(c), a, [pass |-> p, host |-> h])
      /\ clusters' = MapPut(clustersWithout(c), c,
                            [Host |-> h, User |-> a, reg |-> p])
      /\ pending' = MapDelete(pending, r)
      /\ UNCHANGED <<ready, serial, health, bound>>
  BY DEF RegisterCluster, Return
<1>5. [pass |-> p, host |-> h] \in Credential /\ [Host |-> h, User |-> a, reg |-> p] \in Entry
  BY <1>2, <1>3, RegistryAssumption DEF Credential, Entry
<1> HIDE DEF c, a, p, h
<1>6. usedHosts' \in SUBSET Hosts
  BY <1>1, <1>3, <1>4, DropType
<1>7. IsMap(users', Agents \cup {Sentinel}, Credential)
  <2>1. IsMap(usersWithout(c), Agents \cup {Sentinel}, Credential)
    BY <1>1, DropType
  <2>2. a \in Agents \cup {Sentinel}
    BY <1>2
  <2> QED  BY <1>4, <1>5, <2>1, <2>2, MapPutType
<1>8. IsMap(clusters', Clusters, Entry)
  <2>1. IsMap(clustersWithout(c), Clusters, Entry)
    BY <1>1, DropType, SMTT(30)
  <2> QED  BY <1>2, <1>4, <1>5, <2>1, MapPutType
<1>9. IsMap(pending', Rpcs, Call)
  BY <1>1, <1>4, MapDeleteType, SMTT(30) DEF TypeOK
<1>10. \A u \in DOMAIN users' \ {Sentinel} : users'[u].host \in Hosts
  <2>1. \A u \in DOMAIN usersWithout(c) \ {Sentinel} : usersWithout(c)[u].host \in Hosts
    BY <1>1, DropType, SMTT(30)
  <2> QED  BY <1>3, <1>4, <2>1 DEF MapPut
<1>11. TypeOK'
  BY <1>1, <1>4, <1>6, <1>7, <1>8, <1>9, <1>10 DEF TypeOK, health
<1> QED  BY <1>1, <1>4, <1>11, HealthUnchanged DEF TypeInv

\* What a failed registration and a deregistration have in common: the entry
\* of c is dropped from the three maps.
Drop(c) ==
    /\ usedHosts' = hostsWithout(c)
    /\ users' = usersWithout(c)
    /\ clusters' = clustersWithout(c)

\* A failed RegisterCluster, for lack of a host or of a user, is a Drop.
LEMMA RegisterFailsDrops ==
    ASSUME TypeOK, NEW r, RegisterExhausted(r) \/ RegisterAddUserFails(r)
    PROVE  /\ r \in DOMAIN pending
           /\ Drop(pending[r].cluster)
           /\ Return(r)
<1>1. r \in DOMAIN pending /\ Return(r)
  BY DEF RegisterExhausted, RegisterAddUserFails
<1>2. CASE RegisterExhausted(r)
  BY <1>1, <1>2 DEF RegisterExhausted, Drop
<1>3. CASE RegisterAddUserFails(r)
  <2> DEFINE c == pending[r].cluster
             h == allocate(c, hostsWithout(c))
  <2>1. c \in Clusters
    BY <1>1, PendingType
  <2>2. ~exhausted(c, hostsWithout(c)) /\ usedHosts' = (hostsWithout(c) \cup {h}) \ {h}
    BY <1>3 DEF RegisterAddUserFails
  <2>3. h \notin hostsWithout(c)
    BY <2>1, <2>2, FreshHost
  <2> HIDE DEF h
  <2>4. usedHosts' = hostsWithout(c)
    BY <2>2, <2>3
  <2> QED  BY <1>1, <1>3, <2>4 DEF RegisterAddUserFails, Drop
<1> QED  BY <1>2, <1>3

\* So do the two failing paths of RegisterCluster.
LEMMA TypeRegisterFails ==
    ASSUME TypeInv, NEW r, RegisterExhausted(r) \/ RegisterAddUserFails(r)
    PROVE  TypeInv'
<1> DEFINE c == pending[r].cluster
<1>1. TypeOK /\ HealthInv
  BY DEF TypeInv
<1>2. Drop(c) /\ Return(r)
  BY <1>1, RegisterFailsDrops
<1> HIDE DEF c
<1>3. IsMap(pending', Rpcs, Call)
  BY <1>1, <1>2, MapDeleteType DEF TypeOK, Return
<1>4. /\ usedHosts' \in SUBSET Hosts
      /\ IsMap(users', Agents \cup {Sentinel}, Credential)
      /\ \A u \in DOMAIN users' \ {Sentinel} : users'[u].host \in Hosts
      /\ IsMap(clusters', Clusters, Entry)
  BY <1>1, <1>2, DropType DEF Drop
<1>5. TypeOK'
  BY <1>1, <1>2, <1>3, <1>4 DEF TypeOK, Return, health
<1> QED  BY <1>1, <1>2, <1>5, HealthUnchanged DEF TypeInv, Return

\* The end of a probe, with or without deregistration.
LEMMA NextProbeType ==
    ASSUME TypeInv, NEW c \in target, NextProbe(c)
    PROVE  /\ IsMap(failCounts', Clusters, 1..FailThreshold)
           /\ IsMap(snapshot', Clusters, Probe)
           /\ target' = {} /\ hpc' = "probe"
           /\ HealthInv'
<1>1. /\ IsMap(failCounts', Clusters, 1..FailThreshold)
      /\ IsMap(snapshot', Clusters, Probe)
  BY MapDeleteType DEF TypeInv, TypeOK, NextProbe
<1>2. \A d \in DOMAIN failCounts' : failCounts'[d] < FailThreshold
  <2>1. /\ DOMAIN failCounts' = DOMAIN failCounts \ {c}
        /\ \A d \in DOMAIN failCounts : d # c => failCounts'[d] = failCounts[d]
    BY MapDeleteFacts, Zenon DEF NextProbe
  <2> QED  BY <2>1 DEF TypeInv, HealthInv
<1> QED  BY <1>1, <1>2 DEF HealthInv, NextProbe

\* Every step keeps the types and the health check's invariant.
LEMMA TypeNext == TypeInv /\ [Next]_vars => TypeInv'
<1> SUFFICES ASSUME TypeInv, [Next]_vars PROVE TypeInv'
  OBVIOUS
<1>a. TypeOK /\ HealthInv
  BY DEF TypeInv
<1>1. CASE InitServer
  <2>1. [pass |-> 0, host |-> <<0, 0, 1>>] \in Credential
    BY RegistryAssumption DEF Credential
  <2>2. IsMap(users', Agents \cup {Sentinel}, Credential)
    <3>1. Sentinel \in Agents \cup {Sentinel}
      OBVIOUS
    <3> QED  BY <1>1, <1>a, <2>1, <3>1, MapPutType DEF InitServer, TypeOK
  <2>3. \A u \in DOMAIN users' \ {Sentinel} : users'[u].host \in Hosts
    BY <1>1, <1>a DEF InitServer, TypeOK, MapPut
  <2>4. TypeOK'
    BY <1>1, <1>a, <2>2, <2>3 DEF InitServer, TypeOK, health
  <2> QED  BY <1>1, <1>a, <2>4, HealthUnchanged DEF InitServer, TypeInv
<1>2. ASSUME NEW r \in Rpcs, NEW d \in Deployed, SignCSR(r, d[1], d[2])
      PROVE  TypeInv'
  <2>1. d[1] \in Clusters /\ d[2] \in Agents
    BY RegistryAssumption
  <2>2. serial' \in 1..MaxRegistrations /\ serial' = serial + 1
    BY <1>2, <1>a, RegistryAssumption DEF SignCSR, TypeOK
  <2>3. IsMap(pending', Rpcs, Call)
    <3> DEFINE k == [cluster |-> d[1], agent |-> d[2], pass |-> serial + 1]
    <3>1. k \in Call
      BY <2>1, <2>2 DEF Call
    <3>2. pending' = pending \/ pending' = MapPut(pending, r, k)
      BY <1>2 DEF SignCSR
    <3> HIDE DEF k
    <3> QED  BY <1>a, <3>1, <3>2, MapPutType DEF TypeOK
  <2>4. TypeOK'
    BY <1>2, <1>a, <2>2, <2>3 DEF SignCSR, TypeOK, registry, health
  <2> QED  BY <1>2, <1>a, <2>4, HealthUnchanged DEF SignCSR, TypeInv
<1>3. ASSUME NEW r \in Rpcs, RegisterCluster(r) PROVE TypeInv'
  BY <1>3, TypeRegister
<1>4. ASSUME NEW r \in Rpcs, RegisterExhausted(r) \/ RegisterAddUserFails(r)
      PROVE  TypeInv'
  BY <1>4, TypeRegisterFails
<1>5. CASE StartRound
  <2>1. IsMap(snapshot', Clusters, Probe)
    <3>1. \A c \in Registered : [Host |-> clusters[c].Host, reg |-> clusters[c].reg] \in Probe
      BY <1>a DEF TypeOK, IsMap, Entry, Probe, Registered
    <3> QED  BY <1>5, <1>a, <3>1 DEF StartRound, TypeOK, IsMap, Registered
  <2>2. IsMap(failCounts', Clusters, 1..FailThreshold)
    BY <1>5, <1>a DEF StartRound, keptCounts, TypeOK, IsMap
  <2>3. TypeOK'
    BY <1>5, <1>a, <2>1, <2>2 DEF StartRound, TypeOK, registry
  <2>4. HealthInv'
    BY <1>5, <1>a DEF StartRound, keptCounts, HealthInv
  <2> QED  BY <2>3, <2>4 DEF TypeInv
<1>6. ASSUME NEW c \in Clusters, ProbeOk(c) PROVE TypeInv'
  <2>1. IsMap(failCounts', Clusters, 1..FailThreshold) /\ IsMap(snapshot', Clusters, Probe)
    BY <1>6, <1>a, MapDeleteType DEF ProbeOk, TypeOK
  <2>2. TypeOK'
    BY <1>6, <1>a, <2>1 DEF ProbeOk, TypeOK, registry
  <2>3. HealthInv'
    BY <1>6, <1>a DEF ProbeOk, HealthInv, MapDelete
  <2> QED  BY <2>2, <2>3 DEF TypeInv
<1>7. ASSUME NEW c \in Clusters, ProbeFail(c) PROVE TypeInv'
  <2>1. target = {} /\ failCounts' = MapPut(failCounts, c, failCount(c) + 1)
    BY <1>7, <1>a DEF ProbeFail, HealthInv
  <2>2. failCount(c) \in 0..(FailThreshold - 1)
    BY <1>a, <2>1, RegistryAssumption DEF TypeOK, IsMap, HealthInv, failCount
  <2>3. failCount(c) + 1 \in 1..FailThreshold
    BY <2>2, RegistryAssumption
  <2>4. IsMap(failCounts', Clusters, 1..FailThreshold)
    BY <1>a, <2>1, <2>3, MapPutType, Zenon DEF TypeOK
  <2>5. /\ DOMAIN failCounts' = DOMAIN failCounts \cup {c}
        /\ failCounts'[c] = failCount(c) + 1
        /\ \A d \in DOMAIN failCounts : d # c => failCounts'[d] = failCounts[d]
    BY <2>1 DEF MapPut
  <2>6. CASE failCount(c) + 1 >= FailThreshold
    <3>1. hpc' = "verify" /\ target' = {c} /\ snapshot' = snapshot
      BY <1>7, <2>6 DEF ProbeFail
    <3>2. TypeOK'
      BY <1>7, <1>a, <2>4, <3>1 DEF ProbeFail, TypeOK, registry
    <3>3. HealthInv'
      BY <1>a, <2>1, <2>5, <3>1 DEF HealthInv
    <3> QED  BY <3>2, <3>3 DEF TypeInv
  <2>7. CASE ~(failCount(c) + 1 >= FailThreshold)
    <3>1. UNCHANGED <<hpc, target>> /\ snapshot' = MapDelete(snapshot, c)
      BY <1>7, <2>7 DEF ProbeFail
    <3>2. IsMap(snapshot', Clusters, Probe)
      BY <1>a, <3>1, MapDeleteType DEF TypeOK
    <3>3. TypeOK'
      BY <1>7, <1>a, <2>4, <3>1, <3>2 DEF ProbeFail, TypeOK, registry
    <3>4. \A d \in DOMAIN failCounts' : failCounts'[d] < FailThreshold
      BY <1>a, <2>1, <2>2, <2>5, <2>7, RegistryAssumption DEF HealthInv
    <3>5. HealthInv'
      BY <2>1, <3>1, <3>4 DEF HealthInv
    <3> QED  BY <3>3, <3>5 DEF TypeInv
  <2> QED  BY <2>6, <2>7
<1>8. ASSUME NEW c \in Clusters, VerifyHost(c) PROVE TypeInv'
  <2>1. CASE hpc' = "dereg" /\ UNCHANGED <<snapshot, target, failCounts>>
    BY <1>8, <1>a, <2>1 DEF VerifyHost, TypeInv, TypeOK, HealthInv, registry
  <2>2. CASE NextProbe(c)
    <3>1. c \in target
      BY <1>8 DEF VerifyHost
    <3>2. TypeOK' /\ HealthInv'
      BY <1>8, <1>a, <2>2, <3>1, NextProbeType DEF VerifyHost, TypeOK, registry
    <3> QED  BY <3>2 DEF TypeInv
  <2> QED  BY <1>8, <2>1, <2>2, SMTT(30) DEF VerifyHost
<1>9. ASSUME NEW c \in Clusters, DeregisterCluster(c) PROVE TypeInv'
  <2>1. c \in target /\ NextProbe(c)
    BY <1>9, SMTT(30) DEF DeregisterCluster
  <2>2. /\ usedHosts' \in SUBSET Hosts
        /\ IsMap(users', Agents \cup {Sentinel}, Credential)
        /\ \A u \in DOMAIN users' \ {Sentinel} : users'[u].host \in Hosts
        /\ IsMap(clusters', Clusters, Entry)
    BY <1>9, <1>a, DropType DEF DeregisterCluster
  <2>3. TypeOK' /\ HealthInv'
    BY <1>9, <1>a, <2>1, <2>2, NextProbeType, SMTT(30) DEF DeregisterCluster, TypeOK
  <2> QED  BY <2>3 DEF TypeInv
<1>10. CASE EndRound \/ StopHealthCheck
  BY <1>10, <1>a, SMTT(30) DEF EndRound, StopHealthCheck, TypeInv, TypeOK, HealthInv, registry
<1>11. ASSUME NEW u \in Agents, Bind(u) PROVE TypeInv'
  <2>1. users[u].host \in Hosts
    BY <1>11, <1>a, SMTT(30) DEF Bind, TypeOK
  <2> QED  BY <1>11, <1>a, <2>1 DEF Bind, TypeInv, TypeOK, HealthInv, registry, health
<1>12. ASSUME NEW h \in bound, Unbind(h) PROVE TypeInv'
  BY <1>12, <1>a, SMTT(30) DEF Unbind, TypeInv, TypeOK, HealthInv, registry, health
<1>13. CASE UNCHANGED vars
  BY <1>13, <1>a DEF vars, TypeInv, TypeOK, HealthInv
<1> QED
  BY <1>1, <1>2, <1>3, <1>4, <1>5, <1>6, <1>7, <1>8, <1>9, <1>10, <1>11,
     <1>12, <1>13 DEF Next, HealthStep

\* Every reachable state of the registry and of the health check is well typed.
THEOREM TypeCorrect == Spec => []TypeOK
<1>1. TypeInv => TypeOK
  BY DEF TypeInv
<1> QED  BY TypeInit, TypeNext, <1>1, PTL DEF Spec

-----------------------------------------------------------------------------
(***************************************************************************)
(* Hosts.                                                                  *)
(***************************************************************************)
HostInv == HostsAccounted /\ OnProbeSequence

\* Dropping an entry returns exactly its host to the pool.
LEMMA DropHosts ==
    ASSUME HostsAccounted, NEW c
    PROVE  /\ hostsWithout(c) = {clusters[d].Host : d \in Registered \ {c}}
           /\ DOMAIN clustersWithout(c) = Registered \ {c}
           /\ \A d \in Registered \ {c} : clustersWithout(c)[d] = clusters[d]
<1>1. hostsWithout(c) = {clusters[d].Host : d \in Registered \ {c}}
  BY DEF HostsAccounted, hostsWithout
<1> QED  BY <1>1 DEF clustersWithout, MapDelete, Registered

\* Removing the entry of a cluster releases exactly its host.
LEMMA DropKeepsHosts ==
    ASSUME HostInv, NEW c, Drop(c)
    PROVE  HostInv'
<1>1. HostsAccounted /\ OnProbeSequence
  BY DEF HostInv
<1>2. /\ usedHosts' = {clusters[d].Host : d \in Registered \ {c}}
      /\ Registered' = Registered \ {c}
      /\ \A d \in Registered \ {c} : clusters'[d] = clusters[d]
  BY <1>1, DropHosts, Zenon DEF Drop, Registered
<1>3. HostsAccounted'
  BY <1>1, <1>2 DEF HostsAccounted
<1>4. OnProbeSequence'
  BY <1>1, <1>2 DEF OnProbeSequence
<1> QED  BY <1>3, <1>4 DEF HostInv

\* The maps after a successful registration that gave c the host h.
Stored(r, c, h) ==
    /\ c = pending[r].cluster
    /\ h \notin hostsWithout(c) /\ h \in probedHosts(c)
    /\ usedHosts' = hostsWithout(c) \cup {h}
    /\ Registered' = Registered \cup {c}
    /\ clusters'[c] = [Host |-> h, User |-> pending[r].agent,
                       reg |-> pending[r].pass]
    /\ clusters'[c].Host = h /\ clusters'[c].User = pending[r].agent
    /\ \A d \in Registered \ {c} : clusters'[d] = clusters[d]
    /\ users' = MapPut(usersWithout(c), pending[r].agent,
                       [pass |-> pending[r].pass, host |-> h])

\* RegisterCluster stores the cluster under a host that nobody else holds.
LEMMA RegisterEffect ==
    ASSUME TypeOK, HostsAccounted, NEW r, RegisterCluster(r)
    PROVE  \E c \in Clusters, h \in Hosts : Stored(r, c, h)
<1> DEFINE c == pending[r].cluster
           h == allocate(c, hostsWithout(c))
           e == [Host |-> h, User |-> pending[r].agent, reg |-> pending[r].pass]
<1>1. c \in Clusters
  BY PendingType, ZenonT(30) DEF RegisterCluster
<1>2. /\ ~exhausted(c, hostsWithout(c))
      /\ usedHosts' = hostsWithout(c) \cup {h}
      /\ clusters' = MapPut(clustersWithout(c), c, e)
      /\ users' = MapPut(usersWithout(c), pending[r].agent,
                         [pass |-> pending[r].pass, host |-> h])
  BY DEF RegisterCluster
<1>3. h \in Hosts /\ h \notin hostsWithout(c) /\ h \in probedHosts(c)
  BY <1>1, <1>2, FreshHost, ZenonT(30)
<1>4. /\ Registered' = Registered \cup {c}
      /\ clusters'[c] = e
      /\ \A d \in Registered \ {c} : clusters'[d] = clusters[d]
  <2> HIDE DEF c, e
  <2>1. /\ DOMAIN clustersWithout(c) = Registered \ {c}
        /\ \A d \in Registered \ {c} : clustersWithout(c)[d] = clusters[d]
    BY DropHosts, Zenon
  <2> QED  BY <1>2, <2>1, ZenonT(30) DEF MapPut, Registered
<1>5. clusters'[c].Host = h /\ clusters'[c].User = pending[r].agent
  <2> HIDE DEF c, h
  <2> QED  BY <1>4
<1> QED  BY <1>1, <1>2, <1>3, <1>4, <1>5, Zenon DEF Stored

\* Hence it keeps allocator and registry in agreement.
LEMMA RegisterKeepsHosts ==
    ASSUME TypeOK, HostInv, NEW r, RegisterCluster(r)
    PROVE  HostInv'
<1>1. HostsAccounted /\ OnProbeSequence
  BY DEF HostInv
<1>a. PICK c \in Clusters, h \in Hosts : Stored(r, c, h)
  BY <1>1, RegisterEffect, SMTT(30)
<1>2. /\ h \notin hostsWithout(c) /\ h \in probedHosts(c)
      /\ usedHosts' = hostsWithout(c) \cup {h}
      /\ Registered' = Registered \cup {c}
      /\ clusters'[c].Host = h
      /\ \A d \in Registered \ {c} : clusters'[d] = clusters[d]
  BY <1>a DEF Stored
<1>3. hostsWithout(c) = {clusters[d].Host : d \in Registered \ {c}}
  BY <1>1, DropHosts, Zenon
<1>4. HostsAccounted'
  BY <1>1, <1>2, <1>3 DEF HostsAccounted
<1>5. OnProbeSequence'
  BY <1>1, <1>2 DEF OnProbeSequence
<1> QED  BY <1>4, <1>5 DEF HostInv

\* Only these steps touch the three maps.
LEMMA RegistrySteps ==
    ASSUME TypeOK, [Next]_vars
    PROVE  \/ \E r \in Rpcs : RegisterCluster(r)
           \/ \E r \in DOMAIN pending : Drop(pending[r].cluster) /\ Return(r)
           \/ \E c \in Clusters : Drop(c) /\ pending' = pending
           \/ InitServer
           \/ UNCHANGED registry
<1>1. ASSUME NEW r \in Rpcs, RegisterExhausted(r) \/ RegisterAddUserFails(r)
      PROVE  \E q \in DOMAIN pending : Drop(pending[q].cluster) /\ Return(q)
  BY <1>1, RegisterFailsDrops
<1>2. ASSUME NEW c \in Clusters, DeregisterCluster(c)
      PROVE  Drop(c) /\ pending' = pending
  BY <1>2 DEF DeregisterCluster, Drop
<1>3. ASSUME \/ \E r \in Rpcs, d \in Deployed : SignCSR(r, d[1], d[2])
             \/ StartRound \/ EndRound \/ StopHealthCheck
             \/ \E c \in Clusters : ProbeOk(c) \/ ProbeFail(c) \/ VerifyHost(c)
             \/ \E u \in Agents : Bind(u)
             \/ \E h \in bound : Unbind(h)
             \/ UNCHANGED vars
      PROVE  UNCHANGED registry
  BY <1>3, Zenon DEF SignCSR, StartRound, EndRound, StopHealthCheck, ProbeOk,
     ProbeFail, VerifyHost, Bind, Unbind, vars, registry
<1> QED  BY <1>1, <1>2, <1>3 DEF Next, HealthStep

\* Every step keeps allocator and registry in agreement.
LEMMA HostNext == TypeOK /\ HostInv /\ [Next]_vars => HostInv'
<1> SUFFICES ASSUME TypeOK, HostInv, [Next]_vars PROVE HostInv'
  OBVIOUS
<1>1. CASE InitServer \/ UNCHANGED registry
  BY <1>1, Zenon DEF InitServer, registry, HostInv, HostsAccounted, OnProbeSequence, Registered
<1> QED  BY <1>1, RegistrySteps, RegisterKeepsHosts, DropKeepsHosts

\* Both start empty.
LEMMA HostInit == Init => HostInv
BY EmptyMapType DEF Init, HostInv, HostsAccounted, OnProbeSequence, Registered

\* RegisterCluster and DeregisterCluster never hand one host to two clusters
\* and never leak one, on every path and for every number of concurrent calls.
THEOREM HostsAlwaysAccounted == Spec => []HostsAccounted
<1>1. TypeInv => TypeOK
  BY DEF TypeInv
<1>2. HostInv => HostsAccounted
  BY DEF HostInv
<1> QED  BY TypeInit, TypeNext, HostInit, HostNext, <1>1, <1>2, PTL DEF Spec

-----------------------------------------------------------------------------
(***************************************************************************)
(* Users.                                                                  *)
(***************************************************************************)
UserInv == NoStaleUsers /\ NeverAnonymous

\* Dropping an entry deletes its user, which is never the sentinel.
LEMMA DropUsers ==
    ASSUME TypeOK, NoStaleUsers, NEW c
    PROVE  /\ DOMAIN usersWithout(c) \subseteq
                  {Sentinel} \cup {clusters[d].User : d \in Registered \ {c}}
           /\ Sentinel \in DOMAIN users => Sentinel \in DOMAIN usersWithout(c)
<1>1. ASSUME c \in Registered
      PROVE  clusters[c].User # Sentinel
  BY <1>1, RegistryAssumption DEF TypeOK, IsMap, Entry, Registered
<1> QED  BY <1>1 DEF NoStaleUsers, usersWithout, MapDelete

\* The server reference, once stored, is never cleared.
LEMMA ReadySteps ==
    ASSUME [Next]_vars
    PROVE  InitServer \/ ready' = ready
BY Zenon DEF Next, HealthStep, SignCSR, RegisterCluster, RegisterExhausted,
   RegisterAddUserFails, Return, StartRound, EndRound, StopHealthCheck, ProbeOk,
   ProbeFail, VerifyHost, DeregisterCluster, Bind, Unbind, vars

\* Every step keeps the sentinel and leaves no user without a cluster.
LEMMA UserNext == TypeOK /\ HostsAccounted /\ UserInv /\ [Next]_vars => UserInv'
<1> SUFFICES ASSUME TypeOK, HostsAccounted, UserInv, [Next]_vars PROVE UserInv'
  OBVIOUS
<1>a. NoStaleUsers /\ NeverAnonymous
  BY DEF UserInv
<1>1. ASSUME NEW r \in Rpcs, RegisterCluster(r)
      PROVE  UserInv'
  <2>1. PICK c \in Clusters, h \in Hosts : Stored(r, c, h)
    BY <1>1, RegisterEffect, SMTT(30)
  <2>2. /\ Registered' = Registered \cup {c}
        /\ clusters'[c].User = pending[r].agent
        /\ \A d \in Registered \ {c} : clusters'[d] = clusters[d]
        /\ DOMAIN users' = DOMAIN usersWithout(c) \cup {pending[r].agent}
    BY <2>1, SMTT(30) DEF Stored, MapPut
  <2>3. NoStaleUsers'
    BY <1>a, <2>2, DropUsers DEF NoStaleUsers
  <2>4. NeverAnonymous'
    BY <1>1, <1>a, <2>2, DropUsers, Zenon DEF NeverAnonymous, RegisterCluster, Return
  <2> QED  BY <2>3, <2>4 DEF UserInv
<1>2. ASSUME NEW c, Drop(c), ready' = ready
      PROVE  UserInv'
  <2>1. /\ Registered' = Registered \ {c}
        /\ \A d \in Registered \ {c} : clusters'[d] = clusters[d]
        /\ DOMAIN users' = DOMAIN usersWithout(c)
    BY <1>2, DropHosts, Zenon DEF Drop, Registered
  <2>2. NoStaleUsers'
    BY <1>a, <2>1, DropUsers DEF NoStaleUsers
  <2>3. NeverAnonymous'
    BY <1>2, <1>a, <2>1, DropUsers DEF NeverAnonymous
  <2> QED  BY <2>2, <2>3 DEF UserInv
<1>3. CASE InitServer
  <2>1. /\ DOMAIN users' = DOMAIN users \cup {Sentinel}
        /\ clusters' = clusters /\ Registered' = Registered
    BY <1>3, MapPutFacts, Zenon DEF InitServer, Registered
  <2> QED  BY <1>a, <2>1 DEF UserInv, NoStaleUsers, NeverAnonymous
<1>4. CASE UNCHANGED registry /\ ready' = ready
  BY <1>4, <1>a DEF registry, UserInv, NoStaleUsers, NeverAnonymous, Registered
<1> QED  BY <1>1, <1>2, <1>3, <1>4, RegistrySteps, ReadySteps

\* Before the server exists there are no users.
LEMMA UserInit == Init => UserInv
BY EmptyMapType DEF Init, UserInv, NoStaleUsers, NeverAnonymous

\* No sequence of registrations, failures and deregistrations leaves a chisel
\* user that belongs to no registered cluster.
THEOREM UsersNeverStale == Spec => []NoStaleUsers
<1>1. TypeInv => TypeOK
  BY DEF TypeInv
<1>2. HostInv => HostsAccounted
  BY DEF HostInv
<1>3. UserInv => NoStaleUsers
  BY DEF UserInv
<1> QED
  BY TypeInit, TypeNext, HostInit, HostNext, UserInit, UserNext,
     <1>1, <1>2, <1>3, PTL DEF Spec

\* From the moment the tunnel server is visible, chisel has its sentinel user,
\* so it never falls back to accepting everyone.
THEOREM AlwaysAuthenticated == Spec => []NeverAnonymous
<1>1. TypeInv => TypeOK
  BY DEF TypeInv
<1>2. HostInv => HostsAccounted
  BY DEF HostInv
<1>3. UserInv => NeverAnonymous
  BY DEF UserInv
<1> QED
  BY TypeInit, TypeNext, HostInit, HostNext, UserInit, UserNext,
     <1>1, <1>2, <1>3, PTL DEF Spec

-----------------------------------------------------------------------------
(***************************************************************************)
(* Credentials.  Users are keyed by agent ID and clusters by name, so they *)
(* only stay in step when no ID serves two clusters.                       *)
(***************************************************************************)
CredentialInv == FromDeployed /\ CredentialsMatch

\* Before the first registration there are no credentials.
LEMMA CredentialInit == Init => CredentialInv
BY EmptyMapType DEF Init, CredentialInv, FromDeployed, CredentialsMatch, Registered

\* Distinct registered clusters have distinct users.
LEMMA DistinctUsers ==
    ASSUME UniqueAgentIDs, FromDeployed,
           NEW c, NEW a, <<c, a>> \in Deployed, NEW d \in Registered, d # c
    PROVE  clusters[d].User # a
BY Zenon DEF UniqueAgentIDs, FromDeployed

\* Registrations in flight and stored stem from the deployed pairs.
LEMMA DeployedNext == TypeOK /\ HostsAccounted /\ FromDeployed /\ [Next]_vars => FromDeployed'
<1> SUFFICES ASSUME TypeOK, HostsAccounted, FromDeployed, [Next]_vars
             PROVE  FromDeployed'
  OBVIOUS
<1> DEFINE P(m) == \A r \in DOMAIN m : <<m[r].cluster, m[r].agent>> \in Deployed
           C(m) == \A c \in DOMAIN m : <<c, m[c].User>> \in Deployed
<1>1. P(pending) /\ C(clusters)
  BY DEF FromDeployed, Registered
<1>2. P(pending')
  <2>1. ASSUME NEW r \in Rpcs, NEW d \in Deployed, SignCSR(r, d[1], d[2])
        PROVE  P(pending')
    <3>1. d = <<d[1], d[2]>>
      BY RegistryAssumption
    <3> QED  BY <1>1, <2>1, <3>1 DEF SignCSR, MapPut
  <2>2. ASSUME NEW r, pending' = MapDelete(pending, r)
        PROVE  P(pending')
    BY <1>1, <2>2 DEF MapDelete
  <2>3. CASE pending' = pending
    BY <1>1, <2>3
  <2>4. \/ \E r \in Rpcs, d \in Deployed : SignCSR(r, d[1], d[2])
        \/ \E r \in Rpcs : pending' = MapDelete(pending, r)
        \/ pending' = pending
    BY Zenon DEF Next, HealthStep, InitServer, RegisterCluster, RegisterExhausted,
       RegisterAddUserFails, Return, StartRound, EndRound, StopHealthCheck,
       ProbeOk, ProbeFail, VerifyHost, DeregisterCluster, Bind, Unbind, vars
  <2> HIDE DEF P
  <2> QED  BY <2>1, <2>2, <2>3, <2>4
<1>3. C(clusters')
  <2>1. ASSUME NEW r \in Rpcs, RegisterCluster(r)
        PROVE  C(clusters')
    <3>1. PICK c \in Clusters, h \in Hosts : Stored(r, c, h)
      BY <2>1, RegisterEffect
    <3>2. r \in DOMAIN pending
      BY <2>1, ZenonT(30) DEF RegisterCluster
    <3>3. /\ c = pending[r].cluster
          /\ DOMAIN clusters' = DOMAIN clusters \cup {c}
          /\ clusters'[c].User = pending[r].agent
          /\ \A d \in DOMAIN clusters \ {c} : clusters'[d] = clusters[d]
      BY <3>1, Zenon DEF Stored, Registered
    <3> QED  BY <1>1, <3>2, <3>3
  <2>2. ASSUME NEW c, Drop(c) PROVE C(clusters')
    BY <1>1, <2>2 DEF Drop, clustersWithout, MapDelete
  <2>3. CASE InitServer \/ UNCHANGED registry
    BY <1>1, <2>3 DEF InitServer, registry
  <2> HIDE DEF C
  <2> QED  BY <2>1, <2>2, <2>3, RegistrySteps
<1> QED  BY <1>2, <1>3 DEF FromDeployed, Registered

\* Every step keeps users and entries in agreement when agent IDs are unique.
LEMMA CredentialNext ==
    ASSUME UniqueAgentIDs, TypeOK, HostsAccounted, CredentialInv, [Next]_vars
    PROVE  CredentialInv'
<1>a. FromDeployed /\ CredentialsMatch
  BY DEF CredentialInv
<1>b. FromDeployed'
  BY <1>a, DeployedNext
<1> SUFFICES CredentialsMatch'
  BY <1>b DEF CredentialInv
<1>1. ASSUME NEW r \in Rpcs, RegisterCluster(r)
      PROVE  CredentialsMatch'
  <2> DEFINE a == pending[r].agent
             p == pending[r].pass
  <2>1. PICK c \in Clusters, h \in Hosts : Stored(r, c, h)
    BY <1>1, RegisterEffect, SMTT(30)
  <2>2. /\ Registered' = Registered \cup {c}
        /\ clusters'[c] = [Host |-> h, User |-> a, reg |-> p]
        /\ \A d \in Registered \ {c} : clusters'[d] = clusters[d]
        /\ users' = MapPut(usersWithout(c), a, [pass |-> p, host |-> h])
    BY <2>1 DEF Stored
  <2>3. r \in DOMAIN pending /\ c = pending[r].cluster
    BY <1>1, <2>1, Zenon DEF RegisterCluster, Stored
  <2>4. <<c, a>> \in Deployed
    BY <1>a, <2>3 DEF FromDeployed
  <2> HIDE DEF a, p
  <2>5. ASSUME NEW d \in Registered, d # c
        PROVE  /\ clusters[d].User # a
               /\ clusters[d].User \in DOMAIN usersWithout(c)
               /\ usersWithout(c)[clusters[d].User] = users[clusters[d].User]
    <3>1. clusters[d].User # a
      BY <1>a, <2>4, <2>5, DistinctUsers
    <3>2. ASSUME c \in Registered PROVE clusters[d].User # clusters[c].User
      BY <1>a, <2>5, <3>2, DistinctUsers, Zenon DEF FromDeployed
    <3> QED  BY <1>a, <3>1, <3>2, Zenon DEF CredentialsMatch, usersWithout, MapDelete
  <2>6. ASSUME NEW d \in Registered'
        PROVE  /\ clusters'[d].User \in DOMAIN users'
               /\ users'[clusters'[d].User]
                     = [pass |-> clusters'[d].reg, host |-> clusters'[d].Host]
    <3>1. CASE d = c
      BY <2>2, <3>1, SMTT(30) DEF MapPut
    <3>2. CASE d # c
      BY <1>a, <2>2, <2>5, <2>6, <3>2, SMTT(30) DEF MapPut, CredentialsMatch
    <3> QED  BY <3>1, <3>2, SMTT(30)
  <2> QED  BY <2>6, Zenon DEF CredentialsMatch
<1>2. ASSUME NEW c, Drop(c)
      PROVE  CredentialsMatch'
  <2>1. /\ Registered' = Registered \ {c}
        /\ \A d \in Registered \ {c} : clusters'[d] = clusters[d]
        /\ users' = usersWithout(c)
    BY <1>2, DropHosts, Zenon DEF Drop, Registered
  <2>2. ASSUME NEW d \in Registered \ {c}
        PROVE  /\ clusters[d].User \in DOMAIN users'
               /\ users'[clusters[d].User] = users[clusters[d].User]
    <3>1. ASSUME c \in Registered PROVE clusters[d].User # clusters[c].User
      BY <1>a, <2>2, <3>1, DistinctUsers, Zenon DEF FromDeployed
    <3> QED  BY <1>a, <2>1, <3>1, Zenon DEF CredentialsMatch, usersWithout, MapDelete
  <2> QED  BY <1>a, <2>1, <2>2 DEF CredentialsMatch
<1>3. CASE InitServer
  <2>1. \A c \in Registered : clusters[c].User # Sentinel
    BY RegistryAssumption DEF TypeOK, IsMap, Entry, Registered
  <2> QED  BY <1>3, <1>a, <2>1 DEF InitServer, MapPut, CredentialsMatch, Registered
<1>4. CASE UNCHANGED registry
  BY <1>4, <1>a DEF registry, CredentialsMatch, Registered
<1> QED  BY <1>1, <1>2, <1>3, <1>4, RegistrySteps

\* When no agent ID serves two clusters, the chisel user of every registered
\* cluster exists, allows exactly the cluster's host and carries the password
\* of the certificate that registered it.
THEOREM CredentialsAlwaysMatch == UniqueAgentIDs => (Spec => []CredentialsMatch)
<1> SUFFICES ASSUME UniqueAgentIDs PROVE Spec => []CredentialsMatch
  OBVIOUS
<1>1. TypeInv => TypeOK
  BY DEF TypeInv
<1>2. HostInv => HostsAccounted
  BY DEF HostInv
<1>3. CredentialInv => CredentialsMatch
  BY DEF CredentialInv
<1>4. TypeOK /\ HostsAccounted /\ CredentialInv /\ [Next]_vars => CredentialInv'
  BY CredentialNext
<1> QED
  BY TypeInit, TypeNext, HostInit, HostNext, CredentialInit,
     <1>1, <1>2, <1>3, <1>4, PTL DEF Spec

-----------------------------------------------------------------------------
(***************************************************************************)
(* Re-registration, and the directory the provider promises.               *)
(***************************************************************************)

\* The released host of a registered cluster is on its own probe sequence, so
\* a re-registration cannot find the pool exhausted.
LEMMA ReRegisterFindsHost ==
    ASSUME HostInv, NEW c \in Clusters, c \in Registered
    PROVE  ~exhausted(c, hostsWithout(c))
<1>1. clusters[c].Host \in probedHosts(c)
  BY DEF HostInv, OnProbeSequence
<1>2. clusters[c].Host \notin hostsWithout(c)
  BY DEF hostsWithout
<1> QED  BY <1>1, <1>2, ExhaustedMeansProbedUsed

\* The action of NotLostOnReRegister.
KeptUnlessRemoved ==
    \A c \in Registered : c \notin Registered' =>
        DeregisterCluster(c) \/ \E r \in Rpcs : RegisterAddUserFails(r)

\* The only steps after which a registered cluster is missing.
LEMMA LossStep ==
    ASSUME TypeOK, HostInv, [Next]_vars
    PROVE  KeptUnlessRemoved
<1> SUFFICES ASSUME NEW c \in Registered, c \notin Registered',
                    ~ \E r \in Rpcs : RegisterAddUserFails(r)
             PROVE  DeregisterCluster(c)
  BY DEF KeptUnlessRemoved
<1>a. c \in Clusters /\ HostsAccounted
  BY SMTT(30) DEF TypeOK, IsMap, Registered, HostInv
<1>1. ASSUME NEW r \in Rpcs, RegisterCluster(r) PROVE FALSE
  <2>1. PICK d \in Clusters, h \in Hosts : Stored(r, d, h)
    BY <1>1, <1>a, RegisterEffect
  <2> QED  BY <2>1 DEF Stored
<1>2. ASSUME NEW r \in Rpcs, RegisterExhausted(r) PROVE FALSE
  <2>1. r \in DOMAIN pending /\ Drop(pending[r].cluster)
    BY <1>2, RegisterFailsDrops
  <2>2. c = pending[r].cluster
    BY <2>1 DEF Drop, clustersWithout, MapDelete, Registered
  <2>3. exhausted(c, hostsWithout(c))
    BY <1>2, <2>2 DEF RegisterExhausted
  <2> QED  BY <1>a, <2>3, ReRegisterFindsHost
<1>3. ASSUME NEW d \in Clusters, DeregisterCluster(d) PROVE DeregisterCluster(c)
  <2>1. c = d
    BY <1>3 DEF DeregisterCluster, clustersWithout, MapDelete, Registered
  <2> QED  BY <1>3, <2>1
<1>4. clusters' # clusters
  BY DEF Registered
<1> QED
  BY <1>1, <1>2, <1>3, <1>4, Zenon DEF Next, HealthStep, InitServer, SignCSR,
     StartRound, EndRound, StopHealthCheck, ProbeOk, ProbeFail, VerifyHost,
     Bind, Unbind, vars, registry

\* A registered cluster is only lost through the health check, or when chisel
\* refuses the user of its own re-registration.
THEOREM NeverLostOnReRegister == Spec => NotLostOnReRegister
<1>1. TypeInv => TypeOK
  BY DEF TypeInv
<1>2. TypeOK /\ HostInv /\ [Next]_vars => [KeptUnlessRemoved]_vars
  BY LossStep
<1>3. NotLostOnReRegister <=> [][KeptUnlessRemoved]_vars
  BY DEF NotLostOnReRegister, KeptUnlessRemoved
<1> QED
  BY TypeInit, TypeNext, HostInit, HostNext, <1>1, <1>2, <1>3, PTL DEF Spec

\* The empty registry is the empty directory.
LEMMA DirectoryInit ==
    ASSUME Init
    PROVE  Directory!DirectoryInit
<1>1. Registered = {}
  BY EmptyMapType DEF Init, Registered
<1> QED  BY <1>1 DEF Directory!DirectoryInit, Directory!EmptyMap, resolved

\* Every step of the provider is a step of the directory, or none.
LEMMA DirectoryStep ==
    ASSUME TypeOK, HostInv, [Next]_vars
    PROVE  [Directory!DirectoryNext]_resolved
<1>a. HostsAccounted
  BY DEF HostInv
<1>1. ASSUME NEW r \in Rpcs, RegisterCluster(r)
      PROVE  Directory!DirectoryNext
  <2>1. PICK c \in Clusters, h \in Hosts : Stored(r, c, h)
    BY <1>1, <1>a, RegisterEffect
  <2>2. \A d \in Registered \ {c} : clusters[d].Host # h
    <3>1. hostsWithout(c) = {clusters[d].Host : d \in Registered \ {c}}
      BY <1>a, DropHosts, ZenonT(30)
    <3>2. h \notin hostsWithout(c)
      BY <2>1, Zenon DEF Stored
    <3> QED  BY <3>1, <3>2
  <2>3. DOMAIN resolved = Registered /\ \A d \in Registered : resolved[d] = clusters[d].Host
    BY SMTT(30) DEF resolved
  <2>4. resolved' = Directory!MapPut(resolved, c, h)
    <3>1. /\ Registered' = Registered \cup {c}
          /\ clusters'[c].Host = h
          /\ \A d \in Registered \ {c} : clusters'[d] = clusters[d]
      BY <2>1, Zenon DEF Stored
    <3>2. \A d \in Registered' :
             clusters'[d].Host = IF d = c THEN h ELSE resolved[d]
      BY <2>3, <3>1
    <3>3. resolved' = [d \in Registered' |-> clusters'[d].Host]
      BY Zenon DEF resolved
    <3>4. resolved' = [d \in Registered \cup {c} |-> IF d = c THEN h ELSE resolved[d]]
      BY <3>1, <3>2, <3>3
    <3> QED  BY <2>3, <3>4, SMTT(30) DEF Directory!MapPut
  <2>5. Directory!Assign(c, h)
    BY <2>2, <2>3, <2>4, SMTT(30) DEF Directory!Assign
  <2> QED  BY <2>5 DEF Directory!DirectoryNext
<1>2. ASSUME NEW c \in Clusters, Drop(c)
      PROVE  [Directory!DirectoryNext]_resolved
  <2>1. /\ Registered' = Registered \ {c}
        /\ \A d \in Registered \ {c} : clusters'[d] = clusters[d]
    BY <1>2, <1>a, DropHosts, Zenon DEF Drop, Registered
  <2>2. CASE c \in Registered
    <3>1. c \in DOMAIN resolved /\ resolved' = Directory!MapDelete(resolved, c)
      BY <2>1, <2>2 DEF resolved, Directory!MapDelete
    <3> QED  BY <3>1 DEF Directory!DirectoryNext, Directory!Remove
  <2>3. CASE c \notin Registered
    <3>1. resolved' = resolved
      BY <2>1, <2>3 DEF resolved
    <3> QED  BY <3>1
  <2> QED  BY <2>2, <2>3
<1>3. CASE InitServer \/ UNCHANGED registry
  BY <1>3 DEF InitServer, registry, resolved, Registered
<1>4. ASSUME NEW r \in DOMAIN pending PROVE pending[r].cluster \in Clusters
  BY PendingType
<1> QED  BY <1>1, <1>2, <1>3, <1>4, RegistrySteps

\* TunnelRegistry implements the directory, for every value of the constants.
THEOREM RegistryImplementsDirectory == Spec => ImplementsDirectory
<1>1. TypeInv => TypeOK
  BY DEF TypeInv
<1>2. TypeOK /\ HostInv /\ [Next]_vars => [Directory!DirectoryNext]_resolved
  BY DirectoryStep
<1>3. Init => Directory!DirectoryInit
  BY DirectoryInit
<1> QED
  BY TypeInit, TypeNext, HostInit, HostNext, <1>1, <1>2, <1>3, PTL
     DEF Spec, ImplementsDirectory, Directory!DirectorySpec
=============================================================================
