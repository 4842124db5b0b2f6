--------------------------- MODULE TunnelRegistry ---------------------------
(***************************************************************************)
(* The server's tunnel provider (internal/providers/chisel): the map from  *)
(* cluster names to loopback hosts, the chisel user of every registered    *)
(* agent, and the health-check loop that deregisters clusters whose tunnel *)
(* endpoint does not answer.                                               *)
(*                                                                         *)
(* Everything RegisterCluster and DeregisterCluster do under the Service's *)
(* mutex is one action.  What happens outside it is a step of its own:     *)
(* signing the CSR before the lock is taken, and every lock and unlock of  *)
(* a health-check round.                                                   *)
(***************************************************************************)
EXTENDS AddressAllocator, GoMaps

CONSTANTS
    Agents,            \* agent IDs, the chisel user names
    Sentinel,          \* the disabled user that tunnel.Server.init adds
    Deployed,          \* the pairs <<cluster, agent ID>> that register
    Rpcs,              \* concurrent Fleet.Register calls
    FailThreshold,     \* healthFailThreshold (3 in the code)
    MaxRegistrations   \* bound: certificates signed in a behaviour

ASSUME RegistryAssumption ==
    /\ Sentinel \notin Agents
    /\ Deployed \subseteq Clusters \X Agents
    /\ FailThreshold \in Nat \ {0}
    /\ MaxRegistrations \in Nat

VARIABLES
    ready,       \* Service.server has been stored
    clusters,    \* Service.clusters; reg is a history field, see below
    usedHosts,   \* addressAllocator.usedHosts
    users,       \* chisel's user index: password and allowed reverse host
    serial,      \* certificates signed so far; each gives a fresh password
    pending,     \* calls past SignCSR that do not hold the lock yet
    hpc,         \* where the health-check goroutine is
    snapshot,    \* the clusters of this round not probed yet
    target,      \* the cluster being verified and deregistered
    failCounts,  \* runHealthCheck's failCounts; absent means 0
    bound        \* hosts on which a chisel session listens (external)

\* The reg fields record which registration (certificate) an entry stems
\* from.  The code has no such field; only the properties read it.
Entry     == [Host : Hosts, User : Agents, reg : 1..MaxRegistrations]
Probe     == [Host : Hosts, reg : 1..MaxRegistrations]
Credential == [pass : 0..MaxRegistrations, host : Hosts \cup {<<0, 0, 1>>}]
Call      == [cluster : Clusters, agent : Agents, pass : 1..MaxRegistrations]

registry == <<clusters, usedHosts, users>>
health   == <<hpc, snapshot, target, failCounts>>
vars     == <<ready, clusters, usedHosts, users, serial, pending,
              hpc, snapshot, target, failCounts, bound>>

Registered == DOMAIN clusters

Init ==
    /\ ready = FALSE
    /\ clusters = EmptyMap
    /\ usedHosts = {}
    /\ users = EmptyMap
    /\ serial = 0
    /\ pending = EmptyMap
    /\ hpc = "wait"
    /\ snapshot = EmptyMap
    /\ target = {}
    /\ failCounts = EmptyMap
    /\ bound = {}

-----------------------------------------------------------------------------
(***************************************************************************)
(* Registration.                                                           *)
(***************************************************************************)

\* (mutation) no sentinel user is added
InitServerOpen ==
    /\ ~ready
    /\ ready' = TRUE
    /\ UNCHANGED <<clusters, usedHosts, users, serial, pending, health, bound>>

\* tunnel.Server.init: chisel accepts anyone while it has no users, so a
\* sentinel user is added before the server becomes visible.
InitServer ==
    /\ ~ready
    /\ ready' = TRUE
    /\ users' = MapPut(users, Sentinel, [pass |-> 0, host |-> <<0, 0, 1>>])
    /\ UNCHANGED <<clusters, usedHosts, serial, pending, health, bound>>

\* RegisterCluster up to the lock.  Signing gives a new certificate, hence a
\* new password; a call that finds no server returns ErrNotReady.
SignCSR(r, cluster, agent) ==
    /\ r \notin DOMAIN pending
    /\ serial < MaxRegistrations
    /\ serial' = serial + 1
    /\ pending' = IF ready
                  THEN MapPut(pending, r, [cluster |-> cluster,
                                           agent |-> agent,
                                           pass |-> serial + 1])
                  ELSE pending
    /\ UNCHANGED <<ready, registry, health, bound>>

\* (mutation) the previous host is not released
hostsWithoutKeeping(cluster) == usedHosts

\* (mutation) the previous user is not deleted
usersWithoutKeeping(cluster) == users

\* The three maps after the entry of a cluster, if any, has been removed.
hostsWithout(cluster) ==
    IF cluster \in Registered THEN usedHosts \ {clusters[cluster].Host}
                              ELSE usedHosts
usersWithout(cluster) ==
    IF cluster \in Registered THEN MapDelete(users, clusters[cluster].User)
                              ELSE users
clustersWithout(cluster) == MapDelete(clusters, cluster)

Return(r) ==
    /\ pending' = MapDelete(pending, r)
    /\ UNCHANGED <<ready, serial, health, bound>>

\* (mutation) the previous user is deleted after the new one was added
RegisterClusterDeletesLate(r) ==
    /\ r \in DOMAIN pending
    /\ LET call == pending[r]
           used == hostsWithout(call.cluster)
           host == allocate(call.cluster, used)
           added == MapPut(users, call.agent, [pass |-> call.pass, host |-> host])
       IN  /\ ~exhausted(call.cluster, used)
           /\ usedHosts' = used \cup {host}
           /\ users' = IF call.cluster \in Registered
                       THEN MapDelete(added, clusters[call.cluster].User) ELSE added
           /\ clusters' = MapPut(clustersWithout(call.cluster), call.cluster,
                                 [Host |-> host, User |-> call.agent,
                                  reg |-> call.pass])
    /\ Return(r)

\* The locked part of RegisterCluster, when it succeeds.
RegisterCluster(r) ==
    /\ r \in DOMAIN pending
    /\ LET call == pending[r]
           used == hostsWithout(call.cluster)
           host == allocate(call.cluster, used)
       IN  /\ ~exhausted(call.cluster, used)
           /\ usedHosts' = used \cup {host}
           /\ users' = MapPut(usersWithout(call.cluster), call.agent,
                              [pass |-> call.pass, host |-> host])
           /\ clusters' = MapPut(clustersWithout(call.cluster), call.cluster,
                                 [Host |-> host, User |-> call.agent,
                                  reg |-> call.pass])
    /\ Return(r)

\* allocate finds no host: the call fails after the old entry is gone.
RegisterExhausted(r) ==
    /\ r \in DOMAIN pending
    /\ LET cluster == pending[r].cluster
       IN  /\ exhausted(cluster, hostsWithout(cluster))
           /\ usedHosts' = hostsWithout(cluster)
           /\ users' = usersWithout(cluster)
           /\ clusters' = clustersWithout(cluster)
    /\ Return(r)

\* (mutation) the host allocated for the failed user is not released
RegisterAddUserLeaks(r) ==
    /\ r \in DOMAIN pending
    /\ LET cluster == pending[r].cluster
           used == hostsWithout(cluster)
       IN  /\ ~exhausted(cluster, used)
           /\ usedHosts' = used \cup {allocate(cluster, used)}
           /\ users' = usersWithout(cluster)
           /\ clusters' = clustersWithout(cluster)
    /\ Return(r)

\* chisel refuses the user: the host is released, the old entry stays gone.
RegisterAddUserFails(r) ==
    /\ r \in DOMAIN pending
    /\ LET cluster == pending[r].cluster
           used == hostsWithout(cluster)
           host == allocate(cluster, used)
       IN  /\ ~exhausted(cluster, used)
           /\ usedHosts' = (used \cup {host}) \ {host}
           /\ users' = usersWithout(cluster)
           /\ clusters' = clustersWithout(cluster)
    /\ Return(r)

-----------------------------------------------------------------------------
(***************************************************************************)
(* The health-check loop, one goroutine.                                   *)
(***************************************************************************)

\* (mutation) every round starts counting anew
keptCountsNone(names) == EmptyMap

\* The cleanup of failCounts at the start of a round.
keptCounts(names) ==
    [c \in DOMAIN failCounts \cap names |-> failCounts[c]]

\* A tick: clusterSnapshot and the cleanup of failCounts.
StartRound ==
    /\ hpc = "wait"
    /\ hpc' = "probe"
    /\ snapshot' = [c \in Registered |-> [Host |-> clusters[c].Host,
                                          reg |-> clusters[c].reg]]
    /\ failCounts' = keptCounts(Registered)
    /\ UNCHANGED <<ready, registry, serial, pending, target, bound>>

\* The dial succeeds: something listens on the snapshot's host.
ProbeOk(c) ==
    /\ hpc = "probe"
    /\ c \in DOMAIN snapshot
    /\ snapshot[c].Host \in bound
    /\ failCounts' = MapDelete(failCounts, c)
    /\ snapshot' = MapDelete(snapshot, c)
    /\ UNCHANGED <<ready, registry, serial, pending, hpc, target, bound>>

failCount(c) == IF c \in DOMAIN failCounts THEN failCounts[c] ELSE 0

\* The dial fails (nothing listens, or it times out) and c is counted.
ProbeFail(c) ==
    /\ hpc = "probe"
    /\ c \in DOMAIN snapshot
    /\ failCounts' = MapPut(failCounts, c, failCount(c) + 1)
    /\ IF failCount(c) + 1 >= FailThreshold
       THEN /\ hpc' = "verify"
            /\ target' = {c}
            /\ UNCHANGED snapshot
       ELSE /\ snapshot' = MapDelete(snapshot, c)
            /\ UNCHANGED <<hpc, target>>
    /\ UNCHANGED <<ready, registry, serial, pending, bound>>

\* delete(failCounts, cluster), and on to the next cluster of the snapshot.
NextProbe(c) ==
    /\ failCounts' = MapDelete(failCounts, c)
    /\ snapshot' = MapDelete(snapshot, c)
    /\ target' = {}
    /\ hpc' = "probe"

\* Under the read lock: is the host still the one that was probed?
VerifyHost(c) ==
    /\ hpc = "verify"
    /\ c \in target
    /\ IF c \in Registered /\ clusters[c].Host = snapshot[c].Host
       THEN hpc' = "dereg" /\ UNCHANGED <<snapshot, target, failCounts>>
       ELSE NextProbe(c)
    /\ UNCHANGED <<ready, registry, serial, pending, bound>>

\* DeregisterCluster, with the lock taken anew.
DeregisterCluster(c) ==
    /\ hpc = "dereg"
    /\ c \in target
    /\ usedHosts' = hostsWithout(c)
    /\ users' = usersWithout(c)
    /\ clusters' = clustersWithout(c)
    /\ NextProbe(c)
    /\ UNCHANGED <<ready, serial, pending, bound>>

EndRound ==
    /\ hpc = "probe"
    /\ snapshot = EmptyMap
    /\ hpc' = "wait"
    /\ UNCHANGED <<ready, registry, serial, pending, snapshot, target,
                   failCounts, bound>>

\* The context is cancelled: seen by the loop's select, or by a failed dial.
StopHealthCheck ==
    /\ hpc = "wait" \/ (hpc = "probe" /\ snapshot /= EmptyMap)
    /\ hpc' = "stopped"
    /\ UNCHANGED <<ready, registry, serial, pending, snapshot, target,
                   failCounts, bound>>

-----------------------------------------------------------------------------
(***************************************************************************)
(* chisel's sessions (external): an agent may listen on the host its user  *)
(* allows; a session ends when its connection does, not when the user is   *)
(* deleted.                                                                *)
(***************************************************************************)
Bind(u) ==
    /\ u \in DOMAIN users \ {Sentinel}
    /\ users[u].host \notin bound
    /\ bound' = bound \cup {users[u].host}
    /\ UNCHANGED <<ready, registry, serial, pending, health>>

Unbind(h) ==
    /\ h \in bound
    /\ bound' = bound \ {h}
    /\ UNCHANGED <<ready, registry, serial, pending, health>>

-----------------------------------------------------------------------------
HealthStep ==
    \/ StartRound
    \/ \E c \in Clusters : ProbeOk(c) \/ ProbeFail(c) \/ VerifyHost(c)
                                      \/ DeregisterCluster(c)
    \/ EndRound

Next ==
    \/ InitServer
    \/ \E r \in Rpcs, d \in Deployed : SignCSR(r, d[1], d[2])
    \/ \E r \in Rpcs : RegisterCluster(r) \/ RegisterExhausted(r)
                                          \/ RegisterAddUserFails(r)
    \/ HealthStep
    \/ StopHealthCheck
    \/ \E u \in Agents : Bind(u)
    \/ \E h \in bound : Unbind(h)

Spec == Init /\ [][Next]_vars

\* The ticker keeps firing and every dial returns within healthDialTimeout.
FairSpec == Spec /\ WF_vars(HealthStep)
-----------------------------------------------------------------------------
(***************************************************************************)
(* Properties.                                                             *)
(***************************************************************************)

\* Every variable has the shape of the Go value it stands for.
TypeOK ==
    /\ ready \in BOOLEAN
    /\ IsMap(clusters, Clusters, Entry)
    /\ usedHosts \in SUBSET Hosts
    /\ IsMap(users, Agents \cup {Sentinel}, Credential)
    /\ \A u \in DOMAIN users \ {Sentinel} : users[u].host \in Hosts
    /\ serial \in 0..MaxRegistrations
    /\ IsMap(pending, Rpcs, Call)
    /\ hpc \in {"wait", "probe", "verify", "dereg", "stopped"}
    /\ IsMap(snapshot, Clusters, Probe)
    /\ target \in SUBSET Clusters
    /\ IsMap(failCounts, Clusters, 1..FailThreshold)
    /\ bound \in SUBSET Hosts

\* The allocator and the registry agree on every path through RegisterCluster
\* and DeregisterCluster, the failing ones included: no two clusters share a
\* host, no host in use is free for others, and no host leaks.
HostsAccounted ==
    /\ usedHosts = {clusters[c].Host : c \in Registered}
    /\ \A c, d \in Registered : clusters[c].Host = clusters[d].Host => c = d

\* RegisterCluster and DeregisterCluster delete the user of the entry they
\* drop: every chisel user but the sentinel is the user of some cluster.
NoStaleUsers ==
    DOMAIN users \subseteq {Sentinel} \cup {clusters[c].User : c \in Registered}

\* chisel admits anonymous clients while it knows no user; from the moment the
\* server is visible, no sequence of deletions removes the sentinel.
NeverAnonymous == ready => Sentinel \in DOMAIN users

\* No agent ID registers for two clusters.
UniqueAgentIDs == \A d, e \in Deployed : d[2] = e[2] => d[1] = e[1]

\* The user of a registered cluster exists, allows exactly the cluster's host,
\* and has the password of the certificate the cluster registered with.
CredentialsMatch ==
    \A c \in Registered :
        LET e == clusters[c]
        IN  e.User \in DOMAIN users
            /\ users[e.User] = [pass |-> e.reg, host |-> e.Host]

\* What makes the properties above inductive.  A count stays below the
\* threshold except for the one cluster that is being deregistered; a host is
\* on the probe sequence of its cluster's name; users stem from Deployed.
HealthInv ==
    /\ \A c \in DOMAIN failCounts : failCounts[c] < FailThreshold \/ c \in target
    /\ \A c, d \in target : c = d
    /\ hpc \in {"wait", "probe"} => target = {}
OnProbeSequence == \A c \in Registered : clusters[c].Host \in probedHosts(c)
FromDeployed ==
    /\ \A r \in DOMAIN pending : <<pending[r].cluster, pending[r].agent>> \in Deployed
    /\ \A c \in Registered : <<c, clusters[c].User>> \in Deployed

\* A registered cluster vanishes only because the health check removed it or
\* chisel refused its new user: RegisterCluster releases the old host before
\* it allocates, and that host is on the probe sequence of the same name, so
\* re-registration never finds the address space exhausted.
NotLostOnReRegister ==
    [][\A c \in Registered : c \notin Registered' =>
            DeregisterCluster(c) \/ \E r \in Rpcs : RegisterAddUserFails(r)]_vars

\* runHealthCheck: a cluster cannot stay registered while nothing listens on
\* its host, however its probes interleave with other clusters' traffic.
DeadClusterRemoved ==
    \A c \in Clusters :
        []<>(\/ c \notin Registered
             \/ clusters[c].Host \in bound
             \/ hpc = "stopped")

\* ResolveAddress answers with clusters[c].Host.
resolved == [c \in Registered |-> clusters[c].Host]

Directory == INSTANCE ClusterDirectory
             WITH Names <- Clusters, Addresses <- Hosts, addr <- resolved

\* Seen through ResolveAddress the provider is a directory in which no two
\* clusters have the same address; a re-registration replaces an address in
\* one step, so no caller sees the cluster disappear in between.
ImplementsDirectory == Directory!DirectorySpec

\* The comment of checkClusters: a re-registration that is concurrent with the
\* round is not undone by it.
ReRegistrationSurvivesRound ==
    [][\A c \in Registered : DeregisterCluster(c) =>
            clusters[c].reg = snapshot[c].reg]_vars
=============================================================================
