--------------------------- MODULE RequestRouting ---------------------------
(***************************************************************************)
(* How the server's resource and runtime requests reach a cluster          *)
(* (internal/core/resource.go, internal/providers/kubernetes): a request   *)
(* is a sequence of calls of the repositories.  Every call resolves the    *)
(* cluster's tunnel address once, takes the cluster's transport from a     *)
(* cache and builds a client, which sends the API requests of that call,   *)
(* while clusters register, move and disappear.  The directory of          *)
(* addresses is the one that TunnelRegistry implements.                    *)
(***************************************************************************)
EXTENDS ClusterDirectory, Integers, Sequences

CONSTANTS
    Requests,       \* concurrent requests
    MaxTransports   \* bound: transports created in a behaviour

ASSUME RoutingAssumption == MaxTransports \in Nat

VARIABLES
    transports,  \* Kubernetes.transports: Name -> [address, rt]; rt is a number
    created,     \* transports created so far
    closed,      \* transports whose idle connections have been closed
    req,         \* Requests -> [pc, name, calls, address, rt]
    current      \* history: Requests -> the cluster's addresses since the call began

routing == <<transports, created, closed>>
vars == <<addr, transports, created, closed, req, current>>

NoAddress == "none"

\* The repository calls of every kind of request: discovery or a log alone; a
\* lookup before the operation; a lookup, an object and its events, or a
\* lookup, the version and a watch.  "spdy" opens a connection of its own.
Kinds == {<<"client">>, <<"client", "client">>, <<"client", "client", "client">>, <<"spdy">>}

Idle == [pc |-> "idle", name |-> NoAddress, calls |-> <<>>, address |-> NoAddress, rt |-> 0]

Init ==
    /\ DirectoryInit
    /\ transports = EmptyMap /\ created = 0 /\ closed = {}
    /\ req = [r \in Requests |-> Idle]
    /\ current = [r \in Requests |-> {}]

\* The address of a cluster, as a set.
AddressOf(dir, name) == IF name \in DOMAIN dir THEN {dir[name]} ELSE {}

At(r, pc) == req[r].pc = pc
-----------------------------------------------------------------------------
\* A cluster registers, moves or disappears (see TunnelRegistry).
Directory ==
    /\ DirectoryNext
    /\ current' = [r \in Requests |-> IF At(r, "idle") THEN {}
                                      ELSE current[r] \cup AddressOf(addr', req[r].name)]
    /\ UNCHANGED <<routing, req>>

\* The request ends.
End(r) ==
    /\ req' = [req EXCEPT ![r] = Idle]
    /\ current' = [current EXCEPT ![r] = {}]

\* Its next repository call begins, and knows nothing of the one before.
Continue(r, name, calls) ==
    /\ req' = [req EXCEPT ![r] = [Idle EXCEPT !.pc = "resolve", !.name = name, !.calls = calls]]
    /\ current' = [current EXCEPT ![r] = AddressOf(addr, name)]

\* A use case is called for a cluster.
Begin(r, name, calls) ==
    /\ At(r, "idle")
    /\ Continue(r, name, calls)
    /\ UNCHANGED <<addr, routing>>

\* (mutation) the address of a cached transport is taken without asking
ResolveCached(r) ==
    LET name == req[r].name IN
    /\ At(r, "resolve") /\ name \in DOMAIN addr \cup DOMAIN transports
    /\ req' = [req EXCEPT ![r].pc = IF Head(req[r].calls) = "spdy" THEN "send" ELSE "transport",
                          ![r].address = IF name \in DOMAIN transports
                                         THEN transports[name].address ELSE addr[name]]
    /\ UNCHANGED <<addr, routing, current>>

\* impersonationConfig and spdyConfig ask the directory: its answer is the Host
\* of the client that is built, whatever transport the client is given ...
Resolve(r) ==
    /\ At(r, "resolve") /\ req[r].name \in DOMAIN addr
    /\ req' = [req EXCEPT ![r].pc = IF Head(req[r].calls) = "spdy" THEN "send" ELSE "transport",
                          ![r].address = addr[req[r].name]]
    /\ UNCHANGED <<addr, routing, current>>

\* ... which may not know the cluster.
ResolveFails(r) ==
    /\ At(r, "resolve") /\ req[r].name \notin DOMAIN addr
    /\ req' = [req EXCEPT ![r].pc = "evict"]
    /\ UNCHANGED <<addr, routing, current>>

Cached(name) == IF name \in DOMAIN transports THEN {transports[name].rt} ELSE {}

\* (mutation) the transport is forgotten without being closed
EvictOnly(r) ==
    /\ At(r, "evict")
    /\ transports' = MapDelete(transports, req[r].name)
    /\ End(r)
    /\ UNCHANGED <<addr, created, closed>>

\* evictClients, under the mutex.
EvictClients(r) ==
    /\ At(r, "evict")
    /\ closed' = closed \cup Cached(req[r].name)
    /\ transports' = MapDelete(transports, req[r].name)
    /\ End(r)
    /\ UNCHANGED <<addr, created>>

\* roundTripper, under the mutex: the cached transport has the address ...
CachedTransport(r) ==
    LET name == req[r].name IN
    /\ At(r, "transport")
    /\ name \in DOMAIN transports /\ transports[name].address = req[r].address
    /\ req' = [req EXCEPT ![r].pc = "send", ![r].rt = transports[name].rt]
    /\ UNCHANGED <<addr, routing, current>>

Stale(r) ==
    LET name == req[r].name IN
    /\ At(r, "transport")
    /\ name \in DOMAIN transports => transports[name].address # req[r].address

\* ... or the old one is closed and a new one is cached ...
FreshTransport(r) ==
    LET name == req[r].name IN
    /\ Stale(r) /\ created < MaxTransports
    /\ created' = created + 1
    /\ closed' = closed \cup Cached(name)
    /\ transports' = MapPut(transports, name, [address |-> req[r].address, rt |-> created + 1])
    /\ req' = [req EXCEPT ![r].pc = "send", ![r].rt = created + 1]
    /\ UNCHANGED <<addr, current>>

\* ... unless it cannot be created: the old one stays, closed.
TransportFails(r) ==
    /\ Stale(r)
    /\ closed' = closed \cup Cached(req[r].name)
    /\ End(r)
    /\ UNCHANGED <<addr, transports, created>>

\* At "send" the client sends one API request or several, one after the other
\* (UpdateScale gets and puts, discovery lists the groups and then each of
\* them), all to the address that it was built with.  The repository call
\* succeeds and the next one of the request follows ...
CallReturns(r) ==
    /\ At(r, "send") /\ Len(req[r].calls) > 1
    /\ Continue(r, req[r].name, Tail(req[r].calls))
    /\ UNCHANGED <<addr, routing>>

\* ... or it was the last one, or it failed, at the latest request or before the
\* first (no user in the context, no client, nothing to send), and with it the
\* request.
RequestReturns(r) ==
    /\ At(r, "resolve") \/ At(r, "send")
    /\ End(r)
    /\ UNCHANGED <<addr, routing>>

Next ==
    \/ Directory
    \/ \E r \in Requests :
          \/ \E name \in Names, calls \in Kinds : Begin(r, name, calls)
          \/ Resolve(r) \/ ResolveFails(r) \/ EvictClients(r)
          \/ CachedTransport(r) \/ FreshTransport(r) \/ TransportFails(r)
          \/ CallReturns(r) \/ RequestReturns(r)

Spec == Init /\ [][Next]_vars
-----------------------------------------------------------------------------
\* Every variable has the shape of the Go value it stands for.
TypeOK ==
    /\ IsMap(addr, Names, Addresses)
    /\ IsMap(transports, Names, [address : Addresses, rt : 1..MaxTransports])
    /\ created \in 0..MaxTransports /\ closed \subseteq 1..created
    /\ \A r \in Requests :
          /\ req[r].pc \in {"idle", "resolve", "evict", "transport", "send"}
          /\ req[r].name \in Names \cup {NoAddress}
          /\ req[r].address \in Addresses \cup {NoAddress}
          /\ req[r].rt \in 0..created
          /\ current[r] \subseteq Addresses

\* However clusters move meanwhile, every API request that a repository call
\* sends, the first and the later ones, goes to an address that the cluster it
\* names has had since that repository call began, never to one that a cached
\* transport or an earlier call of the same request remembers.
SentToCluster == \A r \in Requests : At(r, "send") => req[r].address \in current[r]

\* A transport that is no longer cached has been closed: moves, evictions and
\* late calls leak no connections to old tunnel addresses.
ForgottenAreClosed ==
    \A t \in 1..created : t \in closed \/ \E name \in DOMAIN transports : transports[name].rt = t
=============================================================================
