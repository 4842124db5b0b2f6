------------------------- MODULE ControlPlaneProofs -------------------------
(***************************************************************************)
(* The control plane between its API and the clusters: where a request is  *)
(* sent, for every number of requests, clusters, addresses and transports; *)
(* who ends what in a port-forward session, for every number of            *)
(* WritePortForward calls and of chunks; and how old a schema can be, for  *)
(* every TTL, timeout and size of the cache.                               *)
(***************************************************************************)
EXTENDS RequestRouting, PortForward, DiscoveryCache, FiniteSetTheorems, TLAPS

(***************************************************************************)
(* Requests and the transports they share.                                 *)
(***************************************************************************)

\* A request under way: what it knows of its cluster is what the cluster has
\* been told to be since the call began.
Request == [pc : {"idle", "resolve", "evict", "transport", "send"},
            name : Names \cup {NoAddress}, calls : Seq({"client", "spdy"}),
            address : Addresses \cup {NoAddress}, rt : Nat]

RequestsOK ==
    /\ req \in [Requests -> Request]
    /\ current \in [Requests -> SUBSET Addresses]
    /\ \A r \in Requests : ~At(r, "idle") => req[r].name \in Names

\* At "resolve" the directory's present answer is among the addresses that the
\* cluster has had; the address taken from it stays among them.
AddressInv ==
    \A r \in Requests :
       /\ At(r, "resolve") => AddressOf(addr, req[r].name) \subseteq current[r]
       /\ At(r, "transport") \/ At(r, "send") => req[r].address \in current[r]

RoutingInv == IsMap(addr, Names, Addresses) /\ RequestsOK /\ AddressInv

\* Transports are numbered in the order of their creation.
TransportsOK ==
    /\ created \in Nat
    /\ IsMap(transports, Names, [address : Addresses, rt : 1..created])

\* Nothing is under way at first.
LEMMA RoutingInit == Init => RoutingInv
<1> SUFFICES ASSUME Init PROVE RoutingInv
  OBVIOUS
<1>1. IsMap(addr, Names, Addresses)
  BY DEF Init, DirectoryInit, EmptyMap, IsMap
<1>2. Idle \in Request
  BY DEF Idle, Request
<1>3. RequestsOK
  BY <1>2 DEF Init, RequestsOK, At, Idle
<1>4. AddressInv
  BY DEF Init, AddressInv, At, Idle
<1> QED  BY <1>1, <1>3, <1>4 DEF RoutingInv

\* The end of a request leaves the others as they are.
LEMMA EndKeeps ==
    ASSUME RoutingInv, NEW r \in Requests, End(r), UNCHANGED addr
    PROVE  RoutingInv'
<1>1. Idle \in Request /\ Idle.pc = "idle"
  BY DEF Idle, Request
<1>2. /\ req' = [req EXCEPT ![r] = Idle] /\ current' = [current EXCEPT ![r] = {}]
      /\ RequestsOK /\ AddressInv /\ addr' = addr /\ IsMap(addr, Names, Addresses)
  BY DEF End, RoutingInv
<1> HIDE DEF Idle
<1>3. RequestsOK'
  BY <1>1, <1>2 DEF RequestsOK, At
<1>4. AddressInv'
  BY <1>1, <1>2 DEF RequestsOK, AddressInv, At, AddressOf
<1> QED  BY <1>2, <1>3, <1>4 DEF RoutingInv

\* A call that begins knows of the cluster's present address.
LEMMA ContinueKeeps ==
    ASSUME RoutingInv, NEW r \in Requests, NEW name \in Names,
           NEW calls \in Seq({"client", "spdy"}),
           Continue(r, name, calls), UNCHANGED addr
    PROVE  RoutingInv'
<1> DEFINE next == [Idle EXCEPT !.pc = "resolve", !.name = name, !.calls = calls]
<1>1. next \in Request /\ next.pc = "resolve" /\ next.name = name /\ next.calls = calls
  BY Zenon DEF Idle, Request
<1>2. /\ req' = [req EXCEPT ![r] = next]
      /\ current' = [current EXCEPT ![r] = AddressOf(addr, name)]
      /\ RequestsOK /\ AddressInv /\ addr' = addr /\ IsMap(addr, Names, Addresses)
  BY DEF Continue, RoutingInv
<1> HIDE DEF next
<1>3. AddressOf(addr, name) \in SUBSET Addresses
  BY <1>2 DEF AddressOf, IsMap
<1>4. RequestsOK'
  BY <1>1, <1>2, <1>3 DEF RequestsOK, At
<1>5. AddressInv'
  BY <1>1, <1>2 DEF RequestsOK, AddressInv, At
<1> QED  BY <1>2, <1>4, <1>5 DEF RoutingInv

\* Assign and Remove keep the directory a map.
LEMMA DirectoryType ==
    ASSUME IsMap(addr, Names, Addresses), DirectoryNext
    PROVE  IsMap(addr', Names, Addresses)
<1>1. ASSUME NEW name \in Names, NEW address \in Addresses, Assign(name, address)
      PROVE  IsMap(addr', Names, Addresses)
  BY <1>1 DEF Assign, MapPut, IsMap
<1>2. ASSUME NEW name \in Names, Remove(name)
      PROVE  IsMap(addr', Names, Addresses)
  BY <1>2 DEF Remove, MapDelete, IsMap
<1> QED  BY <1>1, <1>2 DEF DirectoryNext

\* A change of the directory reaches every call that is under way.
LEMMA DirectoryKeeps ==
    ASSUME RoutingInv, Directory
    PROVE  RoutingInv'
<1>1. IsMap(addr', Names, Addresses)
  BY DirectoryType DEF RoutingInv, Directory
<1>2. \A name : AddressOf(addr', name) \in SUBSET Addresses
  BY <1>1 DEF IsMap, AddressOf
<1>3. /\ req' = req /\ RequestsOK /\ AddressInv
      /\ current' = [r \in Requests |-> IF At(r, "idle") THEN {}
                                        ELSE current[r] \cup AddressOf(addr', req[r].name)]
  BY DEF RoutingInv, Directory
<1>4. RequestsOK'
  BY <1>2, <1>3 DEF RequestsOK, At
<1>5. AddressInv'
  BY <1>3 DEF RequestsOK, AddressInv, At
<1> QED  BY <1>1, <1>4, <1>5 DEF RoutingInv

\* A request whose pc, address or transport is changed.
WithPc(q, to) == [q EXCEPT !.pc = to]
WithAddress(q, address) == [q EXCEPT !.address = address]
WithRt(q, t) == [q EXCEPT !.rt = t]

SameCall(p, q) == p.name = q.name /\ p.calls = q.calls

\* Each of them is a request for the same calls of the same cluster.
LEMMA RequestUpdate ==
    ASSUME NEW q \in Request
    PROVE  /\ \A to \in {"idle", "resolve", "evict", "transport", "send"} :
                 /\ WithPc(q, to) \in Request /\ SameCall(WithPc(q, to), q)
                 /\ WithPc(q, to).pc = to /\ WithPc(q, to).address = q.address
           /\ \A address \in Addresses :
                 /\ WithAddress(q, address) \in Request /\ SameCall(WithAddress(q, address), q)
                 /\ WithAddress(q, address).pc = q.pc /\ WithAddress(q, address).address = address
           /\ \A t \in Nat :
                 /\ WithRt(q, t) \in Request /\ SameCall(WithRt(q, t), q)
                 /\ WithRt(q, t).pc = q.pc /\ WithRt(q, t).address = q.address
BY Zenon DEF Request, WithPc, WithAddress, WithRt, SameCall

\* Resolve takes an address that the cluster has at that moment.
LEMMA ResolveKeeps ==
    ASSUME RoutingInv, NEW r \in Requests, Resolve(r)
    PROVE  RoutingInv'
<1> DEFINE name == req[r].name
           to == IF Head(req[r].calls) = "spdy" THEN "send" ELSE "transport"
<1>1. /\ RequestsOK /\ AddressInv /\ IsMap(addr, Names, Addresses) /\ addr' = addr
      /\ req[r].pc = "resolve" /\ name \in DOMAIN addr /\ current' = current
      /\ req' = [req EXCEPT ![r].pc = to, ![r].address = addr[name]]
  BY DEF Resolve, RoutingInv, At
<1>2. to \in {"send", "transport"}
  OBVIOUS
<1>3. addr[name] \in current[r] /\ addr[name] \in Addresses
  BY <1>1 DEF AddressInv, At, AddressOf, IsMap
<1> HIDE DEF to
<1>4. /\ req'[r] = [req[r] EXCEPT !.pc = to, !.address = addr[name]]
      /\ \A q \in Requests \ {r} : req'[q] = req[q]
  BY <1>1 DEF RequestsOK
<1>5. req'[r] \in Request /\ req'[r].name = name /\ req'[r].calls = req[r].calls
      /\ req'[r].pc = to /\ req'[r].address = addr[name]
  <2> DEFINE q == WithPc(req[r], to)
             a == addr[name]
  <2>1. req[r] \in Request /\ a \in Addresses
    BY <1>1, <1>3 DEF RequestsOK
  <2>2. q \in Request /\ q.pc = to /\ SameCall(q, req[r])
    BY <1>2, <2>1, RequestUpdate
  <2>3. req'[r] = WithAddress(q, a)
    BY <1>4 DEF WithPc, WithAddress
  <2> HIDE DEF q, a
  <2>4. /\ WithAddress(q, a) \in Request /\ SameCall(WithAddress(q, a), q)
        /\ WithAddress(q, a).pc = to /\ WithAddress(q, a).address = a
    BY <2>1, <2>2, RequestUpdate
  <2> QED  BY <2>2, <2>3, <2>4 DEF SameCall, a
<1>6. req' \in [Requests -> Request]
  BY <1>1, <1>4, <1>5 DEF RequestsOK
<1>7. RequestsOK'
  BY <1>1, <1>4, <1>5, <1>6 DEF RequestsOK, At
<1>8. AddressInv'
  BY <1>1, <1>2, <1>3, <1>4, <1>5, Zenon DEF AddressInv, At
<1> QED  BY <1>1, <1>7, <1>8 DEF RoutingInv

\* What changes of a request otherwise keeps its address.
LEMMA AdvanceKeeps ==
    ASSUME RoutingInv, NEW r \in Requests, NEW to \in {"evict", "send"}, NEW t \in Nat,
           to = "send" => At(r, "transport"), ~At(r, "idle"),
           req' = [req EXCEPT ![r] = [req[r] EXCEPT !.pc = to, !.rt = t]],
           UNCHANGED <<addr, current>>
    PROVE  RoutingInv'
<1>1. RequestsOK /\ AddressInv /\ IsMap(addr, Names, Addresses)
  BY DEF RoutingInv
<1>2. /\ req'[r] = [req[r] EXCEPT !.pc = to, !.rt = t]
      /\ \A q \in Requests \ {r} : req'[q] = req[q]
  BY <1>1 DEF RequestsOK
<1>3. /\ req'[r] \in Request /\ req'[r].name = req[r].name /\ req'[r].calls = req[r].calls
      /\ req'[r].pc = to /\ req'[r].address = req[r].address
  <2> DEFINE q == WithPc(req[r], to)
  <2>1. req[r] \in Request
    BY <1>1 DEF RequestsOK
  <2>2. q \in Request /\ q.pc = to /\ q.address = req[r].address /\ SameCall(q, req[r])
    BY <2>1, RequestUpdate
  <2>3. req'[r] = WithRt(q, t)
    BY <1>2 DEF WithPc, WithRt
  <2> HIDE DEF q
  <2>4. /\ WithRt(q, t) \in Request /\ SameCall(WithRt(q, t), q)
        /\ WithRt(q, t).pc = to /\ WithRt(q, t).address = req[r].address
    BY <2>2, RequestUpdate
  <2> QED  BY <2>2, <2>3, <2>4 DEF SameCall
<1>4. req' \in [Requests -> Request]
  BY <1>1, <1>2, <1>3 DEF RequestsOK
<1>5. RequestsOK'
  BY <1>1, <1>2, <1>3, <1>4 DEF RequestsOK, At
<1>6. AddressInv'
  BY <1>1, <1>2, <1>3 DEF AddressInv, At
<1> QED  BY <1>1, <1>5, <1>6 DEF RoutingInv

\* Every step keeps the invariant.
LEMMA RoutingNext == ASSUME RoutingInv, TransportsOK, [Next]_vars PROVE RoutingInv'
<1>1. CASE Directory
  BY <1>1, DirectoryKeeps
<1>2. ASSUME NEW r \in Requests, NEW name \in Names, NEW calls \in Kinds,
             Begin(r, name, calls)
      PROVE  RoutingInv'
  <2>1. /\ <<"client">> \in Seq({"client", "spdy"}) /\ <<"client", "client">> \in Seq({"client", "spdy"})
        /\ <<"client", "client", "client">> \in Seq({"client", "spdy"})
        /\ <<"spdy">> \in Seq({"client", "spdy"})
    OBVIOUS
  <2>2. calls \in Seq({"client", "spdy"})
    BY <2>1, Zenon DEF Kinds
  <2> QED  BY <1>2, <2>2, ContinueKeeps DEF Begin
<1>3. ASSUME NEW r \in Requests, Resolve(r) PROVE RoutingInv'
  BY <1>3, ResolveKeeps
<1>4. ASSUME NEW r \in Requests, ResolveFails(r) PROVE RoutingInv'
  <2>1. RequestsOK /\ req[r].rt \in Nat
    BY DEF RoutingInv, RequestsOK, Request
  <2>2. req' = [req EXCEPT ![r] = [req[r] EXCEPT !.pc = "evict", !.rt = req[r].rt]]
    BY <1>4, <2>1, Zenon DEF ResolveFails, RequestsOK, Request
  <2> QED  BY <1>4, <2>1, <2>2, AdvanceKeeps, Zenon DEF ResolveFails, At
<1>5. ASSUME NEW r \in Requests,
             EvictClients(r) \/ TransportFails(r) \/ RequestReturns(r)
      PROVE  RoutingInv'
  BY <1>5, EndKeeps DEF EvictClients, TransportFails, RequestReturns
<1>6. ASSUME NEW r \in Requests, CachedTransport(r) PROVE RoutingInv'
  <2> DEFINE t == transports[req[r].name].rt
  <2>1. t \in Nat
    BY <1>6 DEF CachedTransport, TransportsOK, IsMap
  <2>2. At(r, "transport") /\ ~At(r, "idle")
    BY <1>6 DEF CachedTransport, At
  <2>3. /\ req' = [req EXCEPT ![r] = [req[r] EXCEPT !.pc = "send", !.rt = t]]
        /\ UNCHANGED <<addr, current>>
    BY <1>6, Zenon DEF CachedTransport, RoutingInv, RequestsOK
  <2> HIDE DEF t
  <2> QED  BY <2>1, <2>2, <2>3, AdvanceKeeps, Zenon
<1>7. ASSUME NEW r \in Requests, FreshTransport(r) PROVE RoutingInv'
  <2> DEFINE t == created + 1
  <2>1. t \in Nat
    BY DEF TransportsOK
  <2>2. At(r, "transport") /\ ~At(r, "idle")
    BY <1>7 DEF FreshTransport, Stale, At
  <2>3. /\ req' = [req EXCEPT ![r] = [req[r] EXCEPT !.pc = "send", !.rt = t]]
        /\ UNCHANGED <<addr, current>>
    BY <1>7, Zenon DEF FreshTransport, RoutingInv, RequestsOK
  <2> HIDE DEF t
  <2> QED  BY <2>1, <2>2, <2>3, AdvanceKeeps, Zenon
<1>8. ASSUME NEW r \in Requests, CallReturns(r) PROVE RoutingInv'
  <2>1. /\ req[r].name \in Names /\ req[r].calls \in Seq({"client", "spdy"})
        /\ Len(req[r].calls) > 1
    BY <1>8 DEF CallReturns, At, RoutingInv, RequestsOK, Request
  <2>2. Tail(req[r].calls) \in Seq({"client", "spdy"})
    BY <2>1
  <2> QED  BY <1>8, <2>1, <2>2, ContinueKeeps, Zenon DEF CallReturns
<1>9. CASE UNCHANGED vars
  BY <1>9 DEF vars, RoutingInv, RequestsOK, AddressInv, At
<1> QED
  BY <1>1, <1>2, <1>3, <1>4, <1>5, <1>6, <1>7, <1>8, <1>9 DEF Next
-----------------------------------------------------------------------------
\* The cache of transports.  A number that no request can reach again is in
\* closed.
TransportInv == TransportsOK /\ ForgottenAreClosed

\* The cache is empty at first.
LEMMA TransportInit == Init => TransportInv
<1> SUFFICES ASSUME Init PROVE TransportInv
  OBVIOUS
<1>1. IsMap(transports, Names, [address : Addresses, rt : 1..created])
  BY DEF Init, EmptyMap, IsMap
<1> QED  BY <1>1 DEF Init, TransportInv, TransportsOK, ForgottenAreClosed

\* Where a transport of the cache goes that a step takes out: it is closed.
LEMMA CachedClosed ==
    ASSUME NEW name, NEW t, name \in DOMAIN transports, transports[name].rt = t
    PROVE  t \in closed \cup Cached(name)
BY DEF Cached

\* evictClients and the two outcomes of a stale transport.
LEMMA TransportNext == ASSUME RoutingInv, TransportInv, [Next]_vars PROVE TransportInv'
<1>1. TransportsOK /\ ForgottenAreClosed
  BY DEF TransportInv
<1>2. ASSUME NEW r \in Requests, EvictClients(r) PROVE TransportInv'
  <2> DEFINE name == req[r].name
  <2>1. /\ created' = created /\ closed' = closed \cup Cached(name)
        /\ transports' = MapDelete(transports, name)
    BY <1>2 DEF EvictClients
  <2> HIDE DEF name
  <2>2. TransportsOK'
    BY <1>1, <2>1 DEF TransportsOK, MapDelete, IsMap
  <2>3. ASSUME NEW t \in 1..created, t \notin closed'
        PROVE  \E n \in DOMAIN transports' : transports'[n].rt = t
    <3>1. PICK n \in DOMAIN transports : transports[n].rt = t
      BY <1>1, <2>1, <2>3 DEF ForgottenAreClosed
    <3>2. n # name
      BY <2>1, <2>3, <3>1, CachedClosed
    <3>3. n \in DOMAIN transports' /\ transports'[n] = transports[n]
      BY <2>1, <3>1, <3>2 DEF MapDelete
    <3> QED  BY <3>1, <3>3
  <2> QED  BY <2>1, <2>2, <2>3 DEF TransportInv, ForgottenAreClosed
<1>3. ASSUME NEW r \in Requests, FreshTransport(r) PROVE TransportInv'
  <2> DEFINE name == req[r].name
             entry == [address |-> req[r].address, rt |-> created + 1]
  <2>1. /\ created' = created + 1 /\ closed' = closed \cup Cached(name)
        /\ transports' = MapPut(transports, name, entry)
        /\ req[r].pc = "transport"
    BY <1>3 DEF FreshTransport, Stale, At
  <2>2. name \in Names /\ req[r].address \in Addresses
    BY <2>1 DEF RoutingInv, RequestsOK, AddressInv, At
  <2>3. entry.rt = created + 1 /\ entry \in [address : Addresses, rt : 1..created']
    BY <1>1, <2>1, <2>2 DEF TransportsOK
  <2> HIDE DEF name, entry
  <2>4. IsMap(transports, Names, [address : Addresses, rt : 1..created'])
    BY <1>1, <2>1 DEF TransportsOK, IsMap
  <2>5. TransportsOK'
    <3>1. IsMap(MapPut(transports, name, entry), Names, [address : Addresses, rt : 1..created'])
      BY <2>2, <2>3, <2>4 DEF MapPut, IsMap
    <3> QED  BY <1>1, <2>1, <3>1 DEF TransportsOK
  <2>6. ASSUME NEW t \in 1..created', t \notin closed'
        PROVE  \E n \in DOMAIN transports' : transports'[n].rt = t
    <3>1. CASE t = created + 1
      <4>1. name \in DOMAIN transports' /\ transports'[name] = entry
        BY <2>1 DEF MapPut
      <4> QED  BY <2>3, <3>1, <4>1
    <3>2. CASE t # created + 1
      <4>1. t \in 1..created
        BY <1>1, <2>1, <3>2 DEF TransportsOK
      <4>2. PICK n \in DOMAIN transports : transports[n].rt = t
        BY <1>1, <2>1, <2>6, <4>1 DEF ForgottenAreClosed
      <4>3. n # name
        BY <2>1, <2>6, <4>2, CachedClosed
      <4>4. n \in DOMAIN transports' /\ transports'[n] = transports[n]
        BY <2>1, <4>2, <4>3 DEF MapPut
      <4> QED  BY <4>2, <4>4
    <3> QED  BY <3>1, <3>2
  <2> QED  BY <2>5, <2>6 DEF TransportInv, ForgottenAreClosed
<1>4. ASSUME NEW r \in Requests, TransportFails(r) PROVE TransportInv'
  BY <1>1, <1>4 DEF TransportFails, TransportInv, TransportsOK, ForgottenAreClosed
<1>5. CASE UNCHANGED routing
  BY <1>1, <1>5 DEF routing, TransportInv, TransportsOK, ForgottenAreClosed
<1> QED
  BY <1>2, <1>3, <1>4, <1>5, Zenon
  DEF Next, Directory, Begin, Resolve, ResolveFails, CachedTransport, CallReturns,
      RequestReturns, vars, routing
-----------------------------------------------------------------------------
\* However many clusters move and whatever the cache holds, no API request is
\* sent to an address that its cluster has not had since the repository call
\* that sends it began.
THEOREM AlwaysSentToCluster == Spec => []SentToCluster
<1>1. RoutingInv => SentToCluster
  BY DEF RoutingInv, AddressInv, SentToCluster
<1>2. TransportInv => TransportsOK
  BY DEF TransportInv
<1> QED
  BY RoutingInit, RoutingNext, TransportInit, TransportNext, <1>1, <1>2, PTL DEF Spec

\* Every transport that was ever created is in the cache or closed, for every
\* number of clusters, requests and transports.
THEOREM ForgottenAlwaysClosed == Spec => []ForgottenAreClosed
<1>1. TransportInv => TransportsOK /\ ForgottenAreClosed
  BY DEF TransportInv
<1> QED
  BY RoutingInit, RoutingNext, TransportInit, TransportNext, <1>1, PTL DEF Spec
-----------------------------------------------------------------------------
(***************************************************************************)
(* Port-forward.                                                           *)
(***************************************************************************)

\* The three helpers of PortForward run between Dial and WaitHelpers only.
HelpersInv ==
    /\ handler = "idle" => main = "none"
    /\ main \in {"none", "dial"} =>
          copyIn = "none" /\ copyOut = "none" /\ errReader = "none"
    /\ main \in {"return", "closeOut", "closeIn", "end"} =>
          copyIn \in {"none", "end"} /\ copyOut \in {"none", "end"} /\ errReader \in {"none", "end"}

\* The session belongs to the store, to the handler that has removed it or to
\* the reaper that has, and only the last two close it, which ends that.
OwnerInv ==
    /\ stored \in BOOLEAN /\ reaping \in BOOLEAN /\ closes \in {0, 1}
    /\ handler \in {"idle", "release"} => ~stored /\ ~reaping
    /\ stored => handler \in {"first", "read", "send", "eof", "cleanup"} /\ ~reaping
    /\ handler \in {"idle", "release"} \/ stored \/ reaping => closes = 0

\* Nothing runs at first.
LEMMA ForwardStarts == ForwardInit => HelpersInv /\ OwnerInv
BY Zenon DEF ForwardInit, HelpersInv, OwnerInv

\* A helper is launched by Dial, and ends before WaitHelpers returns.
LEMMA HelpersKept == ASSUME HelpersInv, [ForwardNext]_forwardVars PROVE HelpersInv'
<1> USE DEF HelpersInv, session, remote, helpers, pipes, HandlerAt
<1>1. CASE UNCHANGED <<main, copyIn, copyOut, errReader>> /\ (handler' = "idle" => handler = "idle")
  BY <1>1
<1>2. CASE StartPortForward
  BY <1>2 DEF StartPortForward
<1>3. CASE HandlerReads
  BY <1>3 DEF HandlerReads
<1>4. CASE Dial
  BY <1>4 DEF Dial
<1>5. CASE DialFails
  BY <1>5 DEF DialFails
<1>6. CASE LoopCancelled
  BY <1>6 DEF LoopCancelled
<1>7. CASE LoopResult
  BY <1>7 DEF LoopResult
<1>8. CASE WaitHelpers
  BY <1>8 DEF WaitHelpers
<1>9. CASE ReturnResult \/ CloseOut \/ CloseIn
  BY <1>9, SMTT(30) DEF ReturnResult, CloseOut, CloseIn
<1>10. CASE CopyInStep
  BY <1>10 DEF CopyInStep, CopyInReads, CopyInEOF, CopyInWrites, CopyInFails, CopyInEnds
<1>11. CASE CopyOutStep
  BY <1>11 DEF CopyOutStep, CopyOutReads, CopyOutEnds
<1>12. CASE ErrStep
  BY <1>12 DEF ErrStep, ErrReaderReports, ErrReaderEnds
<1>13. StartPortForwardRejected \/ SendFirst \/ HandlerSends \/ HandlerEOF
       \/ RemovePortForward \/ ReleasePortForward \/ ReturnPortForward \/ Disconnect
       \/ PodStep \/ (\E w \in Writers : WriteGets(w) \/ WriteChecks(w) \/ WriteFails(w))
       \/ Reap \/ ReapClose \/ UNCHANGED forwardVars
          => /\ UNCHANGED <<main, copyIn, copyOut, errReader>>
             /\ handler' = "idle" => handler = "idle"
  BY Zenon DEF StartPortForwardRejected, SendFirst, HandlerSends, HandlerEOF,
         RemovePortForward, ReleasePortForward, ReturnPortForward, Disconnect, PodStep,
         WriteGets, WriteChecks, WriteFails, Reap, ReapClose, forwardVars
<1> QED
  BY <1>1, <1>2, <1>3, <1>4, <1>5, <1>6, <1>7, <1>8, <1>9, <1>10, <1>11, <1>12, <1>13, Zenon
     DEF ForwardNext, HandlerStep, MainStep

\* Whoever removes the session from the store closes it, once.
LEMMA OwnerKept == ASSUME OwnerInv, [ForwardNext]_forwardVars PROVE OwnerInv'
<1> USE DEF OwnerInv, session, HandlerAt
<1>1. CASE UNCHANGED <<handler, stored, reaping, closes>>
  BY <1>1
<1>2. CASE StartPortForward \/ StartPortForwardRejected
  <2>1. closes' = 0 /\ reaping' = FALSE
    BY <1>2 DEF StartPortForward, StartPortForwardRejected
  <2>2. \/ stored' = TRUE /\ handler' = "first"
        \/ stored' = FALSE /\ handler' = "done"
    BY <1>2 DEF StartPortForward, StartPortForwardRejected
  <2> QED
    BY <2>1, <2>2, Zenon
<1>3. CASE SendFirst \/ HandlerReads \/ HandlerSends \/ HandlerEOF
  BY <1>3 DEF SendFirst, HandlerReads, HandlerSends, HandlerEOF
<1>4. CASE RemovePortForward
  BY <1>4, Zenon DEF RemovePortForward
<1>5. CASE ReleasePortForward
  <2>1. closes' = 1
    BY <1>5 DEF ReleasePortForward, CancelAndClose
  <2> QED
    BY <1>5, <2>1 DEF ReleasePortForward
<1>6. CASE ReturnPortForward
  BY <1>6 DEF ReturnPortForward
<1>7. CASE Reap
  BY <1>7, Zenon DEF Reap
<1>8. CASE ReapClose
  <2>1. closes' = 1
    BY <1>8 DEF ReapClose, CancelAndClose
  <2> QED
    BY <1>8, <2>1, Zenon DEF ReapClose
<1>9. Disconnect \/ Dial \/ DialFails \/ MainStep \/ CopyInStep \/ CopyOutStep \/ ErrStep
      \/ PodStep \/ (\E w \in Writers : WriteGets(w) \/ WriteChecks(w) \/ WriteFails(w))
      \/ UNCHANGED forwardVars
         => UNCHANGED <<handler, stored, reaping, closes>>
  BY Zenon DEF Disconnect, Dial, DialFails, MainStep, LoopCancelled, LoopResult, WaitHelpers,
         ReturnResult, CloseOut, CloseIn, CopyInStep, CopyInReads, CopyInEOF, CopyInWrites,
         CopyInFails, CopyInEnds, CopyOutStep, CopyOutReads, CopyOutEnds, ErrStep,
         ErrReaderReports, ErrReaderEnds, PodStep, WriteGets, WriteChecks, WriteFails, forwardVars
<1> QED
  BY <1>1, <1>2, <1>3, <1>4, <1>5, <1>6, <1>7, <1>8, <1>9, Zenon DEF ForwardNext, HandlerStep

\* PortForward returns after its three goroutines, and handler and reaper, in
\* whichever order they find the session, close it at most once.
THEOREM HelpersAlwaysEndFirst == ForwardSpec => []HelpersEndFirst
<1>1. HelpersInv /\ OwnerInv => HelpersEndFirst
  BY DEF HelpersInv, OwnerInv, HelpersEndFirst
<1> QED
  BY <1>1, ForwardStarts, HelpersKept, OwnerKept, PTL DEF ForwardSpec
-----------------------------------------------------------------------------
(***************************************************************************)
(* The schema cache.                                                       *)
(***************************************************************************)

\* What is in the cache has been there since at most one request after it was
\* produced: as long as it has not expired, its age and the time that is left
\* are at most the TTL and one timeout together.
FreshEntries == {e \in Entry : e.left >= 0 => e.age + e.left <= Ttl + ClientTimeout}

\* A fetch: the answer has been under way since its request began, at the most.
FlightType ==
    [st : {"none", "paths", "schema", "answered"}, age : 0..Old, left : 0..ClientTimeout]

Flights ==
    {f \in FlightType :
        f.age + f.left <= ClientTimeout}

\* A call: an entry that is to be checked ages as it would in the cache.
Calls ==
    {r \in [pc : {"idle", "lookup", "check", "wait", "got", "failed"}, key : Keys, entry : Entry] :
        /\ r.pc = "check" => r.entry \in FreshEntries
        /\ r.pc = "got" => r.entry.age < Ttl + ClientTimeout}

SmallMap(m) == IsFiniteSet(DOMAIN m) /\ Cardinality(DOMAIN m) <= MaxEntries

CacheInv ==
    /\ IsMap(schemaCache, Keys, FreshEntries) /\ SmallMap(schemaCache)
    /\ flight \in [Keys -> Flights]
    /\ call \in [Callers -> Calls]

\* NoEntry is an entry that has expired, NoFlight a fetch without an answer.
LEMMA Nothings == NoEntry \in FreshEntries /\ NoFlight \in Flights
BY CacheAssumption DEF NoEntry, NoFlight, FreshEntries, Flights, FlightType, Entry, Old

\* A request begins with all its time.
LEMMA RequestFlight ==
    ASSUME NEW st \in {"paths", "schema"}
    PROVE  HttpRequest(st) \in Flights
BY CacheAssumption DEF HttpRequest, Flights, FlightType, Old

\* An entry stays fresh while the clock moves: it gets older by what it loses.
LEMMA AgedFresh == ASSUME NEW e \in FreshEntries PROVE Aged(e) \in FreshEntries
<1> USE CacheAssumption
<1>1. e \in [age : 0..Old, left : -1..Ttl] /\ (e.left >= 0 => e.age + e.left <= Ttl + ClientTimeout)
  BY DEF FreshEntries, Entry
<1>2. Aged(e) = [age |-> Older(e.age), left |-> Later(e.left)]
  BY DEF Aged
<1>3. Older(e.age) \in 0..Old /\ Older(e.age) <= e.age + 1
  BY <1>1 DEF Older, Old
<1>4. Later(e.left) \in -1..Ttl /\ (Later(e.left) >= 0 => Later(e.left) = e.left - 1 /\ e.left >= 0)
  BY <1>1 DEF Later
<1>5. Later(e.left) >= 0 => Older(e.age) + Later(e.left) <= Ttl + ClientTimeout
  BY <1>1, <1>3, <1>4 DEF Old
<1> QED
  BY <1>2, <1>3, <1>4, <1>5 DEF FreshEntries, Entry

\* Eviction only removes entries.
LEMMA UnexpiredKeeps ==
    ASSUME NEW m, IsMap(m, Keys, FreshEntries), SmallMap(m)
    PROVE  IsMap(Unexpired(m), Keys, FreshEntries) /\ SmallMap(Unexpired(m))
<1> DEFINE D == {k \in DOMAIN m : m[k].left >= 0}
<1>1. Unexpired(m) = [k \in D |-> m[k]] /\ D \subseteq DOMAIN m
  BY DEF Unexpired, Restrict
<1> HIDE DEF D
<1>2. IsFiniteSet(D) /\ Cardinality(D) <= Cardinality(DOMAIN m) /\ Cardinality(DOMAIN m) \in Nat
      /\ Cardinality(D) \in Nat
  BY <1>1, FS_Subset, FS_CardinalityType DEF SmallMap
<1>3. DOMAIN Unexpired(m) = D
  BY <1>1
<1>4. SmallMap(Unexpired(m))
  BY <1>2, <1>3, CacheAssumption DEF SmallMap
<1> QED
  BY <1>1, <1>4 DEF IsMap

\* Store never exceeds the limit, whichever fetches end at the same time.
LEMMA StoreKeeps ==
    ASSUME IsMap(schemaCache, Keys, FreshEntries), SmallMap(schemaCache),
           NEW k \in Keys, NEW e \in FreshEntries
    PROVE  IsMap(Store(k, e), Keys, FreshEntries) /\ SmallMap(Store(k, e))
<1> DEFINE m == IF Cardinality(DOMAIN schemaCache) >= MaxEntries
                THEN Unexpired(schemaCache) ELSE schemaCache
<1>1. IsMap(m, Keys, FreshEntries) /\ SmallMap(m)
  BY UnexpiredKeeps
<1>2. Store(k, e) = IF Cardinality(DOMAIN m) < MaxEntries THEN MapPut(m, k, e) ELSE m
  BY DEF Store
<1> HIDE DEF m
<1>3. IsMap(MapPut(m, k, e), Keys, FreshEntries)
  BY <1>1, SMTT(30) DEF MapPut, IsMap
<1>4. ASSUME Cardinality(DOMAIN m) < MaxEntries PROVE SmallMap(MapPut(m, k, e))
  <2>1. DOMAIN MapPut(m, k, e) = DOMAIN m \cup {k}
    BY DEF MapPut
  <2>2. /\ IsFiniteSet(DOMAIN m \cup {k})
        /\ Cardinality(DOMAIN m \cup {k}) <= Cardinality(DOMAIN m) + 1
        /\ Cardinality(DOMAIN m) \in Nat /\ Cardinality(DOMAIN m \cup {k}) \in Nat
    <3>1. IsFiniteSet(DOMAIN m)
      BY <1>1 DEF SmallMap
    <3>2. Cardinality(DOMAIN m) \in Nat
      BY <3>1, FS_CardinalityType
    <3>3. /\ IsFiniteSet(DOMAIN m \cup {k})
          /\ Cardinality(DOMAIN m \cup {k}) =
                IF k \in DOMAIN m THEN Cardinality(DOMAIN m) ELSE Cardinality(DOMAIN m) + 1
      BY <3>1, FS_AddElement, Zenon
    <3> QED
      BY <3>2, <3>3
  <2> QED
    BY <1>4, <2>1, <2>2, CacheAssumption DEF SmallMap
<1> QED
  BY <1>1, <1>2, <1>3, <1>4

\* Every caller that waits gets what the fetch returns.
LEMMA FinishKeeps ==
    ASSUME call \in [Callers -> Calls], NEW k \in Keys, NEW p \in {"got", "failed"},
           NEW a \in 0..ClientTimeout, Finish(k, p, a)
    PROVE  call' \in [Callers -> Calls]
<1> USE CacheAssumption
<1> SUFFICES ASSUME NEW c \in Callers, CallAt(c, "wait"), call[c].key = k
             PROVE  [pc |-> p, key |-> k, entry |-> [call[c].entry EXCEPT !.age = a]] \in Calls
  BY DEF Finish
<1>1. call[c].entry \in Entry
  BY DEF Calls
<1> DEFINE e == [call[c].entry EXCEPT !.age = a]
<1>2. e \in Entry /\ e.age = a
  BY <1>1 DEF Entry, Old
<1> HIDE DEF e
<1>3. a < Ttl + ClientTimeout
  OBVIOUS
<1> QED
  BY <1>2, <1>3, Zenon DEF Calls, e

\* A call and a fetch, each with one step.
LEMMA CallStepKeeps ==
    ASSUME CacheInv, NEW c \in Callers, CallStep(c) \/ \E k \in Keys : ResolveSchema(c, k)
    PROVE  CacheInv'
<1> USE CacheAssumption DEF CallAt, Goto
<1>1. call[c] \in Calls /\ call[c].key \in Keys /\ call[c].entry \in Entry
      /\ call[c] = [pc |-> call[c].pc, key |-> call[c].key, entry |-> call[c].entry]
  BY DEF CacheInv, Calls
<1>2. ASSUME NEW r \in Calls, call' = [call EXCEPT ![c] = r] PROVE call' \in [Callers -> Calls]
  BY <1>2 DEF CacheInv
<1>3. ASSUME NEW k \in Keys, ResolveSchema(c, k) PROVE CacheInv'
  <2>1. [pc |-> "lookup", key |-> k, entry |-> NoEntry] \in Calls
    BY Nothings DEF Calls, FreshEntries
  <2> QED
    BY <1>2, <1>3, <2>1 DEF ResolveSchema, CacheInv, SmallMap
<1>4. CASE Lookup(c)
  <2> DEFINE e == IF call[c].key \in DOMAIN schemaCache THEN schemaCache[call[c].key] ELSE NoEntry
  <2>1. e \in FreshEntries /\ e \in Entry
    BY Nothings DEF CacheInv, IsMap, FreshEntries
  <2>2. call' = [call EXCEPT ![c] = [pc |-> "check", key |-> call[c].key, entry |-> e]]
    BY <1>4, SMTT(30) DEF Lookup
  <2> HIDE DEF e
  <2>3. [pc |-> "check", key |-> call[c].key, entry |-> e] \in Calls
    BY <1>1, <2>1 DEF Calls
  <2> QED
    BY <1>2, <1>4, <2>2, <2>3 DEF Lookup, CacheInv, SmallMap
<1>5. ASSUME NEW p \in {"got", "wait", "idle"}, Goto(c, p),
             p = "got" => call[c].pc = "check" /\ call[c].entry.left > 0
      PROVE  call' \in [Callers -> Calls]
  <2>1. call' = [call EXCEPT ![c] = [call[c] EXCEPT !.pc = p]]
    BY <1>5 DEF CacheInv
  <2>2. p = "got" => call[c].entry.age < Ttl + ClientTimeout
    BY <1>1, <1>5 DEF Calls, FreshEntries, Entry, Old
  <2>3. [call[c] EXCEPT !.pc = p] \in Calls
    BY <1>1, <2>2 DEF Calls
  <2> QED
    BY <1>2, <2>1, <2>3, Zenon
<1>6. CASE Hit(c)
  BY <1>5, <1>6 DEF Hit, CacheInv, SmallMap
<1>7. CASE Miss(c)
  <2>1. flight' \in [Keys -> Flights]
    BY <1>1, <1>7, RequestFlight DEF Miss, CacheInv
  <2> QED
    BY <1>5, <1>7, <2>1 DEF Miss, CacheInv, SmallMap
<1>8. CASE Return(c)
  BY <1>5, <1>8 DEF Return, CacheInv, SmallMap
<1> QED
  BY <1>3, <1>4, <1>6, <1>7, <1>8 DEF CallStep

\* A fetch fails, is answered or returns.
LEMMA FetchKeeps ==
    ASSUME CacheInv, NEW k \in Keys,
           FetchStep(k) \/ NextRequest(k) \/ Answer(k) \/ FetchFails(k)
    PROVE  CacheInv'
<1> USE CacheAssumption
<1>1. /\ flight[k] \in FlightType
      /\ flight[k].age + flight[k].left <= ClientTimeout
  BY DEF CacheInv, Flights, FlightType
<1>2. flight[k].age \in 0..ClientTimeout /\ flight[k].left \in 0..ClientTimeout
  BY <1>1 DEF FlightType, Old
<1>3. CASE FetchFails(k)
  <2>1. call' \in [Callers -> Calls]
    BY <1>3, FinishKeeps DEF FetchFails, CacheInv
  <2> QED
    BY <1>3, <2>1, Nothings DEF FetchFails, CacheInv, SmallMap
<1>4. CASE Answer(k)
  <2>1. flight' = [flight EXCEPT ![k] = [st |-> "answered", age |-> 0, left |-> flight[k].left]]
    BY <1>4 DEF Answer
  <2>2. [st |-> "answered", age |-> 0, left |-> flight[k].left] \in Flights
    BY <1>2 DEF Flights, FlightType, Old
  <2> QED
    BY <1>4, <2>1, <2>2 DEF Answer, CacheInv, SmallMap
<1>5. CASE FetchReturns(k)
  <2> DEFINE e == [age |-> flight[k].age, left |-> Ttl]
  <2>1. e \in FreshEntries
    BY <1>2 DEF FreshEntries, Entry, Old
  <2> HIDE DEF e
  <2>2. IsMap(schemaCache', Keys, FreshEntries) /\ SmallMap(schemaCache')
    BY <1>5, <2>1, StoreKeeps DEF FetchReturns, CacheInv, e
  <2>3. call' \in [Callers -> Calls]
    BY <1>2, <1>5, FinishKeeps DEF FetchReturns, CacheInv
  <2>4. flight' \in [Keys -> Flights]
    BY <1>5, Nothings DEF FetchReturns, CacheInv
  <2> QED
    BY <2>2, <2>3, <2>4 DEF CacheInv
<1>6. CASE NextRequest(k)
  BY <1>6, RequestFlight DEF NextRequest, CacheInv, SmallMap
<1> QED
  BY <1>3, <1>4, <1>5, <1>6 DEF FetchStep, TimesOut

\* The clock moves: what is cached, fetched and checked ages together.
LEMMA TickKeeps == ASSUME CacheInv, Tick PROVE CacheInv'
<1> USE CacheAssumption
<1>1. IsMap(schemaCache', Keys, FreshEntries) /\ SmallMap(schemaCache')
  BY AgedFresh, Zenon DEF Tick, CacheInv, IsMap, SmallMap
<1>2. ASSUME NEW k \in Keys PROVE flight'[k] \in Flights
  <2>1. /\ flight[k] \in FlightType
        /\ flight[k].age + flight[k].left <= ClientTimeout
    BY DEF CacheInv, Flights, FlightType
  <2> DEFINE a == IF flight[k].st = "answered" THEN Older(flight[k].age) ELSE 0
  <2>2. a \in 0..Old /\ a <= flight[k].age + 1
    BY <2>1 DEF FlightType, Older, Old
  <2>3. flight[k] # NoFlight => flight[k].left > 0 /\ flight'[k] =
           [st |-> flight[k].st, age |-> a, left |-> flight[k].left - 1]
    BY <2>1, ZenonT(30) DEF FlightType, Tick
  <2> HIDE DEF a
  <2>4. flight[k] # NoFlight => flight'[k] \in Flights
    BY <2>1, <2>2, <2>3 DEF Flights, FlightType, Old
  <2> QED
    BY <2>4, Nothings, Zenon DEF Tick
<1>3. ASSUME NEW c \in Callers PROVE call'[c] \in Calls
  <2>1. call[c] \in Calls
    BY SMTT(30) DEF CacheInv
  <2>2. CASE CallAt(c, "check") /\ call[c].entry # NoEntry
    <3> DEFINE e == Aged(call[c].entry)
    <3>1. e \in FreshEntries /\ e \in Entry
      BY <2>1, <2>2, AgedFresh DEF Calls, CallAt, FreshEntries
    <3>2. call'[c] = [pc |-> "check", key |-> call[c].key, entry |-> e]
      BY <2>1, <2>2, Zenon DEF Tick, Calls, CallAt
    <3> HIDE DEF e
    <3> QED
      BY <2>1, <3>1, <3>2, SMTT(30) DEF Calls
  <2> QED
    BY <2>1, <2>2, Zenon DEF Tick
<1>4. flight' \in [Keys -> Flights] /\ call' \in [Callers -> Calls]
  BY <1>2, <1>3, Zenon DEF Tick
<1> QED
  BY <1>1, <1>4 DEF CacheInv

\* The cache's invariant.
THEOREM CacheAlwaysInv == CacheSpec => []CacheInv
<1>1. CacheInit => CacheInv
  <2> SUFFICES ASSUME CacheInit PROVE CacheInv
    OBVIOUS
  <2>1. IsMap(schemaCache, Keys, FreshEntries) /\ DOMAIN schemaCache = {}
    BY DEF CacheInit, IsMap
  <2>2. SmallMap(schemaCache)
    BY <2>1, FS_EmptySet, CacheAssumption DEF SmallMap
  <2>3. (CHOOSE k \in Keys : TRUE) \in Keys
    BY CacheAssumption
  <2>4. [pc |-> "idle", key |-> CHOOSE k \in Keys : TRUE, entry |-> NoEntry] \in Calls
    BY <2>3, Nothings, ZenonT(30) DEF Calls, FreshEntries
  <2> QED
    BY <2>1, <2>2, <2>4, Nothings, Zenon DEF CacheInit, CacheInv
<1>2. ASSUME CacheInv, [CacheNext]_cacheVars PROVE CacheInv'
  <2>1. CASE Evict
    BY <1>2, <2>1, UnexpiredKeeps DEF Evict, CacheInv
  <2>2. CASE UNCHANGED cacheVars
    BY <1>2, <2>2 DEF cacheVars, CacheInv, SmallMap
  <2> QED
    BY <1>2, <2>1, <2>2, CallStepKeeps, FetchKeeps, TickKeeps DEF CacheNext
<1> QED
  BY <1>1, <1>2, PTL DEF CacheSpec

\* The cache never holds more entries than maxSchemaEntries, whatever is fetched
\* at the same time.
THEOREM CacheAlwaysBounded == CacheSpec => []CacheTypeOK
<1>1. CacheInv => CacheTypeOK
  BY DEF CacheInv, CacheTypeOK, IsMap, SmallMap, FreshEntries, Flights, FlightType, Calls
<1> QED
  BY <1>1, CacheAlwaysInv, PTL

\* No call of ResolveSchema returns a schema that is older than the TTL and one
\* HTTP request together, for every TTL and every timeout.
THEOREM AlwaysFresh == CacheSpec => []Fresh
<1>1. CacheInv => Fresh
  BY DEF CacheInv, Fresh, Calls, CallAt
<1> QED
  BY <1>1, CacheAlwaysInv, PTL
=============================================================================
