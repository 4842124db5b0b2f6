---------------------------- MODULE ProcessProofs ----------------------------
(***************************************************************************)
(* The otterscale program leaves nothing behind when it exits, and serves  *)
(* the API only when it is ready to, for every number of connections.  The *)
(* agent's part rests on its wait group, which counts the relays that run: *)
(* Start or Stop of the bridge has waited for it after the last connection *)
(* was accepted.  The server's part follows Run and the stopping goroutine *)
(* through what is on disk.                                                *)
(***************************************************************************)
EXTENDS Process, FiniteSetTheorems, TLAPS

(***************************************************************************)
(* The agent.                                                              *)
(***************************************************************************)
Relays == {c \in Conns : Running(c)}

\* The accept loop has a connection, and no relay for it yet.
InHand(c) == bridge = "add" /\ accepted = c

\* A connection that is open has a relay, or will get one.
Link(c) ==
    /\ tcp[c] \in {"none", "backlog"} => relay[c] = "none" /\ ~InHand(c)
    /\ tcp[c] = "open" => Running(c) \/ InHand(c)
    /\ relay[c] = "drain" => tcp[c] = "closed"
    /\ InHand(c) => relay[c] = "none"

\* Once Start has returned and Stop has waited for the relays there is none.
Joined == bridge = "done" /\ stopper \in {"client", "done"}

AgentInv ==
    /\ AgentTypeOK /\ IsFiniteSet(Relays)
    /\ bridge # "add" => accepted = None
    /\ bridge = "add" => accepted \in Conns
    /\ \A c \in Conns : Link(c)
    /\ stopper # "wait" => ctxDone
    /\ Joined => Relays = {}

\* Steps that touch neither the accept loop nor a relay.
LEMMA OtherAgentSteps ==
    ASSUME AgentInv, AgentTypeOK', UNCHANGED <<bridge, accepted, tcp, relay>>,
           stopper' # "wait" => ctxDone', stopper' \in {"client", "done"} =>
              stopper \in {"client", "done"} \/ Relays = {}
    PROVE  AgentInv'
<1>1. Relays' = Relays
  BY DEF Relays, Running
<1>2. \A c \in Conns : Link(c)'
  BY DEF AgentInv, Link, InHand, Running
<1> QED  BY <1>1, <1>2 DEF AgentInv, Joined

\* A wait group that counts nobody.
LEMMA NoRelays == ASSUME AgentInv, wg = 0 PROVE Relays = {}
<1>1. Cardinality(Relays) = 0 /\ IsFiniteSet(Relays)
  BY DEF AgentInv, AgentTypeOK, Relays
<1> QED  BY <1>1, FS_EmptySet

LEMMA HttpKeeps ==
    ASSUME AgentInv,
           \/ HttpStep \/ BridgeCloses \/ ClientStep \/ Cancel
           \/ \E c \in Conns :
                 RequestEnds(c) \/ RequestAborts(c) \/ NextRequest(c) \/ Upgrade(c) \/ ConnGone(c)
    PROVE  AgentInv'
<1>1. UNCHANGED <<bridge, accepted, tcp, relay, stopper, wg>> /\ (ctxDone => ctxDone')
  BY DEF HttpStep, HttpStart, HttpReturns, BridgeCloses, ClientStep, ClientStart, ClientReturns,
         Cancel, RequestEnds, RequestAborts, EndRequest, NextRequest, Upgrade, ConnGone,
         listeners, sides, closing
<1>2. AgentTypeOK'
  <2>1. CASE HttpStart
    BY <1>1, <2>1 DEF AgentInv, AgentTypeOK, Running, HttpStart, sides
  <2>2. CASE HttpReturns \/ BridgeCloses \/ ClientStep \/ Cancel
    BY <1>1, <2>2, ZenonT(30) DEF AgentInv, AgentTypeOK, Running, HttpReturns, BridgeCloses,
           ClientStep, ClientStart, ClientReturns, Cancel, listeners, sides, closing
  <2>3. ASSUME NEW c \in Conns,
               RequestEnds(c) \/ RequestAborts(c) \/ NextRequest(c) \/ Upgrade(c) \/ ConnGone(c)
        PROVE  AgentTypeOK'
    <3>1. UNCHANGED <<ctxDone, listeners, closing>>
      BY <2>3, Zenon DEF RequestEnds, RequestAborts, EndRequest, NextRequest, Upgrade, ConnGone
    <3>2. conn' \in [Conns -> {"none", "serving", "idle", "hijacked", "gone"}]
      BY <2>3, ZenonT(30) DEF AgentInv, AgentTypeOK, RequestEnds, RequestAborts, EndRequest,
             NextRequest, Upgrade, ConnGone
    <3>3. pipe' \in [Conns -> {"none", "open", "closed"}]
      BY <2>3, ZenonT(30) DEF AgentInv, AgentTypeOK, RequestEnds, RequestAborts, EndRequest,
             NextRequest, Upgrade, ConnGone
    <3> QED  BY <1>1, <3>1, <3>2, <3>3, Zenon DEF AgentInv, AgentTypeOK, Running, listeners,
                  closing
  <2> QED  BY <2>1, <2>2, <2>3 DEF HttpStep
<1> QED  BY <1>1, <1>2, OtherAgentSteps, SMTT(30) DEF AgentInv

LEMMA StopKeeps == ASSUME AgentInv, StopStep PROVE AgentInv'
<1>1. UNCHANGED <<bridge, accepted, tcp, relay, wg, ctxDone>> /\ (stopper' # "wait" => ctxDone)
  BY DEF StopStep, HttpStop, CloseIdle, Drained, DrainExpires, BridgeStop, RelaysJoined,
         ClientStop, Stopping, AgentInv, listeners, sides, closing
<1>2. stopper' \in {"client", "done"} => stopper \in {"client", "done"} \/ wg = 0
  BY DEF StopStep, HttpStop, CloseIdle, Drained, DrainExpires, BridgeStop, RelaysJoined,
         ClientStop, Stopping
<1>3. AgentTypeOK'
  BY <1>1, ZenonT(30) DEF AgentInv, AgentTypeOK, Running, StopStep, HttpStop, CloseIdle, Drained,
         DrainExpires, BridgeStop, RelaysJoined, ClientStop, Stopping, listeners, sides, closing
<1> QED  BY <1>1, <1>2, <1>3, OtherAgentSteps, NoRelays

\* A step of connection c leaves the others as they were.
LEMMA OneLink ==
    ASSUME AgentInv, NEW c \in Conns, UNCHANGED <<bridge, accepted>>, Link(c)',
           \A d \in Conns \ {c} : tcp'[d] = tcp[d] /\ relay'[d] = relay[d]
    PROVE  \A d \in Conns : Link(d)'
BY DEF AgentInv, Link, InHand, Running

LEMMA ConnKeeps ==
    ASSUME AgentInv, NEW c \in Conns, DialPipe(c) \/ CopyEnds(c) \/ Connect(c) \/ TunnelDrops(c)
    PROVE  AgentInv'
<1>1. /\ UNCHANGED <<bridge, accepted, stopper, ctxDone, wg>>
      /\ \A d \in Conns \ {c} : tcp'[d] = tcp[d] /\ relay'[d] = relay[d]
  BY DEF AgentInv, AgentTypeOK, DialPipe, CopyEnds, Connect, TunnelDrops, listeners, closing
<1>2. Link(c)' /\ (Running(c) <=> Running(c)')
  BY <1>1 DEF AgentInv, AgentTypeOK, Link, InHand, Running, DialPipe, CopyEnds, Connect,
              TunnelDrops
<1>3. Relays' = Relays
  <2>1. \A d \in Conns : Running(d) <=> Running(d)'
    BY <1>1, <1>2 DEF Running
  <2> QED  BY <2>1 DEF Relays
<1>4. AgentTypeOK'
  BY <1>1, <1>3 DEF AgentInv, AgentTypeOK, Relays, DialPipe, CopyEnds, Connect, TunnelDrops,
                    listeners, closing
<1>5. \A d \in Conns : Link(d)'
  BY <1>1, <1>2, OneLink
<1> QED  BY <1>1, <1>3, <1>4, <1>5 DEF AgentInv, Joined

\* A relay that returns tells the wait group.
LEMMA RelayEndKeeps ==
    ASSUME AgentInv, NEW c \in Conns, DialFails(c) \/ RelayReturns(c)
    PROVE  AgentInv'
<1>1. /\ UNCHANGED <<bridge, accepted, stopper, ctxDone>> /\ wg' = wg - 1
      /\ Running(c) /\ relay' = [relay EXCEPT ![c] = "done"]
      /\ \A d \in Conns \ {c} : tcp'[d] = tcp[d] /\ relay'[d] = relay[d]
  BY DEF AgentInv, AgentTypeOK, DialFails, RelayReturns, Running, listeners, closing
<1>2. Link(c)'
  BY <1>1 DEF AgentInv, AgentTypeOK, Link, InHand, Running, DialFails, RelayReturns
<1>3. Relays' = Relays \ {c} /\ c \in Relays
  BY <1>1 DEF AgentInv, AgentTypeOK, Relays, Running
<1>4. IsFiniteSet(Relays') /\ Cardinality(Relays') = Cardinality(Relays) - 1
  BY <1>3, FS_RemoveElement, Zenon DEF AgentInv
<1>5. wg' = Cardinality(Relays')
  BY <1>1, <1>4 DEF AgentInv, AgentTypeOK, Relays
<1>6. AgentTypeOK'
  BY <1>1, <1>5 DEF AgentInv, AgentTypeOK, Relays, DialFails, RelayReturns, listeners, closing
<1>7. \A d \in Conns : Link(d)'
  BY <1>1, <1>2, OneLink
<1> QED  BY <1>1, <1>3, <1>4, <1>6, <1>7 DEF AgentInv, Joined

LEMMA AcceptKeeps == ASSUME AgentInv, NEW c \in Conns, Accept(c) PROVE AgentInv'
<1>1. /\ UNCHANGED <<stopper, ctxDone, wg, relay>>
      /\ bridge = "accept" /\ bridge' = "add" /\ accepted' = c /\ tcp[c] = "backlog"
      /\ tcp'[c] = "open" /\ \A d \in Conns \ {c} : tcp'[d] = tcp[d]
  BY DEF AgentInv, AgentTypeOK, Accept, closing
<1>2. \A d \in Conns : Link(d)'
  BY <1>1 DEF AgentInv, Link, InHand, Running
<1>3. Relays' = Relays
  BY <1>1 DEF Relays, Running
<1>4. AgentTypeOK'
  BY <1>1, <1>3 DEF AgentInv, AgentTypeOK, Relays, Accept, closing
<1> QED  BY <1>1, <1>2, <1>3, <1>4 DEF AgentInv, Joined

LEMMA AddKeeps == ASSUME AgentInv, AddRelay PROVE AgentInv'
<1> DEFINE c == accepted
<1>1. /\ UNCHANGED <<stopper, ctxDone, tcp>> /\ wg' = wg + 1 /\ c \in Conns
      /\ bridge = "add" /\ bridge' = "accept" /\ accepted' = None
      /\ relay[c] = "none" /\ relay'[c] = "dial" /\ relay' = [relay EXCEPT ![c] = "dial"]
      /\ \A d \in Conns \ {c} : relay'[d] = relay[d]
  BY DEF AgentInv, AgentTypeOK, AddRelay, Link, InHand, closing
<1>2. \A d \in Conns : Link(d)'
  BY <1>1 DEF AgentInv, AgentTypeOK, Link, InHand, Running
<1>3. Relays' = Relays \cup {c} /\ c \notin Relays
  BY <1>1 DEF AgentInv, AgentTypeOK, Relays, Running
<1>4. IsFiniteSet(Relays') /\ Cardinality(Relays') = Cardinality(Relays) + 1
  BY <1>3, FS_AddElement, Zenon DEF AgentInv
<1>5. wg' = Cardinality(Relays')
  BY <1>1, <1>4 DEF AgentInv, AgentTypeOK, Relays
<1>6. AgentTypeOK'
  BY <1>1, <1>5 DEF AgentInv, AgentTypeOK, Relays, AddRelay, closing
<1> QED  BY <1>1, <1>2, <1>4, <1>6 DEF AgentInv, Joined

\* The accept loop ends, waiting for the relays or, after an error, before the
\* stopping goroutine has begun to.
LEMMA AcceptEndKeeps ==
    ASSUME AgentInv, BridgeStart \/ AcceptEnds \/ BridgeReturns \/ AcceptFails
    PROVE  AgentInv'
<1>1. /\ UNCHANGED <<stopper, wg, accepted, tcp, relay>> /\ (ctxDone => ctxDone')
      /\ bridge # "add" /\ bridge' # "add"
  BY DEF BridgeStart, AcceptEnds, BridgeReturns, AcceptFails, sides
<1>2. Relays' = Relays /\ \A c \in Conns : Link(c)'
  BY <1>1 DEF AgentInv, Relays, Link, InHand, Running
<1>3. AgentTypeOK'
  BY <1>1, <1>2, Zenon DEF AgentInv, AgentTypeOK, Relays, BridgeStart, AcceptEnds, BridgeReturns,
                    AcceptFails, closing, sides
<1>4. bridge' = "done" => wg = 0 \/ stopper = "wait"
  BY DEF BridgeStart, AcceptEnds, BridgeReturns, AcceptFails, AgentInv
<1> QED  BY <1>1, <1>2, <1>3, <1>4, NoRelays DEF AgentInv, Joined

LEMMA AgentKeeps == ASSUME AgentInv, AgentNext PROVE AgentInv'
BY HttpKeeps, StopKeeps, ConnKeeps, RelayEndKeeps, AcceptKeeps, AddKeeps, AcceptEndKeeps
   DEF AgentNext, BridgeStep, RelayStep
-----------------------------------------------------------------------------
(***************************************************************************)
(* The server.                                                             *)
(***************************************************************************)
Given(option) == conf[option] = "given"

\* What Run does after it has looked at the allowed origins.
Built == {"generate", "mkdir", "write", "tunnel", "serve"}

Ready == chisel # "nil" /\ \A option \in ServerOptions : Given(option)

Serving == (\E l \in DOMAIN start : start[l] # "none") \/ (\E p \in Peers : peer[p] # "none")

ConfInv ==
    /\ run \in Built \cup {"listen"} => Given("keycloak-realm-url")
    /\ run \in Built => Given("allowed-origins")
    /\ Serving => Ready
    /\ run = "serve" => chisel # "nil"

\* The certificate directory, from MkdirTemp to the second of the Stop calls.
DiskInv ==
    /\ run \in {"config", "listen", "generate", "mkdir"} => ~certDir /\ certs = 0
    /\ run = "tunnel" => certDir /\ certs = Len(Files)
    /\ run = "write" => certDir
    /\ run \notin {"serve", "returned"} => chisel = "nil" /\ stopping = 0
    /\ run = "serve" /\ ~egDone =>
          certDir /\ certs = Len(Files) /\ chisel # "closed" /\ stopping = 0
    /\ run = "serve" /\ stopping > 2 => ~certDir
    /\ run = "returned" => ~certDir

Names == {"http", "tunnel", "health", "reaper", "evictor"}

ServeTypes ==
    /\ certs \in 0..3 /\ stopping \in 0..6
    /\ start \in [Names -> {"none", "run", "done"}]
    /\ peer \in [Peers -> {"none", "serving", "idle", "gone"}]

ServerInv == ServeTypes /\ ConfInv /\ DiskInv

\* The listeners, by number.
LEMMA ListenerFacts ==
    /\ DOMAIN Listeners = 1..5 /\ Len(Listeners) = 5 /\ Len(Files) = 3
    /\ Listeners[1] = "http" /\ Listeners[2] = "tunnel" /\ Listeners[3] = "health"
    /\ Listeners[4] = "reaper" /\ Listeners[5] = "evictor"
BY DEF Listeners, Files

LEMMA ListenerNames == {Listeners[i] : i \in DOMAIN Listeners} = Names
<1>1. \A i \in 1..5 : i \in {1, 2, 3, 4, 5}
  OBVIOUS
<1> QED  BY <1>1, ListenerFacts DEF Names

\* Run builds the listeners: no goroutine is running yet.
LEMMA BuildKeeps ==
    ASSUME ServerInv, UNCHANGED conf, BuildStep \/ BuildFails
    PROVE  ServerInv'
<1>1. UNCHANGED <<egDone, start, stopping, draining, peer>>
  BY DEF BuildStep, BuildFails, ServeDone, Configure, NewHTTPServer, GenerateServerCert, MkdirTemp,
         WriteFile, NewTunnelServer, Build, serve
<1>2. Serving' = Serving
  BY <1>1 DEF Serving
<1>3. CASE Configure \/ NewHTTPServer \/ GenerateServerCert \/ MkdirTemp
  <2>1. UNCHANGED <<certs, chisel>>
    BY <1>3 DEF Configure, NewHTTPServer, GenerateServerCert, MkdirTemp, disk
  <2>2. ServeTypes'
    BY <1>1, <2>1 DEF ServerInv, ServeTypes
  <2>3. ConfInv'
    BY <1>2, <1>3, <2>1 DEF Configure, NewHTTPServer, GenerateServerCert, MkdirTemp, Build,
           ServerInv, ConfInv, Built, Given, Ready
  <2>4. DiskInv'
    BY <1>1, <1>3, <2>1 DEF Configure, NewHTTPServer, GenerateServerCert, MkdirTemp, Build,
           ServerInv, DiskInv, disk
  <2> QED  BY <2>2, <2>3, <2>4 DEF ServerInv
<1>4. CASE WriteFile
  <2>1. UNCHANGED <<certDir, chisel>> /\ run = "write" /\ certs < 3 /\ certs' = certs + 1
        /\ run' = IF certs' = 3 THEN "tunnel" ELSE "write"
    BY <1>4, ListenerFacts DEF WriteFile, Build
  <2>2. ServeTypes'
    BY <1>1, <2>1 DEF ServerInv, ServeTypes
  <2>3. ConfInv'
    BY <1>2, <2>1 DEF ServerInv, ConfInv, Built, Given, Ready
  <2>4. DiskInv'
    BY <1>1, <2>1, ListenerFacts DEF ServerInv, DiskInv
  <2> QED  BY <2>2, <2>3, <2>4 DEF ServerInv
<1>5. CASE NewTunnelServer
  <2>1. UNCHANGED <<certDir, certs>> /\ run = "tunnel" /\ run' = "serve" /\ chisel' = "new"
    BY <1>5 DEF NewTunnelServer, Build, disk
  <2>2. ServeTypes'
    BY <1>1, <2>1 DEF ServerInv, ServeTypes
  <2>3. ConfInv'
    BY <1>2, <2>1 DEF ServerInv, ConfInv, Built, Given, Ready
  <2>4. DiskInv'
    BY <1>1, <2>1 DEF ServerInv, DiskInv
  <2> QED  BY <2>2, <2>3, <2>4 DEF ServerInv
<1>6. CASE BuildFails \/ ServeDone
  <2>1. run' = "returned" /\ ~certDir' /\ chisel' = chisel /\ certs' \in {0, certs}
    BY <1>6, ListenerFacts DEF BuildFails, ServeDone, ServerInv, DiskInv, disk
  <2>2. ServeTypes'
    BY <1>1, <2>1 DEF ServerInv, ServeTypes
  <2>3. ConfInv'
    BY <1>2, <2>1 DEF ServerInv, ConfInv, Built, Given, Ready
  <2>4. DiskInv'
    BY <2>1 DEF DiskInv
  <2> QED  BY <2>2, <2>3, <2>4 DEF ServerInv
<1> QED  BY <1>3, <1>4, <1>5, <1>6 DEF BuildStep

\* A Start begins or returns.
LEMMA StartKeeps ==
    ASSUME ServerInv, NewFleetUseCase, UNCHANGED conf,
           \/ HTTPFails \/ TunnelFails
           \/ \E i \in DOMAIN Listeners : StartStep(Listeners[i])
    PROVE  ServerInv'
<1>1. PICK l \in Names, from \in {"none", "run"}, to \in {"run", "done"} : StartAt(l, from, to)
  <2>1. \A l \in Loops : l \in Names
    BY DEF Loops, Names
  <2> QED
    BY <2>1 DEF HTTPFails, TunnelFails, StartFails, StartStep, HTTPStarts, HTTPReturns,
           TunnelStarts, TunnelStartFails, TunnelReturns, LoopStarts, LoopReturns, Names
<1>2. /\ run = "serve" /\ UNCHANGED <<run, certDir, certs, stopping, draining, peer>>
      /\ start' = [start EXCEPT ![l] = to]
  BY <1>1 DEF StartAt
<1>3. /\ egDone => egDone'
      /\ chisel' # "nil"
      /\ ~egDone' => chisel' # "closed"
  BY <1>2 DEF HTTPFails, TunnelFails, StartFails, StartStep, HTTPStarts, HTTPReturns,
         TunnelStarts, TunnelStartFails, TunnelReturns, LoopStarts, LoopReturns,
         ServerInv, ConfInv, DiskInv
<1>4. ServeTypes'
  BY <1>2 DEF ServerInv, ServeTypes
<1>5. ConfInv'
  BY <1>2, <1>3 DEF ServerInv, ConfInv, Built, Given, Ready, NewFleetUseCase, ServerOptions
<1>6. DiskInv'
  BY <1>2, <1>3 DEF ServerInv, DiskInv
<1> QED  BY <1>4, <1>5, <1>6 DEF ServerInv

\* A client of the API comes, is served and leaves.
LEMMA PeerKeeps ==
    ASSUME ServerInv, UNCHANGED conf, NEW p \in Peers,
           PeerRequests(p) \/ PeerServed(p) \/ PeerAborted(p) \/ PeerLeaves(p)
    PROVE  ServerInv'
<1>1. PICK from \in SUBSET {"none", "serving", "idle"}, to \in {"serving", "idle", "gone"} :
         PeerAt(p, from, to) /\ ("none" \in from => start["http"] = "run")
  BY DEF PeerRequests, PeerServed, PeerAborted, PeerLeaves
<1>2. /\ peer[p] \in from /\ peer' = [peer EXCEPT ![p] = to]
      /\ UNCHANGED <<run, egDone, certDir, certs, chisel, start, stopping, draining>>
  BY <1>1 DEF PeerAt, disk
<1>3. Serving
  BY <1>1, <1>2 DEF Serving, ServerInv, ServeTypes, Names
<1>4. ServeTypes' /\ DiskInv'
  BY <1>2 DEF ServerInv, ServeTypes, DiskInv
<1>5. ConfInv'
  BY <1>2, <1>3 DEF ServerInv, ConfInv, Built, Given, Ready
<1> QED  BY <1>4, <1>5 DEF ServerInv

\* The stopping goroutine goes from listener to listener, by number ...
LEMMA StopsAt ==
    ASSUME ServerInv, NEW l \in Names, Stops(l)
    PROVE  /\ run = "serve" /\ egDone /\ UNCHANGED <<run, egDone, start>>
           /\ stopping \in 1..5 /\ stopping' = stopping + 1
           /\ l = "http" => stopping = 1
           /\ l = "tunnel" => stopping = 2
           /\ l \in Loops => stopping > 2
<1>1. stopping \in {1, 2, 3, 4, 5} /\ Listeners[stopping] = l
  BY ListenerFacts DEF Stops
<1> QED  BY <1>1, ListenerFacts DEF Stops, Loops, ServerInv, DiskInv

\* ... once the context is done, and removes the directory at the second.
LEMMA StoppingKeeps ==
    ASSUME ServerInv, UNCHANGED conf, StoppingStep
    PROVE  ServerInv'
<1>1. /\ run = "serve" /\ egDone /\ UNCHANGED <<run, egDone, start>>
      /\ stopping' \in 0..6 /\ certs' \in {0, certs} /\ chisel' # "nil"
      /\ stopping' > 2 => ~certDir'
  <2>1. CASE ContextDone
    BY <2>1 DEF ContextDone, ServerInv, ConfInv, disk
  <2>2. CASE Shutdown
    BY <2>2 DEF Shutdown, ServerInv, ConfInv, DiskInv, disk
  <2>3. CASE HTTPStopped \/ HTTPStopExpires
    <3>1. Stops("http") /\ UNCHANGED <<certDir, certs, chisel>> /\ "http" \in Names
      BY <2>3 DEF HTTPStopped, HTTPStopExpires, Names, disk
    <3> QED  BY <3>1, StopsAt DEF ServerInv, ConfInv
  <2>4. CASE TunnelStops
    <3>1. Stops("tunnel") /\ ~certDir' /\ certs' = 0 /\ "tunnel" \in Names
          /\ chisel' \in {chisel, "closed"}
      BY <2>4 DEF TunnelStops, Names
    <3> QED  BY <3>1, StopsAt DEF ServerInv, ConfInv
  <2>5. CASE LoopStops
    <3>1. PICK l \in Loops : Stops(l) /\ UNCHANGED <<certDir, certs, chisel>> /\ l \in Names
      BY <2>5 DEF LoopStops, Loops, Names, disk
    <3> QED  BY <3>1, StopsAt DEF ServerInv, ConfInv, DiskInv
  <2> QED  BY <2>1, <2>2, <2>3, <2>4, <2>5 DEF StoppingStep
<1>2. /\ peer' \in [Peers -> {"none", "serving", "idle", "gone"}]
      /\ \A p \in Peers : peer'[p] # "none" => peer[p] # "none"
  BY DEF StoppingStep, ContextDone, Shutdown, HTTPStopped, HTTPStopExpires, TunnelStops,
         LoopStops, ServerInv, ServeTypes
<1>3. ServeTypes' /\ DiskInv'
  BY <1>1, <1>2 DEF ServerInv, ServeTypes, DiskInv
<1>4. Serving' => Serving
  BY <1>1, <1>2 DEF Serving
<1>5. ConfInv'
  BY <1>1, <1>4 DEF ServerInv, ConfInv, Built, Given, Ready
<1> QED  BY <1>3, <1>5 DEF ServerInv

LEMMA ServerKeeps ==
    ASSUME ServerInv, NewFleetUseCase, UNCHANGED conf, ServerNext
    PROVE  ServerInv'
<1>1. CASE ServerTold
  BY <1>1 DEF ServerTold, ServerInv, ServeTypes, ConfInv, DiskInv, Built, Given, Ready, Serving,
         disk, serve
<1> QED  BY <1>1, BuildKeeps, StartKeeps, PeerKeeps, StoppingKeeps DEF ServerNext
-----------------------------------------------------------------------------
(***************************************************************************)
(* The program.                                                            *)
(***************************************************************************)
AgentIdle == bridge = "none" /\ \A c \in Conns : tcp[c] = "none"

ServerIdle == run = "config" /\ ~Serving

\* What the program is not, or not yet, or not any more, is at rest.
ProcessInv ==
    /\ AgentInv /\ ServerInv
    /\ stage \in {"bridge", "http", "client", "serve"} => command = "agent"
    /\ \/ AgentIdle
       \/ command = "agent" /\ (stage = "serve" \/ (stage = "exited" /\ Returned))
    /\ \/ ServerIdle
       \/ command = "server" /\ (stage = "run" \/ (stage = "exited" /\ run = "returned"))
    /\ command = "server" /\ stage = "run" => NewFleetUseCase

LEMMA ProcessStarts == Init => ProcessInv
<1> SUFFICES ASSUME Init PROVE ProcessInv
  OBVIOUS
<1>1. Relays = {} /\ IsFiniteSet({}) /\ Cardinality({}) = 0
  BY FS_EmptySet DEF Init, AgentInit, Relays, Running
<1>2. AgentInv
  BY <1>1, Zenon DEF Init, AgentInit, AgentInv, AgentTypeOK, Relays, Link, InHand, Running, Joined
<1>3. ServerInv /\ ServerIdle
  BY ListenerNames, SMTT(30) DEF Init, ServerInit, ServerInv, ServeTypes, ConfInv, DiskInv, Serving,
         Built, ServerIdle
<1> QED  BY <1>2, <1>3 DEF Init, AgentInit, ProcessInv, AgentIdle

\* The other command's part stays as it is.
LEMMA SameAgent ==
    ASSUME UNCHANGED agentVars
    PROVE  /\ AgentInv => AgentInv'
           /\ AgentIdle' = AgentIdle /\ Returned' = Returned
BY DEF agentVars, AgentInv, AgentTypeOK, Relays, Running, Link, InHand, Joined, AgentIdle, Returned

\* The configuration is read before the server does anything.
LEMMA SameServer ==
    ASSUME UNCHANGED serverVars, conf' = conf \/ ServerIdle
    PROVE  /\ ServerInv => ServerInv'
           /\ ServerIdle' = ServerIdle
<1>1. Serving' = Serving
  BY DEF serverVars, Serving
<1>2. ServerInv => ServeTypes' /\ DiskInv'
  BY DEF serverVars, ServerInv, ServeTypes, DiskInv
<1>3. ServerInv => ConfInv'
  BY <1>1 DEF serverVars, ServerInv, ConfInv, Built, Given, Ready, ServerIdle
<1> QED  BY <1>1, <1>2, <1>3 DEF ServerInv, ServerIdle, serverVars

LEMMA ProcessKeeps == ASSUME ProcessInv, [Next]_vars PROVE ProcessInv'
<1>1. CASE UNCHANGED vars
  <2>1. UNCHANGED <<command, stage, conf, agentVars, serverVars>> /\ run' = run
    BY <1>1 DEF vars, serverVars
  <2> QED  BY <2>1, SameAgent, SameServer DEF ProcessInv, NewFleetUseCase
<1>2. CASE MainStep
  <2> USE DEF Stage, MainStep, ReadConfig, WireServer, WireAgent, Fails,
               AgentBootstraps, NewBridge, MountProxy, NewClient, AgentExits, ServerExits
  <2>1. PICK from, to : Stage(from, to)
    BY <1>2
  <2>2. UNCHANGED <<command, agentVars, serverVars>> /\ run' = run
    BY <2>1, SMTT(30) DEF serverVars
  <2>3. conf' = conf \/ (stage = "start" /\ stage' = "wire")
    BY <1>2
  <2>4. conf' = conf \/ ServerIdle
    BY <2>3 DEF ProcessInv
  <2>5. AgentInv' /\ ServerInv' /\ AgentIdle' = AgentIdle /\ ServerIdle' = ServerIdle
        /\ Returned' = Returned
    BY <2>2, <2>4, SameAgent, SameServer DEF ProcessInv
  <2>6. stage' \in {"bridge", "http", "client", "serve"} => command = "agent"
    BY <1>2 DEF ProcessInv
  <2>7. command = "server" /\ stage' = "run" => NewFleetUseCase'
    BY <1>2, SMTT(30) DEF NewFleetUseCase
  <2>8. AgentIdle \/ (command = "agent" /\ stage' = "exited" /\ Returned)
    BY <1>2, SMTT(30) DEF ProcessInv
  <2>9. ServerIdle \/ (command = "server" /\ stage' = "exited" /\ run = "returned")
    BY <1>2 DEF ProcessInv
  <2> QED  BY <2>2, <2>5, <2>6, <2>7, <2>8, <2>9 DEF ProcessInv
<1>3. CASE AsAgent(AgentNext)
  <2>1. command = "agent" /\ stage = "serve" /\ AgentNext
        /\ UNCHANGED <<command, stage, conf, serverVars>>
    BY <1>3 DEF AsAgent
  <2>2. AgentInv' /\ ServerInv' /\ ServerIdle'
    BY <2>1, AgentKeeps, SameServer DEF ProcessInv
  <2> QED  BY <2>1, <2>2 DEF ProcessInv
<1>4. CASE AsServer(ServerNext)
  <2>1. command = "server" /\ stage = "run" /\ ServerNext
        /\ UNCHANGED <<command, stage, conf, agentVars>>
    BY <1>4 DEF AsServer
  <2>2. NewFleetUseCase /\ NewFleetUseCase'
    BY <2>1 DEF ProcessInv, NewFleetUseCase
  <2>3. AgentInv' /\ AgentIdle' /\ ServerInv'
    BY <2>1, <2>2, SameAgent, ServerKeeps DEF ProcessInv
  <2> QED  BY <2>1, <2>2, <2>3 DEF ProcessInv
<1> QED  BY <1>1, <1>2, <1>3, <1>4 DEF Next

\* NothingLeft (see Process): the relays have been waited for, and the directory
\* with the private key is removed on every way out of Server.Run.
THEOREM AlwaysNothingLeft == Spec => []NothingLeft
<1>1. ProcessInv => NothingLeft
  BY DEF ProcessInv, NothingLeft, AgentInv, AgentIdle, Link, InHand, Running, Joined, Returned,
         Relays, ServerInv, DiskInv, ServerIdle
<1> QED  BY <1>1, ProcessStarts, ProcessKeeps, PTL DEF Spec

\* ServesReady (see ServerTransport): Run refuses to go on without the options,
\* and publishes the chisel server before Serve starts a listener.
THEOREM AlwaysServesReady == Spec => []ServesReady
<1>1. ProcessInv => ServesReady
  BY DEF ProcessInv, ServesReady, ServerInv, ConfInv, DiskInv, Serving, Ready, Given
<1> QED  BY <1>1, ProcessStarts, ProcessKeeps, PTL DEF Spec
=============================================================================
