--------------------------- MODULE AgentTransport ---------------------------
(***************************************************************************)
(* The agent's transports as agent.Run composes them with transport.Serve: *)
(* the HTTP server on an in-memory pipe listener, the bridge that relays   *)
(* TCP connections of the tunnel into it, and the tunnel client.  Serve    *)
(* runs the three Start methods in goroutines and, once the context is     *)
(* done or one of them fails, stops them in order from a fourth one.       *)
(***************************************************************************)
EXTENDS Integers, FiniteSets

CONSTANT Conns  \* TCP connections from the chisel client

VARIABLES
    ctxDone,     \* egCtx is done
    http,        \* http.Server.Start: "none", "run", "done"
    bridge,      \* Bridge.Start: "none", "accept", "add", "wait", "done"
    client,      \* Client.Start: "none", "run", "done"
    stopper,     \* the stopping goroutine: the Stop call it is in
    shutting,    \* http.Server: Shutdown has been called
    tcpClosed, pipeClosed, \* the two listeners
    wg,          \* Bridge.wg
    accepted,    \* the connection the accept loop has in hand
    tcp,         \* Conns -> "none", "backlog", "open", "closed"
    relay,       \* Conns -> "none", "dial", "copy", "drain", "done"
    pipe,        \* Conns -> "none", "open", "closed"
    conn,        \* Conns -> the HTTP server's side: "none", "serving", "idle",
                 \*          "hijacked", "gone"
    expired      \* the deadline of http.Stop has passed

agentVars == <<ctxDone, http, bridge, client, stopper, shutting, tcpClosed,
          pipeClosed, wg, accepted, tcp, relay, pipe, conn, expired>>

listeners == <<http, bridge, client>>
sides     == <<tcp, relay, pipe, conn>>
closing   == <<shutting, tcpClosed, pipeClosed, expired>>
None      == "none"   \* no connection in hand

AgentInit ==
    /\ ctxDone \in BOOLEAN   \* the context may be done before Serve is called
    /\ http = "none" /\ bridge = "none" /\ client = "none"
    /\ stopper = "wait"
    /\ shutting = FALSE /\ tcpClosed = FALSE /\ pipeClosed = FALSE /\ expired = FALSE
    /\ wg = 0 /\ accepted = None
    /\ tcp = [c \in Conns |-> "none"] /\ relay = [c \in Conns |-> "none"]
    /\ pipe = [c \in Conns |-> "none"] /\ conn = [c \in Conns |-> "none"]
-----------------------------------------------------------------------------
(***************************************************************************)
(* The HTTP server.  net/http (external): Serve returns at once when the   *)
(* server is shutting down, and when its listener is closed.               *)
(***************************************************************************)
HttpStart ==
    /\ http = "none"
    /\ http' = IF shutting THEN "done" ELSE "run"
    /\ pipeClosed' = (pipeClosed \/ shutting)
    /\ UNCHANGED <<ctxDone, bridge, client, stopper, shutting, tcpClosed, wg,
                   accepted, sides, expired>>

HttpReturns ==
    /\ http = "run" /\ pipeClosed
    /\ http' = "done"
    /\ UNCHANGED <<ctxDone, bridge, client, stopper, closing, wg, accepted,
                   sides>>

\* A request is served; the connection is closed after it when the server is
\* shutting down.  A request may upgrade its connection, which net/http then
\* no longer tracks.
EndRequest(c) ==
    /\ conn' = [conn EXCEPT ![c] = IF shutting THEN "gone" ELSE "idle"]
    /\ pipe' = [pipe EXCEPT ![c] = IF shutting THEN "closed" ELSE @]
    /\ UNCHANGED <<ctxDone, listeners, stopper, closing, wg, accepted, tcp, relay>>

RequestEnds(c) ==
    /\ conn[c] = "serving"
    /\ EndRequest(c)

\* Its context is derived from the one given to Start.
RequestAborts(c) ==
    /\ conn[c] = "serving" /\ ctxDone
    /\ EndRequest(c)

NextRequest(c) ==
    /\ conn[c] = "idle" /\ pipe[c] = "open" /\ tcp[c] = "open" /\ ~shutting
    /\ conn' = [conn EXCEPT ![c] = "serving"]
    /\ UNCHANGED <<ctxDone, listeners, stopper, closing, wg, accepted, tcp,
                   relay, pipe>>

Upgrade(c) ==
    /\ conn[c] = "serving" /\ ~ctxDone
    /\ conn' = [conn EXCEPT ![c] = "hijacked"]
    /\ UNCHANGED <<ctxDone, listeners, stopper, closing, wg, accepted, tcp,
                   relay, pipe>>

\* The server's end reads the end of a closed pipe.
ConnGone(c) ==
    /\ conn[c] \in {"serving", "idle", "hijacked"} /\ pipe[c] = "closed"
    /\ conn' = [conn EXCEPT ![c] = "gone"]
    /\ UNCHANGED <<ctxDone, listeners, stopper, closing, wg, accepted, tcp,
                   relay, pipe>>
-----------------------------------------------------------------------------
(***************************************************************************)
(* The bridge.                                                             *)
(***************************************************************************)
BridgeStart ==
    /\ bridge = "none"
    /\ bridge' = "accept"
    /\ UNCHANGED <<ctxDone, http, client, stopper, closing, wg, accepted,
                   sides>>

\* The goroutine that closes the listener when the context is done.
BridgeCloses ==
    /\ bridge # "none" /\ ctxDone /\ ~tcpClosed
    /\ tcpClosed' = TRUE
    /\ UNCHANGED <<ctxDone, listeners, stopper, shutting, pipeClosed, expired,
                   wg, accepted, sides>>

Accept(c) ==
    /\ bridge = "accept" /\ ~tcpClosed /\ tcp[c] = "backlog"
    /\ bridge' = "add" /\ accepted' = c
    /\ tcp' = [tcp EXCEPT ![c] = "open"]
    /\ UNCHANGED <<ctxDone, http, client, stopper, closing, wg, relay, pipe,
                   conn>>

\* wg.Add(1) and go relay.
AddRelay ==
    /\ bridge = "add"
    /\ bridge' = "accept" /\ accepted' = None
    /\ wg' = wg + 1
    /\ relay' = [relay EXCEPT ![accepted] = "dial"]
    /\ UNCHANGED <<ctxDone, http, client, stopper, closing, tcp, pipe, conn>>

\* (mutation) the loop ends without waiting for the relays
AcceptEndsAtOnce ==
    /\ bridge = "accept" /\ tcpClosed /\ ctxDone
    /\ bridge' = "done"
    /\ UNCHANGED <<ctxDone, http, client, stopper, closing, wg, accepted,
                   sides>>

\* Accept fails because the context is done: wait for the relays ...
AcceptEnds ==
    /\ bridge = "accept" /\ tcpClosed /\ ctxDone
    /\ bridge' = "wait"
    /\ UNCHANGED <<ctxDone, http, client, stopper, closing, wg, accepted,
                   sides>>

BridgeReturns ==
    /\ bridge = "wait" /\ wg = 0
    /\ bridge' = "done"
    /\ UNCHANGED <<ctxDone, http, client, stopper, closing, wg, accepted,
                   sides>>

\* ... or for another reason: Start returns the error, and the group cancels
\* its context.
AcceptFails ==
    /\ bridge = "accept" /\ ~ctxDone
    /\ bridge' = "done" /\ ctxDone' = TRUE
    /\ UNCHANGED <<http, client, stopper, closing, wg, accepted, sides>>
-----------------------------------------------------------------------------
(***************************************************************************)
(* A relay.  pipe.Listener hands a connection over when Accept and Dial    *)
(* meet; once it is closed neither waits, so they cannot meet any more.    *)
(***************************************************************************)
DialPipe(c) ==
    /\ relay[c] = "dial" /\ http = "run" /\ ~pipeClosed
    /\ relay' = [relay EXCEPT ![c] = "copy"]
    /\ pipe' = [pipe EXCEPT ![c] = "open"]
    /\ conn' = [conn EXCEPT ![c] = "serving"]
    /\ UNCHANGED <<ctxDone, listeners, stopper, closing, wg, accepted, tcp>>

\* (mutation) a relay that cannot dial does not tell the wait group
DialFailsUncounted(c) ==
    /\ relay[c] = "dial" /\ pipeClosed
    /\ relay' = [relay EXCEPT ![c] = "done"]
    /\ tcp' = [tcp EXCEPT ![c] = "closed"]
    /\ UNCHANGED <<ctxDone, listeners, stopper, closing, wg, accepted, pipe, conn>>

DialFails(c) ==
    /\ relay[c] = "dial" /\ pipeClosed
    /\ relay' = [relay EXCEPT ![c] = "done"]
    /\ tcp' = [tcp EXCEPT ![c] = "closed"]
    /\ wg' = wg - 1
    /\ UNCHANGED <<ctxDone, listeners, stopper, closing, accepted, pipe, conn>>

\* One direction ends when an end is closed; the relay then closes both ...
CopyEnds(c) ==
    /\ relay[c] = "copy" /\ (pipe[c] = "closed" \/ tcp[c] = "closed")
    /\ relay' = [relay EXCEPT ![c] = "drain"]
    /\ pipe' = [pipe EXCEPT ![c] = "closed"]
    /\ tcp' = [tcp EXCEPT ![c] = "closed"]
    /\ UNCHANGED <<ctxDone, listeners, stopper, closing, wg, accepted, conn>>

\* ... which ends the other one.
RelayReturns(c) ==
    /\ relay[c] = "drain"
    /\ relay' = [relay EXCEPT ![c] = "done"]
    /\ wg' = wg - 1
    /\ UNCHANGED <<ctxDone, listeners, stopper, closing, accepted, tcp, pipe, conn>>
-----------------------------------------------------------------------------
(***************************************************************************)
(* The tunnel client (see TunnelClient) and the connections that its       *)
(* chisel session opens to the bridge and closes (external).               *)
(***************************************************************************)
ClientStart ==
    /\ client = "none"
    /\ client' = "run"
    /\ UNCHANGED <<ctxDone, http, bridge, stopper, closing, wg, accepted, sides>>

ClientReturns ==
    /\ client = "run" /\ ctxDone
    /\ client' = "done"
    /\ UNCHANGED <<ctxDone, http, bridge, stopper, closing, wg, accepted, sides>>

Connect(c) ==
    /\ client = "run" /\ ~tcpClosed /\ tcp[c] = "none"
    /\ tcp' = [tcp EXCEPT ![c] = "backlog"]
    /\ UNCHANGED <<ctxDone, listeners, stopper, closing, wg, accepted, relay, pipe,
                   conn>>

TunnelDrops(c) ==
    /\ tcp[c] \in {"backlog", "open"}
    /\ tcp' = [tcp EXCEPT ![c] = "closed"]
    /\ UNCHANGED <<ctxDone, listeners, stopper, closing, wg, accepted, relay, pipe,
                   conn>>
-----------------------------------------------------------------------------
(***************************************************************************)
(* Serve's stopping goroutine: http.Stop, bridge.Stop, client.Stop.        *)
(***************************************************************************)
Stopping(from, to) == stopper = from /\ stopper' = to

Cancel ==
    /\ ~ctxDone
    /\ ctxDone' = TRUE
    /\ UNCHANGED <<listeners, stopper, closing, wg, accepted, sides>>

\* Shutdown closes the listeners that Serve has registered, then the idle
\* connections, and waits for the others ...
HttpStop ==
    /\ ctxDone
    /\ Stopping("wait", "drain")
    /\ shutting' = TRUE
    /\ pipeClosed' = (pipeClosed \/ http = "run")
    /\ UNCHANGED <<ctxDone, listeners, tcpClosed, expired, wg, accepted, sides>>

CloseIdle(c) ==
    /\ stopper = "drain" /\ conn[c] = "idle"
    /\ conn' = [conn EXCEPT ![c] = "gone"]
    /\ pipe' = [pipe EXCEPT ![c] = "closed"]
    /\ UNCHANGED <<ctxDone, listeners, stopper, closing, wg, accepted, tcp, relay>>

Drained ==
    /\ \A c \in Conns : conn[c] \notin {"serving", "idle"}
    /\ Stopping("drain", "bridge")
    /\ UNCHANGED <<ctxDone, listeners, closing, wg, accepted, sides>>

\* ... until the deadline, when Close closes them.
DrainExpires ==
    /\ Stopping("drain", "bridge")
    /\ expired' = TRUE
    /\ pipe' = [c \in Conns |-> IF conn[c] \in {"serving", "idle"} THEN "closed" ELSE pipe[c]]
    /\ UNCHANGED <<ctxDone, listeners, shutting, tcpClosed, pipeClosed, wg,
                   accepted, tcp, relay, conn>>

BridgeStop ==
    /\ Stopping("bridge", "join")
    /\ tcpClosed' = TRUE /\ pipeClosed' = TRUE
    /\ UNCHANGED <<ctxDone, listeners, shutting, expired, wg, accepted, sides>>

RelaysJoined ==
    /\ wg = 0
    /\ Stopping("join", "client")
    /\ UNCHANGED <<ctxDone, listeners, closing, wg, accepted, sides>>

ClientStop ==
    /\ Stopping("client", "done")
    /\ UNCHANGED <<ctxDone, listeners, closing, wg, accepted, sides>>
-----------------------------------------------------------------------------
HttpStep == HttpStart \/ HttpReturns
BridgeStep ==
    \/ BridgeStart \/ AddRelay \/ AcceptEnds \/ BridgeReturns
    \/ \E c \in Conns : Accept(c)
ClientStep == ClientStart \/ ClientReturns
RelayStep(c) == DialPipe(c) \/ DialFails(c) \/ CopyEnds(c) \/ RelayReturns(c)
StopStep ==
    \/ HttpStop \/ Drained \/ DrainExpires \/ BridgeStop \/ RelaysJoined \/ ClientStop
    \/ \E c \in Conns : CloseIdle(c)

AgentNext ==
    \/ HttpStep \/ BridgeStep \/ BridgeCloses \/ AcceptFails \/ ClientStep
    \/ StopStep \/ Cancel
    \/ \E c \in Conns :
          \/ RelayStep(c) \/ Connect(c) \/ TunnelDrops(c)
          \/ RequestEnds(c) \/ RequestAborts(c) \/ NextRequest(c) \/ Upgrade(c) \/ ConnGone(c)
-----------------------------------------------------------------------------
Running(c) == relay[c] \in {"dial", "copy", "drain"}
Returned == http = "done" /\ bridge = "done" /\ client = "done" /\ stopper = "done"

\* Every variable has the shape of what it stands for; the wait group counts
\* the relays that run.
AgentTypeOK ==
    /\ {ctxDone, shutting, tcpClosed, pipeClosed, expired} \subseteq BOOLEAN
    /\ http \in {"none", "run", "done"} /\ client \in {"none", "run", "done"}
    /\ bridge \in {"none", "accept", "add", "wait", "done"}
    /\ stopper \in {"wait", "drain", "bridge", "join", "client", "done"}
    /\ wg = Cardinality({c \in Conns : Running(c)})
    /\ accepted \in Conns \cup {None}
    /\ tcp \in [Conns -> {"none", "backlog", "open", "closed"}]
    /\ relay \in [Conns -> {"none", "dial", "copy", "drain", "done"}]
    /\ pipe \in [Conns -> {"none", "open", "closed"}]
    /\ conn \in [Conns -> {"none", "serving", "idle", "hijacked", "gone"}]
=============================================================================
