--------------------------- MODULE ServerTransport ---------------------------
(***************************************************************************)
(* Server.Run: the control plane's listeners are built one after the other *)
(* and run by transport.Serve: the HTTP server of the API, the chisel      *)
(* tunnel server with its certificates in a temporary directory, and three *)
(* loops (health checks, session reaper, cache evictor).                   *)
(***************************************************************************)
EXTENDS Naturals, Sequences

CONSTANT Peers  \* connections of API clients

Files == <<"ca.pem", "cert.pem", "key.pem">>
Listeners == <<"http", "tunnel", "health", "reaper", "evictor">>
Loops == {"health", "reaper", "evictor"}

VARIABLES
    conf,       \* option -> "given" or "empty" ("unread" before config.New)
    run,        \* Server.Run: what it does next
    egDone,     \* the context that Serve hands to its listeners is done
    certDir,    \* the certificate directory exists (os.RemoveAll is taken to succeed)
    certs,      \* how many of its files are written
    chisel,     \* serverRef: "nil", or the server "new", "open" or "closed"
    start,      \* listener -> its Start: "none", "run", "done"
    stopping,   \* the stopping goroutine: the listener it is at, by number
    draining,   \* http.Server.Shutdown has been called
    peer        \* Peers -> "none", "serving", "idle", "gone"

\* The options (internal/config) that the server refuses to run without, each
\* empty, as by default, or given, by a flag, the environment or the file.
ServerOptions == {"keycloak-realm-url", "allowed-origins", "external-url", "external-tunnel-url"}
Configurations == [ServerOptions -> {"empty", "given"}]

serverVars == <<run, egDone, certDir, certs, chisel, start, stopping, draining, peer>>

disk == <<certDir, certs>>
serve == <<start, stopping, draining, peer>>

ServerInit ==
    /\ conf = [option \in ServerOptions |-> "unread"]
    /\ run = "config" /\ egDone \in BOOLEAN
    /\ certDir = FALSE /\ certs = 0 /\ chisel = "nil"
    /\ start = [l \in {Listeners[i] : i \in DOMAIN Listeners} |-> "none"]
    /\ stopping = 0 /\ draining = FALSE
    /\ peer = [p \in Peers |-> "none"]
-----------------------------------------------------------------------------
(***************************************************************************)
(* Run builds the listeners.  Each step may fail, which ends Run.          *)
(***************************************************************************)
Build(from, to) == run = from /\ run' = to /\ UNCHANGED <<egDone, serve>>

\* The realm URL, the tunnel address and the OIDC provider are checked ...
Configure ==
    /\ conf["keycloak-realm-url"] = "given"
    /\ Build("config", "listen")
    /\ UNCHANGED <<disk, chisel>>

\* ... the API's port is bound and its handlers are mounted ...
NewHTTPServer ==
    /\ conf["allowed-origins"] = "given"
    /\ Build("listen", "generate")
    /\ UNCHANGED <<disk, chisel>>

\* ... BuildTunnelListener signs a certificate for the tunnel's host ...
GenerateServerCert == Build("generate", "mkdir") /\ UNCHANGED <<disk, chisel>>

MkdirTemp ==
    /\ Build("mkdir", "write")
    /\ certDir' = TRUE
    /\ UNCHANGED <<certs, chisel>>

\* ... writes it, its key and the CA's certificate to files ...
WriteFile ==
    /\ certs < Len(Files) /\ certs' = certs + 1
    /\ Build("write", IF certs' = Len(Files) THEN "tunnel" ELSE "write")
    /\ UNCHANGED <<certDir, chisel>>

\* ... and tunnel.NewServer publishes a chisel server that has a user already.
NewTunnelServer ==
    /\ Build("tunnel", "serve")
    /\ chisel' = "new"
    /\ UNCHANGED disk

\* An error: the directory, if there is one, is removed again.
BuildFails ==
    /\ run \in {"config", "listen", "generate", "mkdir", "write", "tunnel"}
    /\ run' = "returned"
    /\ certDir' = FALSE /\ certs' = 0
    /\ UNCHANGED <<egDone, chisel, serve>>
-----------------------------------------------------------------------------
(***************************************************************************)
(* Serve: every Start in a goroutine of its own.                           *)
(***************************************************************************)
StartAt(l, from, to) ==
    /\ run = "serve" /\ start[l] = from
    /\ start' = [start EXCEPT ![l] = to]
    /\ UNCHANGED <<run, certDir, certs, stopping, draining, peer>>

\* A Start that returns an error makes the group cancel its context.
StartFails(l, from) == StartAt(l, from, "done") /\ egDone' = TRUE

\* net/http serves unless Shutdown came first ...
HTTPStarts ==
    /\ StartAt("http", "none", IF draining THEN "done" ELSE "run")
    /\ UNCHANGED <<egDone, chisel>>

\* ... until then, ErrServerClosed being no error, ...
HTTPReturns ==
    /\ draining /\ StartAt("http", "run", "done")
    /\ UNCHANGED <<egDone, chisel>>

\* ... or until its listener fails.
HTTPFails == ~draining /\ StartFails("http", "run") /\ UNCHANGED chisel

\* chisel reads the certificate files and binds its port ...
TunnelStarts ==
    /\ certDir /\ StartAt("tunnel", "none", "run")
    /\ chisel' = "open"
    /\ UNCHANGED egDone

\* ... or cannot; Stop may have removed the files.
TunnelStartFails == StartFails("tunnel", "none") /\ UNCHANGED chisel

\* Wait returns when the context is done or the server was closed ...
TunnelReturns ==
    /\ egDone \/ chisel = "closed"
    /\ StartAt("tunnel", "run", "done")
    /\ chisel' = "closed"
    /\ UNCHANGED egDone

\* ... or with an error.
TunnelFails == ~egDone /\ StartFails("tunnel", "run") /\ chisel' = "closed"

\* The loops' tickers run until the context is done.
LoopStarts(l) == StartAt(l, "none", "run") /\ UNCHANGED <<egDone, chisel>>

LoopReturns(l) ==
    /\ egDone /\ StartAt(l, "run", "done")
    /\ UNCHANGED <<egDone, chisel>>
-----------------------------------------------------------------------------
(***************************************************************************)
(* The API's connections (net/http, external).                             *)
(***************************************************************************)
PeerAt(p, from, to) ==
    /\ peer[p] \in from /\ peer' = [peer EXCEPT ![p] = to]
    /\ UNCHANGED <<run, egDone, disk, chisel, start, stopping, draining>>

PeerRequests(p) == start["http"] = "run" /\ ~draining /\ PeerAt(p, {"none", "idle"}, "serving")

PeerServed(p) == PeerAt(p, {"serving"}, IF draining THEN "gone" ELSE "idle")

\* Requests derive their context from that of Start.
PeerAborted(p) == egDone /\ PeerServed(p)

PeerLeaves(p) == PeerAt(p, {"serving", "idle"}, "gone")
-----------------------------------------------------------------------------
(***************************************************************************)
(* Serve's stopping goroutine.                                             *)
(***************************************************************************)
Stops(l) ==
    /\ run = "serve" /\ stopping \in DOMAIN Listeners /\ Listeners[stopping] = l
    /\ stopping' = stopping + 1
    /\ UNCHANGED <<run, egDone, start>>

\* (mutation) the goroutine does not wait for the context
ContextDoneBlind ==
    /\ run = "serve" /\ stopping = 0
    /\ stopping' = 1
    /\ UNCHANGED <<run, egDone, disk, chisel, start, draining, peer>>

ContextDone ==
    /\ run = "serve" /\ egDone /\ stopping = 0
    /\ stopping' = 1
    /\ UNCHANGED <<run, egDone, disk, chisel, start, draining, peer>>

\* Shutdown stops accepting and closes idle connections, waiting for the others ...
Shutdown ==
    /\ run = "serve" /\ stopping = 1 /\ ~draining
    /\ draining' = TRUE
    /\ peer' = [p \in Peers |-> IF peer[p] = "idle" THEN "gone" ELSE peer[p]]
    /\ UNCHANGED <<run, egDone, disk, chisel, start, stopping>>

HTTPStopped ==
    /\ draining /\ \A p \in Peers : peer[p] # "serving"
    /\ Stops("http")
    /\ UNCHANGED <<disk, chisel, draining, peer>>

\* ... until the deadline, when Close ends them.
HTTPStopExpires ==
    /\ draining /\ \E p \in Peers : peer[p] = "serving"
    /\ Stops("http")
    /\ peer' = [p \in Peers |-> IF peer[p] = "serving" THEN "gone" ELSE peer[p]]
    /\ UNCHANGED <<disk, chisel, draining>>

\* chisel's Close refuses when the server was never started; the directory is
\* removed in any case.
TunnelStops ==
    /\ Stops("tunnel")
    /\ chisel' = IF chisel = "open" THEN "closed" ELSE chisel
    /\ certDir' = FALSE /\ certs' = 0
    /\ UNCHANGED <<draining, peer>>

LoopStops == (\E l \in Loops : Stops(l)) /\ UNCHANGED <<disk, chisel, draining, peer>>

\* Wait returns when every Start and the stopping goroutine have returned.
ServeDone ==
    /\ run = "serve" /\ stopping = Len(Listeners) + 1
    /\ \A i \in DOMAIN Listeners : start[Listeners[i]] = "done"
    /\ run' = "returned"
    /\ UNCHANGED <<egDone, disk, chisel, serve>>
-----------------------------------------------------------------------------
\* SIGTERM (external).
ServerTold ==
    /\ ~egDone /\ run # "returned" /\ egDone' = TRUE
    /\ UNCHANGED <<run, disk, chisel, serve>>

BuildStep ==
    \/ Configure \/ NewHTTPServer \/ GenerateServerCert \/ MkdirTemp \/ WriteFile
    \/ NewTunnelServer \/ ServeDone

StartStep(l) ==
    \/ l = "http" /\ (HTTPStarts \/ HTTPReturns)
    \/ l = "tunnel" /\ (TunnelStarts \/ TunnelStartFails \/ TunnelReturns)
    \/ l \in Loops /\ (LoopStarts(l) \/ LoopReturns(l))

StoppingStep ==
    ContextDone \/ Shutdown \/ HTTPStopped \/ HTTPStopExpires \/ TunnelStops \/ LoopStops

ServerNext ==
    \/ BuildStep \/ BuildFails \/ StoppingStep \/ HTTPFails \/ TunnelFails \/ ServerTold
    \/ \E i \in DOMAIN Listeners : StartStep(Listeners[i])
    \/ \E p \in Peers : PeerRequests(p) \/ PeerServed(p) \/ PeerAborted(p) \/ PeerLeaves(p)
-----------------------------------------------------------------------------
\* Every variable has the shape of what it stands for.
ServerTypeOK ==
    /\ run \in {"config", "listen", "generate", "mkdir", "write", "tunnel", "serve", "returned"}
    /\ {egDone, certDir, draining} \subseteq BOOLEAN
    /\ certs \in 0..Len(Files) /\ stopping \in 0..Len(Listeners) + 1
    /\ chisel \in {"nil", "new", "open", "closed"}
    /\ start \in [{Listeners[i] : i \in DOMAIN Listeners} -> {"none", "run", "done"}]
    /\ peer \in [Peers -> {"none", "serving", "idle", "gone"}]

\* Requests are served only with an identity provider and explicit origins
\* configured (http/server.go: "to avoid accidentally exposing the API"), and
\* with a chisel server to register an agent with (service.go answers "not
\* ready" without one).  As long as the server was not told to stop and nothing
\* failed, the tunnel server finds its certificate files.
ServesReady ==
    /\ (\E p \in Peers : peer[p] = "serving") =>
          \A option \in ServerOptions : conf[option] = "given"
    /\ (\E p \in Peers : peer[p] = "serving") => chisel # "nil"
    /\ run = "serve" /\ ~egDone => certDir /\ certs = Len(Files) /\ chisel # "closed"
=============================================================================
