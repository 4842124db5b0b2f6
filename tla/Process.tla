------------------------------- MODULE Process -------------------------------
(***************************************************************************)
(* The otterscale program: main reads the configuration, wires the         *)
(* components of the command it was given and runs it, as an agent (see    *)
(* AgentTransport) or as the control plane (see ServerTransport), until it *)
(* is told to stop or something fails.                                     *)
(***************************************************************************)
EXTENDS AgentTransport, ServerTransport

VARIABLES
    command,   \* the subcommand: "agent" or "server"
    stage      \* "start", "wire", "run" (in Agent.Run or Server.Run); of Agent.Run
               \* also "bridge", "http", "client" and "serve"; or "exited"

vars == <<command, stage, conf, agentVars, serverVars>>

Init ==
    /\ command \in {"agent", "server"} /\ stage = "start"
    /\ AgentInit /\ ServerInit

Stage(from, to) ==
    stage = from /\ stage' = to /\ UNCHANGED <<command, agentVars, serverVars>>
-----------------------------------------------------------------------------
(***************************************************************************)
(* main and the commands' RunE.                                            *)
(***************************************************************************)

\* wireCmd: the configuration is read and the flags are bound.
ReadConfig ==
    /\ Stage("start", "wire")
    /\ conf' \in IF command = "server" THEN Configurations ELSE {conf}

\* NewFleetUseCase needs the URLs that manifests contain.
NewFleetUseCase == conf["external-url"] = "given" /\ conf["external-tunnel-url"] = "given"

\* wireServer: the CA (see CAStore), the use cases and the handlers ...
WireServer ==
    /\ command = "server" /\ NewFleetUseCase /\ Stage("wire", "run")
    /\ UNCHANGED conf

\* wireAgent: the cluster around the process, the registrar, the bootstrapper ...
WireAgent == command = "agent" /\ Stage("wire", "run") /\ UNCHANGED conf

\* Agent.Run: the bootstrap (see Bootstrap), unless it is disabled ...
AgentBootstraps == command = "agent" /\ Stage("run", "bridge") /\ UNCHANGED conf

\* ... the bridge, with a port of its own ...
NewBridge == Stage("bridge", "http") /\ UNCHANGED conf

\* ... the HTTP server, on the pipe, with the proxy that Mount makes ...
MountProxy == Stage("http", "client") /\ UNCHANGED conf

\* ... and the tunnel client, which has the bridge's port and register.
NewClient == Stage("client", "serve") /\ UNCHANGED conf

\* Any of it may fail: the configuration, a component, the bootstrap, the port,
\* the credentials for the API server; main then exits.
Fails ==
    /\ \/ \E s \in {"start", "wire", "bridge", "http"} : Stage(s, "exited")
       \/ command = "agent" /\ Stage("run", "exited")
    /\ UNCHANGED conf

AgentExits == command = "agent" /\ Returned /\ Stage("serve", "exited") /\ UNCHANGED conf
ServerExits ==
    command = "server" /\ run = "returned" /\ Stage("run", "exited") /\ UNCHANGED conf

MainStep ==
    \/ ReadConfig \/ WireServer \/ WireAgent \/ Fails
    \/ AgentBootstraps \/ NewBridge \/ MountProxy \/ NewClient \/ AgentExits \/ ServerExits

\* What the agent's and the server's goroutines do.
AsAgent(A) ==
    /\ command = "agent" /\ stage = "serve" /\ A
    /\ UNCHANGED <<command, stage, conf, serverVars>>

AsServer(A) ==
    /\ command = "server" /\ stage = "run" /\ A
    /\ UNCHANGED <<command, stage, conf, agentVars>>

Next == MainStep \/ AsAgent(AgentNext) \/ AsServer(ServerNext)

Spec == Init /\ [][Next]_vars

\* Every goroutine runs.  Requests need not end by themselves, but do when their
\* context is done; the chisel session closes its connections once the tunnel
\* client has returned.
FairSpec ==
    /\ Spec
    /\ WF_vars(MainStep)
    /\ WF_vars(AsAgent(HttpStep)) /\ WF_vars(AsAgent(BridgeStep)) /\ WF_vars(AsAgent(BridgeCloses))
    /\ WF_vars(AsAgent(ClientStep)) /\ WF_vars(AsAgent(StopStep))
    /\ \A c \in Conns :
          /\ WF_vars(AsAgent(RelayStep(c))) /\ WF_vars(AsAgent(ConnGone(c)))
          /\ WF_vars(AsAgent(RequestAborts(c)))
          /\ WF_vars(AsAgent(client = "done" /\ TunnelDrops(c)))
    /\ WF_vars(AsServer(BuildStep \/ BuildFails)) /\ WF_vars(AsServer(StoppingStep))
    /\ \A i \in DOMAIN Listeners : WF_vars(AsServer(StartStep(Listeners[i])))
-----------------------------------------------------------------------------
\* Every variable has the shape of what it stands for.
TypeOK ==
    /\ command \in {"agent", "server"}
    /\ stage \in {"start", "wire", "run", "bridge", "http", "client", "serve", "exited"}
    /\ AgentTypeOK /\ ServerTypeOK

\* When the process exits, whichever of Start and Stop came first and whatever
\* failed: no relay of the agent is running and every connection it accepted is
\* closed, and the server has left no directory with a private key behind.
NothingLeft ==
    stage = "exited" =>
       /\ accepted = None /\ \A c \in Conns : ~Running(c) /\ tcp[c] # "open"
       /\ ~certDir

\* A process that is told to stop, or one of whose listeners fails, exits,
\* whatever its connections are doing and even if Stop ran before Start.
Exits ==
    (command = "agent" /\ ctxDone) \/ (command = "server" /\ egDone) ~> stage = "exited"
=============================================================================
