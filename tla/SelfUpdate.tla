----------------------------- MODULE SelfUpdate -----------------------------
(***************************************************************************)
(* The agent's self-update (internal/cmd/agent): every registration        *)
(* reports the server's version; an agent of another version patches the   *)
(* image of its own Deployment, and Kubernetes replaces the pod.  Servers  *)
(* are upgraded and rolled back while replies and patches are under way,   *)
(* and the old and the new pod run side by side during a rollout.          *)
(***************************************************************************)
EXTENDS Naturals, FiniteSets

CONSTANTS
    Releases,      \* versions that are semver tags, with an image each
    Others,        \* versions that are not, such as a development build's
    MaxFaults,     \* bound: patches that fail although there is an image, and
                   \* agents that crash
    MaxUpgrades    \* bound: changes of the server

ASSUME UpdateAssumption ==
    /\ Releases # {} /\ Releases \cap Others = {}
    /\ Releases \cup Others \subseteq Nat \ {0}
    /\ MaxFaults \in Nat /\ MaxUpgrades \in Nat

Unreported == 0   \* the empty version
Versions == Releases \cup Others

VARIABLES
    server,   \* the server's version, or Unreported
    epoch,    \* how often the server has been replaced
    image,    \* the tag of the agent Deployment's image
    failed,   \* how many patches have failed and agents have crashed
    pods      \* the running agents: [version, pc, reply, seen]; seen is the
              \* epoch of the server that sent the reply

updateVars == <<server, epoch, image, failed, pods>>

PodAt(v, pc) == [version |-> v, pc |-> pc, reply |-> Unreported, seen |-> 0]

\* Agent.Run begins with the bootstrap.
NewPod(v) == PodAt(v, "bootstrap")

\* The agent is installed from the manifest of some server.
UpdateInit ==
    /\ server \in Versions \cup {Unreported} /\ epoch = 0
    /\ image \in Releases /\ failed = 0
    /\ pods = {NewPod(image)}

Replace(p, q) == pods' = (pods \ {p}) \cup {q}
-----------------------------------------------------------------------------
\* The cluster has the infrastructure and the tunnel client starts.
Bootstrapped(p) ==
    /\ p.pc = "bootstrap"
    /\ Replace(p, PodAt(p.version, "register"))
    /\ UNCHANGED <<server, epoch, image, failed>>

\* The process ends and its container is started again.
ProcessEnds(p) ==
    /\ p.pc # "bootstrap"
    /\ failed < MaxFaults /\ failed' = failed + 1
    /\ Replace(p, NewPod(p.version))
    /\ UNCHANGED <<server, epoch, image>>

\* Register is answered with the server's version.
Register(p) ==
    /\ p.pc = "register"
    /\ Replace(p, [p EXCEPT !.pc = "check", !.reply = server, !.seen = epoch])
    /\ UNCHANGED <<server, epoch, image, failed>>

Mismatch(p) == p.reply # Unreported /\ p.reply # p.version

\* checkVersion: nothing to do.
VersionMatches(p) ==
    /\ p.pc = "check" /\ ~Mismatch(p)
    /\ Replace(p, [p EXCEPT !.pc = "session"])
    /\ UNCHANGED <<server, epoch, image, failed>>

\* (mutation) the agent's own version is patched in
PatchOwn(p) ==
    /\ p.pc = "check" /\ Mismatch(p) /\ p.reply \in Releases
    /\ image' = p.version
    /\ Replace(p, [p EXCEPT !.pc = "session"])
    /\ UNCHANGED <<server, epoch, failed>>

\* checkVersion patches the Deployment ...
Patch(p) ==
    /\ p.pc = "check" /\ Mismatch(p) /\ p.reply \in Releases
    /\ image' = p.reply
    /\ Replace(p, [p EXCEPT !.pc = "session"])
    /\ UNCHANGED <<server, epoch, failed>>

\* ... or refuses the version ...
PatchRefused(p) ==
    /\ p.pc = "check" /\ Mismatch(p) /\ p.reply \notin Releases
    /\ Replace(p, [p EXCEPT !.pc = "session"])
    /\ UNCHANGED <<server, epoch, image, failed>>

\* ... or the API server does.  Errors are logged; the agent serves with its
\* version.
UpdateFails(p) ==
    /\ p.pc = "check" /\ Mismatch(p) /\ p.reply \in Releases
    /\ failed < MaxFaults /\ failed' = failed + 1
    /\ Replace(p, [p EXCEPT !.pc = "session"])
    /\ UNCHANGED <<server, epoch, image>>

\* The session ends and the client registers again: the server that accepted
\* it is gone ...
SessionRefused(p) ==
    /\ p.pc = "session" /\ p.seen # epoch
    /\ Replace(p, PodAt(p.version, "register"))
    /\ UNCHANGED <<server, epoch, image, failed>>

\* ... or the connection is lost.
SessionLost(p) ==
    /\ p.pc = "session" /\ p.seen = epoch
    /\ Replace(p, PodAt(p.version, "register"))
    /\ UNCHANGED <<server, epoch, image, failed>>

\* Another server takes over (external).
ReplaceServer(v) ==
    /\ epoch < MaxUpgrades
    /\ epoch' = epoch + 1 /\ server' = v
    /\ UNCHANGED <<image, failed, pods>>

\* The Deployment's controller starts a pod of the image, if there is an
\* image, and then ends the others (external).
StartPod ==
    /\ image \in Releases /\ \A p \in pods : p.version # image
    /\ pods' = pods \cup {NewPod(image)}
    /\ UNCHANGED <<server, epoch, image, failed>>

EndPod(p) ==
    /\ p.version # image /\ \E q \in pods : q.version = image
    /\ pods' = pods \ {p}
    /\ UNCHANGED <<server, epoch, image, failed>>

AgentStep(p) ==
    \/ Bootstrapped(p) \/ Register(p) \/ VersionMatches(p) \/ SessionRefused(p)
    \/ Patch(p) \/ PatchRefused(p) \/ UpdateFails(p)

Controller == StartPod \/ \E p \in pods : EndPod(p)

ServerReplaced == \E v \in Versions \cup {Unreported} : ReplaceServer(v)

UpdateNext ==
    \/ \E p \in pods : AgentStep(p) \/ SessionLost(p) \/ ProcessEnds(p)
    \/ Controller
-----------------------------------------------------------------------------
\* Every variable has the shape of the value it stands for, there is one pod of
\* a version at most, and the Deployment names a released image.
UpdateTypeOK ==
    /\ server \in Versions \cup {Unreported} /\ epoch \in 0..MaxUpgrades
    /\ image \in Releases /\ failed \in 0..MaxFaults
    /\ \A p \in pods :
          /\ p.version \in Versions /\ p.reply \in Versions \cup {Unreported}
          /\ p.pc \in {"bootstrap", "register", "check", "session"} /\ p.seen \in 0..epoch
    /\ \A p, q \in pods : p.version = q.version => p = q

\* Once the server stays at a release, every agent ends up at it, provided that
\* agents register again now and then: versions are compared at registration
\* only, and the late patch of a pod that is being replaced, after the reply of
\* an older server, can undo that of its successor.
Converges ==
    \A v \in Releases :
       (<>[](server = v) /\ []<>(\E p \in pods : p.pc = "register"))
          => <>[](image = v /\ \A p \in pods : p.version = v)
=============================================================================
