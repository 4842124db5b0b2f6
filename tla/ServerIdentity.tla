--------------------------- MODULE ServerIdentity ---------------------------
(***************************************************************************)
(* What outlives a server process: the CA on disk, the tokens in the hands *)
(* of users and the certificates of agents, which the process that serves  *)
(* signs and verifies with the CA it has loaded or generated.  A token or  *)
(* an agent is followed; they do not depend on one another.                *)
(***************************************************************************)
EXTENDS CAStore, FleetManifest

VARIABLES
    follow,       \* "token" or "agent"
    tunnelCert,   \* the running process's own certificate, if made
    agents        \* the agent's registration, if any: [cert, ca]

certVars == <<tunnelCert, agents>>
identityVars == <<vars, tokenVars, follow, certVars>>

IdentityInit ==
    /\ Init /\ TokenInit
    /\ follow \in {"token", "agent"} /\ tunnelCert = {} /\ agents = {}

\* A step of the process's start or its end, with which its certificate is gone.
ProcessStep(A) ==
    /\ A /\ tunnelCert' = IF pc' = "serving" THEN tunnelCert ELSE {}
    /\ UNCHANGED <<tokenVars, follow, agents>>

\* (mutation) every process has a key of its own
IssueTokenOwnKey ==
    /\ pc = "serving" /\ follow = "token"
    /\ \E cluster \in Names, bearer \in Tokens : GetAgentManifest(cluster, bearer, starts)
    /\ UNCHANGED <<vars, follow, certVars>>

\* The HMAC key is derived from the CA.
IssueToken ==
    /\ pc = "serving" /\ follow = "token"
    /\ \E cluster \in Names, bearer \in Tokens : GetAgentManifest(cluster, bearer, ca)
    /\ UNCHANGED <<vars, follow, certVars>>

\* (mutation) the certificate is signed by a CA of the process's own
BuildTunnelListenerOwnCA ==
    /\ pc = "serving" /\ follow = "agent" /\ tunnelCert = {}
    /\ tunnelCert' = {GenerateServerCert(starts, now)}
    /\ UNCHANGED <<vars, tokenVars, follow, agents>>

\* Server.Run makes a certificate for the tunnel, before any API call is served.
BuildTunnelListener ==
    /\ pc = "serving" /\ follow = "agent" /\ tunnelCert = {}
    /\ tunnelCert' = {GenerateServerCert(ca, now)}
    /\ UNCHANGED <<vars, tokenVars, follow, agents>>

\* An agent registers: it is given a certificate and that of the CA.
RegisterAgent ==
    /\ pc = "serving" /\ tunnelCert # {}
    /\ \E cluster \in Names, agentID, csr \in {"", "given"} : MayRegister(cluster, agentID, csr)
    /\ agents' = {[cert |-> SignCSR(ca, now), ca |-> ca]}
    /\ UNCHANGED <<vars, tokenVars, follow, tunnelCert>>

\* A TLS handshake (external): the server verifies the agent's certificate by
\* its CA, the agent the server's by the CA certificate of its registration.
Handshake(own, registration) ==
    /\ Accepts(roots[ca], registration.cert, now)
    /\ Accepts(roots[registration.ca], own, now)

IdentityNext ==
    \/ ProcessStep(Next)
    \/ IssueToken \/ BuildTunnelListener \/ RegisterAgent
    \/ SetClock /\ UNCHANGED <<vars, follow, certVars>>

IdentitySpec == IdentityInit /\ [][IdentityNext]_identityVars

\* A process runs, and one that has ended is started again.
FairIdentitySpec ==
    /\ IdentitySpec
    /\ WF_identityVars(ProcessStep(ProvideCA)) /\ WF_identityVars(ProcessStep(Start))
-----------------------------------------------------------------------------
\* Every variable has the shape of the value it stands for; a token's expiry is
\* its issue time plus the TTL, both in whole seconds.
IdentityTypeOK ==
    /\ TypeOK
    /\ now \in 0..MaxTime
    /\ \A t \in tokens :
          /\ t.key \in 1..MaxStarts /\ t.born \in 0..MaxTime
          /\ t.iat = Unix(t.born) /\ t.exp = t.iat + TTL
    /\ \A own \in tunnelCert : pc = "serving" /\ own.ca = ca

\* The URL serves the manifest its user was shown throughout its TTL, to the
\* last tick, by whichever process serves: crashes, failed starts and restarts
\* in between do not matter (unless reading the CA has failed), nor does a clock
\* that was set back by up to the skew that verifyDetailed allows for.  It does
\* so for less than a second more (Issue and verifyDetailed both drop fractions)
\* and not before it was issued less the skew.
TokensSurviveRestarts ==
    \A t \in tokens : pc = "serving" =>
       LET answer == handleRawManifest(t, ca) IN
       /\ ~misread /\ WithinTTL(t) => answer = [status |-> 200, manifest |-> t.shown]
       /\ answer.status = 200 =>
             /\ Age(t) < (TTL + 1) * TicksPerSecond
             /\ Age(t) > -(ClockSkew + 1) * TicksPerSecond

\* The clock shows a time at which a certificate with that validity should be
\* good: it was not set back by more than Backdate since the certificate was
\* made, and the end of the validity is at least a second away (X.509 drops the
\* fraction of a second).
InForce(cert, validity) == now - cert.born \in (-Backdate)..(validity - TicksPerSecond)

\* An agent whose certificate is in force can connect to whichever process
\* serves, also to one that was started after it registered, although that
\* process has a new certificate (ca.go: "regenerated on every server start"),
\* unless reading the CA has failed, or one of the server's own certificates is
\* not in force: that of the process, or that of the CA, which may have been
\* made by a process long before and which LoadCA takes whatever its period is.
AgentsReconnect ==
    \A a \in agents, own \in tunnelCert :
       /\ ~misread
       /\ InForce(a.cert, CertValidity)
       /\ InForce(own, ServerValidity)
       /\ InForce(roots[ca], CAValidity)
       => Handshake(own, a)
=============================================================================
