---------------------------- MODULE FleetManifest ----------------------------
(***************************************************************************)
(* The two ways to an agent's installation manifest: GetAgentManifest      *)
(* answers an authenticated user with the manifest and a URL that carries  *)
(* a token, and the raw endpoint answers whoever has the URL.  A manifest  *)
(* is the set of the objects it installs.  Also what an agent's request to *)
(* register has to satisfy.                                                *)
(***************************************************************************)
EXTENDS ManifestToken, ServerMiddleware

CONSTANTS
    Names,        \* the clusters that requests name ...
    ValidNames    \* ... and those of them that match reClusterName

ASSUME FleetAssumption == ValidNames \subseteq Names

Anonymous == ""   \* the subject of a token without one
NoManifest == {}  \* what comes with an error

ValidateClusterName(cluster) == cluster \in ValidNames

\* The objects of a manifest, each by its kind and whom it is about: what every
\* agent is installed with, the binding that makes the user an administrator of
\* the cluster, and the agent's Deployment, with the name of the cluster.
agentManifestYAML(cluster, userName) ==
    {[kind |-> kind, of |-> "otterscale-agent"] :
        kind \in {"Namespace", "ServiceAccount", "ClusterRole", "ClusterRoleBinding",
                  "Role", "RoleBinding"}}
    \cup {[kind |-> "ClusterRoleBinding", of |-> userName], [kind |-> "Deployment", of |-> cluster]}

RenderAgentManifest(cluster, userName) == agentManifestYAML(cluster, userName)

\* GenerateAgentManifest: the manifest, or none with an error.
GenerateAgentManifest(cluster, userName) ==
    IF ValidateClusterName(cluster) /\ userName # Anonymous
    THEN RenderAgentManifest(cluster, userName)
    ELSE NoManifest

\* IssueManifestURL: a URL is its token.
IssueManifestURL(cluster, userName, manifest, hmacKey) ==
    Issue(hmacKey, cluster, userName, manifest)

\* VerifyManifestToken: the claims of a token that verifies, or none.
VerifyManifestToken(t, hmacKey) ==
    IF Verify(t, hmacKey) THEN {[cluster |-> t.cluster, userName |-> t.sub]} ELSE {}

\* Where the middleware sends a request, and as which user.
Route(path, bearer) == wrapCORS([preflight |-> FALSE, path |-> path, token |-> bearer])

\* GetAgentManifest: without a user or a manifest there is no token (and nothing
\* changes).
GetAgentManifest(cluster, bearer, hmacKey) ==
    LET user == Route(Fleet("GetAgentManifest"), bearer).user
        manifest == GenerateAgentManifest(cluster, user)
    IN  /\ user # NoUser /\ manifest # NoManifest
        /\ IssueManifestURL(cluster, user, manifest, hmacKey)

\* handleRawManifest, behind the middleware: the path is public.
handleRawManifest(t, hmacKey) ==
    LET claims == IF Route(Manifest(t), NoToken).to = "mux"
                  THEN VerifyManifestToken(t, hmacKey) ELSE {}
        manifests == {GenerateAgentManifest(c.cluster, c.userName) : c \in claims}
    IN  CASE claims = {}              -> [status |-> 401, manifest |-> NoManifest]
          [] manifests = {NoManifest} -> [status |-> 500, manifest |-> NoManifest]
          [] OTHER -> [status |-> 200, manifest |-> CHOOSE m \in manifests : TRUE]

\* Register and RegisterCluster, up to the tunnel provider: an agent has no user
\* yet, so that the path is public, and its request must be complete.
MayRegister(cluster, agentID, csr) ==
    /\ Route(Fleet("Register"), NoToken).to = "mux"
    /\ ValidateClusterName(cluster) /\ agentID # "" /\ csr # ""
=============================================================================
