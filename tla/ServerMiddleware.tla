-------------------------- MODULE ServerMiddleware --------------------------
(***************************************************************************)
(* The HTTP middleware of the server (internal/transport/http): CORS, then *)
(* authentication unless the path is public, then the mux.  A path is the  *)
(* sequence of its segments, a token is what it verifies to.               *)
(***************************************************************************)
EXTENDS Naturals, Sequences

CONSTANT Users   \* subjects of valid OIDC tokens

\* The bearer tokens of requests: none, one that does not verify, one whose
\* claims cannot be parsed, or a valid one, which stands for its subject.
NoToken == "no token"
Tokens == Users \cup {NoToken, "invalid", "unparsable"}
NoUser == "no user"

\* The routes that Mount registers.
Resource(rpc) == <<"resource", rpc>>
Runtime(rpc) == <<"runtime", rpc>>
Fleet(rpc) == <<"fleet.v1", rpc>>
Manifest(token) == <<"fleet", "manifest", token>>

\* What Server.Run configures.
publicPaths == {<<"health", "Check">>, <<"health", "Watch">>, <<"reflection", "Info">>,
                Fleet("Register")}
publicPathPrefixes == {<<"fleet", "manifest">>}

HasPrefix(path, prefix) ==
    Len(prefix) <= Len(path) /\ \A i \in DOMAIN prefix : path[i] = prefix[i]

isPublicPath(path) ==
    \/ path \in publicPaths
    \/ \E prefix \in publicPathPrefixes : HasPrefix(path, prefix)

\* The authenticate function of NewOIDC: the user, or none.
authenticate(token) == IF token \in Users THEN token ELSE NoUser

\* What becomes of a request [preflight, path, token]: wrapCORS answers
\* preflights, wrapAuth refuses or passes on, with the user in the context
\* only when the path is not public.
wrapAuth(request) ==
    IF isPublicPath(request.path) THEN [to |-> "mux", user |-> NoUser]
    ELSE IF authenticate(request.token) = NoUser THEN [to |-> "refused", user |-> NoUser]
    ELSE [to |-> "mux", user |-> authenticate(request.token)]

wrapCORS(request) ==
    IF request.preflight THEN [to |-> "cors", user |-> NoUser] ELSE wrapAuth(request)
=============================================================================
