--------------------------- MODULE ResourceCalls ----------------------------
(***************************************************************************)
(* The unary RPCs of the resource and the runtime service, from the HTTP   *)
(* middleware to the answer: internal/handler/resource.go and runtime.go,  *)
(* the use cases of internal/core and the repositories of                  *)
(* internal/providers/kubernetes.  A call looks its resource up, builds an *)
(* impersonating client, decodes its manifest, calls the API server once   *)
(* or twice and converts what it got; each of these steps may fail.        *)
(***************************************************************************)
EXTENDS ClusterObject, ErrorMapping, ServerMiddleware

VARIABLES
    call,   \* the call under way: [pc, rpc, user, base, wrote, code]
            \* base: resource version of the object the call has read
            \* wrote: the API server has carried out the write it answers
    again   \* what its write asks for, once carried out and yet sent again

Discoveries == {"Discovery", "Schema"}
Reads == {"List", "Get", "Describe"}
Writes == {"Create", "Apply", "Delete", "Restart"}
RPCs == Discoveries \cup Reads \cup Writes \cup {"Scale"}

Path(rpc) == IF rpc \in {"Scale", "Restart"} THEN Runtime(rpc) ELSE Resource(rpc)

Idle == [pc |-> "idle", rpc |-> "", user |-> NoUser, base |-> 0, wrote |-> FALSE, code |-> ""]

CallInit == call = Idle /\ again = {}

Goto(pc) == call' = [call EXCEPT !.pc = pc]

\* The handler returns.
Answer(code) == call' = [call EXCEPT !.pc = "done", !.code = code]

\* It returns an error of the use case ...
Fail(err) == Answer(CodeOf(err))

\* ... or of a conversion (connect.NewError).
ConversionFails == Answer("Internal")
-----------------------------------------------------------------------------
\* A request passes the middleware, or is answered by it.
Begin(rpc, preflight, token) ==
    LET route == wrapCORS([preflight |-> preflight, path |-> Path(rpc), token |-> token])
        new == [Idle EXCEPT !.rpc = rpc, !.user = route.user] IN
    /\ call.pc = "idle"
    /\ call' = CASE route.to = "mux" -> [new EXCEPT !.pc = "lookup"]
                 [] route.to = "refused" -> [new EXCEPT !.pc = "done", !.code = "Unauthenticated"]
                 [] route.to = "cors" -> [new EXCEPT !.pc = "done", !.code = "OK"]
    /\ UNCHANGED log

\* RuntimeUseCase.Scale rejects an empty name or a negative count, Restart an
\* empty name.
InvalidScale ==
    /\ call.pc = "lookup" /\ call.rpc = "Scale"
    /\ Fail(ErrInvalidInput)
    /\ UNCHANGED log

InvalidRestart ==
    /\ call.pc = "lookup" /\ call.rpc = "Restart"
    /\ Fail(ErrInvalidInput)
    /\ UNCHANGED log

\* impersonationConfig and the constructors of clients: there is a client ...
ClientFor(user) == user # NoUser

\* ... or one of these errors.
ClientErrors(user) ==
    IF user = NoUser THEN {DomainError("ErrorCodeUnauthenticated")}
    ELSE {ErrClusterNotFound, DomainError("ErrorCodeInternal")}

\* The errors of a call to the API server.
CallErrors == {Status(reason) : reason \in Reasons} \cup {OtherError}

\* Those that leave open whether the API server has carried the call out.
Ambiguous == {OtherError} \cup
    {Status(reason) : reason \in {"Timeout", "ServerTimeout", "InternalError",
                                  "ServiceUnavailable", "Unknown"}}

\* lookupGVR finds the resource; Discovery and Schema have their answer.
Lookup ==
    /\ call.pc = "lookup" /\ ClientFor(call.user)
    /\ Goto(IF call.rpc \in Discoveries THEN "convert" ELSE "client")
    /\ UNCHANGED log

LookupFails ==
    /\ call.pc = "lookup"
    /\ \E err \in ClientErrors(call.user) \cup CallErrors : Fail(err)
    /\ UNCHANGED log

\* fromYAML refuses an invalid manifest.
fromYAMLErrors == IF call.rpc \in {"Create", "Apply"} THEN {ErrInvalidInput} ELSE {}

\* The repository makes its client and decodes the manifest ...
Prepare ==
    /\ call.pc = "client" /\ ClientFor(call.user)
    /\ Goto("call")
    /\ UNCHANGED log

\* ... or fails to.
PrepareFails ==
    /\ call.pc = "client"
    /\ \E err \in ClientErrors(call.user) \cup fromYAMLErrors : Fail(err)
    /\ UNCHANGED log
-----------------------------------------------------------------------------
\* List, Get, the Get of Describe and the GET of UpdateScale.
Read ==
    /\ call.pc = "call" /\ call.rpc \in Reads \cup {"Scale"}
    /\ Object.live \/ call.rpc = "List"
    /\ call' = [call EXCEPT !.base = Version,
                            !.pc = CASE call.rpc = "Describe" -> "events"
                                     [] call.rpc = "Scale" -> "put"
                                     [] OTHER -> "convert"]
    /\ UNCHANGED log

\* The state a write asks for, where the API server accepts it.
Accepted(s) ==
    CASE call.rpc = "Create" -> ~Object.live /\ s \in States
      [] call.rpc = "Apply" -> s \in States
      [] call.rpc = "Delete" -> Object.live /\ s = Absent

\* Restart writes the time into an annotation; when it is the one that is there,
\* in seconds, nothing changes.
Restart == Object.live /\ (Store(Object) \/ UNCHANGED log)

\* The API server carries out a write that asks for s, or a Restart (which asks
\* for no state); sent again, it asks for the same.
Perform(s) ==
    /\ again \subseteq {s}
    /\ \/ call.rpc # "Restart" /\ Accepted(s) /\ Store(s)
       \/ call.rpc = "Restart" /\ s = Absent /\ Restart

Requested == States \cup {Absent}

\* Create, Apply, Delete and Restart.
Write ==
    /\ call.pc = "call" /\ call.rpc \in Writes
    /\ \E s \in Requested : Perform(s)
    /\ call' = [call EXCEPT !.wrote = TRUE, !.base = Len(log'),
                            !.pc = IF call.rpc \in {"Create", "Apply"} THEN "convert" ELSE "done",
                            !.code = IF call.rpc \in {"Create", "Apply"} THEN "" ELSE "OK"]

\* The API server does not carry the call out, and says so or not ...
CallFails ==
    /\ call.pc = "call"
    /\ \E err \in CallErrors : Fail(err)
    /\ UNCHANGED log

\* ... or carries it out, and its answer is lost or is an error.
AnswerLost ==
    /\ call.pc = "call" /\ call.rpc \in Writes
    /\ \E s \in Requested : Perform(s)
    /\ \E err \in Ambiguous :
          call' = [call EXCEPT !.pc = "done", !.wrote = TRUE, !.code = CodeOf(err)]

\* client-go sends a request again when the answer is a 5xx with a Retry-After
\* header (up to ten times), which the API server may give after it has carried
\* the request out (external).
Retry ==
    /\ call.pc = "call" /\ call.rpc \in Writes
    /\ \E s \in Requested : Perform(s) /\ again' = {s}
    /\ UNCHANGED call
-----------------------------------------------------------------------------
\* The PUT carries the resource version that the GET returned, and the API
\* server refuses it unless it is the object's.
Current == Object.live /\ call.base = Version

\* The PUT of the scale is carried out for a requested count.
PutScale(n) ==
    /\ Current /\ again \subseteq {n}
    /\ IF n = Object.replicas THEN UNCHANGED log ELSE Store([Object EXCEPT !.replicas = n])

\* (mutation) the PUT is made with a fresh object, without a version
UpdateScaleBlind ==
    /\ call.pc = "put"
    /\ \E n \in Replicas : Object.live /\ Store([Object EXCEPT !.replicas = n])
    /\ call' = [call EXCEPT !.pc = "done", !.wrote = TRUE, !.code = "OK"]

\* The new count is read back from the Scale in the API server's answer, which
\* has no count of zero: the field is left out.
ReadBack(n) == IF n = 0 THEN CodeOf(DomainError("ErrorCodeInternal")) ELSE "OK"

\* UpdateScale writes and reads the new count back.
UpdateScale ==
    /\ call.pc = "put"
    /\ \E n \in Replicas :
          /\ PutScale(n)
          /\ call' = [call EXCEPT !.pc = "done", !.wrote = TRUE, !.code = ReadBack(n)]

UpdateScaleFails ==
    /\ call.pc = "put"
    /\ \E err \in CallErrors : Fail(err)
    /\ UNCHANGED log

UpdateScaleLost ==
    /\ call.pc = "put"
    /\ \E n \in Replicas : PutScale(n)
    /\ \E err \in Ambiguous :
          call' = [call EXCEPT !.pc = "done", !.wrote = TRUE, !.code = CodeOf(err)]

\* The PUT, too, is sent again by client-go (external).
RetryScale ==
    /\ call.pc = "put"
    /\ \E n \in Replicas : PutScale(n) /\ again' = {n}
    /\ UNCHANGED call

\* ListEvents of Describe; an error leaves the events out.
ListEvents ==
    /\ call.pc = "events"
    /\ Goto("convert")
    /\ UNCHANGED log

\* The result is converted to protobuf, which may fail for schemas and API
\* groups as well ...
Convert ==
    /\ call.pc = "convert"
    /\ \/ (call.base # 0 => ~log[call.base].odd) /\ Answer("OK")
       \/ call.base # 0 /\ log[call.base].odd /\ ConversionFails
       \/ call.rpc \in Discoveries /\ ConversionFails
    /\ UNCHANGED log

\* ... and for the events of Describe.
ConvertEventsFails ==
    /\ call.pc = "convert" /\ call.rpc = "Describe"
    /\ ConversionFails
    /\ UNCHANGED log

\* The client has its answer; another call follows.
Done ==
    /\ call.pc = "done"
    /\ call' = Idle /\ again' = {}
    /\ UNCHANGED log

\* The steps of a call that send nothing again.
CallStep ==
    \/ \E rpc \in RPCs, preflight \in BOOLEAN, token \in Tokens : Begin(rpc, preflight, token)
    \/ InvalidScale \/ InvalidRestart \/ Lookup \/ LookupFails \/ Prepare \/ PrepareFails
    \/ Read \/ Write \/ CallFails \/ AnswerLost
    \/ UpdateScale \/ UpdateScaleFails \/ UpdateScaleLost
    \/ ListEvents \/ Convert \/ ConvertEventsFails

CallNext ==
    \/ CallStep /\ UNCHANGED again
    \/ Retry \/ RetryScale \/ Done
-----------------------------------------------------------------------------
\* The codes that tell a client its request was refused.
Refusals == {"InvalidArgument", "NotFound", "AlreadyExists", "Unauthenticated",
             "PermissionDenied", "FailedPrecondition", "ResourceExhausted", "Unimplemented"}

\* What a client is told is what happened in the cluster, on every path of
\* every handler: OK after a write means that the API server carried it out,
\* and a code that says "refused" is never the answer to a request that changed
\* the cluster, also when an answer was lost or cannot be converted.  (A request
\* that client-go sends again may be refused because it was carried out before:
\* the answer is true of the request it answers.)
ToldWhatHappened ==
    call.pc = "done" =>
        /\ call.code = "OK" /\ call.rpc \in Writes \cup {"Scale"} /\ call.user # NoUser => call.wrote
        /\ call.code \in Refusals => ~call.wrote

\* UpdateScale is a GET and a PUT, which client-go may send again: no change
\* that another writer made after the GET is overwritten.
NoLostUpdate ==
    [][call.pc = "put" /\ (call'.wrote \/ again' # again)
          => log[call.base] = Object]_<<log, call, again>>
=============================================================================
