----------------------------- MODULE ApiServer ------------------------------
(***************************************************************************)
(* The server's resource API on one cluster.  A behaviour follows unary    *)
(* calls or one stream; all that other calls do to the object is among     *)
(* the changes that OtherWriter makes.                                     *)
(***************************************************************************)
EXTENDS ResourceCalls, EventStreams

vars == <<log, call, again, streamVars>>

Init == ObjectInit /\ CallInit /\ StreamInit

Next ==
    \/ kind = "unary" /\ CallNext /\ UNCHANGED streamVars
    \/ StreamNext /\ UNCHANGED <<call, again>>
    \/ kind # "PodLog" /\ OtherWriter /\ UNCHANGED <<call, again, streamVars>>

Spec == Init /\ [][Next]_vars

\* Streams make progress; calls and other writers need not.
FairSpec == Spec /\ StreamFairness
-----------------------------------------------------------------------------
\* Every variable has the shape of the value it stands for.
TypeOK ==
    /\ log \in Seq(States \cup {Absent}) /\ Version \in 1..MaxVersion
    /\ call.pc \in {"idle", "lookup", "client", "call", "events", "put", "convert", "done"}
    /\ call.rpc \in RPCs \cup {""} /\ call.user \in Users \cup {NoUser}
    /\ call.base \in 0..Version /\ call.wrote \in BOOLEAN
    /\ again \subseteq Requested \/ again \subseteq Replicas
    /\ handler \in {"open", "select", "send", "done"} /\ ctxDone \in BOOLEAN
    /\ upstream \in {"none", "open", "ended", "broken"}
    /\ relay \in {"none", "recv", "send", "panicked", "end"} /\ chClosed \in BOOLEAN
    /\ Len(offered) <= 1 /\ Len(held) <= 1 /\ Len(event) <= 1

\* Three goroutines and two channels lose, repeat and reorder nothing: what
\* Watch and PodLog have sent is the beginning of what the API server reported
\* and can be represented (bookmarks in their place, so that a client that
\* resumes from one has missed nothing), and a client is told "watch closed"
\* only once it has all of it.
EventsInOrder ==
    /\ \E n \in 0..Len(due) : sent = SubSeq(due, 1, n)
    /\ kind = "Watch" /\ outcome = "Unavailable" /\ relay # "panicked" /\ ~ctxDone => sent = due

\* A stream that ends without an error has told its client everything, or the
\* client (or the server) has gone: a broken tunnel or the client timeout of 30
\* seconds in the middle of a log is never taken for the end of the log, and
\* the last chunk is sent although its Read also returned the end.
EndsHonestly ==
    outcome = "OK" => ctxDone \/ (kind = "PodLog" /\ upstream = "ended" /\ sent = produced)

\* No handler of a stream hangs: it returns when the API server ends the
\* stream, when the relay fails and when the context is done.
StreamsEnd == (upstream \in {"ended", "broken"} \/ chClosed \/ ctxDone) ~> (handler = "done")
=============================================================================
