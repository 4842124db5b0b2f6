---------------------------- MODULE EventStreams ----------------------------
(***************************************************************************)
(* The streaming RPCs Watch and PodLog.  A watch passes three goroutines:  *)
(* client-go's (external), the relay of watcherAdapter and the handler,    *)
(* over two unbuffered channels, so that a send waits for its receiver.    *)
(* The handler of PodLog reads the body of the API server's answer itself. *)
(***************************************************************************)
EXTENDS ClusterObject, ErrorMapping

CONSTANT MaxChunks   \* bound: chunks of a container's log

ASSUME StreamAssumption == MaxChunks \in Nat

VARIABLES
    kind,       \* the RPC: "Watch", "PodLog" or, when it is no stream, "unary"
    handler,    \* "open", "select" (or reading), "send" or "done"
    outcome,    \* the code the client got, or ""
    ctxDone,    \* the client has gone or the server shuts down
    upstream,   \* the API server's answer: "none", "open", "ended" or "broken"
    backlog,    \* events that a new watch owes before it reports changes
    pos,        \* the resource version (or chunk) up to which it has reported
    offered,    \* the event (or chunk) that waits to be received, as a sequence
    relay,      \* "none", "recv", "send", "panicked" or "end"
    held,       \* the event the relay has received, as a sequence
    chClosed,   \* the relay's channel is closed
    event,      \* what the handler has received, as a sequence
    readErr,    \* PodLog: the error that came with it
    produced,   \* history: all that was offered
    due,        \* history: all of it that a client can be told
    sent        \* what the client was sent

streamVars == <<kind, handler, outcome, ctxDone, upstream, backlog, pos, offered, relay, held,
                chClosed, event, readErr, produced, due, sent>>
history == <<produced, due>>
source == <<upstream, backlog, pos, offered, history>>
relaying == <<relay, held, chClosed>>

Event(type, version) == [type |-> type, version |-> version]
EventTypes == {"ADDED", "MODIFIED", "DELETED", "BOOKMARK", "ERROR"}

StreamInit ==
    /\ kind \in {"Watch", "PodLog", "unary"}
    /\ handler = "open" /\ outcome = "" /\ ctxDone = FALSE
    /\ upstream = "none" /\ backlog = <<>> /\ pos = 0 /\ offered = <<>>
    /\ relay = "none" /\ held = <<>> /\ chClosed = FALSE
    /\ event = <<>> /\ readErr = "nil" /\ produced = <<>> /\ due = <<>> /\ sent = <<>>
-----------------------------------------------------------------------------
(***************************************************************************)
(* The API server and client-go (external).                                *)
(***************************************************************************)

\* The change from one resource version to the next, as a watch reports it.
Change(v) ==
    Event(CASE ~log[v].live -> "DELETED"
            [] log[v].live /\ ~log[v - 1].live -> "ADDED"
            [] OTHER -> "MODIFIED", v)

\* The current state, for a watch that begins with it.
Current0 == IF Object.live THEN <<Event("ADDED", Version)>> ELSE <<>>

\* The object that comes with an event; a deletion brings the last state.
Carried(e) == log[IF e.type = "DELETED" THEN e.version - 1 ELSE e.version]

\* Its object cannot be represented in the message.
Inconvertible(e) == e.type \in {"ADDED", "MODIFIED", "DELETED"} /\ Carried(e).odd

Offer(e) ==
    /\ offered' = <<e>> /\ produced' = Append(produced, e)
    /\ due' = IF Inconvertible(e) THEN due ELSE Append(due, e)

\* The next event: of the backlog, a change, or a bookmark.
OfferEvent ==
    /\ kind = "Watch" /\ upstream = "open" /\ offered = <<>>
    /\ \/ /\ backlog # <<>> /\ Offer(Head(backlog)) /\ backlog' = Tail(backlog)
          /\ UNCHANGED pos
       \/ /\ backlog = <<>> /\ pos < Version
          /\ Offer(Change(pos + 1)) /\ pos' = pos + 1
          /\ UNCHANGED backlog
       \/ /\ backlog = <<>> /\ produced # <<>> /\ produced[Len(produced)].type # "BOOKMARK"
          /\ Offer(Event("BOOKMARK", pos))
          /\ UNCHANGED <<backlog, pos>>
    /\ UNCHANGED <<log, kind, handler, outcome, ctxDone, upstream, relaying, event, readErr, sent>>

\* The container writes a chunk.
OfferChunk ==
    /\ kind = "PodLog" /\ upstream = "open" /\ offered = <<>> /\ pos < MaxChunks
    /\ pos' = pos + 1 /\ Offer(Event("CHUNK", pos + 1))
    /\ UNCHANGED <<log, kind, handler, outcome, ctxDone, upstream, backlog, relaying, event,
                   readErr, sent>>

\* The API server ends the watch, with an error event or without one; the
\* container's log ends; the tunnel breaks or the client's timeout passes.
UpstreamEnds ==
    /\ upstream = "open"
    /\ \/ offered = <<>> /\ upstream' = "ended" /\ UNCHANGED <<offered, history>>
       \/ upstream' = "broken" /\ UNCHANGED <<offered, history>>
       \/ kind = "Watch" /\ offered = <<>> /\ upstream' = "ended" /\ Offer(Event("ERROR", pos))
    /\ UNCHANGED <<log, kind, handler, outcome, ctxDone, backlog, pos, relaying, event, readErr,
                   sent>>

\* A context that is done, or Stop, ends it as well; client-go drops an event
\* that it is still offering.
UpstreamStops ==
    /\ upstream # "none" /\ (ctxDone \/ handler = "done") /\ (upstream = "open" \/ offered # <<>>)
    /\ upstream' = "broken" /\ offered' = <<>>
    /\ UNCHANGED <<log, kind, handler, outcome, ctxDone, backlog, pos, history, relaying, event,
                   readErr, sent>>

\* The client leaves, or the server's context is cancelled.
CtxDone ==
    /\ ~ctxDone /\ ctxDone' = TRUE
    /\ UNCHANGED <<log, kind, handler, outcome, source, relaying, event, readErr, sent>>
-----------------------------------------------------------------------------
(***************************************************************************)
(* watcherAdapter.relay.                                                   *)
(***************************************************************************)

\* toCorEventType: a type that is not known is an error.
toCorEventType(t) == IF t \in EventTypes THEN t ELSE "ERROR"

\* The range loop receives and converts an event.
RelayReceives ==
    /\ relay = "recv" /\ offered # <<>>
    /\ relay' = "send" /\ offered' = <<>>
    /\ held' = <<[offered[1] EXCEPT !.type = toCorEventType(@)]>>
    /\ UNCHANGED <<log, kind, handler, outcome, ctxDone, upstream, backlog, pos, history,
                   chClosed, event, readErr, sent>>

\* The conversion panics, which is recovered; the channel is closed.
RelayPanics ==
    /\ relay = "recv" /\ offered # <<>>
    /\ relay' = "panicked" /\ chClosed' = TRUE /\ offered' = <<>>
    /\ UNCHANGED <<log, kind, handler, outcome, ctxDone, upstream, backlog, pos, history, held,
                   event, readErr, sent>>

\* (mutation) the relay ends without closing its channel
RelayEndsOpen ==
    /\ relay = "recv" /\ offered = <<>> /\ upstream \in {"ended", "broken"}
    /\ relay' = "end"
    /\ UNCHANGED <<log, kind, handler, outcome, ctxDone, source, held, chClosed, event, readErr,
                   sent>>

\* The upstream channel is closed and drained.
RelayEnds ==
    /\ relay = "recv" /\ offered = <<>> /\ upstream \in {"ended", "broken"}
    /\ relay' = "end" /\ chClosed' = TRUE
    /\ UNCHANGED <<log, kind, handler, outcome, ctxDone, source, held, event, readErr, sent>>
-----------------------------------------------------------------------------
(***************************************************************************)
(* The handlers.                                                           *)
(***************************************************************************)
Finish(code) == handler' = "done" /\ outcome' = code

\* WatchResource: the watch begins with the current state, and a bookmark
\* where the cluster supports WatchList, or after the version of the request.
OpenWatch ==
    /\ kind = "Watch" /\ handler = "open" /\ handler' = "select"
    /\ upstream' = "open" /\ relay' = "recv"
    /\ \/ /\ pos' = Version
          /\ backlog' \in {Current0, Append(Current0, Event("BOOKMARK", Version))}
       \/ pos' \in 1..Version /\ backlog' = <<>>
    /\ UNCHANGED <<log, kind, outcome, ctxDone, offered, history, held, chClosed, event, readErr,
                   sent>>

\* StartPodLogs.
OpenLog ==
    /\ kind = "PodLog" /\ handler = "open" /\ handler' = "select"
    /\ upstream' = "open"
    /\ UNCHANGED <<log, kind, outcome, ctxDone, backlog, pos, offered, history, relaying, event,
                   readErr, sent>>

\* The input is invalid, or the lookup, the version or the API server fails.
OpenFails ==
    /\ kind # "unary" /\ handler = "open"
    /\ \E err \in {ErrInvalidInput, ErrClusterNotFound, OtherError}
                  \cup {Status(reason) : reason \in Reasons} : Finish(CodeOf(err))
    /\ UNCHANGED <<log, kind, ctxDone, source, relaying, event, readErr, sent>>

\* Watch, the select: the relay's send meets the handler's receive ...
WatchReceives ==
    /\ kind = "Watch" /\ handler = "select" /\ relay = "send"
    /\ handler' = "send" /\ event' = held
    /\ relay' = "recv" /\ held' = <<>>
    /\ UNCHANGED <<log, kind, outcome, ctxDone, source, chClosed, readErr, sent>>

\* ... or the channel is closed ...
WatchClosed ==
    /\ kind = "Watch" /\ handler = "select" /\ chClosed
    /\ Finish("Unavailable")
    /\ UNCHANGED <<log, kind, ctxDone, source, relaying, event, readErr, sent>>

\* ... or the context is done.
WatchCancelled ==
    /\ kind = "Watch" /\ handler = "select" /\ ctxDone
    /\ Finish("OK")
    /\ UNCHANGED <<log, kind, ctxDone, source, relaying, event, readErr, sent>>

\* toProtoWatchEventType.
toProtoWatchEventType(t) == IF t \in EventTypes THEN t ELSE "UNSPECIFIED"

\* (mutation) a bookmark overtakes: it is sent for an event that is skipped
processEventMarks(e) ==
    IF Inconvertible(e) THEN <<Event("BOOKMARK", e.version)>> ELSE <<e>>

\* processEvent: what cannot be converted is skipped.
processEvent(e) ==
    IF Inconvertible(e) THEN <<>> ELSE <<Event(toProtoWatchEventType(e.type), e.version)>>

\* The event is sent, or skipped ...
WatchForwards ==
    /\ kind = "Watch" /\ handler = "send" /\ handler' = "select"
    /\ sent' = sent \o processEvent(Head(event)) /\ event' = <<>>
    /\ UNCHANGED <<log, kind, outcome, ctxDone, source, relaying, readErr>>

\* ... or the send fails.
SendFails ==
    /\ handler = "send"
    /\ event' = <<>> /\ Finish("Unknown")
    /\ UNCHANGED <<log, kind, ctxDone, source, relaying, readErr, sent>>

\* PodLog: Read returns data, possibly together with the error ...
LogReads ==
    /\ kind = "PodLog" /\ handler = "select" /\ offered # <<>>
    /\ handler' = "send" /\ event' = offered /\ offered' = <<>>
    /\ \/ upstream = "open" /\ readErr' = "nil" /\ UNCHANGED upstream
       \/ upstream = "open" /\ readErr' = "EOF" /\ upstream' = "ended"
       \/ upstream = "broken" /\ readErr' \in {"nil", "broken"} /\ UNCHANGED upstream
    /\ UNCHANGED <<log, kind, outcome, ctxDone, backlog, pos, history, relaying, sent>>

\* The code for the error of a read.
LogEnd(err) == IF err = "EOF" THEN "OK" ELSE CodeOf(OtherError)

\* ... which is sent before the error is looked at ...
LogForwards ==
    /\ kind = "PodLog" /\ handler = "send"
    /\ sent' = sent \o event /\ event' = <<>>
    /\ IF readErr = "nil" THEN handler' = "select" /\ UNCHANGED outcome ELSE Finish(LogEnd(readErr))
    /\ UNCHANGED <<log, kind, ctxDone, source, relaying, readErr>>

\* (mutation) every error of a read is taken for the end of the log
LogEndsAlways ==
    /\ kind = "PodLog" /\ handler = "select" /\ offered = <<>> /\ upstream \in {"ended", "broken"}
    /\ Finish("OK")
    /\ UNCHANGED <<log, kind, ctxDone, source, relaying, event, readErr, sent>>

\* ... or only the error.
LogEnds ==
    /\ kind = "PodLog" /\ handler = "select" /\ offered = <<>> /\ upstream \in {"ended", "broken"}
    /\ Finish(LogEnd(IF upstream = "ended" THEN "EOF" ELSE "broken"))
    /\ UNCHANGED <<log, kind, ctxDone, source, relaying, event, readErr, sent>>
-----------------------------------------------------------------------------
HandlerStep ==
    \/ OpenWatch \/ OpenLog \/ OpenFails
    \/ WatchReceives \/ WatchClosed \/ WatchCancelled \/ WatchForwards \/ SendFails
    \/ LogReads \/ LogForwards \/ LogEnds

RelayStep == RelayReceives \/ RelayPanics \/ RelayEnds

StreamNext ==
    /\ kind # "unary"
    /\ \/ OfferEvent \/ OfferChunk \/ UpstreamEnds \/ UpstreamStops \/ CtxDone
       \/ RelayStep \/ HandlerStep

\* Goroutines run, a send to the client returns, and client-go ends a request
\* whose context is done or whose watch is stopped.
StreamFairness ==
    /\ WF_<<log, streamVars>>(UpstreamStops)
    /\ WF_<<log, streamVars>>(RelayStep) /\ WF_<<log, streamVars>>(HandlerStep)
=============================================================================
