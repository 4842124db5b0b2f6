----------------------------- MODULE ExecSession -----------------------------
(***************************************************************************)
(* Interactive exec sessions: the ExecuteTTY handler with its two reader   *)
(* goroutines, the exec goroutine of StartExec, WriteTTY and ResizeTTY     *)
(* calls, the session store and the session reaper.                        *)
(*                                                                         *)
(* An io.Pipe is synchronous: a write is in flight until the reader takes  *)
(* it or one end is closed.  A chunk of output is its number.              *)
(***************************************************************************)
EXTENDS TerminalSizeQueue, FiniteSets

CONSTANTS
    Others,        \* sessions of which only the place in the store is modelled
    MaxSessions,   \* maxExecSessions (100 in the code)
    BufCap,        \* capacity of the handler's channel (8 in the code)
    Chunks         \* bound: chunks the command writes to both streams together

Streams == {"stdout", "stderr"}

ASSUME ExecAssumption ==
    /\ {MaxSessions, BufCap} \subseteq Nat \ {0}
    /\ Chunks \in Nat
    /\ Sessions \cap Others = {}

VARIABLES
    handler,    \* the ExecuteTTY goroutine
    reqDone,    \* the request's context is done: client gone or call over
    cancelled,  \* the session's own context is done
    store,      \* SessionStore.execSess
    exec,       \* the goroutine of StartExec
    done,       \* the session's Done channel (capacity 1) holds the result
    inflight,   \* the chunk being written to the pipe of a stream, or 0
    written,    \* chunks the command wrote to a stream
    pipe,       \* the stream's pipe: "open", or closed by its writer or reader
    reader,     \* the goroutine reading a stream ...
    held,       \* ... and the chunk it has read and not passed on, or 0
    ch,         \* the channel that merges both streams
    chClosed,
    sent,       \* the chunks sent to the client, in order
    stdin,      \* the stdin pipe is open at both ends
    closes,     \* history: calls of Stdin.Close
    reaping,    \* sessions the reaper has removed and not yet closed
    writer      \* the WriteTTY and ResizeTTY calls for a session

streamVars == <<inflight, written, pipe, reader, held, ch, chClosed, sent>>
vars == <<handler, reqDone, cancelled, store, exec, done, streamVars, stdin,
          closes, reaping, writer, sizeVars>>

Init ==
    /\ handler = [s \in Sessions |-> "idle"]
    /\ reqDone = [s \in Sessions |-> FALSE]
    /\ cancelled = [s \in Sessions |-> FALSE]
    /\ store = {}
    /\ exec = [s \in Sessions |-> "none"]
    /\ done = [s \in Sessions |-> FALSE]
    /\ inflight = [s \in Sessions |-> [k \in Streams |-> 0]]
    /\ written = [s \in Sessions |-> [k \in Streams |-> 0]]
    /\ pipe = [s \in Sessions |-> [k \in Streams |-> "open"]]
    /\ reader = [s \in Sessions |-> [k \in Streams |-> "none"]]
    /\ held = [s \in Sessions |-> [k \in Streams |-> 0]]
    /\ ch = [s \in Sessions |-> <<>>]
    /\ chClosed = [s \in Sessions |-> FALSE]
    /\ sent = [s \in Sessions |-> <<>>]
    /\ stdin = [s \in Sessions |-> TRUE]
    /\ closes = [s \in Sessions |-> 0]
    /\ reaping = {}
    /\ writer = [s \in Sessions |-> [w \in Calls |-> "idle"]]
    /\ SizesInit

HandlerAt(s, from, to) == handler[s] = from /\ handler' = [handler EXCEPT ![s] = to]
-----------------------------------------------------------------------------
(***************************************************************************)
(* The ExecuteTTY handler.                                                 *)
(***************************************************************************)

\* A terminal size out of range, no pod name or no command: nothing is created.
StartExecInvalid(s) ==
    /\ HandlerAt(s, "idle", "rejected")
    /\ UNCHANGED <<reqDone, cancelled, store, exec, done, streamVars, stdin, closes,
                   reaping, writer, sizeVars>>

\* StartExec: PutExec, and the exec goroutine is launched.
StartExec(s) ==
    /\ HandlerAt(s, "idle", "first")
    /\ Cardinality(store) < MaxSessions
    /\ store' = store \cup {s}
    /\ exec' = [exec EXCEPT ![s] = "run"]
    /\ NewTerminalSizeQueue(s)
    /\ UNCHANGED <<reqDone, cancelled, done, streamVars, stdin, closes, reaping, writer>>

\* PutExec refuses: the pipes, the context and the queue are closed at once.
StartExecRejected(s) ==
    /\ HandlerAt(s, "idle", "rejected")
    /\ Cardinality(store) >= MaxSessions
    /\ cancelled' = [cancelled EXCEPT ![s] = TRUE]
    /\ stdin' = [stdin EXCEPT ![s] = FALSE]
    /\ closes' = [closes EXCEPT ![s] = @ + 1]
    /\ pipe' = [pipe EXCEPT ![s] = [k \in Streams |-> "wclosed"]]
    /\ CloseQueue(s)
    /\ UNCHANGED <<reqDone, store, exec, done, inflight, written, reader, held, ch,
                   chClosed, sent, reaping, writer>>

\* The session ID is sent, the readers start ...
SendFirst(s) ==
    /\ HandlerAt(s, "first", "stream")
    /\ reader' = [reader EXCEPT ![s] = [k \in Streams |-> "run"]]
    /\ UNCHANGED <<reqDone, cancelled, store, exec, done, inflight, written, pipe, held,
                   ch, chClosed, sent, stdin, closes, reaping, writer, sizeVars>>

\* (mutation) the early return skips the cleanup
SendFirstFailsLeaks(s) ==
    /\ HandlerAt(s, "first", "done")
    /\ reqDone' = [reqDone EXCEPT ![s] = TRUE]
    /\ cancelled' = [cancelled EXCEPT ![s] = TRUE]
    /\ UNCHANGED <<store, exec, done, streamVars, stdin, closes, reaping, writer,
                   sizeVars>>

\* ... or the send fails and the deferred CleanupExec runs.
SendFirstFails(s) ==
    /\ HandlerAt(s, "first", "cleanup")
    /\ UNCHANGED <<reqDone, cancelled, store, exec, done, streamVars, stdin, closes,
                   reaping, writer, sizeVars>>

\* The loop's select: a chunk is received and sent to the client ...
StreamChunk(s) ==
    /\ HandlerAt(s, "stream", "stream")
    /\ ch[s] # <<>>
    /\ sent' = [sent EXCEPT ![s] = Append(@, Head(ch[s]))]
    /\ ch' = [ch EXCEPT ![s] = Tail(@)]
    /\ UNCHANGED <<reqDone, cancelled, store, exec, done, inflight, written, pipe, reader,
                   held, chClosed, stdin, closes, reaping, writer, sizeVars>>

\* ... or the send fails ...
StreamChunkFails(s) ==
    /\ HandlerAt(s, "stream", "cleanup")
    /\ ch[s] # <<>>
    /\ ch' = [ch EXCEPT ![s] = Tail(@)]
    /\ UNCHANGED <<reqDone, cancelled, store, exec, done, inflight, written, pipe, reader,
                   held, chClosed, sent, stdin, closes, reaping, writer, sizeVars>>

\* ... or the channel is closed and drained ...
StreamEnds(s) ==
    /\ HandlerAt(s, "stream", "eof")
    /\ ch[s] = <<>> /\ chClosed[s]
    /\ UNCHANGED <<reqDone, cancelled, store, exec, done, streamVars, stdin, closes,
                   reaping, writer, sizeVars>>

\* ... or the client is gone.
StreamCancelled(s) ==
    /\ HandlerAt(s, "stream", "cleanup")
    /\ reqDone[s]
    /\ UNCHANGED <<reqDone, cancelled, store, exec, done, streamVars, stdin, closes,
                   reaping, writer, sizeVars>>

\* (mutation) the session is looked up and deleted without claiming it
RemoveExecUnclaimed(s) ==
    /\ handler[s] \in {"cleanup", "eof"}
    /\ handler' = [handler EXCEPT ![s] = "release"]
    /\ store' = store \ {s}
    /\ UNCHANGED <<reqDone, cancelled, exec, done, streamVars, stdin, closes, reaping,
                   writer, sizeVars>>

\* (mutation) the session is not deleted from the store
RemoveExecKeeps(s) ==
    /\ handler[s] \in {"cleanup", "eof"}
    /\ handler' = [handler EXCEPT ![s] = IF s \in store THEN "release" ELSE "return"]
    /\ UNCHANGED <<reqDone, cancelled, store, exec, done, streamVars, stdin, closes,
                   reaping, writer, sizeVars>>

\* CleanupExec: RemoveExec claims the session, unless the reaper was first.
RemoveExec(s) ==
    /\ handler[s] \in {"cleanup", "eof"}
    /\ handler' = [handler EXCEPT ![s] = IF s \in store THEN "release" ELSE "return"]
    /\ store' = store \ {s}
    /\ UNCHANGED <<reqDone, cancelled, exec, done, streamVars, stdin, closes, reaping,
                   writer, sizeVars>>

\* sess.Cancel() and sess.Stdin.Close().
CancelAndClose(s) ==
    /\ cancelled' = [cancelled EXCEPT ![s] = TRUE]
    /\ stdin' = [stdin EXCEPT ![s] = FALSE]
    /\ closes' = [closes EXCEPT ![s] = @ + 1]

ReleaseExec(s) ==
    /\ HandlerAt(s, "release", "return")
    /\ CancelAndClose(s)
    /\ UNCHANGED <<reqDone, store, exec, done, streamVars, reaping, writer, sizeVars>>

\* The handler returns; net/http then cancels the request's context.
ReturnExec(s) ==
    /\ HandlerAt(s, "return", "done")
    /\ reqDone' = [reqDone EXCEPT ![s] = TRUE]
    /\ cancelled' = [cancelled EXCEPT ![s] = TRUE]
    /\ UNCHANGED <<store, exec, done, streamVars, stdin, closes, reaping, writer,
                   sizeVars>>

HandlerStep(s) ==
    \/ SendFirst(s) \/ SendFirstFails(s)
    \/ StreamChunk(s) \/ StreamChunkFails(s) \/ StreamEnds(s) \/ StreamCancelled(s)
    \/ RemoveExec(s) \/ ReleaseExec(s) \/ ReturnExec(s)

\* The client disconnects (environment).
Disconnect(s) ==
    /\ handler[s] \in {"first", "stream"}
    /\ ~reqDone[s]
    /\ reqDone' = [reqDone EXCEPT ![s] = TRUE]
    /\ cancelled' = [cancelled EXCEPT ![s] = TRUE]
    /\ UNCHANGED <<handler, store, exec, done, streamVars, stdin, closes, reaping, writer,
                   sizeVars>>

-----------------------------------------------------------------------------
(***************************************************************************)
(* The exec goroutine and the SPDY executor it calls.                      *)
(***************************************************************************)

\* The command writes a chunk (the executor's copy to the pipe, external);
\* with a terminal there is no stderr.
CommandWrites(s, k) ==
    /\ exec[s] = "run"
    /\ k = "stderr" => sizer[s] = "none"
    /\ pipe[s][k] = "open" /\ inflight[s][k] = 0
    /\ written[s]["stdout"] + written[s]["stderr"] < Chunks
    /\ written' = [written EXCEPT ![s][k] = @ + 1]
    /\ inflight' = [inflight EXCEPT ![s][k] = written[s][k] + 1]
    /\ UNCHANGED <<handler, reqDone, cancelled, store, exec, done, pipe, reader, held, ch,
                   chClosed, sent, stdin, closes, reaping, writer, sizeVars>>

\* runtime.Exec returns: when the command has ended and its output is copied,
\* or as soon as the session's context is done.  errCh takes the result.
ExecReturns(s) ==
    /\ exec[s] = "run"
    /\ cancelled[s] \/ \A k \in Streams : inflight[s][k] = 0
    /\ exec' = [exec EXCEPT ![s] = "sizes"]
    /\ done' = [done EXCEPT ![s] = TRUE]
    /\ UNCHANGED <<handler, reqDone, cancelled, store, streamVars, stdin, closes, reaping,
                   writer, sizeVars>>

\* The mutex of the size queue is not held by a Set in progress.
Unlocked(s) == \A w \in Calls : writer[s][w] \notin {"full", "push"}

\* The deferred sizeQueue.Close waits for the queue's mutex.
CloseSizes(s) ==
    /\ exec[s] = "sizes" /\ Unlocked(s)
    /\ exec' = [exec EXCEPT ![s] = "stderr"]
    /\ CloseQueue(s)
    /\ UNCHANGED <<handler, reqDone, cancelled, store, done, streamVars, stdin, closes,
                   reaping, writer>>

\* The deferred Close of a stream's write end; a write in flight fails.
CloseWriter(s, k, next) ==
    /\ exec[s] = k
    /\ exec' = [exec EXCEPT ![s] = next]
    /\ pipe' = [pipe EXCEPT ![s][k] = IF @ = "open" THEN "wclosed" ELSE @]
    /\ inflight' = [inflight EXCEPT ![s][k] = 0]
    /\ UNCHANGED <<handler, reqDone, cancelled, store, done, written, reader, held, ch,
                   chClosed, sent, stdin, closes, reaping, writer, sizeVars>>

CloseStdinReader(s) ==
    /\ exec[s] = "stdin"
    /\ exec' = [exec EXCEPT ![s] = "end"]
    /\ stdin' = [stdin EXCEPT ![s] = FALSE]
    /\ UNCHANGED <<handler, reqDone, cancelled, store, done, streamVars, closes, reaping,
                   writer, sizeVars>>

\* The deferred calls run in reverse order.
ExecEnds(s) ==
    \/ CloseSizes(s)
    \/ CloseWriter(s, "stderr", "stdout")
    \/ CloseWriter(s, "stdout", "stdin")
    \/ CloseStdinReader(s)

-----------------------------------------------------------------------------
(***************************************************************************)
(* The reader goroutines of the handler.                                   *)
(***************************************************************************)

\* Read takes the chunk in flight ...
ReadChunk(s, k) ==
    /\ reader[s][k] = "run" /\ held[s][k] = 0
    /\ inflight[s][k] # 0
    /\ held' = [held EXCEPT ![s][k] = inflight[s][k]]
    /\ inflight' = [inflight EXCEPT ![s][k] = 0]
    /\ UNCHANGED <<handler, reqDone, cancelled, store, exec, done, written, pipe, reader,
                   ch, chClosed, sent, stdin, closes, reaping, writer, sizeVars>>

\* The deferred Close of the read end; a write in flight fails.
ReaderEnds(s, k) ==
    /\ reader' = [reader EXCEPT ![s][k] = "end"]
    /\ pipe' = [pipe EXCEPT ![s][k] = "rclosed"]
    /\ held' = [held EXCEPT ![s][k] = 0]
    /\ inflight' = [inflight EXCEPT ![s][k] = 0]
    /\ UNCHANGED <<handler, reqDone, cancelled, store, exec, done, written, ch, chClosed,
                   sent, stdin, closes, reaping, writer, sizeVars>>

\* ... or meets the end of the stream.
ReadEOF(s, k) ==
    /\ reader[s][k] = "run" /\ held[s][k] = 0
    /\ pipe[s][k] = "wclosed"
    /\ ReaderEnds(s, k)

\* The select: pass the chunk on ...
PassChunk(s, k) ==
    /\ held[s][k] # 0
    /\ Len(ch[s]) < BufCap
    /\ ch' = [ch EXCEPT ![s] = Append(@, <<k, held[s][k]>>)]
    /\ held' = [held EXCEPT ![s][k] = 0]
    /\ UNCHANGED <<handler, reqDone, cancelled, store, exec, done, inflight, written,
                   pipe, reader, chClosed, sent, stdin, closes, reaping, writer,
                   sizeVars>>

\* (mutation) a reader waits for room in the channel whatever happens
GiveUpNever(s, k) == FALSE /\ ReaderEnds(s, k)

\* ... or give up because the client is gone.
GiveUp(s, k) ==
    /\ held[s][k] # 0
    /\ reqDone[s]
    /\ ReaderEnds(s, k)

\* (mutation) the channel is closed when the first reader ends
CloseChannelEarly(s) ==
    /\ ~chClosed[s]
    /\ \E k \in Streams : reader[s][k] = "end"
    /\ chClosed' = [chClosed EXCEPT ![s] = TRUE]
    /\ UNCHANGED <<handler, reqDone, cancelled, store, exec, done, inflight, written,
                   pipe, reader, held, ch, sent, stdin, closes, reaping, writer,
                   sizeVars>>

\* readerWg.Wait and close(ch).
CloseChannel(s) ==
    /\ ~chClosed[s]
    /\ \A k \in Streams : reader[s][k] = "end"
    /\ chClosed' = [chClosed EXCEPT ![s] = TRUE]
    /\ UNCHANGED <<handler, reqDone, cancelled, store, exec, done, inflight, written,
                   pipe, reader, held, ch, sent, stdin, closes, reaping, writer,
                   sizeVars>>

ReaderStep(s, k) == ReadChunk(s, k) \/ ReadEOF(s, k) \/ PassChunk(s, k) \/ GiveUp(s, k)

-----------------------------------------------------------------------------
(***************************************************************************)
(* WriteTTY and ResizeTTY calls, and the reaper.                           *)
(***************************************************************************)
WriterAt(s, w, from, to) ==
    writer[s][w] = from /\ writer' = [writer EXCEPT ![s][w] = to]

\* WriteExec and ResizeExec: GetExec; the call returns at once when the session
\* is unknown.
GetExec(s, w) ==
    /\ WriterAt(s, w, "idle", IF s \in store THEN "got" ELSE "done")
    /\ handler[s] # "idle"
    /\ UNCHANGED <<handler, reqDone, cancelled, store, exec, done, streamVars, stdin,
                   closes, reaping, sizeVars>>

\* The fast path: a receive from Done, which takes the result out of it.
WriteFindsDone(s, w) ==
    /\ WriterAt(s, w, "got", "done")
    /\ done[s]
    /\ done' = [done EXCEPT ![s] = FALSE]
    /\ UNCHANGED <<handler, reqDone, cancelled, store, exec, streamVars, stdin, closes,
                   reaping, sizeVars>>

\* The write starts in a goroutine of its own.
WriteStarts(s, w) ==
    /\ WriterAt(s, w, "got", "write")
    /\ ~done[s]
    /\ UNCHANGED <<handler, reqDone, cancelled, store, exec, done, streamVars, stdin,
                   closes, reaping, sizeVars>>

\* The executor reads the data from stdin while the command runs (external).
WriteTaken(s, w) ==
    /\ WriterAt(s, w, "write", "done")
    /\ stdin[s] /\ exec[s] = "run"
    /\ UNCHANGED <<handler, reqDone, cancelled, store, exec, done, streamVars, stdin,
                   closes, reaping, sizeVars>>

\* A write to a pipe closed at either end returns an error.
WriteFails(s, w) ==
    /\ WriterAt(s, w, "write", "done")
    /\ ~stdin[s]
    /\ UNCHANGED <<handler, reqDone, cancelled, store, exec, done, streamVars, stdin,
                   closes, reaping, sizeVars>>

others == <<handler, reqDone, cancelled, store, exec, done, streamVars, stdin, closes,
            reaping>>

\* ResizeTTY refuses a size that is out of range.
ResizeInvalid(s, w) ==
    /\ WriterAt(s, w, "idle", "done")
    /\ UNCHANGED <<others, sizeVars>>

\* ResizeExec has found the session: Set takes the mutex and tries to send ...
ResizeStarts(s, w) ==
    /\ Unlocked(s)
    /\ \/ WriterAt(s, w, "got", "done") /\ (SetIgnored(s) \/ SetSends(s, w))
       \/ WriterAt(s, w, "got", "full") /\ SetFindsFull(s)
    /\ UNCHANGED others

\* ... and makes room first when the queue is full.
ResizeMakesRoom(s, w) ==
    /\ \/ WriterAt(s, w, "full", "push") /\ SetDrops(s)
       \/ WriterAt(s, w, "push", "done") /\ SetPushes(s, w)
    /\ UNCHANGED others

\* The executor asks for the next terminal size.
ExecutorResizes(s) == NextSize(s) /\ UNCHANGED <<others, writer>>

\* ReapStaleSessions, phase 1: all sessions, under the store's lock.
ReapStaleSessions ==
    /\ reaping = {}
    /\ \E s \in store \cap Sessions : done[s]
    /\ reaping' = {s \in store \cap Sessions : done[s]}
    /\ store' = store \ reaping'
    /\ done' = [s \in Sessions |-> done[s] /\ s \notin store]
    /\ UNCHANGED <<handler, reqDone, cancelled, exec, streamVars, stdin, closes, writer,
                   sizeVars>>

\* Phase 2, without the lock.
ReapClose(s) ==
    /\ s \in reaping
    /\ reaping' = reaping \ {s}
    /\ CancelAndClose(s)
    /\ UNCHANGED <<handler, reqDone, store, exec, done, streamVars, writer, sizeVars>>

\* Another session is put into the store, if there is room, and removed.
PutOther(o) ==
    /\ o \notin store /\ Cardinality(store) < MaxSessions
    /\ store' = store \cup {o}
    /\ UNCHANGED <<handler, reqDone, cancelled, exec, done, streamVars, stdin, closes,
                   reaping, writer, sizeVars>>

RemoveOther(o) ==
    /\ o \in store
    /\ store' = store \ {o}
    /\ UNCHANGED <<handler, reqDone, cancelled, exec, done, streamVars, stdin, closes,
                   reaping, writer, sizeVars>>

-----------------------------------------------------------------------------
Next ==
    \/ \E s \in Sessions :
        \/ StartExec(s) \/ StartExecInvalid(s) \/ StartExecRejected(s)
        \/ HandlerStep(s) \/ Disconnect(s) \/ ExecutorResizes(s)
        \/ ExecReturns(s) \/ ExecEnds(s) \/ CloseChannel(s) \/ ReapClose(s)
        \/ \E k \in Streams : CommandWrites(s, k) \/ ReaderStep(s, k)
        \/ \E w \in Calls :
            \/ GetExec(s, w) \/ WriteFindsDone(s, w) \/ WriteStarts(s, w)
            \/ WriteTaken(s, w) \/ WriteFails(s, w)
            \/ ResizeInvalid(s, w) \/ ResizeStarts(s, w) \/ ResizeMakesRoom(s, w)
    \/ ReapStaleSessions
    \/ \E o \in Others : PutOther(o) \/ RemoveOther(o)

Spec == Init /\ [][Next]_vars

\* The steps of a session's goroutines, and of calls that do not wait for the
\* command; the executor returns once its context is done.
SystemStep(s) ==
    \/ HandlerStep(s) \/ ExecutorResizes(s)
    \/ cancelled[s] /\ ExecReturns(s)
    \/ ExecEnds(s) \/ CloseChannel(s) \/ ReapClose(s)
    \/ \E k \in Streams : ReaderStep(s, k)
    \/ \E w \in Calls : \/ WriteFindsDone(s, w) \/ WriteStarts(s, w) \/ WriteFails(s, w)
                        \/ ResizeStarts(s, w) \/ ResizeMakesRoom(s, w)

\* A session whose goroutines can run does not stop, and neither does the
\* reaper; sends to the client return.  This is less than fairness to each
\* goroutine: none of them loops without output or calls, which are bounded,
\* so none starves another.  Neither the command nor the client has to do
\* anything, and no WriteTTY call has to be made.
FairSpec ==
    /\ Spec
    /\ \A s \in Sessions : WF_vars(SystemStep(s))
    /\ WF_vars(ReapStaleSessions)

-----------------------------------------------------------------------------
(***************************************************************************)
(* Properties.                                                             *)
(***************************************************************************)

Handlers == {"idle", "first", "stream", "cleanup", "eof", "release", "return", "done",
             "rejected"}

\* Every variable has the shape of the Go value it stands for.
TypeOK ==
    /\ handler \in [Sessions -> Handlers]
    /\ {reqDone, cancelled, done, chClosed, stdin} \subseteq [Sessions -> BOOLEAN]
    /\ store \subseteq Sessions \cup Others /\ reaping \subseteq Sessions
    /\ exec \in [Sessions -> {"none", "run", "sizes", "stderr", "stdout", "stdin", "end"}]
    /\ \A s \in Sessions, k \in Streams :
          {inflight[s][k], written[s][k], held[s][k]} \subseteq 0..Chunks
    /\ pipe \in [Sessions -> [Streams -> {"open", "wclosed", "rclosed"}]]
    /\ reader \in [Sessions -> [Streams -> {"none", "run", "end"}]]
    /\ \A s \in Sessions : Len(ch[s]) <= BufCap
    /\ closes \in [Sessions -> Nat]
    /\ writer \in [Sessions -> [Calls -> {"idle", "got", "write", "full", "push", "done"}]]
    /\ \A s \in Sessions : Len(sizes[s]) <= SizeCap
    /\ sizer \in [Sessions -> {"none", "run", "end"}]

\* RemoveExec and the reaper hand a session to exactly one of CleanupExec and
\* ReapStaleSessions: its resources are never closed twice.
ClosedOnce == \A s \in Sessions : closes[s] <= 1

\* PutExec keeps the store within maxExecSessions, and no slot is orphaned:
\* whatever path ExecuteTTY takes, a stored session has a handler that still
\* has its cleanup to run.
SlotsOwned ==
    /\ Cardinality(store) <= MaxSessions
    /\ \A s \in store \cap Sessions : handler[s] \in {"first", "stream", "cleanup", "eof"}

\* The chunks in q are, of each stream k, those after from[k] up to to[k]: each
\* of them once, and in their order.
Carries(q, from, to) ==
    /\ \A k \in Streams : from[k] <= to[k]
    /\ \A i \in DOMAIN q : q[i][1] \in Streams /\ q[i][2] \in from[q[i][1]] + 1 .. to[q[i][1]]
    /\ \A k \in Streams : \A n \in from[k] + 1 .. to[k] : \E i \in DOMAIN q : q[i] = <<k, n>>
    /\ \A i, j \in DOMAIN q : i < j /\ q[i][1] = q[j][1] => q[i][2] < q[j][2]

NoChunks == [k \in Streams |-> 0]

\* The chunks of each stream arrive in order and without a gap; and when the
\* handler ends because the channel was closed while the client was there and
\* nobody cancelled the session, all of the command's output has been sent.
OutputDelivered ==
    \A s \in Sessions :
        \E n \in [Streams -> 0..Chunks] :
            /\ Carries(sent[s], NoChunks, n)
            /\ handler[s] = "eof" /\ ~cancelled[s] => n = written[s]

\* A client that disconnects gets its slot freed.
DisconnectFreesSlot == \A s \in Sessions : reqDone[s] ~> s \notin store

\* Set found the queue full and, before it could drop the oldest size, Next
\* took them all: it waits for a size with the mutex held, and no call of Set
\* can provide one.
SetWaits(s) == sizes[s] = <<>> /\ \E w \in Calls : writer[s][w] = "full"

\* A session's terminal follows the client: when the executor has taken all
\* sizes from the queue and no Set is about to add one, the last that Next
\* returned is the last that was set, whatever was dropped in between and
\* also when the queue was closed before it was empty.
LastSizeApplied ==
    \A s \in Sessions :
        /\ sizer[s] = "end" => sizes[s] = <<>>
        /\ sizer[s] # "none" /\ sizes[s] = <<>> /\ (\A w \in Calls : writer[s][w] # "push")
              => applied[s] = wanted[s]

\* When the handler has returned, the exec goroutine, both readers, the
\* executor's loop and every WriteTTY and ResizeTTY call end as well, unless
\* a Set waits for ever: nothing is left blocked on a pipe.
NothingLeaks ==
    \A s \in Sessions : (handler[s] = "done") ~>
        \/ SetWaits(s)
        \/ /\ exec[s] = "end" /\ sizer[s] # "run"
           /\ \A k \in Streams : reader[s][k] # "run"
           /\ \A w \in Calls : writer[s][w] \in {"idle", "done"}

=============================================================================
