----------------------------- MODULE PortForward -----------------------------
(***************************************************************************)
(* One port-forward session: the PortForward handler, the goroutine that   *)
(* runs runtimeRepo.PortForward with its three helpers, WritePortForward   *)
(* calls and the session reaper.                                           *)
(*                                                                         *)
(*   client --WritePortForward--> dataIn pipe --copyIn--> data stream -> pod *)
(*   client <--handler-- dataOut pipe <--copyOut-- data stream <- pod      *)
(*                                                                         *)
(* A pipe is synchronous: a writer waits until its data is read or one end *)
(* of the pipe is closed.                                                  *)
(***************************************************************************)
EXTENDS Integers, Sequences

CONSTANTS
    Writers,   \* WritePortForward calls
    PodChunks  \* bound: chunks the pod sends

ASSUME PortForwardAssumption == PodChunks \in Nat

VARIABLES
    handler,    \* the PortForward handler
    reqDone,    \* the request's context is done
    cancelled,  \* the session's context is done
    stored,     \* the session is in the store
    closes,     \* history: calls of Writer.Close
    main,       \* the goroutine of StartPortForward
    doneCh,     \* its result is in the session's Done channel
    conn,       \* streamConn is open
    dataOpen,   \* our half of the data stream is open
    podOpen,    \* the pod's half of the streams is open
    kubeletErr, \* the kubelet has reported an error on the error stream
    arrived,    \* chunks of the pod not yet read from the data stream
    podSent,    \* chunks the pod has sent
    copyIn, copyOut, errReader,   \* the three helpers
    results,    \* errCh of PortForward (capacity 2)
    dataInW, dataInR, dataOutW,   \* pipe ends that are open
    delivered,  \* chunks sent to the client
    writer,     \* the WritePortForward calls
    reaping     \* the reaper has removed the session and not yet closed it

session == <<reqDone, cancelled, stored, closes, reaping>>
remote  == <<podOpen, kubeletErr, arrived, podSent>>
helpers == <<copyIn, copyOut, errReader, results>>
pipes   == <<dataInW, dataInR, dataOutW>>
forwardVars == <<handler, session, main, doneCh, conn, dataOpen, remote, helpers,
          pipes, delivered, writer>>

ForwardInit ==
    /\ handler = "idle" /\ main = "none"
    /\ reqDone = FALSE /\ cancelled = FALSE /\ stored = FALSE /\ doneCh = FALSE
    /\ closes = 0
    /\ conn = FALSE /\ dataOpen = FALSE
    /\ podOpen = TRUE /\ kubeletErr = FALSE /\ arrived = 0 /\ podSent = 0
    /\ copyIn = "none" /\ copyOut = "none" /\ errReader = "none"
    /\ results = <<>>
    /\ dataInW = TRUE /\ dataInR = TRUE /\ dataOutW = TRUE
    /\ delivered = 0
    /\ writer = [w \in Writers |-> "idle"]
    /\ reaping = FALSE

HandlerAt(from, to) == handler = from /\ handler' = to
-----------------------------------------------------------------------------
(***************************************************************************)
(* The handler.                                                            *)
(***************************************************************************)

\* StartPortForward: the session is stored and its goroutine launched.
StartPortForward ==
    /\ HandlerAt("idle", "first")
    /\ stored' = TRUE
    /\ main' = "dial"
    /\ UNCHANGED <<reqDone, cancelled, closes, reaping, doneCh, conn, dataOpen, remote,
                   helpers, pipes, delivered, writer>>

\* The store is full: the context and the pipes are closed, nothing runs.
StartPortForwardRejected ==
    /\ HandlerAt("idle", "done")
    /\ reqDone' = TRUE /\ cancelled' = TRUE
    /\ dataInW' = FALSE /\ dataInR' = FALSE /\ dataOutW' = FALSE
    /\ UNCHANGED <<stored, closes, reaping, main, doneCh, conn, dataOpen, remote,
                   helpers, delivered, writer>>

\* The first message, with the session ID, is sent or not.
SendFirst ==
    /\ HandlerAt("first", "read") \/ HandlerAt("first", "cleanup")
    /\ UNCHANGED <<session, main, doneCh, conn, dataOpen, remote, helpers, pipes,
                   delivered, writer>>

\* dataOutR.Read returns what copyOut is writing; copyOut goes on ...
HandlerReads ==
    /\ HandlerAt("read", "send")
    /\ copyOut = "write"
    /\ copyOut' = "read"
    /\ UNCHANGED <<session, main, doneCh, conn, dataOpen, remote, copyIn, errReader,
                   results, pipes, delivered, writer>>

\* ... and the data is sent to the client, or the handler gives up.
HandlerSends ==
    /\ \/ HandlerAt("send", "read") /\ delivered' = delivered + 1
       \/ HandlerAt("send", "cleanup") /\ UNCHANGED delivered
    /\ UNCHANGED <<session, main, doneCh, conn, dataOpen, remote, helpers, pipes, writer>>

\* The write end of dataOut was closed: end of stream.
HandlerEOF ==
    /\ HandlerAt("read", "eof")
    /\ ~dataOutW
    /\ UNCHANGED <<session, main, doneCh, conn, dataOpen, remote, helpers, pipes,
                   delivered, writer>>

\* The deferred CleanupPortForward: claim the session, unless it was reaped ...
RemovePortForward ==
    /\ handler \in {"cleanup", "eof"}
    /\ handler' = IF stored THEN "release" ELSE "return"
    /\ stored' = FALSE
    /\ UNCHANGED <<reqDone, cancelled, closes, reaping, main, doneCh, conn, dataOpen, remote,
                   helpers, pipes, delivered, writer>>

\* (mutation) the write end of dataIn stays open
CancelOnly ==
    /\ cancelled' = TRUE
    /\ UNCHANGED dataInW
    /\ closes' = closes + 1

\* ... and cancel its context and close the write end of dataIn.
CancelAndClose ==
    /\ cancelled' = TRUE
    /\ dataInW' = FALSE
    /\ closes' = closes + 1

ReleasePortForward ==
    /\ HandlerAt("release", "return")
    /\ CancelAndClose
    /\ UNCHANGED <<reqDone, stored, reaping, main, doneCh, conn, dataOpen, remote, helpers,
                   dataInR, dataOutW, delivered, writer>>

\* The handler returns; net/http then cancels the request's context.
ReturnPortForward ==
    /\ HandlerAt("return", "done")
    /\ reqDone' = TRUE
    /\ cancelled' = TRUE
    /\ UNCHANGED <<stored, closes, reaping, main, doneCh, conn, dataOpen, remote, helpers,
                   pipes, delivered, writer>>

HandlerStep ==
    \/ SendFirst \/ HandlerReads \/ HandlerSends \/ HandlerEOF
    \/ RemovePortForward \/ ReleasePortForward \/ ReturnPortForward

\* The client disconnects (environment).
Disconnect ==
    /\ handler \in {"first", "read", "send"}
    /\ ~reqDone
    /\ reqDone' = TRUE
    /\ cancelled' = TRUE
    /\ UNCHANGED <<handler, stored, closes, reaping, main, doneCh, conn, dataOpen, remote,
                   helpers, pipes, delivered, writer>>
-----------------------------------------------------------------------------
(***************************************************************************)
(* runtimeRepo.PortForward.                                                *)
(***************************************************************************)

\* The connection and its two streams are opened and the helpers launched.
Dial ==
    /\ main = "dial"
    /\ main' = "loop1"
    /\ conn' = TRUE /\ dataOpen' = TRUE
    /\ copyIn' = "read" /\ copyOut' = "read" /\ errReader' = "read"
    /\ UNCHANGED <<handler, session, doneCh, remote, results, pipes, delivered, writer>>

\* One of the steps up to there fails.
DialFails ==
    /\ main = "dial"
    /\ main' = "return"
    /\ UNCHANGED <<handler, session, doneCh, conn, dataOpen, remote, helpers, pipes,
                   delivered, writer>>

\* (mutation) a cancelled PortForward returns without waiting for its helpers
LoopCancelledLeaves ==
    /\ main \in {"loop1", "loop2"}
    /\ cancelled
    /\ main' = "return"
    /\ conn' = FALSE
    /\ UNCHANGED <<handler, session, doneCh, dataOpen, remote, helpers, pipes,
                   delivered, writer>>

\* The select: the context is done ...
LoopCancelled ==
    /\ main \in {"loop1", "loop2"}
    /\ cancelled
    /\ main' = "wait"
    /\ conn' = FALSE
    /\ UNCHANGED <<handler, session, doneCh, dataOpen, remote, helpers, pipes,
                   delivered, writer>>

\* ... or a direction has ended.  The second result ends the loop; an error
\* closes the connection.
LoopResult ==
    /\ main \in {"loop1", "loop2"}
    /\ results # <<>>
    /\ results' = Tail(results)
    /\ main' = IF main = "loop1" THEN "loop2" ELSE "wait"
    /\ conn' = (conn /\ Head(results) = "nil")
    /\ UNCHANGED <<handler, session, doneCh, dataOpen, remote, copyIn, copyOut,
                   errReader, pipes, delivered, writer>>

\* wg.Wait.
WaitHelpers ==
    /\ main = "wait"
    /\ \A p \in {copyIn, copyOut, errReader} : p = "end"
    /\ main' = "return"
    /\ UNCHANGED <<handler, session, doneCh, conn, dataOpen, remote, helpers, pipes,
                   delivered, writer>>

\* The deferred closes, and the result is put into Done.
ReturnResult ==
    /\ main = "return"
    /\ main' = "closeOut"
    /\ doneCh' = TRUE
    /\ conn' = FALSE /\ dataOpen' = FALSE
    /\ UNCHANGED <<handler, session, remote, helpers, pipes, delivered, writer>>

CloseOut ==
    /\ main = "closeOut"
    /\ main' = "closeIn"
    /\ dataOutW' = FALSE
    /\ UNCHANGED <<handler, session, doneCh, conn, dataOpen, remote, helpers, dataInW,
                   dataInR, delivered, writer>>

CloseIn ==
    /\ main = "closeIn"
    /\ main' = "end"
    /\ dataInR' = FALSE
    /\ UNCHANGED <<handler, session, doneCh, conn, dataOpen, remote, helpers, dataInW,
                   dataOutW, delivered, writer>>

MainStep ==
    \/ LoopCancelled \/ LoopResult \/ WaitHelpers \/ ReturnResult \/ CloseOut \/ CloseIn

-----------------------------------------------------------------------------
(***************************************************************************)
(* The helpers.  A copy direction ends with a result for errCh.            *)
(***************************************************************************)
CopyInEnds(result) ==
    /\ copyIn' = "end"
    /\ results' = Append(results, result)
    /\ UNCHANGED <<handler, session, main, doneCh, conn, dataOpen, remote, copyOut,
                   errReader, pipes, delivered, writer>>

\* io.Copy(dataStream, opts.Stdin): a read takes what a WritePortForward call
\* is writing ...
CopyInReads(w) ==
    /\ copyIn = "read"
    /\ dataInW /\ writer[w] = "write"
    /\ copyIn' = "write"
    /\ writer' = [writer EXCEPT ![w] = "done"]
    /\ UNCHANGED <<handler, session, main, doneCh, conn, dataOpen, remote, copyOut,
                   errReader, results, pipes, delivered>>

\* ... or meets the end of the pipe.
CopyInEOF == copyIn = "read" /\ ~dataInW /\ CopyInEnds("nil")

\* The stream takes the data while it is open ...
CopyInWrites ==
    /\ copyIn = "write"
    /\ conn /\ dataOpen
    /\ copyIn' = "read"
    /\ UNCHANGED <<handler, session, main, doneCh, conn, dataOpen, remote, copyOut,
                   errReader, results, pipes, delivered, writer>>

\* ... and fails when it, or the pod's end of it, is closed.
CopyInFails ==
    /\ copyIn = "write"
    /\ ~conn \/ ~dataOpen \/ ~podOpen
    /\ CopyInEnds("err")

\* io.Copy(opts.Stdout, dataStream): a chunk is read and written to dataOut,
\* where it stays until the handler reads it ...
CopyOutReads ==
    /\ copyOut = "read"
    /\ arrived > 0
    /\ arrived' = arrived - 1
    /\ copyOut' = "write"
    /\ UNCHANGED <<handler, session, main, doneCh, conn, dataOpen, podOpen, kubeletErr,
                   podSent, copyIn, errReader, results, pipes, delivered, writer>>

\* ... until the pod closes the stream, or the connection is closed.
CopyOutEnds(result) ==
    /\ copyOut = "read"
    /\ \/ arrived = 0 /\ ~podOpen /\ result = "nil"
       \/ ~conn
    /\ copyOut' = "end"
    /\ results' = Append(results, result)
    /\ UNCHANGED <<handler, session, main, doneCh, conn, dataOpen, remote, copyIn,
                   errReader, pipes, delivered, writer>>

\* The error stream delivers an error, and the data stream is closed ...
ErrReaderReports ==
    /\ errReader = "read"
    /\ kubeletErr
    /\ errReader' = "end"
    /\ dataOpen' = FALSE
    /\ UNCHANGED <<handler, session, main, doneCh, conn, remote, copyIn, copyOut,
                   results, pipes, delivered, writer>>

\* ... or it ends without one.
ErrReaderEnds ==
    /\ errReader = "read"
    /\ ~podOpen \/ ~conn
    /\ errReader' = "end"
    /\ UNCHANGED <<handler, session, main, doneCh, conn, dataOpen, remote, copyIn,
                   copyOut, results, pipes, delivered, writer>>

CopyInStep  == (\E w \in Writers : CopyInReads(w)) \/ CopyInEOF \/ CopyInWrites \/ CopyInFails
CopyOutStep == CopyOutReads \/ \E r \in {"nil", "err"} : CopyOutEnds(r)
ErrStep     == ErrReaderReports \/ ErrReaderEnds

-----------------------------------------------------------------------------
(***************************************************************************)
(* The pod (external), WritePortForward calls, and the reaper.             *)
(***************************************************************************)
PodStep ==
    /\ conn /\ podOpen
    /\ \/ /\ podSent < PodChunks
          /\ podSent' = podSent + 1 /\ arrived' = arrived + 1
          /\ UNCHANGED <<podOpen, kubeletErr>>
       \/ ~kubeletErr /\ kubeletErr' = TRUE /\ UNCHANGED <<podOpen, arrived, podSent>>
       \/ podOpen' = FALSE /\ UNCHANGED <<kubeletErr, arrived, podSent>>
    /\ UNCHANGED <<handler, session, main, doneCh, conn, dataOpen, helpers, pipes,
                   delivered, writer>>

WriterAt(w, from, to) == writer[w] = from /\ writer' = [writer EXCEPT ![w] = to]

\* GetPortForward, then the fast path that receives from Done, then the write.
WriteGets(w) ==
    /\ handler # "idle"
    /\ WriterAt(w, "idle", IF stored THEN "got" ELSE "done")
    /\ UNCHANGED <<handler, session, main, doneCh, conn, dataOpen, remote, helpers,
                   pipes, delivered>>

WriteChecks(w) ==
    /\ WriterAt(w, "got", IF doneCh THEN "done" ELSE "write")
    /\ doneCh' = FALSE
    /\ UNCHANGED <<handler, session, main, conn, dataOpen, remote, helpers, pipes,
                   delivered>>

WriteFails(w) ==
    /\ WriterAt(w, "write", "done")
    /\ ~dataInW \/ ~dataInR
    /\ UNCHANGED <<handler, session, main, doneCh, conn, dataOpen, remote, helpers,
                   pipes, delivered>>

\* ReapStaleSessions, under the lock and then without it.
Reap ==
    /\ stored /\ doneCh /\ ~reaping
    /\ stored' = FALSE /\ doneCh' = FALSE /\ reaping' = TRUE
    /\ UNCHANGED <<handler, reqDone, cancelled, closes, main, conn, dataOpen, remote,
                   helpers, pipes, delivered, writer>>

ReapClose ==
    /\ reaping
    /\ reaping' = FALSE
    /\ CancelAndClose
    /\ UNCHANGED <<handler, reqDone, stored, main, doneCh, conn, dataOpen, remote,
                   helpers, dataInR, dataOutW, delivered, writer>>

-----------------------------------------------------------------------------
ForwardNext ==
    \/ StartPortForward \/ StartPortForwardRejected \/ HandlerStep \/ Disconnect
    \/ Dial \/ DialFails \/ MainStep
    \/ CopyInStep \/ CopyOutStep \/ ErrStep
    \/ PodStep
    \/ \E w \in Writers : WriteGets(w) \/ WriteChecks(w) \/ WriteFails(w)
    \/ Reap \/ ReapClose

ForwardSpec == ForwardInit /\ [][ForwardNext]_forwardVars

\* Every goroutine that can run does, dialling and sending return.  Nothing is
\* assumed of the pod, of the client, or of WritePortForward calls.
FairForwardSpec ==
    /\ ForwardSpec
    /\ WF_forwardVars(HandlerStep) /\ WF_forwardVars(Dial \/ DialFails) /\ WF_forwardVars(MainStep)
    /\ WF_forwardVars(CopyInStep) /\ WF_forwardVars(CopyOutStep) /\ WF_forwardVars(ErrStep)
    /\ \A w \in Writers : WF_forwardVars(WriteChecks(w) \/ WriteFails(w))
    /\ WF_forwardVars(Reap) /\ WF_forwardVars(ReapClose)
-----------------------------------------------------------------------------
\* Every variable has the shape of the Go value it stands for.
ForwardTypeOK ==
    /\ handler \in {"idle", "first", "read", "send", "eof", "cleanup", "release",
                    "return", "done"}
    /\ main \in {"none", "dial", "loop1", "loop2", "wait", "return", "closeOut",
                 "closeIn", "end"}
    /\ {reqDone, cancelled, stored, doneCh, conn, dataOpen, podOpen, kubeletErr,
        dataInW, dataInR, dataOutW, reaping} \subseteq BOOLEAN
    /\ {copyIn, copyOut} \subseteq {"none", "read", "write", "end"}
    /\ errReader \in {"none", "read", "end"}
    /\ Len(results) <= 2
    /\ {arrived, podSent, delivered} \subseteq 0..PodChunks
    /\ closes \in Nat
    /\ writer \in [Writers -> {"idle", "got", "write", "done"}]

\* PortForward returns only after its three goroutines have: none of them can
\* touch the pipes or the stream of a session that is over, and cleanup and
\* reaper, whichever comes first, close what a session holds only once.
HelpersEndFirst ==
    /\ main \in {"return", "closeOut", "closeIn", "end"} =>
          \A p \in {copyIn, copyOut, errReader} : p \in {"none", "end"}
    /\ closes <= 1

\* Cleanup closes dataIn and cancels, and that ends PortForward, unless
\* copyOut waits for a handler that no longer reads.
CleanupEndsForward ==
    (handler = "done") ~> (main \in {"none", "end"} \/ copyOut = "write")
=============================================================================
