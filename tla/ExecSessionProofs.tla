------------------------- MODULE ExecSessionProofs --------------------------
(***************************************************************************)
(* Slots, cleanup and terminal sizes of exec sessions, for every number of *)
(* sessions and calls and every size of the store and the queue of sizes.  *)
(***************************************************************************)
EXTENDS ExecSession, FiniteSetTheorems, TLAPS

(***************************************************************************)
(* A session has one owner at a time: nobody before it is started, the     *)
(* store, then CleanupExec or the reaper, which closes it.                 *)
(***************************************************************************)
Owned(s) ==
    /\ handler[s] \in {"idle", "release"} => s \notin store \cup reaping
    /\ s \in store => handler[s] \in {"first", "stream", "cleanup", "eof"} /\ s \notin reaping
    /\ handler[s] \in {"idle", "release"} \/ s \in store \cup reaping => closes[s] = 0

OwnerInv ==
    /\ handler \in [Sessions -> Handlers] /\ closes \in [Sessions -> 0..1]
    /\ store \subseteq Sessions \cup Others /\ reaping \subseteq Sessions
    /\ \A s \in Sessions : Owned(s)

StoreInv == IsFiniteSet(store) /\ Cardinality(store) <= MaxSessions

owner == <<handler, store, reaping, closes>>

\* No session has been started.
LEMMA OwnerInit == Init => OwnerInv /\ StoreInv
<1> SUFFICES ASSUME Init PROVE OwnerInv /\ StoreInv
  OBVIOUS
<1>1. OwnerInv
  BY DEF Init, OwnerInv, Owned, Handlers
<1>2. IsFiniteSet(store) /\ Cardinality(store) = 0
  BY FS_EmptySet DEF Init
<1> QED  BY <1>1, <1>2, ExecAssumption DEF StoreInv

\* The steps that change who owns a session.
OwnerStep ==
    \/ \E s \in Sessions :
          \/ StartExec(s) \/ StartExecInvalid(s) \/ StartExecRejected(s)
          \/ HandlerStep(s) \/ ReapClose(s)
    \/ ReapStaleSessions
    \/ \E o \in Others : PutOther(o) \/ RemoveOther(o)

\* All others leave it alone.
LEMMA OwnerSteps == ASSUME [Next]_vars PROVE OwnerStep \/ UNCHANGED owner
<1>1. ASSUME NEW s \in Sessions,
             \/ Disconnect(s) \/ ExecutorResizes(s) \/ ExecReturns(s) \/ ExecEnds(s)
             \/ CloseChannel(s)
      PROVE  UNCHANGED owner
  BY <1>1 DEF owner, others, Disconnect, ExecutorResizes, ExecReturns, ExecEnds, CloseSizes,
              CloseWriter, CloseStdinReader, CloseChannel
<1>2. ASSUME NEW s \in Sessions, NEW k \in Streams, CommandWrites(s, k) \/ ReaderStep(s, k)
      PROVE  UNCHANGED owner
  BY <1>2 DEF owner, CommandWrites, ReaderStep, ReadChunk, ReadEOF, PassChunk, GiveUp,
              ReaderEnds
<1>3. ASSUME NEW s \in Sessions, NEW w \in Calls,
             \/ GetExec(s, w) \/ WriteFindsDone(s, w) \/ WriteStarts(s, w)
             \/ WriteTaken(s, w) \/ WriteFails(s, w)
             \/ ResizeInvalid(s, w) \/ ResizeStarts(s, w) \/ ResizeMakesRoom(s, w)
      PROVE  UNCHANGED owner
  BY <1>3 DEF owner, others, GetExec, WriteFindsDone, WriteStarts, WriteTaken, WriteFails,
              ResizeInvalid, ResizeStarts, ResizeMakesRoom
<1>4. CASE UNCHANGED vars
  BY <1>4 DEF vars, owner
<1> QED  BY <1>1, <1>2, <1>3, <1>4 DEF Next, OwnerStep

\* A slot changes hands as a whole.
LEMMA OwnerNext == ASSUME OwnerInv, [Next]_vars PROVE OwnerInv'
<1> USE DEF OwnerInv, Owned, Handlers
<1>1. ASSUME NEW s \in Sessions, StartExec(s) PROVE OwnerInv'
  BY <1>1 DEF StartExec, HandlerAt
<1>2. ASSUME NEW s \in Sessions, StartExecInvalid(s) PROVE OwnerInv'
  BY <1>2 DEF StartExecInvalid, HandlerAt
<1>3. ASSUME NEW s \in Sessions, StartExecRejected(s) PROVE OwnerInv'
  BY <1>3 DEF StartExecRejected, HandlerAt
<1>4. ASSUME NEW s \in Sessions, HandlerStep(s), ~RemoveExec(s), ~ReleaseExec(s)
      PROVE  OwnerInv'
  <2>1. /\ UNCHANGED <<store, reaping, closes>>
        /\ handler[s] \in {"first", "stream", "return"}
        /\ \E to \in {"stream", "cleanup", "eof", "done"} :
              /\ handler' = [handler EXCEPT ![s] = to]
              /\ handler[s] # "return" => to # "done"
    BY <1>4 DEF HandlerStep, HandlerAt, SendFirst, SendFirstFails, StreamChunk,
                StreamChunkFails, StreamEnds, StreamCancelled, ReturnExec
  <2> QED  BY <2>1
<1>5. ASSUME NEW s \in Sessions, RemoveExec(s) PROVE OwnerInv'
  BY <1>5 DEF RemoveExec
<1>6. ASSUME NEW s \in Sessions, ReleaseExec(s) PROVE OwnerInv'
  BY <1>6 DEF ReleaseExec, HandlerAt, CancelAndClose
<1>7. ASSUME NEW s \in Sessions, ReapClose(s) PROVE OwnerInv'
  BY <1>7 DEF ReapClose, CancelAndClose
<1>8. CASE ReapStaleSessions
  BY <1>8 DEF ReapStaleSessions
<1>9. ASSUME NEW o \in Others, PutOther(o) \/ RemoveOther(o) PROVE OwnerInv'
  BY <1>9, ExecAssumption DEF PutOther, RemoveOther
<1>10. CASE UNCHANGED owner
  BY <1>10 DEF owner
<1> QED
  BY <1>1, <1>2, <1>3, <1>4, <1>5, <1>6, <1>7, <1>8, <1>9, <1>10, OwnerSteps, Zenon DEF OwnerStep

\* PutExec counts before it adds.
LEMMA StoreNext == ASSUME StoreInv, [Next]_vars PROVE StoreInv'
<1>1. MaxSessions \in Nat
  BY ExecAssumption
<1>2. ASSUME NEW x, Cardinality(store) < MaxSessions, store' = store \cup {x} PROVE StoreInv'
  <2>1. IsFiniteSet(store) /\ Cardinality(store) \in Nat
    BY FS_CardinalityType DEF StoreInv
  <2>2. /\ IsFiniteSet(store \cup {x})
        /\ Cardinality(store \cup {x}) \in {Cardinality(store), Cardinality(store) + 1}
    BY <2>1, FS_AddElement
  <2> QED  BY <1>1, <1>2, <2>1, <2>2 DEF StoreInv
<1>3. ASSUME store' \in SUBSET store PROVE StoreInv'
  BY <1>1, <1>3, FS_Subset, FS_CardinalityType DEF StoreInv
<1>4. \/ store' \in SUBSET store
      \/ \E x : Cardinality(store) < MaxSessions /\ store' = store \cup {x}
  <2>1. CASE OwnerStep
    BY <2>1, Zenon DEF OwnerStep, StartExec, StartExecInvalid, StartExecRejected, HandlerStep,
       SendFirst,
            SendFirstFails, StreamChunk, StreamChunkFails, StreamEnds, StreamCancelled,
            RemoveExec, ReleaseExec, ReturnExec, ReapClose, ReapStaleSessions, PutOther,
            RemoveOther
  <2>2. CASE UNCHANGED owner
    BY <2>2 DEF owner
  <2> QED  BY <2>1, <2>2, OwnerSteps
<1> QED  BY <1>2, <1>3, <1>4

\* With any number of sessions, CleanupExec and the reaper together close the
\* resources of a session at most once.
THEOREM AlwaysClosedOnce == Spec => []ClosedOnce
<1>1. ASSUME OwnerInv PROVE ClosedOnce
  <2> SUFFICES ASSUME NEW s \in Sessions PROVE closes[s] <= 1
    BY Zenon DEF ClosedOnce
  <2> QED  BY <1>1 DEF OwnerInv
<1> QED  BY OwnerInit, OwnerNext, <1>1, PTL DEF Spec

\* The store never holds more than maxExecSessions, and every session in it
\* has a handler that will remove it.
THEOREM SlotsAlwaysOwned == Spec => []SlotsOwned
<1>1. OwnerInv /\ StoreInv => SlotsOwned
  BY DEF OwnerInv, Owned, StoreInv, SlotsOwned
<1> QED  BY OwnerInit, OwnerNext, StoreNext, <1>1, PTL DEF Spec
-----------------------------------------------------------------------------
(***************************************************************************)
(* Terminal sizes.  The newest size in the queue is the one that was set   *)
(* last; when there is none, Next has returned it, unless a Set that has   *)
(* made room is about to send another one.                                 *)
(***************************************************************************)
Size == Calls \cup {Initial}
Writers == {"idle", "got", "write", "full", "push", "done"}

SizesType ==
    /\ sizes \in [Sessions -> Seq(Size)] /\ sizesClosed \in [Sessions -> BOOLEAN]
    /\ sizer \in [Sessions -> {"none", "run", "end"}]
    /\ applied \in [Sessions -> Size \cup {NoSize}] /\ wanted \in [Sessions -> Size \cup {NoSize}]
    /\ writer \in [Sessions -> [Calls -> Writers]]
    /\ handler \in [Sessions -> Handlers]

Pushing(s) == \E w \in Calls : writer[s][w] = "push"

\* Nothing happens to the queue of a session that was not started; a queue that
\* is closed has no Set in progress and gets no more sizes.
Quiet(s) ==
    /\ handler[s] = "idle" =>
          /\ sizes[s] = <<>> /\ applied[s] = wanted[s] /\ sizer[s] = "none"
          /\ \A w \in Calls : writer[s][w] \in {"idle", "done"}
    /\ sizesClosed[s] => Unlocked(s)
    /\ sizer[s] = "end" => sizesClosed[s] /\ sizes[s] = <<>>

Newest(s) ==
    /\ sizes[s] # <<>> => sizes[s][Len(sizes[s])] = wanted[s]
    /\ sizer[s] # "none" /\ sizes[s] = <<>> /\ ~Pushing(s) => applied[s] = wanted[s]

SizesInv == SizesType /\ \A s \in Sessions : Quiet(s) /\ Newest(s)

\* The newest element after a send ...
LEMMA LastAppend ==
    ASSUME NEW S, NEW q \in Seq(S), NEW x \in S
    PROVE  LET p == Append(q, x) IN p \in Seq(S) /\ p # <<>> /\ p[Len(p)] = x
OBVIOUS

\* ... and after a receive.
LEMMA LastTail ==
    ASSUME NEW S, NEW q \in Seq(S), q # <<>>
    PROVE  LET p == Tail(q) IN
           /\ p \in Seq(S) /\ Head(q) \in S
           /\ p # <<>> => p[Len(p)] = q[Len(q)]
           /\ p = <<>> => q[Len(q)] = Head(q)
<1>1. Len(q) \in Nat /\ Len(q) > 0
  OBVIOUS
<1>2. Tail(q) \in Seq(S) /\ Len(Tail(q)) = Len(q) - 1 /\ Head(q) = q[1] /\ Head(q) \in S
  BY <1>1
<1>3. \A i \in 1..Len(q) - 1 : Tail(q)[i] = q[i + 1]
  BY <1>1
<1>4. ASSUME Tail(q) # <<>> PROVE Tail(q)[Len(Tail(q))] = q[Len(q)]
  <2>1. Len(Tail(q)) > 0
    BY <1>2, <1>4
  <2> QED  BY <1>1, <1>2, <1>3, <2>1
<1>5. ASSUME Tail(q) = <<>> PROVE q[Len(q)] = Head(q)
  <2> DEFINE p == Tail(q)
  <2>1. p = <<>> /\ Len(p) = Len(q) - 1
    BY <1>2, <1>5
  <2> HIDE DEF p
  <2>2. Len(p) = 0
    BY <2>1
  <2>3. Len(q) = 1
    BY <1>1, <2>1, <2>2
  <2> QED  BY <1>2, <2>3
<1> QED  BY <1>2, <1>4, <1>5

\* A WriteTTY or ResizeTTY call moves on, the others do not.
LEMMA WriterMoves ==
    ASSUME SizesType, NEW s \in Sessions, NEW w \in Calls, NEW from, NEW to \in Writers,
           WriterAt(s, w, from, to)
    PROVE  /\ writer[s][w] = from /\ writer'[s][w] = to
           /\ writer' \in [Sessions -> [Calls -> Writers]]
           /\ \A q \in Sessions, v \in Calls :
                 q # s \/ v # w => writer'[q][v] = writer[q][v]
BY DEF WriterAt, SizesType

\* There are no sizes and no calls at first.
LEMMA SizesStart == Init => SizesInv
<1> SUFFICES ASSUME Init PROVE SizesInv
  OBVIOUS
<1>1. SizesType
  BY DEF Init, SizesInit, SizesType, Writers, Handlers
<1>2. \A s \in Sessions : Quiet(s) /\ Newest(s)
  BY Zenon DEF Init, SizesInit, Quiet, Newest, Unlocked, Pushing
<1> QED  BY <1>1, <1>2 DEF SizesInv

\* What a step does to one session is kept if it does nothing to the others.
SameSizes(q) ==
    /\ sizes'[q] = sizes[q] /\ sizesClosed'[q] = sizesClosed[q] /\ sizer'[q] = sizer[q]
    /\ applied'[q] = applied[q] /\ wanted'[q] = wanted[q] /\ handler'[q] = handler[q]
    /\ \A w \in Calls : writer'[q][w] = writer[q][w]

\* The invariant is about one session at a time.
LEMMA OneSession ==
    ASSUME SizesInv, SizesType', NEW s \in Sessions, (Quiet(s) /\ Newest(s))',
           \A q \in Sessions \ {s} : SameSizes(q)
    PROVE  SizesInv'
<1>1. ASSUME NEW q \in Sessions \ {s} PROVE (Quiet(q) /\ Newest(q))'
  <2>1. SameSizes(q) /\ Quiet(q) /\ Newest(q)
    BY DEF SizesInv
  <2> QED  BY <2>1 DEF SameSizes, Quiet, Newest, Unlocked, Pushing
<1> QED  BY <1>1 DEF SizesInv

\* Set sends a size when there is room for it.
LEMMA SendKeeps ==
    ASSUME SizesInv, NEW s \in Sessions, NEW w \in Calls,
           \/ WriterAt(s, w, "got", "done") /\ SetSends(s, w)
           \/ WriterAt(s, w, "push", "done") /\ SetPushes(s, w),
           UNCHANGED handler
    PROVE  SizesInv'
<1>1. SizesType /\ Quiet(s) /\ Newest(s)
  BY DEF SizesInv
<1>2. PICK from \in {"got", "push"} : WriterAt(s, w, from, "done")
  OBVIOUS
<1>3. /\ writer[s][w] = from /\ writer'[s][w] = "done"
      /\ writer' \in [Sessions -> [Calls -> Writers]]
      /\ \A q \in Sessions, v \in Calls : q # s \/ v # w => writer'[q][v] = writer[q][v]
  BY <1>1, <1>2, WriterMoves DEF Writers
<1>4. /\ sizes' = [sizes EXCEPT ![s] = Append(sizes[s], w)]
      /\ wanted' = [wanted EXCEPT ![s] = w]
      /\ UNCHANGED <<sizesClosed, sizer, applied>>
  BY DEF SetSends, SetPushes
<1>5. ~sizesClosed[s]
  BY <1>1, <1>3 DEF SetSends, Quiet, Unlocked, WriterAt
<1>6. w \in Size /\ sizes[s] \in Seq(Size)
  BY <1>1 DEF Size, SizesType
<1>7. /\ sizes'[s] = Append(sizes[s], w) /\ wanted'[s] = w
      /\ sizes'[s] \in Seq(Size) /\ sizes'[s] # <<>> /\ sizes'[s][Len(sizes'[s])] = w
  BY <1>1, <1>4, <1>6, LastAppend DEF SizesType
<1>8. SizesType'
  BY <1>1, <1>3, <1>4, <1>6, <1>7 DEF SizesType
<1>9. Quiet(s)'
  BY <1>1, <1>3, <1>4, <1>5 DEF Quiet, Unlocked
<1>10. Newest(s)'
  BY <1>7 DEF Newest
<1>11. \A q \in Sessions \ {s} : SameSizes(q)
  BY <1>1, <1>3, <1>4 DEF SameSizes, SizesType
<1> QED  BY <1>8, <1>9, <1>10, <1>11, OneSession

\* Set drops the oldest size, and is about to send its own.
LEMMA DropKeeps ==
    ASSUME SizesInv, NEW s \in Sessions, NEW w \in Calls,
           WriterAt(s, w, "full", "push"), SetDrops(s), UNCHANGED handler
    PROVE  SizesInv'
<1>1. SizesType /\ Quiet(s) /\ Newest(s)
  BY DEF SizesInv
<1>2. /\ writer[s][w] = "full" /\ writer'[s][w] = "push"
      /\ writer' \in [Sessions -> [Calls -> Writers]]
      /\ \A q \in Sessions, v \in Calls : q # s \/ v # w => writer'[q][v] = writer[q][v]
  BY <1>1, WriterMoves DEF Writers
<1>3. /\ sizes[s] # <<>> /\ sizes' = [sizes EXCEPT ![s] = Tail(sizes[s])]
      /\ UNCHANGED <<sizesClosed, sizer, applied, wanted>>
  BY DEF SetDrops
<1>4. sizes[s] \in Seq(Size)
  BY <1>1 DEF SizesType
<1>5. /\ sizes'[s] = Tail(sizes[s]) /\ sizes'[s] \in Seq(Size)
      /\ sizes'[s] # <<>> => sizes'[s][Len(sizes'[s])] = wanted[s]
  BY <1>1, <1>3, <1>4, LastTail DEF SizesType, Newest
<1>6. SizesType'
  BY <1>1, <1>2, <1>3, <1>5, SMTT(30) DEF SizesType
<1>7. ~sizesClosed[s] /\ handler[s] # "idle"
  BY <1>1, <1>2 DEF Quiet, Unlocked
<1>8. Quiet(s)'
  BY <1>1, <1>3, <1>7 DEF Quiet
<1>9. Newest(s)'
  BY <1>2, <1>3, <1>5 DEF Newest, Pushing
<1>10. \A q \in Sessions \ {s} : SameSizes(q)
  BY <1>1, <1>2, <1>3 DEF SameSizes, SizesType
<1> QED  BY <1>6, <1>8, <1>9, <1>10, OneSession

\* Next returns the oldest size, which is the newest when it is the only one.
LEMMA NextKeeps ==
    ASSUME SizesInv, NEW s \in Sessions, NextSize(s), UNCHANGED <<handler, writer>>
    PROVE  SizesInv'
<1>1. SizesType /\ Quiet(s) /\ Newest(s)
  BY DEF SizesInv
<1>2. CASE sizes[s] = <<>>
  <2>1. /\ sizesClosed[s] /\ sizer[s] = "run" /\ sizer' = [sizer EXCEPT ![s] = "end"]
        /\ UNCHANGED <<sizes, sizesClosed, applied, wanted>>
    BY <1>2 DEF NextSize
  <2>2. SizesType'
    BY <1>1, <2>1 DEF SizesType
  <2>3. (Quiet(s) /\ Newest(s))'
    BY <1>1, <1>2, <2>1 DEF SizesType, Quiet, Newest, Unlocked, Pushing
  <2>4. \A q \in Sessions \ {s} : SameSizes(q)
    BY <1>1, <2>1 DEF SameSizes, SizesType
  <2> QED  BY <2>2, <2>3, <2>4, OneSession
<1>3. CASE sizes[s] # <<>>
  <2>1. /\ sizer[s] = "run" /\ applied' = [applied EXCEPT ![s] = Head(sizes[s])]
        /\ sizes' = [sizes EXCEPT ![s] = Tail(sizes[s])]
        /\ UNCHANGED <<sizer, sizesClosed, wanted>>
    BY <1>3 DEF NextSize
  <2>2. sizes[s] \in Seq(Size)
    BY <1>1 DEF SizesType
  <2>3. /\ sizes'[s] = Tail(sizes[s]) /\ sizes'[s] \in Seq(Size)
        /\ applied'[s] = Head(sizes[s]) /\ applied'[s] \in Size
        /\ sizes'[s] # <<>> => sizes'[s][Len(sizes'[s])] = wanted[s]
        /\ sizes'[s] = <<>> => applied'[s] = wanted[s]
    BY <1>1, <1>3, <2>1, <2>2, LastTail, Zenon DEF SizesType, Newest
  <2>4. SizesType'
    BY <1>1, <2>1, <2>3 DEF SizesType
  <2>5. Quiet(s)'
    BY <1>1, <2>1 DEF Quiet, Unlocked
  <2>6. Newest(s)'
    BY <2>1, <2>3 DEF Newest
  <2>7. \A q \in Sessions \ {s} : SameSizes(q)
    BY <1>1, <2>1 DEF SameSizes, SizesType
  <2> QED  BY <2>4, <2>5, <2>6, <2>7, OneSession
<1> QED  BY <1>2, <1>3

\* StartExec makes the queue, with the first size or without one.
LEMMA StartKeeps ==
    ASSUME SizesInv, NEW s \in Sessions, HandlerAt(s, "idle", "first"),
           NewTerminalSizeQueue(s), UNCHANGED writer
    PROVE  SizesInv'
<1>1. SizesType /\ Quiet(s) /\ handler[s] = "idle"
      /\ handler' = [handler EXCEPT ![s] = "first"]
  BY DEF SizesInv, HandlerAt
<1>2. /\ sizes[s] = <<>> /\ applied[s] = wanted[s]
      /\ \A w \in Calls : writer[s][w] \in {"idle", "done"}
  BY <1>1 DEF Quiet
<1>3. PICK r \in {"none", "run"} : sizer' = [sizer EXCEPT ![s] = r]
  BY DEF NewTerminalSizeQueue
<1>4. UNCHANGED <<sizesClosed, applied>>
  BY DEF NewTerminalSizeQueue
<1>5. CASE sizes' = [sizes EXCEPT ![s] = <<Initial>>] /\ wanted' = [wanted EXCEPT ![s] = Initial]
  <2>1. <<Initial>> \in Seq(Size) /\ Initial \in Size
    BY DEF Size
  <2>2. SizesType'
    BY <1>1, <1>3, <1>4, <1>5, <2>1 DEF SizesType, Handlers
  <2>3. sizes'[s] = <<Initial>> /\ wanted'[s] = Initial
    BY <1>1, <1>5 DEF SizesType
  <2>4. sizer'[s] = r /\ handler'[s] = "first"
    BY <1>1, <1>3, SMTT(30) DEF SizesType
  <2>5. Quiet(s)'
    BY <1>1, <1>4, <2>4 DEF Quiet, Unlocked
  <2>6. Newest(s)'
    BY <2>3 DEF Newest
  <2>7. \A q \in Sessions \ {s} : SameSizes(q)
    BY <1>1, <1>3, <1>4, <1>5 DEF SameSizes, SizesType
  <2> QED  BY <2>2, <2>5, <2>6, <2>7, OneSession
<1>6. CASE UNCHANGED <<sizes, wanted>>
  <2>1. SizesType'
    BY <1>1, <1>3, <1>4, <1>6 DEF SizesType, Handlers
  <2>2. sizer'[s] = r /\ handler'[s] = "first"
    BY <1>1, <1>3 DEF SizesType
  <2>3. Quiet(s)'
    BY <1>1, <1>4, <2>2 DEF Quiet, Unlocked
  <2>4. Newest(s)'
    BY <1>2, <1>4, <1>6 DEF Newest
  <2>5. \A q \in Sessions \ {s} : SameSizes(q)
    BY <1>1, <1>3, <1>4, <1>6 DEF SameSizes, SizesType
  <2> QED  BY <2>1, <2>3, <2>4, <2>5, OneSession
<1> QED  BY <1>5, <1>6 DEF NewTerminalSizeQueue

\* Close waits for the mutex, or nobody has found the session yet.
LEMMA CloseKeeps ==
    ASSUME SizesInv, NEW s \in Sessions, CloseQueue(s), Unlocked(s), UNCHANGED writer,
           handler' = handler \/ HandlerAt(s, "idle", "rejected")
    PROVE  SizesInv'
<1>1. SizesType /\ Quiet(s) /\ Newest(s)
  BY DEF SizesInv
<1>2. /\ sizesClosed' = [sizesClosed EXCEPT ![s] = TRUE]
      /\ UNCHANGED <<sizes, sizer, applied, wanted>>
  BY DEF CloseQueue
<1>3. SizesType'
  BY <1>1, <1>2, Zenon DEF SizesType, HandlerAt, Handlers
<1>4. sizesClosed'[s] /\ (handler'[s] = "idle" => handler[s] = "idle")
  BY <1>1, <1>2, SMTT(30) DEF SizesType, HandlerAt
<1>5. (Quiet(s) /\ Newest(s))'
  BY <1>1, <1>2, <1>4 DEF Quiet, Newest, Unlocked, Pushing
<1>6. \A q \in Sessions \ {s} : SameSizes(q)
  BY <1>1, <1>2 DEF SameSizes, SizesType, HandlerAt
<1> QED  BY <1>3, <1>5, <1>6, OneSession

\* The handler goes on, and never back to where no session was started.
LEMMA HandlerKeeps ==
    ASSUME SizesInv, NEW s \in Sessions, NEW to \in Handlers \ {"idle"},
           handler' = [handler EXCEPT ![s] = to], UNCHANGED <<sizeVars, writer>>
    PROVE  SizesInv'
<1>1. SizesType /\ Quiet(s) /\ Newest(s)
  BY DEF SizesInv
<1>2. UNCHANGED <<sizes, sizesClosed, sizer, applied, wanted>>
  BY DEF sizeVars
<1>3. SizesType' /\ handler'[s] # "idle"
  BY <1>1, <1>2 DEF SizesType
<1>4. (Quiet(s) /\ Newest(s))'
  BY <1>1, <1>2, <1>3 DEF Quiet, Newest, Unlocked, Pushing
<1>5. \A q \in Sessions \ {s} : SameSizes(q)
  BY <1>1, <1>2, SMTT(30) DEF SameSizes, SizesType
<1> QED  BY <1>3, <1>4, <1>5, OneSession

\* A call goes on without a change of the queue.
LEMMA CallKeeps ==
    ASSUME SizesInv, NEW s \in Sessions, NEW w \in Calls, NEW from \in Writers \ {"push"},
           NEW to \in Writers \ {"push"}, WriterAt(s, w, from, to),
           to = "full" => ~sizesClosed[s], to # "done" => handler[s] # "idle",
           UNCHANGED <<sizeVars, handler>>
    PROVE  SizesInv'
<1>1. SizesType /\ Quiet(s) /\ Newest(s)
  BY SMTT(30) DEF SizesInv
<1>2. UNCHANGED <<sizes, sizesClosed, sizer, applied, wanted>>
  BY SMTT(30) DEF sizeVars
<1>3. /\ writer[s][w] = from /\ writer'[s][w] = to
      /\ writer' \in [Sessions -> [Calls -> Writers]]
      /\ \A q \in Sessions, v \in Calls : q # s \/ v # w => writer'[q][v] = writer[q][v]
  BY <1>1, WriterMoves
<1>4. SizesType'
  BY <1>1, <1>2, <1>3, SMTT(30) DEF SizesType
<1>5. Quiet(s)'
  BY <1>1, <1>2, <1>3 DEF Quiet, Unlocked
<1>6. Pushing(s)' <=> Pushing(s)
  BY <1>3 DEF Pushing
<1>7. Newest(s)'
  BY <1>1, <1>2, <1>6 DEF Newest
<1>8. \A q \in Sessions \ {s} : SameSizes(q)
  BY <1>1, <1>2, <1>3 DEF SameSizes, SizesType
<1> QED  BY <1>4, <1>5, <1>7, <1>8, OneSession, SMTT(30)

\* A call under way has found a session that was started.
LEMMA CallStarted ==
    ASSUME SizesInv, NEW s \in Sessions, NEW w \in Calls, writer[s][w] \notin {"idle", "done"}
    PROVE  handler[s] # "idle"
BY SMTT(30) DEF SizesInv, Quiet

\* Every step.
LEMMA SizesNext == ASSUME SizesInv, [Next]_vars PROVE SizesInv'
<1>1. ASSUME NEW s \in Sessions, StartExec(s) PROVE SizesInv'
  BY <1>1, StartKeeps DEF StartExec
<1>2. ASSUME NEW s \in Sessions, StartExecInvalid(s) PROVE SizesInv'
  BY <1>2, HandlerKeeps, Zenon DEF StartExecInvalid, HandlerAt, Handlers
<1>3. ASSUME NEW s \in Sessions, StartExecRejected(s) PROVE SizesInv'
  <2>1. Unlocked(s)
    BY <1>3 DEF StartExecRejected, HandlerAt, SizesInv, Quiet, Unlocked
  <2> QED  BY <1>3, <2>1, CloseKeeps, SMTT(30) DEF StartExecRejected
<1>4. ASSUME NEW s \in Sessions, HandlerStep(s) PROVE SizesInv'
  <2>1. /\ UNCHANGED <<sizeVars, writer>>
        /\ \E to \in Handlers \ {"idle"} : handler' = [handler EXCEPT ![s] = to]
    BY <1>4, Zenon DEF HandlerStep, HandlerAt, SendFirst, SendFirstFails, StreamChunk,
                StreamChunkFails, StreamEnds, StreamCancelled, RemoveExec, ReleaseExec,
                ReturnExec, Handlers
  <2> QED  BY <2>1, HandlerKeeps, Zenon
<1>5. ASSUME NEW s \in Sessions, ExecutorResizes(s) PROVE SizesInv'
  BY <1>5, NextKeeps DEF ExecutorResizes, others
<1>6. ASSUME NEW s \in Sessions, CloseSizes(s) PROVE SizesInv'
  BY <1>6, CloseKeeps DEF CloseSizes
<1>7. ASSUME NEW s \in Sessions, NEW w \in Calls, GetExec(s, w) PROVE SizesInv'
  <2>1. PICK to \in {"got", "done"} : WriterAt(s, w, "idle", to)
    BY <1>7 DEF GetExec
  <2>2. handler[s] # "idle" /\ UNCHANGED <<sizeVars, handler>>
    BY <1>7 DEF GetExec
  <2> QED  BY <2>1, <2>2, CallKeeps DEF Writers
<1>8. ASSUME NEW s \in Sessions, NEW w \in Calls,
             \/ WriteFindsDone(s, w) \/ WriteStarts(s, w) \/ WriteTaken(s, w)
             \/ WriteFails(s, w) \/ ResizeInvalid(s, w)
      PROVE  SizesInv'
  <2>1. UNCHANGED <<sizeVars, handler>>
    BY <1>8, SMTT(30) DEF WriteFindsDone, WriteStarts, WriteTaken, WriteFails, ResizeInvalid, others
  <2>2. PICK from \in {"idle", "got", "write"}, to \in {"write", "done"} :
           WriterAt(s, w, from, to) /\ (to = "write" => from = "got")
    BY <1>8 DEF WriteFindsDone, WriteStarts, WriteTaken, WriteFails, ResizeInvalid
  <2>3. to = "write" => handler[s] # "idle"
    BY <2>2, CallStarted DEF WriterAt
  <2> QED  BY <2>1, <2>2, <2>3, CallKeeps, SMTT(30) DEF Writers
<1>9. ASSUME NEW s \in Sessions, NEW w \in Calls, ResizeStarts(s, w) PROVE SizesInv'
  <2>1. UNCHANGED handler
    BY <1>9 DEF ResizeStarts, others
  <2>2. CASE WriterAt(s, w, "got", "done") /\ SetIgnored(s)
    BY <2>1, <2>2, CallKeeps DEF SetIgnored, Writers
  <2>3. CASE WriterAt(s, w, "got", "done") /\ SetSends(s, w)
    BY <2>1, <2>3, SendKeeps
  <2>4. CASE WriterAt(s, w, "got", "full") /\ SetFindsFull(s)
    <3>1. handler[s] # "idle"
      BY <2>4, CallStarted DEF WriterAt
    <3> QED  BY <2>1, <2>4, <3>1, CallKeeps DEF SetFindsFull, Writers
  <2> QED  BY <1>9, <2>2, <2>3, <2>4 DEF ResizeStarts
<1>10. ASSUME NEW s \in Sessions, NEW w \in Calls, ResizeMakesRoom(s, w) PROVE SizesInv'
  BY <1>10, DropKeeps, SendKeeps, SMTT(30) DEF ResizeMakesRoom, others
<1>11. ASSUME UNCHANGED <<sizeVars, writer, handler>> PROVE SizesInv'
  BY <1>11, SMTT(30) DEF SizesInv, SizesType, Quiet, Newest, Unlocked, Pushing, sizeVars
<1>12. ASSUME NEW s \in Sessions,
              \/ Disconnect(s) \/ ExecReturns(s) \/ CloseChannel(s) \/ ReapClose(s)
              \/ CloseWriter(s, "stderr", "stdout") \/ CloseWriter(s, "stdout", "stdin")
              \/ CloseStdinReader(s)
       PROVE  UNCHANGED <<sizeVars, writer, handler>>
  BY <1>12, SMTT(30) DEF Disconnect, ExecReturns, CloseChannel, ReapClose, CloseWriter,
         CloseStdinReader
<1>13. ASSUME NEW s \in Sessions, NEW k \in Streams, CommandWrites(s, k) \/ ReaderStep(s, k)
       PROVE  UNCHANGED <<sizeVars, writer, handler>>
  BY <1>13 DEF CommandWrites, ReaderStep, ReadChunk, ReadEOF, PassChunk, GiveUp, ReaderEnds
<1>14. ASSUME \/ ReapStaleSessions \/ UNCHANGED vars
              \/ \E o \in Others : PutOther(o) \/ RemoveOther(o)
       PROVE  UNCHANGED <<sizeVars, writer, handler>>
  BY <1>14 DEF ReapStaleSessions, PutOther, RemoveOther, vars
<1> QED
  BY <1>1, <1>2, <1>3, <1>4, <1>5, <1>6, <1>7, <1>8, <1>9, <1>10, <1>11, <1>12, <1>13,
     <1>14 DEF Next, ExecEnds

\* However many ResizeTTY calls race the executor and Close, and whatever the
\* queue drops, the terminal ends up with the size that was set last.
THEOREM LastSizeAlwaysApplied == Spec => []LastSizeApplied
<1>1. SizesInv => LastSizeApplied
  BY ZenonT(30) DEF SizesInv, Quiet, Newest, Pushing, LastSizeApplied
<1> QED  BY SizesStart, SizesNext, <1>1, PTL DEF Spec
=============================================================================
