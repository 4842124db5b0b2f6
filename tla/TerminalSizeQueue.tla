-------------------------- MODULE TerminalSizeQueue --------------------------
(***************************************************************************)
(* The queue of terminal sizes of an exec session: a buffered channel that *)
(* Set fills under a mutex, dropping the oldest size when it is full, and  *)
(* that the SPDY executor drains with Next, without the mutex.             *)
(***************************************************************************)
EXTENDS Integers, Sequences

CONSTANTS
    Sessions,   \* session IDs
    Calls,      \* the WriteTTY and ResizeTTY calls, for each session
    SizeCap     \* capacity of the queue's channel (4 in the code)

ASSUME SizeAssumption == SizeCap \in Nat \ {0}

VARIABLES
    sizes,       \* the sizes in a session's channel; a size is the call that set it
    sizesClosed,
    sizer,       \* the executor's loop on Next: "none" without a terminal, "run" or "end"
    applied,     \* the last size that Next has returned
    wanted       \* history: the last size that Set has accepted

sizeVars == <<sizes, sizesClosed, sizer, applied, wanted>>

NoSize == "none"
Initial == "initial"

SizesInit ==
    /\ sizes = [s \in Sessions |-> <<>>]
    /\ sizesClosed = [s \in Sessions |-> FALSE]
    /\ sizer = [s \in Sessions |-> "none"]
    /\ applied = [s \in Sessions |-> NoSize]
    /\ wanted = [s \in Sessions |-> NoSize]

\* NewTerminalSizeQueue, the first size if the client gave one, and the
\* executor's loop if the command has a terminal.
NewTerminalSizeQueue(s) ==
    /\ sizer' \in {[sizer EXCEPT ![s] = r] : r \in {"none", "run"}}
    /\ \/ /\ sizes' = [sizes EXCEPT ![s] = <<Initial>>]
          /\ wanted' = [wanted EXCEPT ![s] = Initial]
       \/ UNCHANGED <<sizes, wanted>>
    /\ UNCHANGED <<sizesClosed, applied>>

\* Set has the mutex: a closed queue ignores the size ...
SetIgnored(s) == sizesClosed[s] /\ UNCHANGED sizeVars

\* ... the channel has room for it ...
SetSends(s, size) ==
    /\ ~sizesClosed[s] /\ Len(sizes[s]) < SizeCap
    /\ sizes' = [sizes EXCEPT ![s] = Append(@, size)]
    /\ wanted' = [wanted EXCEPT ![s] = size]
    /\ UNCHANGED <<sizesClosed, sizer, applied>>

\* ... or has none; the mutex is kept ...
SetFindsFull(s) ==
    /\ ~sizesClosed[s] /\ Len(sizes[s]) >= SizeCap
    /\ UNCHANGED sizeVars

\* ... until the oldest size is received, which waits while there is none ...
SetDrops(s) ==
    /\ sizes[s] # <<>>
    /\ sizes' = [sizes EXCEPT ![s] = Tail(@)]
    /\ UNCHANGED <<sizesClosed, sizer, applied, wanted>>

\* (mutation) the new size is the one that is dropped
SetGivesUp(s, size) ==
    /\ wanted' = [wanted EXCEPT ![s] = size]
    /\ UNCHANGED <<sizes, sizesClosed, sizer, applied>>

\* ... and the new one is sent in its place.
SetPushes(s, size) ==
    /\ Len(sizes[s]) < SizeCap
    /\ sizes' = [sizes EXCEPT ![s] = Append(@, size)]
    /\ wanted' = [wanted EXCEPT ![s] = size]
    /\ UNCHANGED <<sizesClosed, sizer, applied>>

\* Close, with the mutex.
CloseQueue(s) ==
    /\ sizesClosed' = [sizesClosed EXCEPT ![s] = TRUE]
    /\ UNCHANGED <<sizes, sizer, applied, wanted>>

\* Next returns the oldest size, or nil once the channel is closed and empty.
NextSize(s) ==
    /\ sizer[s] = "run"
    /\ \/ /\ sizes[s] # <<>>
          /\ applied' = [applied EXCEPT ![s] = Head(sizes[s])]
          /\ sizes' = [sizes EXCEPT ![s] = Tail(@)]
          /\ UNCHANGED sizer
       \/ /\ sizes[s] = <<>> /\ sizesClosed[s]
          /\ sizer' = [sizer EXCEPT ![s] = "end"]
          /\ UNCHANGED <<sizes, applied>>
    /\ UNCHANGED <<sizesClosed, wanted>>
=============================================================================
