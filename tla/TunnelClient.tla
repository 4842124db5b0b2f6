---------------------------- MODULE TunnelClient ----------------------------
(***************************************************************************)
(* The agent's tunnel client (internal/transport/tunnel/client.go): the    *)
(* loop of Start that registers, writes the credentials to a temporary     *)
(* directory, runs a chisel session and starts over, and Stop, which       *)
(* transport.Serve calls from another goroutine once the context is done.  *)
(* The mutex is held for single steps only; every one of them is an action.*)
(***************************************************************************)
EXTENDS Integers

CONSTANTS
    BaseDelay, MaxDelay,  \* baseRetryDelay and maxRetryDelay
    MaxDials              \* bound: directories created in a behaviour

ASSUME ClientAssumption ==
    /\ BaseDelay \in Nat \ {0} /\ MaxDelay \in Nat /\ BaseDelay <= MaxDelay
    /\ MaxDials \in Nat \ {0}

VARIABLES
    pc,          \* where Start is
    ctxDone,     \* the context is cancelled
    current,     \* backoff.current
    dirs,        \* the temporary directories on disk
    stuck,       \* history: those whose removal has failed
    created,     \* directories created so far; a directory is its number
    dir, oldDir, \* dial's variables; 0 is none
    certDir,     \* Client.certDir
    inner,       \* Client.inner, named by its directory
    open,        \* the inner clients that are not closed
    result,      \* what runSession returned: "nil", "auth" or "lost"
    stop,        \* Stop: "idle", then "done"
    dialFails,   \* history: failed dials since one succeeded, 2 for more of them
    slept        \* history: the interval the last delay was drawn from

vars == <<pc, ctxDone, current, dirs, stuck, created, dir, oldDir, certDir, inner, open,
          result, stop, dialFails, slept>>
history == <<dialFails, slept>>
disk   == <<dirs, stuck, created, dir, oldDir, certDir>>
shared == <<inner, open, stop>>

Init ==
    /\ pc = "top" /\ ctxDone = FALSE
    /\ current = BaseDelay
    /\ dirs = {} /\ stuck = {} /\ created = 0 /\ dir = 0 /\ oldDir = 0 /\ certDir = 0
    /\ inner = 0 /\ open = {}
    /\ result = "nil" /\ stop = "idle"
    /\ dialFails = 0 /\ slept = 0

\* A counter that saturates at 2.
Count(n) == IF n < 2 THEN n + 1 ELSE 2
-----------------------------------------------------------------------------
(***************************************************************************)
(* dial.  A step that fails makes dial return an error.                    *)
(***************************************************************************)
Goto(from, to) == pc = from /\ pc' = to

\* (mutation) the loop does not look at the context
LoopBlind ==
    /\ Goto("top", "register")
    /\ UNCHANGED <<ctxDone, current, disk, shared, result, history>>

\* The loop's test of the context.
Loop ==
    /\ Goto("top", IF ctxDone THEN "returned" ELSE "register")
    /\ UNCHANGED <<ctxDone, current, disk, shared, result, history>>

\* (mutation) a failed registration ends the client
DialFailsForGood ==
    /\ pc \in {"register", "mkdir", "write", "new"}
    /\ pc' = "returned"
    /\ UNCHANGED <<ctxDone, current, disk, shared, result, history>>

\* Registration, the directory, a file or the chisel client fails.
DialFails ==
    /\ pc \in {"register", "mkdir", "write", "new"}
    /\ pc' = "backoff"
    /\ dialFails' = Count(dialFails)
    /\ UNCHANGED <<ctxDone, current, disk, shared, result, slept>>

\* The server has answered (external).
Registered ==
    /\ Goto("register", "mkdir")
    /\ UNCHANGED <<ctxDone, current, disk, shared, result, history>>

MkdirTemp ==
    /\ Goto("mkdir", "swap")
    /\ created < MaxDials
    /\ created' = created + 1
    /\ dir' = created + 1
    /\ dirs' = dirs \cup {created + 1}
    /\ UNCHANGED <<ctxDone, current, stuck, oldDir, certDir, shared, result, history>>

\* Under the mutex.
SwapCertDir ==
    /\ Goto("swap", "remove")
    /\ oldDir' = certDir
    /\ certDir' = dir
    /\ UNCHANGED <<ctxDone, current, dirs, stuck, created, dir, shared, result, history>>

\* os.RemoveAll, after which the directory is gone; its failure, which leaves the
\* directory, is only logged.
RemoveAll(d) ==
    \/ dirs' = dirs \ {d} /\ stuck' = stuck \ {d}
    \/ d \in dirs /\ dirs' = dirs /\ stuck' = stuck \cup {d}

\* (mutation) the previous directory is not removed
RemoveNothing ==
    /\ Goto("remove", "write")
    /\ oldDir' = 0
    /\ UNCHANGED <<ctxDone, current, dirs, stuck, created, dir, certDir, shared, result,
                   history>>

RemoveOldDir ==
    /\ Goto("remove", "write")
    /\ RemoveAll(oldDir)
    /\ oldDir' = 0
    /\ UNCHANGED <<ctxDone, current, created, dir, certDir, shared, result,
                   history>>

\* The three files are written; Stop may have removed their directory.
WriteFiles ==
    /\ Goto("write", "new")
    /\ dir \in dirs
    /\ UNCHANGED <<ctxDone, current, disk, shared, result, history>>

\* chclient.NewClient; Start then resets the backoff and stores the client.
NewInner ==
    /\ Goto("new", "store")
    /\ open' = open \cup {dir}
    /\ UNCHANGED <<ctxDone, current, disk, inner, stop, result, history>>

StoreInner ==
    /\ Goto("store", "start")
    /\ current' = BaseDelay
    /\ inner' = dir
    /\ dialFails' = 0
    /\ UNCHANGED <<ctxDone, disk, open, stop, result, slept>>
-----------------------------------------------------------------------------
(***************************************************************************)
(* runSession and what Start makes of its result.                          *)
(***************************************************************************)
SessionUp ==
    /\ Goto("start", "wait")
    /\ UNCHANGED <<ctxDone, current, disk, shared, result, history>>

\* (mutation) a client that did not start is not closed
SessionEndsOpen(r) ==
    /\ \/ pc = "start" /\ r # "nil" /\ open' = open
       \/ pc = "wait" /\ open' = open \ {dir}
    /\ pc' = "ended"
    /\ result' = r
    /\ UNCHANGED <<ctxDone, current, disk, inner, stop, history>>

\* inner.Start fails, or inner.Wait returns (external): when chisel gives up,
\* when the connection is lost, or because the context is done.  Either way
\* the client is closed.
SessionEnds(r) ==
    /\ pc = "wait" \/ (pc = "start" /\ r # "nil")
    /\ pc' = "ended"
    /\ result' = r
    /\ open' = open \ {dir}
    /\ UNCHANGED <<ctxDone, current, disk, inner, stop, history>>

\* A session that ended or was refused is replaced at once.
Reregister ==
    /\ Goto("ended", "top")
    /\ ~ctxDone /\ result \in {"nil", "auth"}
    /\ current' = BaseDelay
    /\ UNCHANGED <<ctxDone, disk, shared, result, history>>

ConnectionLost ==
    /\ Goto("ended", "backoff")
    /\ ~ctxDone /\ result = "lost"
    /\ UNCHANGED <<ctxDone, current, disk, shared, result, history>>

EndedByContext ==
    /\ Goto("ended", "returned")
    /\ ctxDone
    /\ UNCHANGED <<ctxDone, current, disk, shared, result, history>>

\* (mutation) the interval goes back to the base once it would pass the maximum
BackoffRestarts ==
    /\ Goto("backoff", "sleep")
    /\ slept' = current
    /\ current' = IF current * 2 > MaxDelay THEN BaseDelay ELSE current * 2
    /\ UNCHANGED <<ctxDone, disk, shared, result, dialFails>>

\* backoff.Next: a delay up to current, which doubles up to the maximum.
Backoff ==
    /\ Goto("backoff", "sleep")
    /\ slept' = current
    /\ current' = IF current * 2 > MaxDelay THEN MaxDelay ELSE current * 2
    /\ UNCHANGED <<ctxDone, disk, shared, result, dialFails>>

\* sleepCtx: the timer fires, or the context is done first.
SleepEnds ==
    /\ Goto("sleep", "top") \/ (ctxDone /\ Goto("sleep", "returned"))
    /\ UNCHANGED <<ctxDone, current, disk, shared, result, history>>

-----------------------------------------------------------------------------
\* The process is told to stop (environment) ...
Cancel ==
    /\ ~ctxDone
    /\ ctxDone' = TRUE
    /\ UNCHANGED <<pc, current, disk, shared, result, history>>

\* ... and Serve calls Stop, which holds the mutex throughout.
Stop ==
    /\ ctxDone /\ stop = "idle"
    /\ stop' = "done"
    /\ RemoveAll(certDir)
    /\ certDir' = 0
    /\ open' = open \ {inner}
    /\ UNCHANGED <<pc, ctxDone, current, created, dir, oldDir, inner, result,
                   history>>

\* The client's own steps.  Dialling and a session's end are not among them
\* while the context is live: the server need not answer, a session may last.
StartStep ==
    \/ Loop \/ SwapCertDir \/ RemoveOldDir \/ StoreInner
    \/ MkdirTemp \/ WriteFiles \/ NewInner \/ DialFails
    \/ Reregister \/ ConnectionLost \/ EndedByContext \/ Backoff \/ SleepEnds

Next ==
    \/ StartStep \/ Registered \/ SessionUp
    \/ \E r \in {"nil", "auth", "lost"} : SessionEnds(r)
    \/ Cancel \/ Stop

Spec == Init /\ [][Next]_vars

\* Registration is bounded by the HTTP client's timeout, chisel's Start
\* returns, and its Wait returns once the context is done.
FairSpec ==
    /\ Spec
    /\ WF_vars(StartStep) /\ WF_vars(Registered \/ DialFails)
    /\ WF_vars(SessionUp) /\ WF_vars(ctxDone /\ SessionEnds("nil"))
    /\ WF_vars(Stop)
-----------------------------------------------------------------------------
\* Every variable has the shape of the Go value it stands for; the backoff
\* stays between its bounds.
TypeOK ==
    /\ pc \in {"top", "register", "mkdir", "swap", "remove", "write", "new", "store",
               "start", "wait", "ended", "backoff", "sleep", "returned"}
    /\ ctxDone \in BOOLEAN
    /\ current \in BaseDelay..MaxDelay
    /\ dirs \subseteq 1..MaxDials /\ stuck \subseteq dirs /\ open \subseteq 1..MaxDials
    /\ {created, dir, oldDir, certDir, inner} \subseteq 0..MaxDials /\ dialFails \in 0..2
    /\ result \in {"nil", "auth", "lost"} /\ stop \in {"idle", "done"}
    /\ slept \in 0..MaxDelay

\* No directory with a private key is forgotten while the client runs: one on
\* disk is the current one, or dial has just created it, or is about to
\* remove it, or the attempt to remove it has failed.  And none is removed too
\* early: until Stop runs, the files of the session being started or served are
\* there.
DirsOwned ==
    /\ dirs \subseteq {certDir} \cup stuck \cup (IF pc = "swap" THEN {dir} ELSE {})
                                              \cup (IF pc = "remove" THEN {oldDir} ELSE {})
    /\ stop = "idle" /\ pc \in {"write", "new", "store", "start", "wait"} => dir \in dirs

\* Start leaves no chisel client behind, and never has two of them.
SessionsClosed ==
    /\ open # {} => open = {dir} /\ pc \in {"store", "start", "wait"}
    /\ pc = "returned" => open = {}

\* Dials that keep failing wait longer and longer: the delay after the first
\* failure is drawn from an interval no shorter than the base, and each later
\* one from one twice as long as the one before, up to the maximum, whatever
\* sessions, resets and refusals came before.
DialsBackOff ==
    [][pc = "backoff" /\ pc' = "sleep" /\ dialFails > 0 =>
          slept' >= IF dialFails = 1 THEN BaseDelay
                    ELSE IF 2 * slept > MaxDelay THEN MaxDelay ELSE 2 * slept]_vars

\* Cancelling the context ends Start, whatever it is doing.
CancelEndsStart == ctxDone ~> (pc = "returned")

\* The client does not give up: while it is not cancelled, it registers again
\* and again unless a session is up (or the bound of the model is met).
KeepsTrying ==
    []<>(ctxDone \/ pc \in {"register", "wait"} \/ created = MaxDials)
=============================================================================
