---------------------------- MODULE AgentProofs -----------------------------
(***************************************************************************)
(* The agent.  What its tunnel client leaves on disk and in memory, for    *)
(* every number of dials and every moment at which Stop runs, and how long *)
(* it waits; and what the cluster holds when the agent registers, for      *)
(* every set of manifests.                                                 *)
(***************************************************************************)
EXTENDS TunnelClient, AgentLife, TLAPS

\* Directories are numbered in the order of their creation.  The one that dial
\* creates is newer than Client.certDir, which it replaces, and so it is not
\* the one that dial removes.
DirsInv ==
    /\ created \in Nat /\ certDir \in 0..created /\ oldDir \in Nat
    /\ pc = "swap" => dir = created /\ certDir # created /\ created > 0
    /\ pc = "remove" => oldDir # dir
    /\ stop = "idle" /\ pc \in {"remove", "write", "new", "store", "start", "wait"} =>
          certDir = dir
    /\ stop = "idle" /\ pc \in {"swap", "remove"} => dir \in dirs

ClientInv == DirsInv /\ DirsOwned /\ SessionsClosed

\* The client has nothing at first.
LEMMA ClientInit == Init => ClientInv
BY DEF Init, ClientInv, DirsInv, DirsOwned, SessionsClosed

\* Every step of Start, and Stop between any two of them.
LEMMA ClientNext == ASSUME ClientInv, [Next]_vars PROVE ClientInv'
<1> USE DEF ClientInv, DirsInv, DirsOwned, SessionsClosed, Goto, disk, shared
<1>1. CASE Loop \/ Registered \/ WriteFiles
  BY <1>1, Zenon DEF Loop, Registered, WriteFiles
<1>2. CASE DialFails
  BY <1>2 DEF DialFails
<1>3. CASE MkdirTemp
  BY <1>3 DEF MkdirTemp
<1>4. CASE SwapCertDir
  BY <1>4 DEF SwapCertDir
<1>5. CASE RemoveOldDir
  BY <1>5, Zenon DEF RemoveOldDir, RemoveAll
<1>6. CASE NewInner
  BY <1>6 DEF NewInner
<1>7. CASE StoreInner
  BY <1>7 DEF StoreInner
<1>8. CASE SessionUp
  BY <1>8 DEF SessionUp
<1>9. ASSUME NEW r \in {"nil", "auth", "lost"}, SessionEnds(r) PROVE ClientInv'
  BY <1>9 DEF SessionEnds
<1>10. CASE Reregister \/ ConnectionLost \/ EndedByContext
  BY <1>10, Zenon DEF Reregister, ConnectionLost, EndedByContext
<1>11. CASE Backoff \/ SleepEnds
  BY <1>11, Zenon DEF Backoff, SleepEnds
<1>12. CASE Cancel
  BY <1>12 DEF Cancel
<1>13. CASE Stop
  <2>1. /\ UNCHANGED <<pc, created, dir, oldDir>> /\ certDir' = 0 /\ stop' = "done"
        /\ RemoveAll(certDir) /\ open' = open \ {inner}
    BY <1>13 DEF Stop
  <2>2. dirs' \subseteq dirs /\ dirs' \ stuck' \subseteq (dirs \ stuck) \ {certDir}
    BY <2>1 DEF RemoveAll
  <2>3. DirsInv'
    BY <2>1
  <2>4. DirsOwned'
    BY <2>1, <2>2
  <2>5. SessionsClosed'
    BY <2>1
  <2> QED  BY <2>3, <2>4, <2>5
<1>14. CASE UNCHANGED vars
  BY <1>14 DEF vars
<1> QED
  BY <1>1, <1>2, <1>3, <1>4, <1>5, <1>6, <1>7, <1>8, <1>9, <1>10, <1>11, <1>12, <1>13,
     <1>14, Zenon DEF Next, StartStep

\* However often the client dials again, at most the directory that certDir
\* names stays on disk, with those that could not be removed, and a session
\* never loses its own before Stop.
THEOREM DirsAlwaysOwned == Spec => []DirsOwned
<1>1. ClientInv => DirsOwned
  BY DEF ClientInv
<1> QED  BY ClientInit, ClientNext, <1>1, PTL DEF Spec

\* Start never has two chisel clients, and none when it returns.
THEOREM SessionsAlwaysClosed == Spec => []SessionsClosed
<1>1. ClientInv => SessionsClosed
  BY DEF ClientInv
<1> QED  BY ClientInit, ClientNext, <1>1, PTL DEF Spec

\* The interval has been doubled since a failed dial drew its delay from it, and
\* no session has reset it since: one begins only after a dial that succeeded.
BackoffInv ==
    /\ current \in BaseDelay..MaxDelay /\ slept \in Nat /\ dialFails \in 0..2
    /\ pc \in {"start", "wait", "ended"} => dialFails = 0
    /\ dialFails = 2 \/ (dialFails = 1 /\ pc # "backoff") =>
          current = IF 2 * slept > MaxDelay THEN MaxDelay ELSE 2 * slept

\* The invariant of the backoff holds at first ...
LEMMA BackoffInitially == Init => BackoffInv
BY ClientAssumption DEF Init, BackoffInv

\* ... and every step keeps it.
LEMMA BackoffKept == ASSUME BackoffInv, [Next]_vars PROVE BackoffInv'
<1> USE ClientAssumption DEF BackoffInv, Goto, history
<1>1. CASE Loop \/ Registered \/ WriteFiles \/ MkdirTemp \/ SwapCertDir \/ RemoveOldDir \/ NewInner
  BY <1>1 DEF Loop, Registered, WriteFiles, MkdirTemp, SwapCertDir, RemoveOldDir, NewInner
<1>2. CASE DialFails
  BY <1>2 DEF DialFails, Count
<1>3. CASE StoreInner
  BY <1>3 DEF StoreInner
<1>4. CASE SessionUp
  BY <1>4 DEF SessionUp
<1>5. ASSUME NEW r \in {"nil", "auth", "lost"}, SessionEnds(r) PROVE BackoffInv'
  <2>1. dialFails = 0 /\ UNCHANGED <<current, slept, dialFails>>
    BY <1>5 DEF SessionEnds
  <2> QED
    BY <2>1
<1>6. CASE Reregister \/ ConnectionLost \/ EndedByContext
  BY <1>6 DEF Reregister, ConnectionLost, EndedByContext
<1>7. CASE Backoff
  BY <1>7 DEF Backoff
<1>8. CASE SleepEnds \/ Cancel \/ Stop
  BY <1>8 DEF SleepEnds, Cancel, Stop
<1>9. CASE UNCHANGED vars
  BY <1>9 DEF vars
<1> QED
  BY <1>1, <1>2, <1>3, <1>4, <1>5, <1>6, <1>7, <1>8, <1>9, Zenon DEF Next, StartStep

\* Each further failed dial waits at least twice as long as the one before, up
\* to the maximum, for every base and maximum.
THEOREM AlwaysBacksOff == Spec => DialsBackOff
<1> DEFINE Step == pc = "backoff" /\ pc' = "sleep" /\ dialFails > 0 =>
                      slept' >= IF dialFails = 1 THEN BaseDelay
                                ELSE IF 2 * slept > MaxDelay THEN MaxDelay ELSE 2 * slept
<1>1. BackoffInv /\ [Next]_vars => [Step]_vars
  <2> SUFFICES ASSUME BackoffInv, Next, pc = "backoff", pc' = "sleep"
               PROVE  dialFails > 0 =>
                         slept' >= IF dialFails = 1 THEN BaseDelay
                                   ELSE IF 2 * slept > MaxDelay THEN MaxDelay ELSE 2 * slept
    BY Zenon
  <2>1. Backoff
    BY DEF Next, StartStep, Goto, Loop, SwapCertDir, RemoveOldDir, StoreInner, MkdirTemp,
           WriteFiles, NewInner, DialFails, Reregister, ConnectionLost, EndedByContext, SleepEnds,
           Registered, SessionUp, SessionEnds, Cancel, Stop
  <2> QED
    BY <2>1, ClientAssumption DEF BackoffInv, Backoff
<1> QED
  BY <1>1, BackoffInitially, BackoffKept, PTL DEF Spec, DialsBackOff
-----------------------------------------------------------------------------
(***************************************************************************)
(* Bootstrap.  A phase has applied the objects of its kind that it does    *)
(* not have still to handle.                                               *)
(***************************************************************************)

\* The objects at these positions of a file are in the cluster.
Present(f, positions) == \A i \in positions : Files[f][i] \in applied

\* What a process has done before the point at which it is, and nothing that an
\* earlier process did: an attempt begins again with the first file.
BootInv ==
    /\ boot \in {"down", "crds", "wait", "rest", "serving"}
    /\ boot \in {"crds", "wait", "rest"} =>
          /\ file \in DOMAIN Files
          /\ \A f \in DOMAIN Files : f < file => Present(f, DOMAIN Files[f])
    /\ boot = "crds" => Present(file, CRDsOf(file) \ todo)
    /\ boot \in {"wait", "rest"} => Present(file, CRDsOf(file))
    /\ boot = "rest" => Present(file, RestOf(file) \ todo)
    /\ boot = "serving" /\ enabled => Objects \subseteq applied

\* No process has got past its bootstrap.
PodsWait == boot # "serving" => \A p \in pods : p.pc = "bootstrap"

LifeInv == BootInv /\ PodsWait

\* Every file is applied when there is no file left.
LEMMA AllFiles ==
    ASSUME \A f \in DOMAIN Files : Present(f, DOMAIN Files[f])
    PROVE  Objects \subseteq applied
BY DEF Objects, Present, Range

\* A file consists of its CRDs and the rest.
LEMMA FileParts ==
    ASSUME NEW f, Present(f, CRDsOf(f)), Present(f, RestOf(f))
    PROVE  Present(f, DOMAIN Files[f])
BY DEF Present, CRDsOf, RestOf

\* Opening the file after the ones that have been applied.
LEMMA Opens ==
    ASSUME NEW f \in Nat \ {0}, f = 1 \/ f - 1 \in DOMAIN Files, Open(f), applied' = applied,
           \A g \in DOMAIN Files : g < f => Present(g, DOMAIN Files[g])
    PROVE  BootInv'
<1> DOMAIN Files = 1..Len(Files) /\ Len(Files) \in Nat
  BY BootstrapAssumption
<1>1. CASE f \in DOMAIN Files
  BY <1>1 DEF Open, Phase, BootInv, Present, CRDsOf
<1>2. CASE f \notin DOMAIN Files
  <2>1. \A g \in DOMAIN Files : g < f
    BY <1>2
  <2>2. Objects \subseteq applied
    BY <2>1, AllFiles
  <2> QED
    BY <1>2, <2>2 DEF Open, Phase, BootInv, Objects
<1> QED
  BY <1>1, <1>2

\* Every step of a process's bootstrap, its end at any point, and what the API
\* server does meanwhile.
LEMMA BootKeeps == ASSUME BootInv, boot # "serving", BootNext PROVE BootInv'
<1> USE DEF BootInv
<1> DOMAIN Files = 1..Len(Files) /\ Len(Files) \in Nat
  BY BootstrapAssumption
<1>1. CASE Start
  <2>1. \A f \in DOMAIN Files : f < 1 => Present(f, DOMAIN Files[f])
    OBVIOUS
  <2>2. applied' = applied /\ enabled' = enabled
    BY <1>1 DEF Start, cluster
  <2>3. CASE enabled
    BY <1>1, <2>1, <2>2, <2>3, Opens, 1 \in Nat \ {0}, Zenon DEF Start
  <2>4. CASE ~enabled
    BY <1>1, <2>2, <2>4 DEF Start, Phase
  <2> QED  BY <2>3, <2>4
<1>2. CASE ApplyObject
  <2>1. applied \subseteq applied' /\ boot' = boot /\ file' = file
    BY <1>2 DEF ApplyObject
  <2>2. applied' = applied \cup {Files[file][Min(todo)]} /\ todo' = todo \ {Min(todo)}
    BY <1>2 DEF ApplyObject, Object, Handled
  <2>3. boot = "crds" => Present(file, CRDsOf(file) \ todo)'
    BY <2>1, <2>2 DEF Present, CRDsOf
  <2>4. boot = "rest" => Present(file, RestOf(file) \ todo)'
    BY <2>1, <2>2 DEF Present, RestOf
  <2>5. boot = "rest" => Present(file, CRDsOf(file))'
    BY <2>1 DEF Present, CRDsOf
  <2>6. \A f \in DOMAIN Files : boot \in {"crds", "rest"} /\ f < file =>
           Present(f, DOMAIN Files[f])'
    BY <2>1 DEF Present
  <2>7. boot \in {"crds", "rest"}
    BY <1>2 DEF ApplyObject
  <2> QED
    BY <2>1, <2>3, <2>4, <2>5, <2>6, <2>7
<1>3. CASE Exit
  BY <1>3 DEF Exit, Phase
<1>4. CASE CRDsApplied
  BY <1>4 DEF CRDsApplied, Phase, cluster, Present
<1>5. CASE WaitEstablished
  BY <1>5 DEF WaitEstablished, Handled, cluster, Present
<1>6. CASE CRDsReady
  BY <1>6 DEF CRDsReady, Phase, cluster, Present
<1>7. CASE FileApplied
  <2>1. Present(file, DOMAIN Files[file])
    BY <1>7, FileParts DEF FileApplied, Present
  <2>2. \A f \in DOMAIN Files : f < file + 1 => Present(f, DOMAIN Files[f])
    BY <1>7, <2>1 DEF FileApplied
  <2>3. file + 1 \in Nat \ {0} /\ (file + 1) - 1 \in DOMAIN Files
    BY <1>7 DEF FileApplied
  <2>4. Open(file + 1) /\ applied' = applied
    BY <1>7 DEF FileApplied, cluster
  <2> QED
    BY <2>2, <2>3, <2>4, Opens, Zenon
<1>8. CASE Establish \/ Publish
  BY <1>8 DEF Establish, Publish, Present
<1> QED
  BY <1>1, <1>2, <1>3, <1>4, <1>5, <1>6, <1>7, <1>8, Zenon
     DEF BootNext, BootStep, MappingFails, WaitTimesOut, PatchFails, Crash

\* An agent registers only after its bootstrap.
LEMMA LifeKeeps == ASSUME LifeInv, [LifeNext]_lifeVars PROVE LifeInv'
<1>1. CASE BootPhase
  BY <1>1, BootKeeps DEF BootPhase, LifeInv, PodsWait, updateVars
<1>2. CASE boot = "serving" /\ UNCHANGED bootVars
  BY <1>2 DEF LifeInv, PodsWait, BootInv, bootVars
<1>3. CASE UNCHANGED <<bootVars, pods>>
  BY <1>3 DEF LifeInv, PodsWait, BootInv, Present, bootVars
<1> QED
  BY <1>1, <1>2, <1>3
     DEF LifeNext, lifeVars, UpdatePhase, ServerReplaced, ReplaceServer, updateVars

\* Whatever the manifests hold, and however many attempts fail half-way: when
\* an agent registers, every object of every file is in the cluster.
THEOREM AlwaysServesComplete == LifeSpec => []ServesComplete
<1>1. LifeInit => LifeInv
  BY DEF LifeInit, BootInit, UpdateInit, NewPod, PodAt, LifeInv, BootInv, PodsWait
<1>2. LifeInv /\ [LifeNext]_lifeVars => LifeInv'
  BY LifeKeeps
<1>3. LifeInv => ServesComplete
  BY DEF LifeInv, BootInv, PodsWait, ServesComplete
<1> QED
  BY <1>1, <1>2, <1>3, PTL DEF LifeSpec
=============================================================================
