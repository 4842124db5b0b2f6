----------------------------- MODULE Bootstrap ------------------------------
(***************************************************************************)
(* The agent's Layer 0 bootstrap (internal/bootstrap): before it serves,   *)
(* the agent applies every object of every embedded manifest file, the     *)
(* CRDs of a file first, then waits until they are established, then       *)
(* applies the rest.  An error or a crash ends the process, Kubernetes     *)
(* starts it again, and bootstrap begins with the first file.  This is the *)
(* first pod of an agent, on a cluster without any of the objects.         *)
(***************************************************************************)
EXTENDS Naturals, Sequences, FiniteSetsExt, Functions

CONSTANTS
    Files,        \* the manifest files in order, each a sequence of objects
    CRDs,         \* the objects that are CustomResourceDefinitions
    Defines,      \* object -> the CRDs that define its kind (none or one)
    MaxFailures   \* bound: failing calls and crashes of a behaviour

Objects == UNION {Range(Files[f]) : f \in DOMAIN Files}

\* A custom resource is in the file of its CRD or in a later one.
ASSUME BootstrapAssumption ==
    /\ Files \in Seq(Seq(Objects)) /\ CRDs \subseteq Objects /\ MaxFailures \in Nat
    /\ Defines \in [Objects -> SUBSET CRDs]
    /\ \A f \in DOMAIN Files, o \in Objects :
          o \in Range(Files[f]) =>
             Defines[o] \subseteq UNION {Range(Files[g]) : g \in 1..f}

VARIABLES
    enabled,      \* cfg.Bootstrap, of every process of the agent
    boot,         \* "down", "crds", "wait", "rest" or "serving"
    file,         \* the file that is being applied
    todo,         \* the positions of its objects that the phase has still to handle
    mapper,       \* the CRDs that the phase's REST mapper knows, once used
    applied,      \* objects in the cluster
    established,  \* CRDs with the Established condition
    served,       \* CRDs in the API server's discovery documents
    failures

bootVars == <<enabled, boot, file, todo, mapper, applied, established, served, failures>>
cluster == <<applied, established, served>>

\* A mapper reads discovery when it is first used (external).
Unused == {"unused"}

BootInit ==
    /\ enabled \in BOOLEAN
    /\ boot = "down" /\ file = 1 /\ todo = {} /\ mapper = Unused
    /\ applied = {} /\ established = {} /\ served = {}
    /\ failures = 0

IsCRD(o) == o \in CRDs
CRDsOf(f) == {i \in DOMAIN Files[f] : IsCRD(Files[f][i])}
RestOf(f) == {i \in DOMAIN Files[f] : ~IsCRD(Files[f][i])}

Phase(name, objects) == boot' = name /\ todo' = objects /\ mapper' = Unused

\* The phase's loop is at this object.
Object == Files[file][Min(todo)]
Handled == todo' = todo \ {Min(todo)}

\* applyManifest of file f, or the end of Run.
Open(f) ==
    IF f \in DOMAIN Files
    THEN file' = f /\ Phase("crds", CRDsOf(f))
    ELSE file' = file /\ Phase("serving", {})

Exit == Phase("down", {}) /\ file' = 1
-----------------------------------------------------------------------------
\* The process starts and Run begins, unless the bootstrap is disabled.
Start ==
    /\ boot = "down"
    /\ IF enabled THEN Open(1) ELSE file' = file /\ Phase("serving", {})
    /\ UNCHANGED <<enabled, cluster, failures>>

Known == IF mapper = Unused THEN served ELSE mapper

\* (mutation) objects are created and not applied: existing ones are refused
CreateObject ==
    /\ boot \in {"crds", "rest"} /\ todo # {}
    /\ Defines[Object] \subseteq Known
    /\ Object \notin applied
    /\ applied' = applied \cup {Object}
    /\ mapper' = Known /\ Handled
    /\ UNCHANGED <<enabled, boot, file, established, served, failures>>

\* applyObject: the kind is mapped and the object is applied, whether or not
\* the cluster has it.
ApplyObject ==
    /\ boot \in {"crds", "rest"} /\ todo # {}
    /\ Defines[Object] \subseteq Known
    /\ applied' = applied \cup {Object}
    /\ mapper' = Known /\ Handled
    /\ UNCHANGED <<enabled, boot, file, established, served, failures>>

\* The mapper does not know the kind: Run returns the error.
MappingFails ==
    /\ boot \in {"crds", "rest"} /\ todo # {}
    /\ ~(Defines[Object] \subseteq Known)
    /\ Exit
    /\ UNCHANGED <<enabled, cluster, failures>>

\* (mutation) an object that cannot be applied is skipped
PatchFailsSkipped ==
    /\ failures < MaxFailures
    /\ boot \in {"crds", "rest"} /\ todo # {}
    /\ Handled /\ failures' = failures + 1
    /\ UNCHANGED <<enabled, boot, file, mapper, cluster>>

\* The API server refuses the patch, or its answer is lost.
PatchFails ==
    /\ failures < MaxFailures
    /\ boot \in {"crds", "rest"} /\ todo # {}
    /\ Defines[Object] \subseteq Known
    /\ applied' \in {applied, applied \cup {Object}}
    /\ Exit
    /\ failures' = failures + 1
    /\ UNCHANGED <<enabled, established, served>>

\* Phase 1 is over: wait for the same CRDs.
CRDsApplied ==
    /\ boot = "crds" /\ todo = {}
    /\ Phase("wait", CRDsOf(file))
    /\ UNCHANGED <<enabled, file, cluster, failures>>

\* waitForCRDs: a poll finds the CRD established ...
WaitEstablished ==
    /\ boot = "wait" /\ todo # {} /\ Object \in established
    /\ Handled
    /\ UNCHANGED <<enabled, boot, file, mapper, cluster, failures>>

\* ... or none does within the minute.
WaitTimesOut ==
    /\ boot = "wait" /\ todo # {} /\ Object \notin established
    /\ Exit
    /\ UNCHANGED <<enabled, cluster, failures>>

\* Phase 2 begins with a mapper of its own.
CRDsReady ==
    /\ boot = "wait" /\ todo = {}
    /\ Phase("rest", RestOf(file))
    /\ UNCHANGED <<enabled, file, cluster, failures>>

\* The next file, or Run returns nil and the agent serves.
FileApplied ==
    /\ boot = "rest" /\ todo = {}
    /\ Open(file + 1)
    /\ UNCHANGED <<enabled, cluster, failures>>

\* The process ends at any point, with its context or by a crash.
Crash ==
    /\ boot \notin {"down", "serving"} /\ failures < MaxFailures
    /\ Exit
    /\ failures' = failures + 1
    /\ UNCHANGED <<enabled, cluster>>

\* The API server establishes a CRD, and publishes it later (external).
Establish ==
    /\ \E c \in (CRDs \cap applied) \ established : established' = established \cup {c}
    /\ UNCHANGED <<enabled, boot, file, todo, mapper, applied, served, failures>>

Publish ==
    /\ \E c \in established \ served : served' = served \cup {c}
    /\ UNCHANGED <<enabled, boot, file, todo, mapper, applied, established, failures>>

BootStep ==
    \/ Start \/ ApplyObject \/ MappingFails \/ CRDsApplied
    \/ WaitEstablished \/ WaitTimesOut \/ CRDsReady \/ FileApplied

BootNext == BootStep \/ PatchFails \/ Crash \/ Establish \/ Publish
-----------------------------------------------------------------------------
\* Every variable has the shape of the value it stands for; what is published
\* is established, and what is established is in the cluster.
BootTypeOK ==
    /\ enabled \in BOOLEAN /\ boot \in {"down", "crds", "wait", "rest", "serving"}
    /\ file \in DOMAIN Files /\ todo \subseteq DOMAIN Files[file]
    /\ mapper = Unused \/ mapper \subseteq CRDs
    /\ applied \subseteq Objects
    /\ served \subseteq established /\ established \subseteq CRDs \cap applied
    /\ failures \in 0..MaxFailures

\* Run is idempotent and safe on every restart: whatever earlier attempts left
\* in the cluster, the agent ends up serving.
Completes == <>[](boot = "serving")
=============================================================================
