--------------------------- MODULE ClusterObject ----------------------------
(***************************************************************************)
(* One object of a target cluster as its API server keeps it (external):   *)
(* the states it has had, in the order of their resource versions.         *)
(***************************************************************************)
EXTENDS Integers, Sequences

CONSTANTS
    Replicas,     \* replica counts
    MaxVersion    \* bound: resource versions of a behaviour

ASSUME ObjectAssumption == Replicas # {} /\ Replicas \subseteq Nat /\ MaxVersion \in Nat \ {0}

VARIABLE log      \* log[v] is the object's state at resource version v

\* An object exists with a replica count; an odd one cannot be represented in
\* a protobuf Struct.
States == [live : {TRUE}, replicas : Replicas, odd : BOOLEAN]
Absent == [live |-> FALSE, replicas |-> 0, odd |-> FALSE]

ObjectInit == \E s \in {x \in States : ~x.odd} \cup {Absent} : log = <<s>>

Version == Len(log)
Object == log[Version]

\* The API server stores a new state of the object.
Store(s) == Version < MaxVersion /\ log' = Append(log, s)

\* Another client of the API server changes the object.
OtherWriter == \E s \in (States \cup {Absent}) \ {Object} : Store(s)
=============================================================================
