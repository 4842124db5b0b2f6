------------------------------ MODULE CAStore -------------------------------
(***************************************************************************)
(* The certificate authority on disk (internal/pki/provider.go): every     *)
(* start of the server runs ProvideCA, which loads ca.pem and ca-key.pem   *)
(* or generates a CA and writes both; the process may be killed between    *)
(* any two system calls.  A CA is a number; a file holds the part of a CA  *)
(* that is named after it.                                                 *)
(***************************************************************************)
EXTENDS Certificates, FiniteSets, GoMaps

CONSTANTS
    MaxStarts,   \* bound: starts of the process
    MaxFaults    \* bound: crashes and failing system calls

ASSUME CAStoreAssumption ==
    MaxStarts \in Nat /\ MaxFaults \in Nat /\ MaxFaults < MaxStarts

File == {"cert", "key"}

VARIABLES
    pc,       \* where ProvideCA is; "off" when no process runs
    target,   \* the file being written
    ca,       \* the CA generated or loaded by this process
    roots,    \* the certificate of every CA that was generated
    disk,     \* File -> the CA in the file, 0 when there is none, -1 when partial
    tmp,      \* the temporary file of this process: 0 none, -1 partial, else whole
    starts, faults,
    served,   \* history: the CAs that ProvideCA has returned
    misread   \* history: reading has failed although both files were there

vars == <<pc, target, ca, roots, disk, tmp, starts, faults, served, misread>>

Init ==
    /\ pc = "off" /\ target = "cert" /\ ca = 0 /\ roots = EmptyMap
    /\ disk = [f \in File |-> 0]
    /\ tmp = 0
    /\ starts = 0 /\ faults = 0
    /\ served = {} /\ misread = FALSE
-----------------------------------------------------------------------------
\* The process is started (environment).
Start ==
    /\ pc = "off" /\ starts < MaxStarts
    /\ pc' = "read" /\ target' = "cert"
    /\ starts' = starts + 1
    /\ UNCHANGED <<ca, roots, disk, tmp, faults, served, misread>>

Serve(c) ==
    /\ pc' = "serving"
    /\ ca' = c
    /\ served' = served \cup {c}

\* (mutation) one file without the other is an error
ReadStrict ==
    /\ pc = "read"
    /\ IF \A f \in File : disk[f] = 0
       THEN pc' = "generate" /\ UNCHANGED <<ca, served>>
       ELSE IF disk["cert"] = disk["key"]
            THEN Serve(disk["cert"])
            ELSE pc' = "off" /\ UNCHANGED <<ca, served>>
    /\ UNCHANGED <<target, roots, disk, tmp, starts, faults, misread>>

\* Both files are read.  LoadCA rejects partial files and a key that does not
\* belong to the certificate; ProvideCA then fails and the process ends.
Read ==
    /\ pc = "read"
    /\ IF \E f \in File : disk[f] = 0
       THEN pc' = "generate" /\ UNCHANGED <<ca, served>>
       ELSE IF disk["cert"] = disk["key"] /\ disk["key"] > 0
            THEN Serve(disk["cert"])
            ELSE pc' = "off" /\ UNCHANGED <<ca, served>>
    /\ UNCHANGED <<target, roots, disk, tmp, starts, faults, misread>>

\* Any error of ReadFile counts as a missing file.
ReadFails ==
    /\ pc = "read" /\ faults < MaxFaults
    /\ faults' = faults + 1
    /\ misread' = (misread \/ \A f \in File : disk[f] # 0)
    /\ pc' = "generate"
    /\ UNCHANGED <<target, ca, roots, disk, tmp, starts, served>>

\* A key and a serial from crypto/rand: a CA not seen before.
NewCA ==
    /\ ca' = starts
    /\ roots' = MapPut(roots, ca', RootCertificate(ca', now))

\* NewCA, MkdirAll and KeyPEM.
Generate ==
    /\ pc = "generate"
    /\ NewCA
    /\ pc' = "create"
    /\ UNCHANGED <<target, disk, tmp, starts, faults, served, misread>>
-----------------------------------------------------------------------------
(***************************************************************************)
(* atomicWriteFile, first for the certificate, then for the key.           *)
(***************************************************************************)

CreateTemp ==
    /\ pc = "create"
    /\ tmp' = -1
    /\ pc' = "write"
    /\ UNCHANGED <<target, ca, roots, disk, starts, faults, served, misread>>

\* Write, Chmod and Close.
WriteTemp ==
    /\ pc = "write"
    /\ tmp' = ca
    /\ pc' = "rename"
    /\ UNCHANGED <<target, ca, roots, disk, starts, faults, served, misread>>

\* After the second file ProvideCA returns the CA.
Rename ==
    /\ pc = "rename"
    /\ disk' = [disk EXCEPT ![target] = tmp]
    /\ tmp' = 0
    /\ IF target = "cert"
       THEN target' = "key" /\ pc' = "create" /\ UNCHANGED <<ca, served>>
       ELSE Serve(ca) /\ UNCHANGED target
    /\ UNCHANGED <<roots, starts, faults, misread>>

\* (mutation) a key that cannot be written is no error
WriteFailsIgnored ==
    /\ pc \in {"generate", "create", "write", "rename"} /\ faults < MaxFaults
    /\ faults' = faults + 1
    /\ tmp' = 0
    /\ IF target = "key" THEN Serve(ca) ELSE pc' = "off" /\ UNCHANGED <<ca, served>>
    /\ UNCHANGED <<target, roots, disk, starts, misread>>

\* A call fails: the temporary file is removed and the process ends.
WriteFails ==
    /\ pc \in {"generate", "create", "write", "rename"} /\ faults < MaxFaults
    /\ faults' = faults + 1
    /\ pc' = "off" /\ tmp' = 0
    /\ UNCHANGED <<target, ca, roots, disk, starts, served, misread>>

\* The process is killed, or stopped while it serves (environment).
Crash ==
    /\ pc # "off" /\ faults < MaxFaults
    /\ faults' = faults + 1
    /\ pc' = "off" /\ tmp' = 0
    /\ UNCHANGED <<target, ca, roots, disk, starts, served, misread>>

ProvideCA == Read \/ ReadFails \/ Generate \/ CreateTemp \/ WriteTemp \/ Rename \/ WriteFails

Next == Start \/ ProvideCA \/ Crash
-----------------------------------------------------------------------------
\* Every variable has the shape of what it stands for, and the files at their
\* final paths are whole whenever a crash can be followed by a read.
TypeOK ==
    /\ pc \in {"off", "read", "generate", "create", "write", "rename", "serving"}
    /\ target \in File
    /\ IsMap(roots, 1..MaxStarts, {RootCertificate(c, t) : c \in 1..MaxStarts, t \in 0..MaxTime})
    /\ ca \in {0} \cup DOMAIN roots /\ tmp \in -1..MaxStarts
    /\ disk \in [File -> 0..MaxStarts]
    /\ {starts, faults} \subseteq 0..MaxStarts
    /\ served \subseteq 1..MaxStarts /\ misread \in BOOLEAN

\* Restarts keep the CA: all the CAs ever returned, over all crashes and failed
\* starts, are the same one, unless reading the files of a CA has failed, which
\* ProvideCA takes for a first run.  Whatever happened, a process that serves
\* has its CA on disk, certificate and key, so that the next one can load it.
CAStays ==
    /\ Cardinality(served) <= 1 \/ misread
    /\ pc = "serving" => \A f \in File : disk[f] = ca

\* No sequence of crashes and failing writes makes the directory unusable: once
\* they end, a start succeeds, unless reading the files of a CA has failed.
Recovers == <>[](pc = "serving" \/ misread)
=============================================================================
