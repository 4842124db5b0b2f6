---------------------------- MODULE Certificates ----------------------------
(***************************************************************************)
(* The certificates of the tunnel (internal/pki/ca.go): the server makes   *)
(* one for its CA once, one for itself at every start and one for an agent *)
(* at every registration.  A certificate is its issuer and its period of   *)
(* validity, which X.509 keeps in whole seconds; cryptography is ideal.    *)
(***************************************************************************)
EXTENDS WallClock

CONSTANTS
    Backdate,         \* how long before its making a certificate is valid (5 minutes)
    CertValidity,     \* certValidity, of agents' certificates (24 hours)
    ServerValidity,   \* of the server's own (one year)
    CAValidity        \* of the CA's (ten years)

ASSUME CertAssumption == {Backdate, CertValidity, ServerValidity, CAValidity} \subseteq Nat

\* The encoding of a time in a certificate (external): its second, in ticks.
Encoded(t) == Unix(t) * TicksPerSecond

\* born, the time of its making, is history.
Certificate(ca, time, validity) ==
    [ca |-> ca, born |-> time,
     NotBefore |-> Encoded(time - Backdate), NotAfter |-> Encoded(time + validity)]

SignCSR(ca, time) == Certificate(ca, time, CertValidity)

GenerateServerCert(ca, time) == Certificate(ca, time, ServerValidity)

\* The CA signs its own.
RootCertificate(ca, time) == Certificate(ca, time, CAValidity)

Valid(cert, time) == time \in cert.NotBefore..cert.NotAfter

\* crypto/x509 (external): whoever trusts a root accepts a certificate when both
\* are valid.
Accepts(root, cert, time) == cert.ca = root.ca /\ Valid(cert, time) /\ Valid(root, time)
=============================================================================
