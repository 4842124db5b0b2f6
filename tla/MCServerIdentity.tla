-------------------------- MODULE MCServerIdentity --------------------------
(***************************************************************************)
(* Three starts and two crashes or failing calls, so that a start is left  *)
(* when the faults are over.  Seconds of two ticks, a TTL of a second and  *)
(* a skew of one: the clock's range of six ticks reaches beyond every      *)
(* limit in both directions.  Certificates are valid from a tick before    *)
(* they are made, an agent's for three ticks, the server's for four and    *)
(* the CA's for five, so that each of them expires within the range.  One  *)
(* name of two is valid, and one of the subjects is empty.                 *)
(***************************************************************************)
EXTENDS ServerIdentity
=============================================================================
