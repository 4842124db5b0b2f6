------------------------------ MODULE MCProcess ------------------------------
(***************************************************************************)
(* Two connections on either side: one can be in any state while the       *)
(* accept loop, the stopping goroutine or the HTTP server deals with the   *)
(* other.                                                                  *)
(***************************************************************************)
EXTENDS Process
=============================================================================
