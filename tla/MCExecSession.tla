---------------------------- MODULE MCExecSession ----------------------------
(***************************************************************************)
(* One session, and another that may take the only slot; two chunks on     *)
(* either stream or one on each, a channel that holds one, and a queue     *)
(* that holds one terminal size.                                           *)
(***************************************************************************)
EXTENDS ExecSession
=============================================================================
