---------------------------- MODULE MCPortForward ----------------------------
(***************************************************************************)
(* One session, with enough pod data and writes for every pipe to block.   *)
(***************************************************************************)
EXTENDS PortForward
=============================================================================
