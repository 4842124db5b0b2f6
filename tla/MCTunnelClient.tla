--------------------------- MODULE MCTunnelClient ---------------------------
(***************************************************************************)
(* Enough dials for a directory to be replaced twice and for the backoff   *)
(* to reach its maximum.                                                   *)
(***************************************************************************)
EXTENDS TunnelClient
=============================================================================
