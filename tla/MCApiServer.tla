----------------------------- MODULE MCApiServer ----------------------------
(***************************************************************************)
(* Two changes of an object scaled to zero and to one, calls one after the *)
(* other, or a watch, or a log of three chunks.                            *)
(***************************************************************************)
EXTENDS ApiServer
=============================================================================
