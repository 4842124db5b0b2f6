---------------------------- MODULE MCAgentLife -----------------------------
(***************************************************************************)
(* Two files: two CRDs, a resource of each and a plain object, then a CRD  *)
(* of its own with a resource of it and one of the first file's kind.      *)
(* Three releases and a development build, so that a pod, its successor    *)
(* and the server can all differ.                                          *)
(***************************************************************************)
EXTENDS AgentLife

MCFiles == <<<<"flux", "crdA", "a1", "crdB", "b1">>, <<"a2", "c1", "crdC">>>>
MCCRDs == {"crdA", "crdB", "crdC"}
MCDefines ==
    [flux |-> {}, crdA |-> {}, crdB |-> {}, crdC |-> {}, a1 |-> {"crdA"},
     a2 |-> {"crdA"}, b1 |-> {"crdB"}, c1 |-> {"crdC"}]
=============================================================================
