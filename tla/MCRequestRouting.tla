-------------------------- MODULE MCRequestRouting --------------------------
(***************************************************************************)
(* Two requests, two clusters that share two addresses over time, and      *)
(* two transports: one is replaced while another request still has it.     *)
(***************************************************************************)
EXTENDS RequestRouting, TLC

Symmetric == Permutations(Requests) \cup Permutations(Names) \cup Permutations(Addresses)
=============================================================================
