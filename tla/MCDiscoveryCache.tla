-------------------------- MODULE MCDiscoveryCache --------------------------
(***************************************************************************)
(* Two keys compete for a cache with one entry; a TTL and a timeout of     *)
(* two ticks put expiries and ends of requests around each boundary.       *)
(***************************************************************************)
EXTENDS DiscoveryCache
=============================================================================
