------------------------------- MODULE GoMaps -------------------------------
(***************************************************************************)
(* A Go map is a function whose DOMAIN is the set of keys present.         *)
(***************************************************************************)

\* make(map[K]V)
EmptyMap == [k \in {} |-> k]

\* m[k] = v
MapPut(m, k, v) == [x \in DOMAIN m \cup {k} |-> IF x = k THEN v ELSE m[x]]

\* delete(m, k); a no-op when k is absent
MapDelete(m, k) == [x \in DOMAIN m \ {k} |-> m[x]]

\* m has type map[K]V
IsMap(m, K, V) == DOMAIN m \subseteq K /\ m \in [DOMAIN m -> V]
=============================================================================
