------------------------------- MODULE Tables -------------------------------
(***************************************************************************)
(* Tables of the store and Go maps: partial functions from keys to rows.   *)
(* A write is an upsert (INSERT ... ON CONFLICT DO UPDATE).                *)
(***************************************************************************)
Table(K, R) == UNION {[D -> R] : D \in SUBSET K}

IsTable(t, K, R) ==
  /\ DOMAIN t \subseteq K
  /\ t = [k \in DOMAIN t |-> t[k]]
  /\ \A k \in DOMAIN t : t[k] \in R

Put(t, k, r) == [x \in DOMAIN t \cup {k} |-> IF x = k THEN r ELSE t[x]]

Drop(t, k) == [x \in DOMAIN t \ {k} |-> t[x]]

EmptyTable == [x \in {} |-> x]
=============================================================================
