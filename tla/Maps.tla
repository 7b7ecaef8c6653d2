-------------------------------- MODULE Maps --------------------------------
(***************************************************************************)
(* Go maps as functions from their keys.                                   *)
(***************************************************************************)
EmptyMap == <<>>

\* The entries of f, and those of g for other keys.
Over(f, g) ==
  [k \in DOMAIN f \cup DOMAIN g |-> IF k \in DOMAIN f THEN f[k] ELSE g[k]]

\* m[k] = x.
Put(m, k, x) == Over([y \in {k} |-> x], m)

\* A map restricted to some of its keys.
Only(m, keys) == [k \in DOMAIN m \cap keys |-> m[k]]
=============================================================================
