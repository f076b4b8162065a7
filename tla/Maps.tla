--------------------------------- MODULE Maps ---------------------------------
(* Go's maps -- labels, containers by name, bindings -- as functions. *)

EmptyMap == [key \in {} |-> ""]
Entry(key, value) == [k \in {key} |-> value]

\* The entries of both maps; where both have a key, those of f.
Merged(f, g) == [k \in DOMAIN f \cup DOMAIN g |-> IF k \in DOMAIN f THEN f[k] ELSE g[k]]
=============================================================================
