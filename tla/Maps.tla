-------------------------------- MODULE Maps --------------------------------
(***************************************************************************)
(* Hash maps, as functions on the set of their keys.                       *)
(***************************************************************************)

\* f with k mapped to v (`HashMap::insert`, `DoubleKeyedMap::insert`).
Insert(f, k, v) == [x \in DOMAIN f \cup {k} |-> IF x = k THEN v ELSE f[x]]
=============================================================================
