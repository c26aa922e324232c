----------------------------- MODULE MCDirEnum -----------------------------
(* DirEnum with a directory of three entries, two of them equal but for    *)
(* case, one of a single name that is refused, and an empty one.           *)
EXTENDS DirEnum

CONSTANTS d1, d2, d3, x, y, z, bad, all, some

MCListing == [d \in Dirs |-> CASE d = d1 -> {x, y, z} [] d = d2 -> {x, bad} [] d = d3 -> {}]
MCMatching == [e \in Exprs |-> IF e = all THEN {x, y, z, bad} ELSE {y, z}]
MCCollate == [n \in {x, y, z, bad} |-> CASE n \in {x, y} -> 1 [] n = z -> 2 [] n = bad -> 3]

Symmetry == Permutations(Ids)
=============================================================================
