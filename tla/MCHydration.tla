---------------------------- MODULE MCHydration ----------------------------
(* Hydration on small instances. *)
EXTENDS Hydration, TLC

CONSTANTS f1, f2, f3

MCSize == [f \in Files |-> IF f = f1 THEN 2 ELSE 1]

(* Every file has paths of its own; the torrent uses no name with ".part". *)
OwnFileName == [f \in Files |-> <<f, "payload">>]
OwnPartName == [f \in Files |-> <<f, "part">>]
OwnEvictName == [f \in Files |-> <<f, "elsewhere">>]

(* f1 and f2 are two spellings of one path. *)
Spelled(f) == IF f = f2 THEN f1 ELSE f
SharedFileName == [f \in Files |-> <<Spelled(f), "payload">>]
SharedPartName == [f \in Files |-> <<Spelled(f), "part">>]

Symmetry == Permutations(Readers) \cup Permutations(Workers)
=============================================================================
