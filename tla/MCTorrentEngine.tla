-------------------------- MODULE MCTorrentEngine --------------------------
(* TorrentEngine with two files that share a piece, read at both ends of   *)
(* each; offsets, pieces and lengths reach beyond one byte.                *)
EXTENDS TorrentEngine, TLC

CONSTANTS f1, f2

MCSize == [f \in Files |-> IF f = f1 THEN 7 ELSE 70]
MCIndex == [f \in Files |-> IF f = f1 THEN 0 ELSE 1]

MCReads == [file : {f1}, off : {0}, len : {0}] \cup [file : {f1}, off : {6, 7}, len : {1}]
           \cup [file : {f2}, off : {0}, len : {70}] \cup [file : {f2}, off : {64, 69}, len : {0}]

Symmetry == Permutations(Threads)
=============================================================================
