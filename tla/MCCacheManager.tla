--------------------------- MODULE MCCacheManager ---------------------------
(* CacheManager on a small instance. *)
EXTENDS CacheManager, TLC

CONSTANTS k1, k2, k3

(* Two files that fit the budget together, and one that never does. *)
MCSizeOf == [k \in Keys |-> CASE k = k1 -> 1 [] k = k2 -> 2 [] k = k3 -> 4]
=============================================================================
