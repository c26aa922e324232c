----------------------------- MODULE LruBudget -----------------------------
(***************************************************************************)
(* What the cache bookkeeping of src/src/CacheManager.cpp promises, with   *)
(* the map and the tick counter abstracted away: which keys are tracked,   *)
(* and in which order they were last used.  CacheManager implements this   *)
(* specification; Hydration uses its two operations for the calls that     *)
(* TorrentSession::queueRead makes.                                        *)
(***************************************************************************)
EXTENDS Integers, FiniteSetsExt

CONSTANTS
  Keys,      \* the virtual paths of the torrent's files
  SizeOf,    \* SizeOf[k]: the bytes a key stands for
  MaxBytes   \* the configured cache size

VARIABLES
  tracked,   \* the keys the bookkeeping knows of
  older      \* <<j, k>> \in older: j was last used before k

lruVars == <<tracked, older>>

TotalOf(S) == MapThenSumSet(LAMBDA k : SizeOf[k], S)

(* k and every tracked key used after it. *)
FromOn(k) == {k} \cup {j \in tracked : <<k, j>> \in older}

(* What fits the budget when keys are dropped from the oldest end. *)
Survivors == {k \in tracked : TotalOf(FromOn(k)) <= MaxBytes}

Init ==
  /\ tracked = {}
  /\ older = {}

(* k becomes the most recently used key. *)
TouchKey(k) ==
  /\ tracked' = tracked \cup {k}
  /\ older' = {p \in older : k \notin {p[1], p[2]}} \cup ((tracked \ {k}) \X {k})

(* The oldest keys go until the rest fits. *)
Shrink ==
  /\ tracked' = Survivors
  /\ older' = older \cap (Survivors \X Survivors)

(* The process restarts: nothing of the bookkeeping is persisted. *)
Forget ==
  /\ tracked' = {}
  /\ older' = {}

Next ==
  \/ \E k \in Keys : TouchKey(k)
  \/ Shrink
  \/ Forget

Spec == Init /\ [][Next]_lruVars
=============================================================================
