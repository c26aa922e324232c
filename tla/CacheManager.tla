---------------------------- MODULE CacheManager ----------------------------
(***************************************************************************)
(* The bookkeeping of src/src/CacheManager.cpp: a map from keys to a size  *)
(* and the tick of the last use, two operations under one mutex, and the   *)
(* threads that call them one after the other from queueRead.  Each        *)
(* operation is one lock section, hence one action.                        *)
(***************************************************************************)
EXTENDS Integers, SequencesExt

CONSTANTS
  Keys,      \* virtual paths
  SizeOf,    \* SizeOf[k]: what touch is told about k (entry.size)
  MaxBytes,  \* maxBytes_
  Word,      \* 2^64: totals are kept modulo Word
  MaxTick,   \* bound of the model: no touch once tick_ is here
  Threads,   \* threads that call queueRead
  None       \* not in the map

Entry == [sizeBytes : 0 .. Word - 1, tick : Nat]

ASSUME CacheAssumption ==
  /\ Word \in Nat \ {0}
  /\ SizeOf \in [Keys -> 0 .. Word - 1]
  /\ MaxBytes \in 0 .. Word - 1
  /\ None \notin Entry

VARIABLES
  entries,   \* entries_[k], or None
  tick,      \* tick_
  pc         \* "idle", or "evict" between touch and evictIfNeeded

vars == <<entries, tick, pc>>

Tracked == {k \in Keys : entries[k] # None}

SizeBytes == [k \in Tracked |-> entries[k].sizeBytes]

(* The sum over entries_ in the type it is kept in. *)
TotalOf(S) == MapThenSumSet(LAMBDA k : SizeBytes[k], S) % Word

OrderedNewestFirst ==  \* faulty variant: the comparison is turned round
  CHOOSE s \in SetToSeqs(Tracked) :
    \A i, j \in DOMAIN s : i < j => entries[s[i]].tick > entries[s[j]].tick

(* The keys as evictIfNeeded sorts them, least recently used first: there  *)
(* is one such order, since no two ticks are equal (TicksUnique).          *)
Ordered ==
  CHOOSE s \in SetToSeqs(Tracked) :
    \A i, j \in DOMAIN s : i < j => entries[s[i]].tick < entries[s[j]].tick

(* The running total when the loop over them comes to the n-th. *)
TotalBefore(n) ==
  (TotalOf(Tracked) - TotalOf({Ordered[m] : m \in 1 .. n - 1})) % Word

EvictedStopsEarly ==  \* faulty variant: the loop breaks before it erases the last one needed
  {Ordered[n] : n \in {n \in DOMAIN Ordered : \A m \in 1 .. n :
                         TotalBefore(m) > MaxBytes + SizeBytes[Ordered[m]]}}

(* What the loop has erased when it breaks: all it came to with a total    *)
(* over the budget.                                                        *)
Evicted ==
  {Ordered[n] : n \in {n \in DOMAIN Ordered : \A m \in 1 .. n : TotalBefore(m) > MaxBytes}}

Init ==
  /\ entries = [k \in Keys |-> None]
  /\ tick = 0
  /\ pc = [t \in Threads |-> "idle"]

TouchSameTick(t, k) ==  \* faulty variant: a known key does not advance the tick
  /\ pc[t] = "idle"
  /\ tick < MaxTick
  /\ tick' = IF k \in Tracked THEN tick ELSE tick + 1
  /\ entries' = [entries EXCEPT ![k] = [sizeBytes |-> SizeOf[k], tick |-> tick']]
  /\ pc' = [pc EXCEPT ![t] = "evict"]

Touch(t, k) ==
  /\ pc[t] = "idle"
  /\ tick < MaxTick
  /\ tick' = tick + 1
  /\ entries' = [entries EXCEPT ![k] = [sizeBytes |-> SizeOf[k], tick |-> tick']]
  /\ pc' = [pc EXCEPT ![t] = "evict"]

EvictIfNeeded(t) ==
  /\ pc[t] = "evict"
  /\ entries' = [k \in Keys |-> IF k \in Evicted THEN None ELSE entries[k]]
  /\ pc' = [pc EXCEPT ![t] = "idle"]
  /\ UNCHANGED tick

(* The process ends and starts again: the map is never written to disk. *)
Restart ==
  /\ entries' = [k \in Keys |-> None]
  /\ tick' = 0
  /\ pc' = [t \in Threads |-> "idle"]

Next ==
  \/ \E t \in Threads : (\E k \in Keys : Touch(t, k)) \/ EvictIfNeeded(t)
  \/ Restart

Spec == Init /\ [][Next]_vars

-----------------------------------------------------------------------------
(* Properties *)

(* Ranges of the map, the counter and the threads (CacheManager.hpp:23-32). *)
TypeOK ==
  /\ entries \in [Keys -> Entry \cup {None}]
  /\ tick \in Nat
  /\ pc \in [Threads -> {"idle", "evict"}]

(* Two keys never carry the same tick and none is ahead of the counter, so *)
(* sorting by tick (CacheManager.cpp:32-34, an unstable sort) always gives *)
(* the order of use, whatever threads do between touch and eviction.       *)
TicksUnique ==
  /\ \A k \in Tracked : entries[k].tick <= tick
  /\ \A j, k \in Tracked : entries[j].tick = entries[k].tick => j = k

(* Only a touch takes the total over the budget, and the same thread       *)
(* evicts after it (TorrentSession.cpp:126-127): whatever others do in     *)
(* between, the total fits when no thread is between the two.              *)
BudgetKept == (\A t \in Threads : pc[t] # "evict") => TotalOf(Tracked) <= MaxBytes

(* The map seen as LruBudget sees it: keys, and who was used before whom. *)
Lru == INSTANCE LruBudget WITH
         tracked <- Tracked,
         older <- {p \in Tracked \X Tracked : entries[p[1]].tick < entries[p[2]].tick}

(* Counting ticks, sorting and erasing until the running total fits does   *)
(* what LruBudget says: the longest run of recently used keys that fits    *)
(* the budget is kept, and nothing else (CacheManager.cpp:16-45).          *)
ImplementsLru == Lru!Spec
=============================================================================
