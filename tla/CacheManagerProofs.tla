------------------------- MODULE CacheManagerProofs -------------------------
(***************************************************************************)
(* Theorems about CacheManager, for every set of keys, sizes and threads.  *)
(***************************************************************************)
EXTENDS CacheManager, DataTheorems

Inv == TypeOK /\ TicksUnique

LEMMA InvInit == Init => Inv
  BY CacheAssumption DEF Init, Inv, TypeOK, TicksUnique, Tracked

LEMMA TouchInv ==
  ASSUME Inv, NEW t \in Threads, NEW k \in Keys, Touch(t, k)
  PROVE  Inv'
  <1> DEFINE e == [sizeBytes |-> SizeOf[k], tick |-> tick + 1]
  <1>1. /\ tick' = tick + 1 /\ tick \in Nat
        /\ entries' = [entries EXCEPT ![k] = e]
        /\ pc' = [pc EXCEPT ![t] = "evict"]
    BY DEF Touch, Inv, TypeOK
  <1>2. e \in Entry /\ e # None /\ e.tick = tick + 1
    BY <1>1, CacheAssumption DEF Entry
  <1>3. TypeOK'
    BY <1>1, <1>2 DEF Inv, TypeOK
  <1>4. entries'[k] = e /\ \A j \in Keys \ {k} : entries'[j] = entries[j]
    BY <1>1 DEF Inv, TypeOK
  <1>5. \A j \in Tracked : entries[j].tick \in Nat /\ entries[j].tick <= tick
    BY DEF Tracked, Inv, TypeOK, TicksUnique, Entry
  <1>6. \A j \in Tracked' : j # k => j \in Tracked
    BY <1>4 DEF Tracked
  <1>7. TicksUnique'
    BY <1>1, <1>2, <1>4, <1>5, <1>6 DEF TicksUnique, Tracked, Inv
  <1> QED BY <1>3, <1>7 DEF Inv

(* Whatever the loop erases, the entries that stay are as they were. *)
LEMMA EvictInv ==
  ASSUME Inv, NEW t \in Threads, EvictIfNeeded(t)
  PROVE  Inv'
  <1>1. /\ tick' = tick
        /\ entries' = [k \in Keys |-> IF k \in Evicted THEN None ELSE entries[k]]
        /\ pc' = [pc EXCEPT ![t] = "idle"]
    BY DEF EvictIfNeeded
  <1>2. TypeOK'
    BY <1>1 DEF Inv, TypeOK
  <1>3. \A k \in Tracked' : k \in Tracked /\ entries'[k] = entries[k]
    BY <1>1 DEF Tracked
  <1>4. TicksUnique'
    BY <1>1, <1>3 DEF Inv, TicksUnique
  <1> QED BY <1>2, <1>4 DEF Inv

LEMMA InvStep == Inv /\ [Next]_vars => Inv'
  <1> SUFFICES ASSUME Inv, [Next]_vars PROVE Inv'
    OBVIOUS
  <1>1. CASE Restart
    BY <1>1 DEF Restart, Inv, TypeOK, TicksUnique, Tracked
  <1>2. CASE UNCHANGED vars
    BY <1>2 DEF vars, Inv, TypeOK, TicksUnique, Tracked
  <1> QED BY <1>1, <1>2, TouchInv, EvictInv DEF Next

(* Sorting by tick always gives the order of use (CacheManager.cpp:16-34). *)
THEOREM TicksStayUnique == Spec => []TicksUnique
  <1>1. Inv => TicksUnique
    BY DEF Inv
  <1> QED BY <1>1, InvInit, InvStep, PTL DEF Spec

-----------------------------------------------------------------------------
(* The order of the keys and what is left of them. *)

(* Only keys that were touched are in the map. *)
TrackedFinite == IsFiniteSet(Tracked)

LEMMA FiniteStep == TrackedFinite /\ Inv /\ [Next]_vars => TrackedFinite'
  <1> SUFFICES ASSUME TrackedFinite, Inv, [Next]_vars PROVE TrackedFinite'
    OBVIOUS
  <1> USE DEF TrackedFinite
  <1>1. ASSUME NEW t \in Threads, NEW k \in Keys, Touch(t, k) PROVE TrackedFinite'
    <2>1. Tracked' \subseteq Tracked \cup {k}
      BY <1>1 DEF Touch, Tracked, Inv, TypeOK
    <2>2. IsFiniteSet(Tracked \cup {k})
      BY FS_AddElement
    <2> QED BY <2>1, <2>2, FS_Subset
  <1>2. ASSUME NEW t \in Threads, EvictIfNeeded(t) PROVE TrackedFinite'
    <2>1. Tracked' \subseteq Tracked
      BY <1>2 DEF EvictIfNeeded, Tracked
    <2> QED BY <2>1, FS_Subset
  <1>3. ASSUME Restart PROVE TrackedFinite'
    <2>1. Tracked' = {}
      BY <1>3 DEF Restart, Tracked
    <2> QED BY <2>1, FS_EmptySet
  <1>4. CASE UNCHANGED vars
    BY <1>4 DEF vars, Tracked
  <1> QED BY <1>1, <1>2, <1>3, <1>4 DEF Next

Number == Cardinality(Tracked)
First(n) == {Ordered[m] : m \in 1 .. n - 1}
Rest(n) == {Ordered[m] : m \in n .. Number}

LEMMA OrderedTracked ==
  ASSUME Inv, TrackedFinite
  PROVE  /\ Number \in Nat
         /\ Ordered \in [1 .. Number -> Tracked]
         /\ \A i, j \in 1 .. Number : i # j => Ordered[i] # Ordered[j]
         /\ Tracked = {Ordered[i] : i \in 1 .. Number}
         /\ \A i, j \in 1 .. Number : i < j => entries[Ordered[i]].tick < entries[Ordered[j]].tick
  <1> DEFINE rank == [k \in Tracked |-> entries[k].tick]
             IsOrder(s) == \A i, j \in DOMAIN s : i < j => entries[s[i]].tick < entries[s[j]].tick
  <1>1. \A k \in Tracked : rank[k] \in Nat
    BY DEF Inv, TypeOK, Tracked, Entry
  <1>2. \A j, k \in Tracked : rank[j] = rank[k] => j = k
    BY DEF Inv, TicksUnique
  <1>3. \E s \in SetToSeqs(Tracked) : Sorted(s, rank)
    <2> HIDE DEF rank
    <2> QED BY <1>1, <1>2, OrderExists DEF TrackedFinite
  <1>4. ASSUME NEW s \in SetToSeqs(Tracked), Sorted(s, rank) PROVE IsOrder(s)
    <2>1. \A i \in DOMAIN s : s[i] \in Tracked
      BY DEF SetToSeqs
    <2> QED BY <1>4, <2>1 DEF Sorted
  <1>5. \E s \in SetToSeqs(Tracked) : IsOrder(s)
    BY <1>3, <1>4
  <1>6. Ordered \in SetToSeqs(Tracked) /\ IsOrder(Ordered)
    BY <1>5 DEF Ordered
  <1>7. /\ Number \in Nat
        /\ Ordered \in [1 .. Number -> Tracked]
        /\ \A i, j \in 1 .. Number : i # j => Ordered[i] # Ordered[j]
        /\ Tracked = {Ordered[i] : i \in 1 .. Number}
    BY <1>6, OrderCovers DEF Number, TrackedFinite
  <1> QED BY <1>6, <1>7

LEMMA SizesType ==
  ASSUME Inv
  PROVE  /\ \A k \in Tracked : SizeBytes[k] \in Nat
         /\ Word \in Nat \ {0} /\ MaxBytes \in Nat
         /\ \A S : TotalOf(S) = SumOf(SizeBytes, S) % Word
  <1>1. \A k \in Tracked : SizeBytes[k] \in Nat
    BY CacheAssumption DEF Inv, TypeOK, SizeBytes, Tracked, Entry
  <1>2. \A S : TotalOf(S) = SumOf(SizeBytes, S) % Word
    BY DEF TotalOf, SumOf
  <1> QED BY <1>1, <1>2, CacheAssumption

(* The running total is the total of the keys that are still to come. *)
LEMMA TotalBeforeIsRest ==
  ASSUME Inv, TrackedFinite, NEW n \in 1 .. Number + 1
  PROVE  TotalBefore(n) = TotalOf(Rest(n))
  <1>1. /\ First(n) \cup Rest(n) = Tracked
        /\ First(n) \cap Rest(n) = {}
    BY OrderedTracked DEF First, Rest
  <1>2. IsFiniteSet(First(n)) /\ IsFiniteSet(Rest(n))
    BY <1>1, FS_Subset DEF TrackedFinite
  <1>3. \A k \in First(n) \cup Rest(n) : SizeBytes[k] \in Nat
    BY <1>1, SizesType
  <1> DEFINE a == SumOf(SizeBytes, Rest(n))
             b == SumOf(SizeBytes, First(n))
  <1>4. a \in Nat /\ b \in Nat
    BY <1>2, <1>3, SumType
  <1>5. SumOf(SizeBytes, First(n) \cup Rest(n)) = b + a
    BY <1>1, <1>2, <1>3, SumUnion
  <1>6. SumOf(SizeBytes, Tracked) = a + b
    <2>1. SumOf(SizeBytes, First(n) \cup Rest(n)) = SumOf(SizeBytes, Tracked)
      BY <1>1, Zenon
    <2> QED BY <1>4, <1>5, <2>1
  <1>7. TotalBefore(n) = (TotalOf(Tracked) - TotalOf(First(n))) % Word
    BY DEF TotalBefore, First
  <1>8. TotalBefore(n) = (((a + b) % Word) - (b % Word)) % Word
    BY <1>6, <1>7, SizesType
  <1> HIDE DEF a, b
  <1>9. TotalBefore(n) = a % Word
    <2>1. Word \in Nat \ {0} /\ a \in Int /\ b \in Int
      BY <1>4, SizesType
    <2>2. (((a + b) % Word) - (b % Word)) % Word = a % Word
      BY <2>1, ModDifference
    <2> QED BY <1>8, <2>2
  <1> QED BY <1>9, SizesType DEF a

(* The loop stops at the first key whose total fits. *)
StopsAt(c) ==
  /\ c \in 1 .. Number + 1
  /\ Evicted = First(c)
  /\ Tracked \ Evicted = Rest(c)
  /\ TotalOf(Rest(c)) <= MaxBytes
  /\ \A m \in 1 .. c - 1 : TotalOf(Rest(m)) > MaxBytes

LEMMA LoopStops ==
  ASSUME Inv, TrackedFinite
  PROVE  \E c : StopsAt(c)
  <1> DEFINE Fits == {n \in 1 .. Number + 1 : TotalOf(Rest(n)) <= MaxBytes}
  <1>1. Number \in Nat
    BY OrderedTracked
  <1>2. Number + 1 \in Fits
    <2>1. Rest(Number + 1) = {}
      BY <1>1 DEF Rest
    <2>2. TotalOf({}) = 0
      BY SizesType, SumEmpty
    <2>3. TotalOf(Rest(Number + 1)) = 0
      BY <2>1, <2>2, Zenon
    <2> QED BY <1>1, <2>3, SizesType
  <1>3. PICK c \in Fits : \A m \in Fits : c <= m
    <2>1. Fits \subseteq Nat /\ Fits # {}
      BY <1>1, <1>2
    <2> HIDE DEF Fits
    <2> QED BY <2>1, LeastNatural
  <1>4. c \in 1 .. Number + 1 /\ TotalOf(Rest(c)) <= MaxBytes
    OBVIOUS
  <1>5. \A m \in 1 .. Number + 1 : TotalOf(Rest(m)) \in Nat
    <2> SUFFICES ASSUME NEW m \in 1 .. Number + 1 PROVE TotalOf(Rest(m)) \in Nat
      OBVIOUS
    <2>1. Rest(m) \subseteq Tracked
      BY OrderedTracked DEF Rest
    <2>2. SumOf(SizeBytes, Rest(m)) \in Nat
      BY <2>1, SizesType, SumType, FS_Subset DEF TrackedFinite
    <2> QED BY <2>2, SizesType
  <1>6. \A m \in 1 .. c - 1 : TotalOf(Rest(m)) > MaxBytes
    <2> SUFFICES ASSUME NEW m \in 1 .. c - 1 PROVE TotalOf(Rest(m)) > MaxBytes
      OBVIOUS
    <2>1. m \in 1 .. Number + 1 /\ m < c
      BY <1>1, <1>4
    <2>2. m \notin Fits
      BY <1>3, <1>4, <2>1
    <2> QED BY <1>5, <2>1, <2>2, SizesType
  <1>7. \A n \in 1 .. Number : (\A m \in 1 .. n : TotalBefore(m) > MaxBytes) <=> n < c
    <2> SUFFICES ASSUME NEW n \in 1 .. Number
                 PROVE  (\A m \in 1 .. n : TotalBefore(m) > MaxBytes) <=> n < c
      OBVIOUS
    <2>1. \A m \in 1 .. n : m \in 1 .. Number + 1 /\ TotalBefore(m) = TotalOf(Rest(m))
      BY <1>1, TotalBeforeIsRest
    <2>2. ASSUME n < c PROVE \A m \in 1 .. n : TotalBefore(m) > MaxBytes
      BY <1>1, <1>4, <1>6, <2>1, <2>2
    <2>3. ASSUME ~ (n < c) PROVE ~ \A m \in 1 .. n : TotalBefore(m) > MaxBytes
      <3>1. c \in 1 .. n
        BY <1>1, <1>4, <2>3
      <3>2. TotalBefore(c) = TotalOf(Rest(c)) /\ TotalOf(Rest(c)) \in Nat
        BY <1>4, <1>5, <2>1, <3>1
      <3> QED BY <1>4, <3>1, <3>2, SizesType
    <2> QED BY <2>2, <2>3
  <1> HIDE DEF Fits
  <1>8. Evicted = First(c)
    <2>1. DOMAIN Ordered = 1 .. Number
      BY OrderedTracked
    <2>2. {n \in DOMAIN Ordered : \A m \in 1 .. n : TotalBefore(m) > MaxBytes} = 1 .. c - 1
      BY <1>1, <1>4, <1>7, <2>1
    <2> QED BY <2>2 DEF Evicted, First
  <1>9. Tracked \ Evicted = Rest(c)
    BY <1>4, <1>8, OrderedTracked DEF First, Rest
  <1> QED BY <1>4, <1>6, <1>8, <1>9 DEF StopsAt

-----------------------------------------------------------------------------
(* The budget. *)

LEMMA TrackedTotal == TotalOf(Tracked) = SumOf(SizeBytes, Tracked) % Word
  BY DEF TotalOf, SumOf

LEMMA TrackedTotalNext == TotalOf(Tracked)' = SumOf(SizeBytes', Tracked') % Word
  <1>1. (TotalOf(Tracked) = SumOf(SizeBytes, Tracked) % Word)'
    BY TrackedTotal, PTL
  <1> QED BY <1>1

LEMMA TotalAfter ==
  ASSUME Inv, TrackedFinite, NEW t \in Threads, EvictIfNeeded(t)
  PROVE  TotalOf(Tracked)' <= MaxBytes
  <1>1. PICK c : StopsAt(c)
    BY LoopStops
  <1>2. entries' = [k \in Keys |-> IF k \in Evicted THEN None ELSE entries[k]]
    BY DEF EvictIfNeeded
  <1>3. Tracked' = Rest(c)
    <2>1. Tracked' = Tracked \ Evicted
      BY <1>2 DEF Tracked
    <2> QED BY <1>1, <2>1 DEF StopsAt
  <1>4. Rest(c) \subseteq Tracked /\ \A k \in Rest(c) : entries'[k] = entries[k]
    BY <1>1, <1>2 DEF StopsAt, Tracked
  <1> DEFINE R == Rest(c)
  <1> HIDE DEF R
  <1>5. Tracked' = R /\ R \subseteq Tracked /\ \A k \in R : entries'[k] = entries[k]
    BY <1>3, <1>4 DEF R
  <1>6. \A k \in R : SizeBytes[k] \in Nat /\ SizeBytes'[k] = SizeBytes[k]
    BY <1>5, SizesType DEF SizeBytes
  <1>7. IsFiniteSet(R)
    BY <1>5, FS_Subset DEF TrackedFinite
  <1>8. SumOf(SizeBytes', R) = SumOf(SizeBytes, R)
    <2> DEFINE f == SizeBytes
               g == SizeBytes'
    <2>1. \A k \in R : f[k] \in Nat /\ g[k] = f[k]
      BY <1>6
    <2> HIDE DEF f, g
    <2>2. SumOf(g, R) = SumOf(f, R)
      BY <1>7, <2>1, SumOfEqualSizes
    <2> QED BY <2>2 DEF f, g
  <1>9. TotalOf(Tracked)' = SumOf(SizeBytes', Tracked') % Word
    BY TrackedTotalNext
  <1>10. SumOf(SizeBytes', Tracked') = SumOf(SizeBytes, R)
    BY <1>5, <1>8, Zenon
  <1>11. TotalOf(R) = SumOf(SizeBytes, R) % Word
    BY SizesType
  <1>12. TotalOf(R) <= MaxBytes
    BY <1>1 DEF StopsAt, R
  <1> QED BY <1>9, <1>10, <1>11, <1>12

LEMMA BudgetInit == Init => BudgetKept /\ TrackedFinite
  <1> SUFFICES ASSUME Init PROVE BudgetKept /\ TrackedFinite
    OBVIOUS
  <1>1. Tracked = {}
    BY DEF Init, Tracked
  <1>2. Inv
    BY InvInit
  <1>3. TotalOf({}) = 0
    BY <1>2, SizesType, SumEmpty
  <1>4. TotalOf(Tracked) = 0
    BY <1>1, <1>3, Zenon
  <1>5. TrackedFinite
    BY <1>1, FS_EmptySet DEF TrackedFinite
  <1> QED BY <1>4, <1>5, CacheAssumption DEF BudgetKept

LEMMA BudgetStep == Inv /\ TrackedFinite /\ BudgetKept /\ [Next]_vars => BudgetKept'
  <1> SUFFICES ASSUME Inv, TrackedFinite, BudgetKept, [Next]_vars PROVE BudgetKept'
    OBVIOUS
  <1>1. ASSUME NEW t \in Threads, NEW k \in Keys, Touch(t, k) PROVE BudgetKept'
    <2>1. pc'[t] = "evict"
      BY <1>1 DEF Touch, Inv, TypeOK
    <2> QED BY <2>1 DEF BudgetKept
  <1>2. ASSUME NEW t \in Threads, EvictIfNeeded(t) PROVE BudgetKept'
    BY <1>2, TotalAfter DEF BudgetKept
  <1>3. ASSUME Restart PROVE BudgetKept'
    <2>1. Tracked' = {}
      BY <1>3 DEF Restart, Tracked
    <2>2. TotalOf(Tracked)' = SumOf(SizeBytes', Tracked') % Word
      BY TrackedTotalNext
    <2>3. \A f : SumOf(f, {}) = 0
      BY SumEmpty
    <2>4. SumOf(SizeBytes', Tracked') = 0
      BY <2>1, <2>3, Zenon
    <2>5. TotalOf(Tracked)' = 0
      BY <2>2, <2>4, CacheAssumption
    <2> QED BY <2>5, CacheAssumption DEF BudgetKept
  <1>4. CASE UNCHANGED vars
    <2>1. TotalOf(Tracked)' = TotalOf(Tracked)
      <3>1. Tracked' = Tracked /\ SizeBytes' = SizeBytes
        BY <1>4 DEF vars, Tracked, SizeBytes
      <3> QED BY <3>1, TrackedTotal, TrackedTotalNext, Zenon
    <2> QED BY <1>4, <2>1 DEF vars, BudgetKept
  <1> QED BY <1>1, <1>2, <1>3, <1>4 DEF Next

(* Whenever no thread is between its touch and its eviction, what is       *)
(* tracked fits the budget, in the 64-bit total that the code computes     *)
(* (CacheManager.cpp:21-45, TorrentSession.cpp:126-127).                   *)
THEOREM BudgetIsKept == Spec => []BudgetKept
  BY InvInit, InvStep, BudgetInit, FiniteStep, BudgetStep, PTL DEF Spec

-----------------------------------------------------------------------------
(* The refinement of LruBudget. *)

(* What all files of the torrent take together fits the 64-bit total. *)
TotalFits == IsFiniteSet(Keys) /\ SumOf(SizeOf, Keys) < Word

(* touch is told the same size for a key every time. *)
SizesKept == \A k \in Tracked : entries[k].sizeBytes = SizeOf[k]

Older == {p \in Tracked \X Tracked : entries[p[1]].tick < entries[p[2]].tick}

Kept == Inv /\ TrackedFinite /\ SizesKept

LEMMA KeptInit == Init => Kept
  BY InvInit, BudgetInit DEF Kept, SizesKept, Init, Tracked

LEMMA KeptStep == Kept /\ [Next]_vars => Kept'
  <1> SUFFICES ASSUME Kept, [Next]_vars PROVE SizesKept'
    BY InvStep, FiniteStep DEF Kept
  <1> USE DEF Kept
  <1>1. ASSUME NEW t \in Threads, NEW k \in Keys, Touch(t, k) PROVE SizesKept'
    <2>1. entries'[k].sizeBytes = SizeOf[k] /\ \A j \in Keys \ {k} : entries'[j] = entries[j]
      BY <1>1 DEF Touch, Inv, TypeOK
    <2> QED BY <2>1 DEF SizesKept, Tracked
  <1>2. ASSUME NEW t \in Threads, EvictIfNeeded(t) PROVE SizesKept'
    <2>1. \A k \in Tracked' : k \in Tracked /\ entries'[k] = entries[k]
      BY <1>2 DEF EvictIfNeeded, Tracked
    <2> QED BY <2>1 DEF SizesKept
  <1>3. ASSUME Restart PROVE SizesKept'
    BY <1>3 DEF Restart, SizesKept, Tracked
  <1>4. CASE UNCHANGED vars
    BY <1>4 DEF vars, SizesKept, Tracked
  <1> QED BY <1>1, <1>2, <1>3, <1>4 DEF Next

(* On tracked keys the 64-bit total is the total. *)
LEMMA TotalsAgree ==
  ASSUME TotalFits, Kept, NEW S, S \subseteq Tracked
  PROVE  /\ TotalOf(S) = Lru!TotalOf(S)
         /\ Lru!TotalOf(S) = SumOf(SizeOf, S)
         /\ Lru!TotalOf(S) \in Nat
  <1>1. Lru!TotalOf(S) = SumOf(SizeOf, S)
    BY DEF Lru!TotalOf, SumOf, Lru!MapThenSumSet, MapThenSumSet,
           Lru!MapThenFoldSet, MapThenFoldSet
  <1>2. S \subseteq Keys /\ IsFiniteSet(S) /\ IsFiniteSet(Keys)
    BY FS_Subset DEF Tracked, TotalFits
  <1>3. \A k \in Keys : SizeOf[k] \in Nat
    BY CacheAssumption
  <1>4. SumOf(SizeOf, S) \in Nat /\ SumOf(SizeOf, Keys) \in Nat
    BY <1>2, <1>3, SumType
  <1>5. SumOf(SizeOf, S) <= SumOf(SizeOf, Keys)
    BY <1>2, <1>3, SumMonotonic
  <1>6. SumOf(SizeOf, S) < Word
    BY <1>4, <1>5, CacheAssumption DEF TotalFits
  <1>7. \A k \in S : SizeOf[k] \in Nat /\ SizeBytes[k] = SizeOf[k]
    BY <1>2, <1>3 DEF Kept, SizesKept, SizeBytes
  <1>8. SumOf(SizeBytes, S) = SumOf(SizeOf, S)
    BY <1>2, <1>7, SumOfEqualSizes
  <1>9. TotalOf(S) = SumOf(SizeOf, S) % Word
    BY <1>8, SizesType DEF Kept
  <1>10. SumOf(SizeOf, S) % Word = SumOf(SizeOf, S)
    BY <1>4, <1>6, CacheAssumption
  <1> QED BY <1>1, <1>4, <1>9, <1>10

LEMMA RestShrinks ==
  ASSUME Kept, NEW m \in 1 .. Number + 1, NEW n \in m .. Number + 1
  PROVE  Rest(n) \subseteq Rest(m) /\ Rest(m) \subseteq Tracked
  BY OrderedTracked DEF Kept, Rest

(* The n-th key and those used after it are the rest from there on. *)
LEMMA FromOnIsRest ==
  ASSUME Kept, NEW n \in 1 .. Number
  PROVE  Lru!FromOn(Ordered[n]) = Rest(n)
  <1>1. /\ Number \in Nat
        /\ \A i \in 1 .. Number : Ordered[i] \in Tracked
        /\ Tracked = {Ordered[i] : i \in 1 .. Number}
        /\ \A i, j \in 1 .. Number : i < j => entries[Ordered[i]].tick < entries[Ordered[j]].tick
    BY OrderedTracked DEF Kept
  <1>2. \A k \in Tracked : entries[k].tick \in Nat
    BY DEF Kept, Inv, TypeOK, Tracked, Entry
  <1>3. Lru!FromOn(Ordered[n]) =
          {Ordered[n]} \cup {j \in Tracked : entries[Ordered[n]].tick < entries[j].tick}
    BY <1>1 DEF Lru!FromOn
  <1>4. \A i \in 1 .. Number : entries[Ordered[n]].tick < entries[Ordered[i]].tick <=> n < i
    <2> SUFFICES ASSUME NEW i \in 1 .. Number
                 PROVE  entries[Ordered[n]].tick < entries[Ordered[i]].tick <=> n < i
      OBVIOUS
    <2>1. entries[Ordered[n]].tick \in Nat /\ entries[Ordered[i]].tick \in Nat
      BY <1>1, <1>2
    <2>2. CASE n < i
      BY <1>1, <2>2
    <2>3. CASE n = i
      BY <2>1, <2>3
    <2>4. CASE i < n
      BY <1>1, <2>1, <2>4
    <2> QED BY <2>2, <2>3, <2>4
  <1>5. {j \in Tracked : entries[Ordered[n]].tick < entries[j].tick}
          = {Ordered[i] : i \in n + 1 .. Number}
    BY <1>1, <1>4
  <1>6. {Ordered[n]} \cup {Ordered[i] : i \in n + 1 .. Number} = Rest(n)
    <2>1. n .. Number = {n} \cup n + 1 .. Number
      BY <1>1
    <2> DEFINE I == n + 1 .. Number
    <2> HIDE DEF I
    <2>2. n .. Number = {n} \cup I
      BY <2>1 DEF I
    <2>3. {Ordered[i] : i \in n .. Number} = {Ordered[n]} \cup {Ordered[i] : i \in I}
      BY <2>2
    <2> QED BY <2>3 DEF I, Rest
  <1> QED BY <1>3, <1>5, <1>6

LEMMA SurvivorsAreRest ==
  ASSUME TotalFits, Kept
  PROVE  Lru!Survivors = Tracked \ Evicted
  <1>1. PICK c : StopsAt(c)
    BY LoopStops DEF Kept
  <1>2. /\ Number \in Nat /\ c \in 1 .. Number + 1
        /\ Tracked \ Evicted = Rest(c)
        /\ TotalOf(Rest(c)) <= MaxBytes
        /\ \A m \in 1 .. c - 1 : TotalOf(Rest(m)) > MaxBytes
    BY <1>1, OrderedTracked DEF StopsAt, Kept
  <1>3. /\ Ordered \in [1 .. Number -> Tracked]
        /\ \A i, j \in 1 .. Number : i # j => Ordered[i] # Ordered[j]
        /\ Tracked = {Ordered[i] : i \in 1 .. Number}
    BY OrderedTracked DEF Kept
  <1>4. \A n \in 1 .. Number : Lru!TotalOf(Lru!FromOn(Ordered[n])) <= MaxBytes <=> n >= c
    <2> SUFFICES ASSUME NEW n \in 1 .. Number
                 PROVE  Lru!TotalOf(Lru!FromOn(Ordered[n])) <= MaxBytes <=> n >= c
      OBVIOUS
    <2>1. Lru!TotalOf(Lru!FromOn(Ordered[n])) = Lru!TotalOf(Rest(n))
      BY FromOnIsRest, Zenon
    <2>2. Rest(n) \subseteq Tracked /\ Rest(c) \subseteq Tracked
      BY <1>2, <1>3 DEF Rest
    <2>3. /\ Lru!TotalOf(Rest(n)) = TotalOf(Rest(n)) /\ Lru!TotalOf(Rest(n)) \in Nat
          /\ Lru!TotalOf(Rest(n)) = SumOf(SizeOf, Rest(n))
      BY <2>2, TotalsAgree
    <2>4. /\ Lru!TotalOf(Rest(c)) = TotalOf(Rest(c)) /\ Lru!TotalOf(Rest(c)) \in Nat
          /\ Lru!TotalOf(Rest(c)) = SumOf(SizeOf, Rest(c))
      BY <2>2, TotalsAgree
    <2>5. CASE n >= c
      <3>1. Rest(n) \subseteq Rest(c)
        BY <1>2, <2>5 DEF Rest
      <3>2. IsFiniteSet(Rest(c)) /\ \A k \in Rest(c) : SizeOf[k] \in Nat
        BY <2>2, FS_Subset, CacheAssumption DEF Kept, TrackedFinite, Tracked
      <3>3. SumOf(SizeOf, Rest(n)) <= SumOf(SizeOf, Rest(c))
        BY <3>1, <3>2, SumMonotonic
      <3> QED BY <1>2, <2>1, <2>3, <2>4, <2>5, <3>3, CacheAssumption
    <2>6. CASE ~ (n >= c)
      <3>1. n \in 1 .. c - 1
        BY <1>2, <2>6
      <3>2. TotalOf(Rest(n)) > MaxBytes
        BY <1>2, <3>1
      <3> QED BY <2>1, <2>3, <2>6, <3>2, CacheAssumption
    <2> QED BY <2>5, <2>6
  <1>5. Lru!Survivors = {k \in Tracked : Lru!TotalOf(Lru!FromOn(k)) <= MaxBytes}
    BY DEF Lru!Survivors
  <1>6. {k \in Tracked : Lru!TotalOf(Lru!FromOn(k)) <= MaxBytes} = {Ordered[n] : n \in c .. Number}
    BY <1>2, <1>3, <1>4
  <1> QED BY <1>2, <1>5, <1>6 DEF Rest

LEMMA LruTouch ==
  ASSUME Kept, NEW t \in Threads, NEW k \in Keys, Touch(t, k)
  PROVE  Lru!TouchKey(k)
  <1>1. entries'[k].tick = tick + 1 /\ entries'[k] # None
        /\ \A j \in Keys \ {k} : entries'[j] = entries[j]
    <2>1. /\ tick' = tick + 1
          /\ entries' = [entries EXCEPT ![k] = [sizeBytes |-> SizeOf[k], tick |-> tick + 1]]
      BY DEF Touch
    <2>2. [sizeBytes |-> SizeOf[k], tick |-> tick + 1] \in Entry
      BY CacheAssumption DEF Kept, Inv, TypeOK, Entry
    <2> QED BY <2>1, <2>2, CacheAssumption DEF Kept, Inv, TypeOK
  <1>2. Tracked' = Tracked \cup {k}
    BY <1>1 DEF Tracked
  <1>3. \A j \in Tracked : entries[j].tick \in Nat /\ entries[j].tick <= tick /\ tick \in Nat
    BY DEF Kept, Inv, TypeOK, TicksUnique, Tracked, Entry
  <1>4. Tracked \subseteq Keys
    BY DEF Tracked
  <1>5. Older' = {p \in Tracked' \X Tracked' : entries'[p[1]].tick < entries'[p[2]].tick}
    BY DEF Older
  <1>6. \A i \in Tracked', j \in Tracked' :
          entries'[i].tick < entries'[j].tick
            <=> \/ i # k /\ j # k /\ entries[i].tick < entries[j].tick
                \/ i # k /\ j = k
    <2> SUFFICES ASSUME NEW i \in Tracked', NEW j \in Tracked'
                 PROVE  entries'[i].tick < entries'[j].tick
                          <=> \/ i # k /\ j # k /\ entries[i].tick < entries[j].tick
                              \/ i # k /\ j = k
      OBVIOUS
    <2>1. i # k => entries'[i].tick = entries[i].tick /\ entries[i].tick \in Nat /\ entries[i].tick < tick + 1
      BY <1>1, <1>2, <1>3, <1>4
    <2>2. j # k => entries'[j].tick = entries[j].tick /\ entries[j].tick \in Nat /\ entries[j].tick < tick + 1
      BY <1>1, <1>2, <1>3, <1>4
    <2>3. tick \in Nat /\ entries'[k].tick = tick + 1
      BY <1>1 DEF Kept, Inv, TypeOK
    <2> QED BY <2>1, <2>2, <2>3
  <1>7. Older' = {p \in Older : k \notin {p[1], p[2]}} \cup ((Tracked \ {k}) \X {k})
    <2>1. ASSUME NEW i, NEW j
          PROVE  <<i, j>> \in Older'
                   <=> <<i, j>> \in {p \in Older : k \notin {p[1], p[2]}} \cup ((Tracked \ {k}) \X {k})
      BY <1>2, <1>5, <1>6 DEF Older
    <2>2. \A p \in Older' : p = <<p[1], p[2]>>
      BY <1>5
    <2>3. \A p \in {p \in Older : k \notin {p[1], p[2]}} \cup ((Tracked \ {k}) \X {k}) : p = <<p[1], p[2]>>
      BY DEF Older
    <2> QED BY <2>1, <2>2, <2>3
  <1> QED BY <1>2, <1>7 DEF Lru!TouchKey, Older

LEMMA LruShrink ==
  ASSUME TotalFits, Kept, NEW t \in Threads, EvictIfNeeded(t)
  PROVE  Lru!Shrink
  <1>1. Tracked' = Tracked \ Evicted /\ \A k \in Tracked' : entries'[k] = entries[k]
    BY DEF EvictIfNeeded, Tracked
  <1>2. Tracked' = Lru!Survivors
    BY <1>1, SurvivorsAreRest
  <1>3. Older' = Older \cap (Tracked' \X Tracked')
    <2>1. Older' = {p \in Tracked' \X Tracked' : entries'[p[1]].tick < entries'[p[2]].tick}
      BY DEF Older
    <2>2. Tracked' \subseteq Tracked
      BY <1>1
    <2> QED BY <1>1, <2>1, <2>2 DEF Older
  <1>4. Older' = Older \cap (Lru!Survivors \X Lru!Survivors)
    BY <1>2, <1>3
  <1> QED BY <1>2, <1>4 DEF Lru!Shrink, Older

LEMMA LruStep == TotalFits /\ Kept /\ [Next]_vars => [Lru!Next]_(Lru!lruVars)
  <1> SUFFICES ASSUME TotalFits, Kept, [Next]_vars PROVE [Lru!Next]_(Lru!lruVars)
    OBVIOUS
  <1>1. ASSUME NEW t \in Threads, NEW k \in Keys, Touch(t, k) PROVE Lru!Next
    BY <1>1, LruTouch DEF Lru!Next
  <1>2. ASSUME NEW t \in Threads, EvictIfNeeded(t) PROVE Lru!Next
    BY <1>2, LruShrink DEF Lru!Next
  <1>3. ASSUME Restart PROVE Lru!Next
    <2>1. Tracked' = {}
      BY <1>3 DEF Restart, Tracked
    <2>2. Older' = {}
      BY <2>1 DEF Older
    <2>3. Lru!Forget
      BY <2>1, <2>2 DEF Lru!Forget, Older
    <2> QED BY <2>3 DEF Lru!Next
  <1>4. ASSUME UNCHANGED vars PROVE UNCHANGED Lru!lruVars
    BY <1>4 DEF vars, Lru!lruVars, Tracked
  <1> QED BY <1>1, <1>2, <1>3, <1>4 DEF Next

LEMMA LruInit == Init => Lru!Init
  <1> SUFFICES ASSUME Init PROVE Lru!Init
    OBVIOUS
  <1>1. Tracked = {}
    BY DEF Init, Tracked
  <1>2. Older = {}
    BY <1>1 DEF Older
  <1> QED BY <1>1, <1>2 DEF Lru!Init, Older

(* Counting ticks, sorting and erasing until the running total fits keeps  *)
(* the longest run of recently used keys that fits the budget, as          *)
(* LruBudget has it, for a torrent whose files take less than 2^64 bytes   *)
(* (CacheManager.cpp:16-45).                                               *)
THEOREM EvictionIsLru ==
  ASSUME TotalFits
  PROVE  Spec => ImplementsLru
  <1>1. Kept /\ [Next]_vars => [Lru!Next]_(Lru!lruVars)
    BY LruStep
  <1> QED BY <1>1, KeptInit, KeptStep, LruInit, PTL DEF Spec, ImplementsLru, Lru!Spec
=============================================================================
