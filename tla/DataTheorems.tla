---------------------------- MODULE DataTheorems ----------------------------
(***************************************************************************)
(* What the proofs about the components need to know of the data they      *)
(* compute with: recursive functions, sequences, sums over finite sets,    *)
(* sets put in order, and remainders.  Every induction here is an argument *)
(* about a least counterexample.                                           *)
(***************************************************************************)
EXTENDS Integers, FiniteSetTheorems, SequenceTheorems, WellFoundedInduction, SequencesExt,
        TLAPS

(* A smallest one among sets that are subsets of a finite set. *)
LEMMA MinimalSet ==
  ASSUME NEW S, IsFiniteSet(S), NEW F, F \subseteq SUBSET S, F # {}
  PROVE  \E s \in F : \A t \in F : ~(t \subseteq s /\ t # s)
  <1>1. F \subseteq FiniteSubsetsOf(S)
    BY FS_Subset DEF FiniteSubsetsOf
  <1>2. IsWellFoundedOn(StrictSubsetOrdering(S), FiniteSubsetsOf(S))
    BY FS_StrictSubsetOrderingWellFounded
  <1>3. \E x \in F : \A y \in F : ~ (<<y, x>> \in StrictSubsetOrdering(S))
    BY <1>1, <1>2, WFMin
  <1> QED BY <1>3 DEF StrictSubsetOrdering

(* A smallest one among natural numbers. *)
LEMMA LeastNatural ==
  ASSUME NEW T, T \subseteq Nat, T # {}
  PROVE  \E n \in T : \A m \in T : n <= m
  <1>1. PICK n \in T : TRUE
    OBVIOUS
  <1> DEFINE F == {0 .. m : m \in {m \in T : m <= n}}
             S == 0 .. n
  <1>2. IsFiniteSet(S)
    BY FS_Interval
  <1>3. F \subseteq SUBSET S /\ F # {}
    <2>1. 0 .. n \in F
      OBVIOUS
    <2>2. \A m \in T : m <= n => 0 .. m \subseteq 0 .. n
      OBVIOUS
    <2> QED BY <2>1, <2>2
  <1> HIDE DEF F, S
  <1>4. PICK s \in F : \A t \in F : ~(t \subseteq s /\ t # s)
    BY <1>2, <1>3, MinimalSet
  <1>5. PICK m \in T : m <= n /\ s = 0 .. m
    BY <1>4 DEF F
  <1>6. ASSUME NEW k \in T, k < m PROVE FALSE
    <2>1. 0 .. k \in F
      BY <1>5, <1>6 DEF F
    <2>2. 0 .. k \subseteq 0 .. m /\ 0 .. k # 0 .. m
      BY <1>6
    <2> QED BY <1>4, <1>5, <2>1, <2>2
  <1> QED BY <1>6

(* A function defined by recursion to one smaller argument: it exists. *)
IsRecursion(D, R, V, Base, b, next, step) ==
  /\ IsWellFoundedOn(R, D)
  /\ Base \in SUBSET D
  /\ b \in [Base -> V]
  /\ next \in [D \ Base -> D]
  /\ step \in [(D \ Base) \X V -> V]
  /\ \A x \in D \ Base : <<next[x], x>> \in R

Recursive(f, D, V, Base, b, next, step) ==
  /\ f \in [D -> V]
  /\ \A x \in D : f[x] = IF x \in Base THEN b[x] ELSE step[<<x, f[next[x]]>>]

LEMMA RecursiveFunction ==
  ASSUME NEW D, NEW R, NEW V, NEW Base, NEW b, NEW next, NEW step,
         IsRecursion(D, R, V, Base, b, next, step)
  PROVE  \E f : Recursive(f, D, V, Base, b, next, step)
  <1> USE DEF IsRecursion
  <1> DEFINE Closed(C) ==
               /\ \A x \in Base : <<x, b[x]>> \in C
               /\ \A x \in D \ Base, v \in V : <<next[x], v>> \in C => <<x, step[<<x, v>>]>> \in C
             Graph == {p \in D \X V : \A C \in SUBSET (D \X V) : Closed(C) => p \in C}
             Once(x) == \E v \in V : \A w \in V : <<x, w>> \in Graph <=> w = v
             Twice == {x \in D : ~ Once(x)}
  <1>1. Closed(Graph)
    <2>1. \A x \in Base : <<x, b[x]>> \in Graph
      OBVIOUS
    <2>2. ASSUME NEW x \in D \ Base, NEW v \in V, <<next[x], v>> \in Graph
          PROVE  <<x, step[<<x, v>>]>> \in Graph
      <3>1. <<x, step[<<x, v>>]>> \in D \X V
        OBVIOUS
      <3>2. ASSUME NEW C \in SUBSET (D \X V), Closed(C) PROVE <<x, step[<<x, v>>]>> \in C
        BY <2>2, <3>2
      <3> QED BY <3>1, <3>2
    <2> QED BY <2>1, <2>2
  <1>2. ASSUME NEW C \in SUBSET (D \X V), Closed(C) PROVE Graph \subseteq C
    BY <1>2
  <1>3. \A x \in D : Once(x)
    <2> SUFFICES ASSUME Twice # {} PROVE FALSE
      OBVIOUS
    <2> HIDE DEF Closed, Graph, Once
    <2>1. PICK x \in Twice : \A y \in Twice : ~ (<<y, x>> \in R)
      BY WFMin
    <2>2. CASE x \in Base
      <3> DEFINE C == {p \in Graph : p[1] = x => p[2] = b[x]}
      <3>1. C \in SUBSET (D \X V)
        BY DEF Graph
      <3>2. Closed(C)
        BY <1>1, <2>2 DEF Closed
      <3>3. Graph \subseteq C
        BY <1>2, <3>1, <3>2
      <3>4. \A w \in V : <<x, w>> \in Graph => w = b[x]
        BY <3>3
      <3>5. b[x] \in V /\ <<x, b[x]>> \in Graph
        BY <1>1, <2>2 DEF Closed
      <3> QED BY <3>4, <3>5 DEF Once
    <2>3. CASE x \notin Base
      <3>1. next[x] \in D /\ Once(next[x])
        BY <2>1, <2>3
      <3>2. PICK v \in V : \A w \in V : <<next[x], w>> \in Graph <=> w = v
        BY <3>1 DEF Once
      <3> DEFINE a == step[<<x, v>>]
                 C == {p \in Graph : p[1] = x => p[2] = a}
      <3>3. a \in V
        BY <2>3
      <3> HIDE DEF a
      <3>4. C \in SUBSET (D \X V)
        BY DEF Graph
      <3>5. Closed(C)
        <4>1. \A y \in Base : <<y, b[y]>> \in C
          BY <1>1, <2>3 DEF Closed
        <4>2. ASSUME NEW y \in D \ Base, NEW w \in V, <<next[y], w>> \in C
              PROVE  <<y, step[<<y, w>>]>> \in C
          <5>1. <<y, step[<<y, w>>]>> \in Graph
            BY <1>1, <4>2 DEF Closed
          <5>2. y = x => w = v
            BY <3>2, <4>2
          <5> QED BY <5>1, <5>2 DEF a
        <4> QED BY <4>1, <4>2 DEF Closed
      <3>6. Graph \subseteq C
        BY <1>2, <3>4, <3>5
      <3>7. \A w \in V : <<x, w>> \in Graph => w = a
        BY <3>6
      <3>8. <<x, a>> \in Graph
        BY <1>1, <2>3, <3>2 DEF Closed, a
      <3> QED BY <3>3, <3>7, <3>8 DEF Once
    <2> QED BY <2>2, <2>3
  <1> DEFINE f == [x \in D |-> CHOOSE v \in V : <<x, v>> \in Graph]
  <1>4. \A x \in D : f[x] \in V /\ <<x, f[x]>> \in Graph
          /\ \A w \in V : <<x, w>> \in Graph => w = f[x]
    <2> HIDE DEF Graph
    <2> QED BY <1>3
  <1>5. f \in [D -> V]
    BY <1>4
  <1>6. ASSUME NEW x \in Base PROVE f[x] = b[x]
    <2>1. <<x, b[x]>> \in Graph
      BY <1>1
    <2> HIDE DEF Graph, f
    <2> QED BY <1>4, <2>1
  <1>7. ASSUME NEW x \in D \ Base PROVE f[x] = step[<<x, f[next[x]]>>]
    <2>1. <<next[x], f[next[x]]>> \in Graph /\ f[next[x]] \in V
      BY <1>4
    <2>2. step[<<x, f[next[x]]>>] \in V
      BY <2>1
    <2>3. <<x, step[<<x, f[next[x]]>>]>> \in Graph
      <3> HIDE DEF Graph, f
      <3> QED BY <1>1, <2>1
    <2> HIDE DEF Graph, f
    <2> QED BY <1>4, <2>2, <2>3
  <1> HIDE DEF f, Graph
  <1> QED BY <1>5, <1>6, <1>7 DEF Recursive

(* Recursion from each position up to the n-th to a later one.             *)
Behind(n) == {p \in (Nat \ {0}) \X (Nat \ {0}) : p[1] > p[2] /\ p[2] <= n}

LEMMA BehindWellFounded ==
  ASSUME NEW n \in Nat
  PROVE  IsWellFoundedOn(Behind(n), Nat \ {0})
  <1> DEFINE R == Behind(n)
  <1> SUFFICES ASSUME NEW f \in [Nat -> Nat \ {0}], \A k \in Nat : <<f[k + 1], f[k]>> \in R
               PROVE  FALSE
    BY DEF IsWellFoundedOn
  <1> DEFINE T == {n - f[k] : k \in Nat}
  <1>1. \A k \in Nat : f[k + 1] > f[k] /\ f[k] <= n
    BY DEF Behind
  <1>2. T \subseteq Nat
    BY <1>1
  <1>3. T # {}
    <2>1. n - f[0] \in T
      OBVIOUS
    <2> QED BY <2>1
  <1>4. PICK t \in T : \A u \in T : t <= u
    <2> HIDE DEF T
    <2> QED BY <1>2, <1>3, LeastNatural
  <1>5. PICK k \in Nat : t = n - f[k]
    BY <1>4
  <1>6. t <= n - f[k + 1]
    <2>1. n - f[k + 1] \in T
      OBVIOUS
    <2> QED BY <1>4, <2>1
  <1>7. f[k + 1] \in Nat /\ f[k] \in Nat
    OBVIOUS
  <1>8. f[k + 1] > f[k]
    BY <1>1
  <1> HIDE DEF T
  <1> QED BY <1>5, <1>6, <1>7, <1>8

(* Recursion over the subsets of a finite set, one element less each time. *)
IsSubsetRecursion(S, V, base, pick, step) ==
  /\ IsFiniteSet(S)
  /\ base \in V
  /\ \A s \in (SUBSET S) \ {{}} : pick[s] \in s
  /\ step \in [((SUBSET S) \ {{}}) \X V -> V]

SubsetRecursive(f, S, V, base, pick, step) ==
  /\ f \in [SUBSET S -> V]
  /\ f[{}] = base
  /\ \A s \in (SUBSET S) \ {{}} : f[s] = step[<<s, f[s \ {pick[s]}]>>]

LEMMA SubsetRecursion ==
  ASSUME NEW S, NEW V, NEW base, NEW pick, NEW step,
         IsSubsetRecursion(S, V, base, pick, step)
  PROVE  \E f : SubsetRecursive(f, S, V, base, pick, step)
  <1> USE DEF IsSubsetRecursion
  <1> DEFINE D == SUBSET S
             R == StrictSubsetOrdering(S)
             Base == {{}}
             b == [s \in Base |-> base]
             next == [s \in D \ Base |-> s \ {pick[s]}]
  <1>1. IsWellFoundedOn(R, FiniteSubsetsOf(S))
    BY FS_StrictSubsetOrderingWellFounded
  <1>2. IsWellFoundedOn(R, D)
    <2>1. FiniteSubsetsOf(S) = D
      BY FS_Subset DEF FiniteSubsetsOf
    <2> HIDE DEF D, R
    <2> QED BY <1>1, <2>1
  <1>3. Base \in SUBSET D /\ b \in [Base -> V] /\ next \in [D \ Base -> D]
    OBVIOUS
  <1>4. \A s \in D \ Base : <<next[s], s>> \in R
    BY DEF StrictSubsetOrdering
  <1>5. step \in [(D \ Base) \X V -> V]
    OBVIOUS
  <1> HIDE DEF R, b, next, D, Base
  <1>6. IsRecursion(D, R, V, Base, b, next, step)
    BY <1>2, <1>3, <1>4, <1>5 DEF IsRecursion
  <1>7. PICK f : Recursive(f, D, V, Base, b, next, step)
    BY <1>6, RecursiveFunction
  <1> QED BY <1>7 DEF Recursive, SubsetRecursive, D, Base, b, next

(* What holds at 0 and goes on from each number to the next, up to n. *)
LEMMA Counting ==
  ASSUME NEW n \in Nat, NEW P, 0 \in P, \A k \in 1 .. n : k - 1 \in P => k \in P
  PROVE  \A k \in 0 .. n : k \in P
  <1> DEFINE T == {k \in 0 .. n : k \notin P}
  <1> SUFFICES ASSUME T # {} PROVE FALSE
    OBVIOUS
  <1>1. PICK k \in T : \A m \in T : k <= m
    <2>1. T \subseteq Nat
      OBVIOUS
    <2> HIDE DEF T
    <2> QED BY <2>1, LeastNatural
  <1>2. k \in 1 .. n /\ k - 1 \in 0 .. n
    OBVIOUS
  <1>3. k - 1 \notin T
    BY <1>1, <1>2
  <1> QED BY <1>2, <1>3

(* A function on 1 .. n whose value at each argument is computed from its  *)
(* values at larger ones - which are as V says - exists.                   *)
IsBackward(n, U, V, step) ==
  /\ U # {} /\ \A i \in 1 .. n : V[i] \subseteq U
  /\ \A i \in 1 .. n, f \in [1 .. n -> U] :
       (\A j \in i + 1 .. n : f[j] \in V[j]) => step[<<i, f>>] \in V[i]
  /\ \A i \in 1 .. n, f \in [1 .. n -> U], g \in [1 .. n -> U] :
       (\A j \in i + 1 .. n : f[j] \in V[j] /\ g[j] = f[j]) => step[<<i, f>>] = step[<<i, g>>]

Backward(f, n, U, V, step) ==
  /\ f \in [1 .. n -> U]
  /\ \A i \in 1 .. n : f[i] \in V[i] /\ f[i] = step[<<i, f>>]

LEMMA BackwardFunction ==
  ASSUME NEW n \in Nat, NEW U, NEW V, NEW step, IsBackward(n, U, V, step)
  PROVE  \E f : Backward(f, n, U, V, step)
  <1> DEFINE Done(f, k) == \A i \in n - k + 1 .. n : f[i] \in V[i] /\ f[i] = step[<<i, f>>]
             P == {k \in 0 .. n : \E f \in [1 .. n -> U] : Done(f, k)}
  <1>1. 0 \in P
    <2>1. PICK u \in U : TRUE
      BY DEF IsBackward
    <2>2. [i \in 1 .. n |-> u] \in [1 .. n -> U]
      BY <2>1
    <2>3. 0 \in 0 .. n /\ \A i \in n - 0 + 1 .. n : FALSE
      OBVIOUS
    <2>4. \A f : Done(f, 0)
      BY <2>3, Zenon
    <2> HIDE DEF Done
    <2> QED BY <2>2, <2>3, <2>4, Zenon
  <1>2. ASSUME NEW k \in 1 .. n, k - 1 \in P PROVE k \in P
    <2>1. PICK f \in [1 .. n -> U] : Done(f, k - 1)
      BY <1>2
    <2> DEFINE m == n - k + 1
               g == [f EXCEPT ![m] = step[<<m, f>>]]
    <2>2. m \in 1 .. n /\ n - (k - 1) + 1 = m + 1
      OBVIOUS
    <2> HIDE DEF m
    <2>3. step[<<m, f>>] \in V[m] /\ V[m] \subseteq U
      BY <2>1, <2>2 DEF IsBackward
    <2>4. g \in [1 .. n -> U] /\ g[m] = step[<<m, f>>]
      BY <2>2, <2>3
    <2>5. \A j \in 1 .. n : j # m => g[j] = f[j]
      OBVIOUS
    <2> HIDE DEF g
    <2>6. ASSUME NEW i \in m + 1 .. n PROVE i \in 1 .. n /\ i # m /\ f[i] \in V[i] /\ g[i] = f[i]
      <3>1. i \in 1 .. n /\ i # m
        BY <2>2
      <3>2. i \in n - (k - 1) + 1 .. n
        BY <2>2
      <3>3. f[i] \in V[i]
        BY <2>1, <3>2, Zenon
      <3> QED BY <2>5, <3>1, <3>3, Zenon
    <2>7. ASSUME NEW i \in m .. n
          PROVE  i \in 1 .. n /\ step[<<i, f>>] = step[<<i, g>>]
      <3>1. i \in 1 .. n /\ \A j \in i + 1 .. n : j \in m + 1 .. n
        BY <2>2
      <3>2. \A j \in i + 1 .. n : f[j] \in V[j] /\ g[j] = f[j]
        BY <2>6, <3>1, Zenon
      <3> QED BY <2>4, <3>1, <3>2, Zenon DEF IsBackward
    <2>8. ASSUME NEW i \in m .. n PROVE g[i] \in V[i] /\ g[i] = step[<<i, g>>]
      <3>1. CASE i = m
        BY <2>3, <2>4, <2>7, <3>1
      <3>2. CASE i # m
        <4>1. i \in m + 1 .. n
          BY <2>2, <3>2
        <4>2. f[i] = step[<<i, f>>]
          BY <2>1, <2>2, <4>1
        <4> QED BY <2>6, <2>7, <4>1, <4>2
      <3> QED BY <3>1, <3>2
    <2> QED BY <2>4, <2>8 DEF m
  <1> HIDE DEF P
  <1>3. n \in P
    <2>1. \A k \in 1 .. n : k - 1 \in P => k \in P
      BY <1>2
    <2> QED BY <1>1, <2>1, Counting
  <1>4. PICK f \in [1 .. n -> U] : Done(f, n)
    BY <1>3 DEF P
  <1> QED BY <1>4 DEF Backward

(* The values of a variable before a loop and after each of its n turns. *)
Loop(f, n, V, b, step) ==
  /\ f \in [0 .. n -> V]
  /\ f[0] = b
  /\ \A k \in 1 .. n : f[k] = step[<<k, f[k - 1]>>]

LEMMA LoopFunction ==
  ASSUME NEW n \in Nat, NEW V, NEW b \in V, NEW step, step \in [(1 .. n) \X V -> V]
  PROVE  \E f : Loop(f, n, V, b, step)
  <1> DEFINE D == 0 .. n
             R == OpToRel(<, Nat)
             Base == {0}
             base == [k \in Base |-> b]
             next == [k \in D \ Base |-> k - 1]
  <1>1. IsWellFoundedOn(R, D)
    <2>1. D \subseteq Nat
      OBVIOUS
    <2> HIDE DEF D, R
    <2>2. IsWellFoundedOn(R, Nat)
      BY NatLessThanWellFounded DEF R
    <2> QED BY <2>1, <2>2, IsWellFoundedOnSubset
  <1>2. Base \in SUBSET D /\ base \in [Base -> V] /\ next \in [D \ Base -> D]
    OBVIOUS
  <1>3. \A k \in D \ Base : <<next[k], k>> \in R
    BY DEF OpToRel
  <1>4. D \ Base = 1 .. n
    OBVIOUS
  <1>5. \A k \in 1 .. n : next[k] = k - 1 /\ k \in D \ Base
    BY <1>4
  <1> HIDE DEF D, R, Base, next
  <1>6. IsRecursion(D, R, V, Base, base, next, step)
    BY <1>1, <1>2, <1>3, <1>4 DEF IsRecursion
  <1> HIDE DEF base
  <1>7. PICK f : Recursive(f, D, V, Base, base, next, step)
    BY <1>6, RecursiveFunction
  <1>8. f \in [0 .. n -> V]
    BY <1>7 DEF Recursive, D
  <1>9. f[0] = b
    <2>1. 0 \in D /\ 0 \in Base /\ base[0] = b
      BY DEF D, Base, base
    <2> QED BY <1>7, <2>1 DEF Recursive
  <1>10. ASSUME NEW k \in 1 .. n PROVE f[k] = step[<<k, f[k - 1]>>]
    <2>1. k \in D /\ k \notin Base /\ next[k] = k - 1
      BY <1>5
    <2>2. f[k] = IF k \in Base THEN base[k] ELSE step[<<k, f[next[k]]>>]
      BY <1>7, <2>1 DEF Recursive
    <2> QED BY <2>1, <2>2
  <1> QED BY <1>8, <1>9, <1>10 DEF Loop

-----------------------------------------------------------------------------
(* Sums over finite sets, as MapThenSumSet takes them. *)

SumOf(size, S) == MapThenSumSet(LAMBDA k : size[k], S)

Some(s) == CHOOSE x \in s : TRUE

(* The recursion under a sum, on all subsets of a finite set. *)
Sums(size, S, f) ==
  f = [s \in SUBSET S |-> IF s = {} THEN 0 ELSE size[Some(s)] + f[s \ {Some(s)}]]

LEMMA SumsExist ==
  ASSUME NEW S, IsFiniteSet(S), NEW size, \A k \in S : size[k] \in Nat
  PROVE  \E f \in [SUBSET S -> Nat] : Sums(size, S, f)
  <1> DEFINE pick == [s \in SUBSET S |-> Some(s)]
             step == [p \in ((SUBSET S) \ {{}}) \X Nat |-> size[pick[p[1]]] + p[2]]
  <1>1. \A s \in (SUBSET S) \ {{}} : pick[s] \in s
    BY DEF Some
  <1>2. step \in [((SUBSET S) \ {{}}) \X Nat -> Nat]
    <2> HIDE DEF pick
    <2>1. ASSUME NEW p \in ((SUBSET S) \ {{}}) \X Nat
          PROVE  size[pick[p[1]]] + p[2] \in Nat
      <3> HIDE DEF step
      <3>1. p[1] \in (SUBSET S) \ {{}} /\ p[2] \in Nat
        OBVIOUS
      <3> QED BY <1>1, <3>1
    <2> QED BY <2>1, Zenon
  <1> HIDE DEF step
  <1>3. PICK f : SubsetRecursive(f, S, Nat, 0, pick, step)
    <2> HIDE DEF pick
    <2>1. IsSubsetRecursion(S, Nat, 0, pick, step)
      BY <1>1, <1>2 DEF IsSubsetRecursion
    <2> QED BY <2>1, SubsetRecursion
  <1> DEFINE g == [s \in SUBSET S |-> IF s = {} THEN 0 ELSE size[Some(s)] + f[s \ {Some(s)}]]
  <1>4. \A s \in SUBSET S : f[s] = g[s]
    BY <1>1, <1>3 DEF step, SubsetRecursive
  <1>5. f \in [SUBSET S -> Nat] /\ f = [s \in SUBSET S |-> f[s]] /\ g = [s \in SUBSET S |-> g[s]]
    BY <1>3 DEF SubsetRecursive
  <1> HIDE DEF g
  <1>6. f = g
    BY <1>4, <1>5, Zenon
  <1> QED BY <1>5, <1>6 DEF g, Sums

LEMMA SumIsOne ==
  ASSUME NEW S, IsFiniteSet(S), NEW size, \A k \in S : size[k] \in Nat
  PROVE  \E f : Sums(size, S, f) /\ SumOf(size, S) = f[S]
  <1> DEFINE f == CHOOSE f : Sums(size, S, f)
  <1>1. Sums(size, S, f)
    <2>1. \E h : Sums(size, S, h)
      BY SumsExist
    <2> QED BY <2>1
  <1>2. SumOf(size, S) = f[S]
    BY DEF SumOf, MapThenSumSet, MapThenFoldSet, Sums, Some
  <1> QED BY <1>1, <1>2

(* Two such recursions agree wherever both are defined. *)
LEMMA SumsAgree ==
  ASSUME NEW S, NEW U, NEW T, IsFiniteSet(T), T \subseteq S, T \subseteq U,
         NEW size, NEW f, NEW g, Sums(size, S, f), Sums(size, U, g)
  PROVE  f[T] = g[T]
  <1> DEFINE F == {t \in SUBSET T : f[t] # g[t]}
  <1> SUFFICES ASSUME F # {} PROVE FALSE
    OBVIOUS
  <1>1. PICK t \in F : \A u \in F : ~ (u \subseteq t /\ u # t)
    <2>1. F \subseteq SUBSET T
      OBVIOUS
    <2> HIDE DEF F
    <2> QED BY <2>1, MinimalSet
  <1>2. t # {}
    BY DEF Sums
  <1>3. Some(t) \in t
    BY <1>2 DEF Some
  <1>4. f[t \ {Some(t)}] = g[t \ {Some(t)}]
    BY <1>1, <1>3
  <1>5. f[t] = size[Some(t)] + f[t \ {Some(t)}] /\ g[t] = size[Some(t)] + g[t \ {Some(t)}]
    BY <1>2 DEF Sums
  <1> QED BY <1>4, <1>5

(* One function gives the sums over all subsets. *)
AllSums(size, S, f) ==
  /\ f \in [SUBSET S -> Nat]
  /\ Sums(size, S, f)
  /\ \A T \in SUBSET S : SumOf(size, T) = f[T]

LEMMA SumOfSubset ==
  ASSUME NEW S, IsFiniteSet(S), NEW size, \A k \in S : size[k] \in Nat
  PROVE  \E f : AllSums(size, S, f)
  <1>1. PICK f \in [SUBSET S -> Nat] : Sums(size, S, f)
    BY SumsExist
  <1>2. ASSUME NEW T \in SUBSET S PROVE SumOf(size, T) = f[T]
    <2>1. IsFiniteSet(T)
      BY FS_Subset
    <2>2. PICK g : Sums(size, T, g) /\ SumOf(size, T) = g[T]
      BY <2>1, SumIsOne
    <2> QED BY <1>1, <2>1, <2>2, SumsAgree
  <1> QED BY <1>1, <1>2 DEF AllSums

LEMMA SumEmpty ==
  ASSUME NEW size PROVE SumOf(size, {}) = 0
  <1>1. IsFiniteSet({})
    BY FS_EmptySet
  <1>2. PICK f : Sums(size, {}, f) /\ SumOf(size, {}) = f[{}]
    BY <1>1, SumIsOne
  <1> QED BY <1>2 DEF Sums

LEMMA SumType ==
  ASSUME NEW S, IsFiniteSet(S), NEW size, \A k \in S : size[k] \in Nat
  PROVE  SumOf(size, S) \in Nat
  <1>1. PICK f : AllSums(size, S, f)
    BY SumOfSubset
  <1> QED BY <1>1 DEF AllSums

(* Any element may be taken out first. *)
LEMMA SumRemove ==
  ASSUME NEW S, IsFiniteSet(S), NEW size, \A k \in S : size[k] \in Nat, NEW k \in S
  PROVE  SumOf(size, S) = size[k] + SumOf(size, S \ {k})
  <1>1. PICK f : AllSums(size, S, f)
    BY SumOfSubset
  <1> DEFINE F == {t \in SUBSET S : \E j \in t : f[t] # size[j] + f[t \ {j}]}
  <1>2. F = {}
    <2> SUFFICES ASSUME F # {} PROVE FALSE
      OBVIOUS
    <2>1. PICK t \in F : \A u \in F : ~ (u \subseteq t /\ u # t)
      <3>1. F \subseteq SUBSET S
        OBVIOUS
      <3> HIDE DEF F
      <3> QED BY <3>1, MinimalSet
    <2>2. PICK j \in t : f[t] # size[j] + f[t \ {j}]
      OBVIOUS
    <2> DEFINE x == Some(t)
    <2>3. x \in t
      BY <2>2 DEF Some
    <2>4. f[t] = size[x] + f[t \ {x}]
      BY <1>1, <2>2 DEF AllSums, Sums
    <2> HIDE DEF x
    <2>5. x # j
      BY <2>2, <2>4
    <2>6. t \ {x} \notin F /\ t \ {j} \notin F
      BY <2>1, <2>2, <2>3
    <2>7. f[t \ {x}] = size[j] + f[(t \ {x}) \ {j}] /\ f[t \ {j}] = size[x] + f[(t \ {j}) \ {x}]
      BY <2>2, <2>3, <2>5, <2>6
    <2>8. (t \ {x}) \ {j} = (t \ {j}) \ {x} /\ (t \ {j}) \ {x} \in SUBSET S
      OBVIOUS
    <2>9. size[x] \in Nat /\ size[j] \in Nat /\ f[(t \ {j}) \ {x}] \in Nat
      BY <1>1, <2>2, <2>3, <2>8 DEF AllSums
    <2> HIDE DEF F
    <2>10. f[t] = size[x] + (size[j] + f[(t \ {j}) \ {x}])
             /\ f[t \ {j}] = size[x] + f[(t \ {j}) \ {x}]
      BY <2>4, <2>7, <2>8
    <2> QED BY <2>2, <2>9, <2>10
  <1>3. f[S] = size[k] + f[S \ {k}]
    BY <1>2
  <1> QED BY <1>1, <1>3 DEF AllSums

LEMMA SumAdd ==
  ASSUME NEW S, IsFiniteSet(S), NEW size, \A k \in S : size[k] \in Nat,
         NEW k, k \notin S, size[k] \in Nat
  PROVE  SumOf(size, S \cup {k}) = size[k] + SumOf(size, S)
  <1> DEFINE T == S \cup {k}
  <1>1. IsFiniteSet(T)
    BY FS_AddElement
  <1>2. k \in T /\ \A j \in T : size[j] \in Nat
    OBVIOUS
  <1>3. T \ {k} = S
    OBVIOUS
  <1> HIDE DEF T
  <1>4. SumOf(size, T) = size[k] + SumOf(size, T \ {k})
    BY <1>1, <1>2, SumRemove
  <1>5. SumOf(size, T) = size[k] + SumOf(size, S)
    BY <1>3, <1>4, Zenon
  <1> QED BY <1>5 DEF T

(* The sum over two sets without a common element. *)
LEMMA SumUnion ==
  ASSUME NEW S, IsFiniteSet(S), NEW T, IsFiniteSet(T), S \cap T = {},
         NEW size, \A k \in S \cup T : size[k] \in Nat
  PROVE  SumOf(size, S \cup T) = SumOf(size, S) + SumOf(size, T)
  <1> DEFINE F == {t \in SUBSET T : SumOf(size, S \cup t) # SumOf(size, S) + SumOf(size, t)}
  <1> SUFFICES ASSUME F # {} PROVE FALSE
    OBVIOUS
  <1>1. PICK t \in F : \A u \in F : ~ (u \subseteq t /\ u # t)
    <2>1. F \subseteq SUBSET T
      OBVIOUS
    <2> HIDE DEF F
    <2> QED BY <2>1, MinimalSet
  <1>2. SumOf(size, S) \in Nat
    BY SumType
  <1>3. PICK k \in t : TRUE
    <2>1. CASE t = {}
      BY <1>1, <1>2, <2>1, SumEmpty
    <2> QED BY <2>1
  <1>4. IsFiniteSet(t) /\ IsFiniteSet(S \cup t) /\ IsFiniteSet(t \ {k})
    BY FS_Subset, FS_Union
  <1>5. SumOf(size, t) = size[k] + SumOf(size, t \ {k})
    BY <1>3, <1>4, SumRemove
  <1>6. SumOf(size, S \cup t) = size[k] + SumOf(size, (S \cup t) \ {k})
    BY <1>3, <1>4, SumRemove
  <1>7. (S \cup t) \ {k} = S \cup (t \ {k})
    BY <1>3
  <1>8. SumOf(size, S \cup (t \ {k})) = SumOf(size, S) + SumOf(size, t \ {k})
    BY <1>1, <1>3
  <1>9. size[k] \in Nat /\ SumOf(size, t \ {k}) \in Nat
    BY <1>3, <1>4, SumType
  <1> QED BY <1>2, <1>5, <1>6, <1>7, <1>8, <1>9

(* A smaller set has no larger sum. *)
LEMMA SumMonotonic ==
  ASSUME NEW S, IsFiniteSet(S), NEW T, T \subseteq S,
         NEW size, \A k \in S : size[k] \in Nat
  PROVE  SumOf(size, T) <= SumOf(size, S)
  <1>1. IsFiniteSet(T) /\ IsFiniteSet(S \ T)
    BY FS_Subset
  <1>2. S = T \cup (S \ T)
    OBVIOUS
  <1>3. SumOf(size, S) = SumOf(size, T) + SumOf(size, S \ T)
    BY <1>1, <1>2, SumUnion
  <1>4. SumOf(size, T) \in Nat /\ SumOf(size, S \ T) \in Nat
    BY <1>1, SumType
  <1> QED BY <1>3, <1>4

(* Only the sizes of the elements count. *)
LEMMA SumOfEqualSizes ==
  ASSUME NEW S, IsFiniteSet(S), NEW size, NEW other,
         \A k \in S : size[k] \in Nat /\ other[k] = size[k]
  PROVE  SumOf(other, S) = SumOf(size, S)
  <1> DEFINE F == {t \in SUBSET S : SumOf(other, t) # SumOf(size, t)}
  <1> SUFFICES ASSUME F # {} PROVE FALSE
    OBVIOUS
  <1>1. PICK t \in F : \A u \in F : ~ (u \subseteq t /\ u # t)
    <2>1. F \subseteq SUBSET S
      OBVIOUS
    <2> HIDE DEF F
    <2> QED BY <2>1, MinimalSet
  <1>2. t # {}
    BY <1>1, SumEmpty
  <1>3. PICK k \in t : TRUE
    BY <1>2
  <1>4. IsFiniteSet(t)
    BY FS_Subset
  <1>5. SumOf(size, t) = size[k] + SumOf(size, t \ {k})
          /\ SumOf(other, t) = other[k] + SumOf(other, t \ {k})
    BY <1>3, <1>4, SumRemove
  <1>6. SumOf(other, t \ {k}) = SumOf(size, t \ {k})
    BY <1>1, <1>3
  <1> QED BY <1>1, <1>5, <1>6

-----------------------------------------------------------------------------
(* Finite sets put in order. *)

LEMMA LargestElement ==
  ASSUME NEW T, IsFiniteSet(T), T # {}, NEW rank, \A k \in T : rank[k] \in Nat
  PROVE  \E k \in T : \A j \in T : rank[j] <= rank[k]
  <1> DEFINE Up(k) == {j \in T : rank[j] >= rank[k]}
             F == {Up(k) : k \in T}
  <1>1. F \subseteq SUBSET T /\ F # {}
    OBVIOUS
  <1>2. PICK s \in F : \A t \in F : ~ (t \subseteq s /\ t # s)
    <2> HIDE DEF F
    <2> QED BY <1>1, MinimalSet
  <1>3. PICK k \in T : s = Up(k)
    BY <1>2
  <1>4. ASSUME NEW j \in T, ~ (rank[j] <= rank[k]) PROVE FALSE
    <2>1. Up(j) \in F
      OBVIOUS
    <2>2. Up(j) \subseteq Up(k) /\ k \in Up(k) /\ k \notin Up(j)
      BY <1>4
    <2> HIDE DEF F, Up
    <2> QED BY <1>2, <1>3, <2>1, <2>2
  <1> QED BY <1>4

Sorted(s, rank) == \A i, j \in DOMAIN s : i < j => rank[s[i]] < rank[s[j]]

(* A set whose elements all have another rank can be sorted by it. *)
LEMMA OrderExists ==
  ASSUME NEW T, IsFiniteSet(T), NEW rank, \A k \in T : rank[k] \in Nat,
         \A j, k \in T : rank[j] = rank[k] => j = k
  PROVE  \E s \in SetToSeqs(T) : Sorted(s, rank)
  <1> DEFINE F == {t \in SUBSET T : ~ \E s \in SetToSeqs(t) : Sorted(s, rank)}
  <1> SUFFICES ASSUME F # {} PROVE FALSE
    OBVIOUS
  <1>1. PICK t \in F : \A u \in F : ~ (u \subseteq t /\ u # t)
    <2>1. F \subseteq SUBSET T
      OBVIOUS
    <2> HIDE DEF F
    <2> QED BY <2>1, MinimalSet
  <1>2. IsFiniteSet(t) /\ Cardinality(t) \in Nat
    BY FS_Subset, FS_CardinalityType
  <1>3. t # {}
    <2> SUFFICES ASSUME t = {} PROVE FALSE
      OBVIOUS
    <2>1. Cardinality(t) = 0
      BY FS_EmptySet
    <2> DEFINE s == [i \in 1 .. 0 |-> {}]
    <2>2. s \in SetToSeqs(t)
      BY <2>1 DEF SetToSeqs
    <2>3. Sorted(s, rank)
      BY DEF Sorted
    <2> QED BY <2>2, <2>3
  <1>4. PICK k \in t : \A j \in t : rank[j] <= rank[k]
    BY <1>2, <1>3, LargestElement
  <1> DEFINE u == t \ {k}
             n == Cardinality(t)
  <1>5. Cardinality(u) = n - 1 /\ n \in Nat /\ n - 1 \in Nat
    <2>1. IsFiniteSet(u) /\ Cardinality(u) = Cardinality(t) - 1
      BY <1>2, FS_RemoveElement
    <2>2. Cardinality(u) \in Nat
      BY <2>1, FS_CardinalityType
    <2> QED BY <1>2, <2>1, <2>2
  <1>6. PICK s \in SetToSeqs(u) : Sorted(s, rank)
    BY <1>1, <1>4
  <1>7. s \in [1 .. n - 1 -> u] /\ \A i, j \in 1 .. n - 1 : i # j => s[i] # s[j]
    BY <1>5, <1>6 DEF SetToSeqs
  <1> HIDE DEF u, n
  <1> DEFINE o == [i \in 1 .. n |-> IF i = n THEN k ELSE s[i]]
  <1>8. \A i \in 1 .. n : i # n => i \in 1 .. n - 1
    BY <1>5
  <1>9. o \in [1 .. n -> t]
    BY <1>7, <1>8 DEF u
  <1>10. \A i, j \in 1 .. n : i # j => o[i] # o[j]
    BY <1>7, <1>8 DEF u
  <1>11. o \in SetToSeqs(t)
    <2> HIDE DEF o
    <2> QED BY <1>9, <1>10 DEF SetToSeqs, n
  <1>12. Sorted(o, rank)
    <2> SUFFICES ASSUME NEW i \in 1 .. n, NEW j \in 1 .. n, i < j
                 PROVE  rank[o[i]] < rank[o[j]]
      BY DEF Sorted
    <2>1. i \in 1 .. n - 1 /\ o[i] = s[i] /\ s[i] \in u
      BY <1>5, <1>7
    <2>2. CASE j = n
      <3>1. o[j] = k /\ s[i] \in t /\ s[i] # k
        BY <2>1, <2>2 DEF u
      <3>2. rank[s[i]] <= rank[k] /\ rank[s[i]] # rank[k] /\ rank[s[i]] \in Nat /\ rank[k] \in Nat
        BY <1>4, <3>1
      <3> QED BY <2>1, <3>1, <3>2
    <2>3. CASE j # n
      <3>1. j \in 1 .. n - 1 /\ o[j] = s[j]
        BY <1>5, <2>3
      <3> QED BY <1>6, <1>7, <2>1, <3>1 DEF Sorted
    <2> QED BY <2>2, <2>3
  <1> QED BY <1>11, <1>12

(* An order of a set holds all of its elements. *)
LEMMA OrderCovers ==
  ASSUME NEW T, IsFiniteSet(T), NEW s \in SetToSeqs(T)
  PROVE  /\ Cardinality(T) \in Nat
         /\ s \in [1 .. Cardinality(T) -> T]
         /\ \A i, j \in 1 .. Cardinality(T) : i # j => s[i] # s[j]
         /\ T = {s[i] : i \in 1 .. Cardinality(T)}
  <1> DEFINE n == Cardinality(T)
  <1>1. n \in Nat
    BY FS_CardinalityType
  <1>2. s \in [1 .. n -> T] /\ \A i, j \in 1 .. n : i # j => s[i] # s[j]
    BY DEF SetToSeqs
  <1>3. ASSUME NEW x \in T, x \notin {s[i] : i \in 1 .. n} PROVE FALSE
    <2>1. IsFiniteSet(T \ {x}) /\ Cardinality(T \ {x}) = n - 1
      BY FS_RemoveElement
    <2>2. IsFiniteSet(1 .. n) /\ Cardinality(1 .. n) = n
      BY <1>1, FS_Interval
    <2>3. s \in [1 .. n -> T \ {x}]
      BY <1>2, <1>3
    <2> HIDE DEF n
    <2>4. \E i, j \in 1 .. n : i # j /\ s[i] = s[j]
      BY <1>1, <2>1, <2>2, <2>3, FS_PigeonHole
    <2> QED BY <1>2, <2>4
  <1> QED BY <1>1, <1>2, <1>3

-----------------------------------------------------------------------------
(* Sequences: pieces of them, and pieces put together. *)

Regrouped(s, t, v) == (s \o t) \o v = s \o (t \o v)

LEMMA Regrouping ==
  ASSUME NEW S, NEW s \in Seq(S), NEW t \in Seq(S), NEW v \in Seq(S)
  PROVE  Regrouped(s, t, v)
  BY ConcatAssociative DEF Regrouped

(* Two texts, one behind the other.                                        *)
IsConcat(z, s, t) ==
  /\ Len(s) \in Nat /\ Len(t) \in Nat /\ Len(z) = Len(s) + Len(t)
  /\ \A j \in 1 .. Len(s) : z[j] = s[j]
  /\ \A j \in 1 .. Len(t) : z[Len(s) + j] = t[j]

LEMMA Concatenation ==
  ASSUME NEW S, NEW s \in Seq(S), NEW t \in Seq(S), NEW z, z = s \o t
  PROVE  z \in Seq(S) /\ IsConcat(z, s, t)
  <1>1. /\ z \in Seq(S) /\ Len(z) = Len(s) + Len(t)
        /\ \A i \in 1 .. Len(s) + Len(t) : z[i] = IF i <= Len(s) THEN s[i] ELSE t[i - Len(s)]
    BY ConcatProperties
  <1>2. Len(s) \in Nat /\ Len(t) \in Nat
    BY LenProperties
  <1>3. ASSUME NEW j \in 1 .. Len(s) PROVE z[j] = s[j]
    <2>1. j \in 1 .. Len(s) + Len(t) /\ j <= Len(s)
      BY <1>2
    <2> QED BY <1>1, <2>1
  <1>4. ASSUME NEW j \in 1 .. Len(t) PROVE z[Len(s) + j] = t[j]
    <2>1. Len(s) + j \in 1 .. Len(s) + Len(t) /\ ~ (Len(s) + j <= Len(s)) /\ Len(s) + j - Len(s) = j
      BY <1>2
    <2> QED BY <1>1, <2>1
  <1> QED BY <1>1, <1>2, <1>3, <1>4 DEF IsConcat

InTwo(text, j) == text = SubSeq(text, 1, j) \o SubSeq(text, j + 1, Len(text))

LEMMA CutInTwo ==
  ASSUME NEW S, NEW text \in Seq(S), NEW j \in 0 .. Len(text)
  PROVE  InTwo(text, j)
  <1> DEFINE n == Len(text)
  <1>1. n \in Nat
    BY LenProperties
  <1>2. 1 \in 1 .. Len(text) + 1 /\ j \in 1 - 1 .. Len(text) /\ Len(text) \in j .. Len(text)
    BY <1>1
  <1>3. SubSeq(text, 1, j) \o SubSeq(text, j + 1, Len(text)) = SubSeq(text, 1, Len(text))
    BY <1>2, ConcatAdjacentSubSeq
  <1>4. SubSeq(text, 1, Len(text)) = text
    BY SubSeqFull
  <1> QED BY <1>3, <1>4, Zenon DEF InTwo

LEMMA SubSeqType ==
  ASSUME NEW S, NEW s \in Seq(S), NEW k \in 0 .. Len(s)
  PROVE  SubSeq(s, 1, k) \in Seq(S)
  <1>1. Len(s) \in Nat
    BY LenProperties
  <1>2. \A j \in 1 .. k : j \in 1 .. Len(s)
    BY <1>1
  <1>3. k \in Int /\ \A j \in 1 .. k : s[j] \in S
    BY <1>1, <1>2, ElementOfSeq
  <1> QED BY <1>3, SubSeqProperties

(* One element more of a sequence.                                         *)
OneMore(s, k) ==
  /\ SubSeq(s, 1, k) = SubSeq(s, 1, k - 1) \o <<s[k]>>
  /\ SubSeq(s, 1, k) = Append(SubSeq(s, 1, k - 1), s[k])

LEMMA SubSeqGrows ==
  ASSUME NEW S, NEW s \in Seq(S), NEW k \in 1 .. Len(s)
  PROVE  OneMore(s, k)
  <1>1. Len(s) \in Nat
    BY LenProperties
  <1>2. 1 \in 1 .. Len(s) /\ k \in 1 .. Len(s) /\ k - 1 \in 0 .. Len(s)
    BY <1>1
  <1>3. SubSeq(s, 1, k) = SubSeq(s, 1, k - 1) \o <<s[k]>>
    BY <1>2, SubSeqRecursiveSecond
  <1> DEFINE t == SubSeq(s, 1, k - 1)
             c == s[k]
  <1>4. t \in Seq(S) /\ c \in S
    BY <1>2, SubSeqType, ElementOfSeq
  <1> HIDE DEF t, c
  <1>5. Append(t, c) = t \o <<c>>
    BY <1>4, AppendIsConcat
  <1> QED BY <1>3, <1>5, Zenon DEF OneMore, t, c

LEMMA FrontType ==
  ASSUME NEW S, NEW s \in Seq(S)
  PROVE  /\ Front(s) \in Seq(S)
         /\ s # <<>> => Len(Front(s)) = Len(s) - 1 /\ Last(s) \in S
         /\ s = <<>> => Front(s) = <<>>
         /\ \A k \in 1 .. Len(s) - 1 : Front(s)[k] = s[k]
  <1> DEFINE n == Len(s) - 1
  <1>1. n \in Int /\ \A i \in 1 .. n : s[i] \in S
    OBVIOUS
  <1>2. s # <<>> => n >= 0 /\ Len(s) \in 1 .. Len(s)
    OBVIOUS
  <1>3. s = <<>> => n = -1
    OBVIOUS
  <1>4. Front(s) = SubSeq(s, 1, n)
    BY DEF Front
  <1> HIDE DEF n
  <1>5. /\ SubSeq(s, 1, n) \in Seq(S)
        /\ Len(SubSeq(s, 1, n)) = IF 1 <= n THEN n - 1 + 1 ELSE 0
        /\ \A i \in 1 .. n - 1 + 1 : SubSeq(s, 1, n)[i] = s[1 + i - 1]
    BY <1>1, SubSeqProperties
  <1>6. \A k \in 1 .. n : SubSeq(s, 1, n)[k] = s[k]
    BY <1>1, <1>5
  <1>7. s # <<>> => Len(SubSeq(s, 1, n)) = n
    BY <1>1, <1>2, <1>5
  <1>8. s = <<>> => SubSeq(s, 1, n) = <<>>
    BY <1>1, <1>3, SubSeqEmpty
  <1>9. s # <<>> => Last(s) \in S
    BY <1>2 DEF Last
  <1> QED BY <1>4, <1>5, <1>6, <1>7, <1>8, <1>9 DEF n

(* What a last element does to the rest.                                   *)
Appended(z, s, c) == Front(z) = s /\ Last(z) = c /\ z # <<>>

LEMMA AppendedLast ==
  ASSUME NEW S, NEW s \in Seq(S), NEW c \in S, NEW z, z = s \o <<c>>
  PROVE  z \in Seq(S) /\ Appended(z, s, c)
  <1> DEFINE t == <<c>>
             n == Len(s)
  <1>1. t \in Seq(S) /\ Len(t) = 1 /\ t[1] = c
    OBVIOUS
  <1>2. z = s \o t
    OBVIOUS
  <1> HIDE DEF t
  <1>3. z \in Seq(S) /\ IsConcat(z, s, t)
    BY <1>1, <1>2, Concatenation
  <1>4. n \in Nat /\ Len(z) = n + 1 /\ \A j \in 1 .. n : z[j] = s[j]
    BY <1>1, <1>3 DEF IsConcat
  <1>5. z[n + 1] = c
    <2>1. \A j \in 1 .. 1 : z[n + j] = t[j]
      BY <1>1, <1>3 DEF IsConcat
    <2> QED BY <1>1, <2>1
  <1>6. Last(z) = c
    BY <1>4, <1>5 DEF Last
  <1>7. z # <<>>
    <2>1. Len(z) # 0
      BY <1>4
    <2> QED BY <2>1
  <1>8. Front(z) = s
    <2>1. /\ Front(z) \in Seq(S) /\ Len(Front(z)) = Len(z) - 1
          /\ \A k \in 1 .. Len(z) - 1 : Front(z)[k] = z[k]
      BY <1>3, <1>7, FrontType
    <2>2. Len(z) - 1 = n
      BY <1>4
    <2>3. Len(Front(z)) = Len(s) /\ \A k \in 1 .. Len(Front(z)) : Front(z)[k] = s[k]
      BY <1>4, <2>1, <2>2
    <2> QED BY <2>1, <2>3, SeqEqual
  <1> QED BY <1>3, <1>6, <1>7, <1>8 DEF Appended

LEMMA FirstSelected ==
  ASSUME NEW n \in Nat, NEW I, I \subseteq 1 .. n, NEW k \in I, \A j \in I : k <= j
  PROVE  Min(I) = k
  <1>1. \E x \in I : \A y \in I : x <= y
    OBVIOUS
  <1>2. Min(I) \in I /\ \A y \in I : Min(I) <= y
    BY <1>1 DEF Min
  <1>3. k \in Int /\ Min(I) \in Int
    <2>1. \A x \in I : x \in Int
      OBVIOUS
    <2> QED BY <1>2, <2>1
  <1>4. k <= Min(I) /\ Min(I) <= k
    BY <1>2
  <1> QED BY <1>3, <1>4

LEMMA LastSelected ==
  ASSUME NEW n \in Nat, NEW I, I \subseteq 1 .. n, I # {}
  PROVE  Max(I) \in I /\ \A k \in I : k <= Max(I)
  <1> DEFINE rank == [k \in I |-> k]
  <1>1. IsFiniteSet(I)
    <2>1. IsFiniteSet(1 .. n)
      BY FS_Interval
    <2> QED BY <2>1, FS_Subset
  <1>2. \A k \in I : rank[k] = k /\ rank[k] \in Nat
    OBVIOUS
  <1> HIDE DEF rank
  <1>3. PICK m \in I : \A k \in I : rank[k] <= rank[m]
    BY <1>1, <1>2, LargestElement
  <1>4. \A k \in I : m >= k
    BY <1>2, <1>3
  <1>5. \E x \in I : \A y \in I : x >= y
    BY <1>4
  <1>6. Max(I) \in I /\ \A y \in I : Max(I) >= y
    BY <1>5 DEF Max
  <1>7. \A k \in I : k \in Int
    OBVIOUS
  <1> QED BY <1>6, <1>7

(* Texts in a row *)
(* Where the pieces of a text lie in it.                                   *)
Layout(pieces, whole, at) ==
  /\ at \in [0 .. Len(pieces) -> 0 .. Len(whole)]
  /\ at[0] = 0 /\ at[Len(pieces)] = Len(whole)
  /\ \A k \in 1 .. Len(pieces) :
       /\ at[k] = at[k - 1] + Len(pieces[k])
       /\ \A j \in 1 .. Len(pieces[k]) : whole[at[k - 1] + j] = pieces[k][j]

FlattenLoop(seqs, flatten) ==
  flatten = [i \in 1 .. Len(seqs) |->
               IF i = 1 THEN seqs[i] ELSE flatten[i - 1] \o seqs[i]]

LEMMA FlattenExists ==
  ASSUME NEW S, NEW pieces \in Seq(Seq(S)), Len(pieces) # 0
  PROVE  \E g : FlattenLoop(pieces, g)
  <1> DEFINE n == Len(pieces)
             V == Seq(S)
             step == [p \in (1 .. n - 1) \X V |-> p[2] \o pieces[p[1] + 1]]
  <1>1. n \in Nat \ {0} /\ \A k \in 1 .. n : pieces[k] \in V
    BY LenProperties, ElementOfSeq
  <1> HIDE DEF n
  <1>2. n - 1 \in Nat /\ pieces[1] \in V
    BY <1>1
  <1>3. /\ step \in [(1 .. n - 1) \X V -> V]
        /\ \A k \in 1 .. n - 1, q \in V : step[<<k, q>>] = q \o pieces[k + 1]
    <2>1. \A k \in 1 .. n - 1, q \in V : k + 1 \in 1 .. n /\ q \o pieces[k + 1] \in V
      BY <1>1, ConcatProperties
    <2> HIDE DEF V
    <2> QED BY <2>1
  <1> HIDE DEF step, V
  <1>4. PICK f : Loop(f, n - 1, V, pieces[1], step)
    BY <1>2, <1>3, LoopFunction
  <1> DEFINE g == [i \in 1 .. n |-> f[i - 1]]
  <1>5. f \in [0 .. n - 1 -> V] /\ f[0] = pieces[1]
    BY <1>4 DEF Loop
  <1>6. ASSUME NEW i \in 1 .. n
        PROVE  g[i] = IF i = 1 THEN pieces[i] ELSE g[i - 1] \o pieces[i]
    <2>1. CASE i = 1
      BY <1>5, <2>1
    <2>2. CASE i # 1
      <3> DEFINE k == i - 1
      <3>1. k \in 1 .. n - 1 /\ k - 1 \in 0 .. n - 1 /\ k + 1 = i /\ i - 1 \in 1 .. n
        BY <1>1, <2>2
      <3>2. f[k] = step[<<k, f[k - 1]>>] /\ f[k - 1] \in V
        BY <1>4, <1>5, <3>1 DEF Loop
      <3>3. f[k] = f[k - 1] \o pieces[i]
        BY <1>3, <3>1, <3>2
      <3>4. g[i] = f[k] /\ g[i - 1] = f[k - 1]
        BY <3>1
      <3> QED BY <2>2, <3>3, <3>4
    <2> QED BY <2>1, <2>2
  <1>7. g = [i \in 1 .. n |-> IF i = 1 THEN pieces[i] ELSE g[i - 1] \o pieces[i]]
    <2>1. g = [i \in 1 .. n |-> g[i]]
      OBVIOUS
    <2> HIDE DEF g
    <2> QED BY <1>6, <2>1
  <1> QED BY <1>7 DEF FlattenLoop, n

(* What has been put together after each of the pieces.                    *)
FlattenSteps(pieces, h, S) ==
  /\ h \in [0 .. Len(pieces) -> Seq(S)]
  /\ h[0] = <<>>
  /\ \A k \in 1 .. Len(pieces) : h[k] = h[k - 1] \o pieces[k]

LEMMA FlattenBySteps ==
  ASSUME NEW S, NEW pieces \in Seq(Seq(S))
  PROVE  \E h : FlattenSteps(pieces, h, S) /\ FlattenSeq(pieces) = h[Len(pieces)]
  <1> DEFINE n == Len(pieces)
             g == CHOOSE f : FlattenLoop(pieces, f)
             h == [k \in 0 .. n |-> IF k = 0 THEN <<>> ELSE g[k]]
  <1>1. n \in Nat /\ \A k \in 1 .. n : pieces[k] \in Seq(S)
    BY LenProperties, ElementOfSeq
  <1>2. FlattenSeq(pieces) = IF n = 0 THEN pieces ELSE g[n]
    BY DEF FlattenSeq, FlattenLoop
  <1>3. n # 0 => FlattenLoop(pieces, g)
    <2>1. n # 0 => \E f : FlattenLoop(pieces, f)
      BY FlattenExists
    <2> QED BY <2>1
  <1> HIDE DEF g
  <1> DEFINE turn(i) == IF i = 1 THEN pieces[i] ELSE g[i - 1] \o pieces[i]
  <1>4. n # 0 => g = [i \in 1 .. n |-> turn(i)]
    BY <1>3 DEF FlattenLoop
  <1>5. n = 0 => pieces = <<>>
    BY EmptySeq
  <1> HIDE DEF n
  <1>6. \A i \in 1 .. n : g[i] = turn(i)
    <2>1. \A i \in 1 .. n : n # 0
      BY <1>1
    <2> HIDE DEF turn
    <2> QED BY <1>4, <2>1, Zenon
  <1>7. h[0] = <<>> /\ \A k \in 1 .. n : h[k] = g[k] /\ k - 1 \in 0 .. n
    BY <1>1
  <1>8. DOMAIN h = 0 .. n /\ h = [k \in 0 .. n |-> h[k]]
    OBVIOUS
  <1> HIDE DEF h
  <1> DEFINE P == {k \in 0 .. n : h[k] \in Seq(S) /\ (k # 0 => h[k] = h[k - 1] \o pieces[k])}
  <1>9. 0 \in P
    <2>1. h[0] \in Seq(S)
      BY <1>7, EmptySeq
    <2> QED BY <1>1, <2>1
  <1>10. ASSUME NEW k \in 1 .. n, k - 1 \in P PROVE k \in P
    <2>1. k \in 0 .. n /\ h[k - 1] \in Seq(S) /\ pieces[k] \in Seq(S) /\ k - 1 \in 0 .. n
      BY <1>1, <1>10
    <2>2. h[k] = h[k - 1] \o pieces[k]
      <3>1. CASE k = 1
        <4>1. h[k] = pieces[k] /\ h[k - 1] = <<>>
          BY <1>6, <1>7, <3>1
        <4> QED BY <2>1, <4>1, ConcatEmptySeq
      <3>2. CASE k # 1
        <4>1. k - 1 \in 1 .. n
          BY <1>1, <3>2
        <4>2. h[k - 1] = g[k - 1] /\ h[k] = turn(k)
          BY <1>6, <1>7, <4>1
        <4> QED BY <3>2, <4>2
      <3> QED BY <3>1, <3>2
    <2>3. h[k] \in Seq(S)
      BY <2>1, <2>2, ConcatProperties
    <2> QED BY <2>1, <2>2, <2>3
  <1> HIDE DEF P
  <1>11. \A k \in 0 .. n : k \in P
    BY <1>1, <1>9, <1>10, Counting
  <1>12. h \in [0 .. n -> Seq(S)] /\ \A k \in 1 .. n : h[k] = h[k - 1] \o pieces[k]
    <2>1. \A k \in 1 .. n : k \in 0 .. n /\ k # 0
      BY <1>1
    <2>2. \A k \in 0 .. n : h[k] \in Seq(S)
      BY <1>11 DEF P
    <2> QED BY <1>8, <1>11, <2>1, <2>2 DEF P
  <1>13. h[n] = FlattenSeq(pieces)
    <2>1. CASE n = 0
      BY <1>2, <1>5, <1>7, <2>1
    <2>2. CASE n # 0
      <3>1. n \in 1 .. n
        BY <1>1, <2>2
      <3> QED BY <1>2, <1>7, <2>2, <3>1
    <2> QED BY <2>1, <2>2
  <1>14. FlattenSteps(pieces, h, S)
    BY <1>7, <1>12 DEF FlattenSteps, n
  <1> QED BY <1>13, <1>14 DEF n

(* A sum of pieces, one after the other.                                   *)
LEMMA PiecesInPlace ==
  ASSUME NEW S, NEW pieces \in Seq(Seq(S)), NEW h, h \in [0 .. Len(pieces) -> Seq(S)],
         h[0] = <<>>, \A k \in 1 .. Len(pieces) : h[k] = h[k - 1] \o pieces[k]
  PROVE  Layout(pieces, h[Len(pieces)], [k \in 0 .. Len(pieces) |-> Len(h[k])])
  <1> DEFINE n == Len(pieces)
             whole == h[n]
             at == [k \in 0 .. n |-> Len(h[k])]
             Within(k) == Len(h[k]) <= Len(whole) /\ \A j \in 1 .. Len(h[k]) : whole[j] = h[k][j]
             P == {m \in 0 .. n : Within(n - m)}
  <1>1. n \in Nat /\ \A k \in 1 .. n : pieces[k] \in Seq(S)
    BY LenProperties, ElementOfSeq
  <1>2. h \in [0 .. n -> Seq(S)] /\ h[0] = <<>> /\ \A k \in 1 .. n : h[k] = h[k - 1] \o pieces[k]
    OBVIOUS
  <1> HIDE DEF n
  <1>3. \A k \in 0 .. n : h[k] \in Seq(S) /\ Len(h[k]) \in Nat
    BY <1>2, LenProperties
  <1>4. ASSUME NEW k \in 1 .. n
        PROVE  /\ k - 1 \in 0 .. n /\ k \in 0 .. n
               /\ Len(pieces[k]) \in Nat
               /\ Len(h[k]) = Len(h[k - 1]) + Len(pieces[k]) /\ Len(h[k - 1]) <= Len(h[k])
               /\ \A j \in 1 .. Len(h[k - 1]) : h[k][j] = h[k - 1][j]
               /\ \A j \in 1 .. Len(pieces[k]) :
                    Len(h[k - 1]) + j \in 1 .. Len(h[k]) /\ h[k][Len(h[k - 1]) + j] = pieces[k][j]
    <2>1. k - 1 \in 0 .. n /\ k \in 0 .. n
      BY <1>1
    <2> DEFINE s == h[k - 1]
               t == pieces[k]
               u == h[k]
    <2>2. s \in Seq(S) /\ t \in Seq(S) /\ Len(s) \in Nat /\ Len(t) \in Nat /\ u = s \o t
      BY <1>1, <1>3, <1>2, <2>1, LenProperties
    <2> HIDE DEF s, t, u
    <2>3. /\ Len(u) = Len(s) + Len(t)
          /\ \A i \in 1 .. Len(s) + Len(t) : u[i] = IF i <= Len(s) THEN s[i] ELSE t[i - Len(s)]
      BY <2>2, ConcatProperties
    <2>4. \A j \in 1 .. Len(s) : u[j] = s[j]
      BY <2>2, <2>3
    <2>5. ASSUME NEW j \in 1 .. Len(t) PROVE Len(s) + j \in 1 .. Len(u) /\ u[Len(s) + j] = t[j]
      <3>1. Len(s) + j \in 1 .. Len(s) + Len(t) /\ ~ (Len(s) + j <= Len(s))
              /\ Len(s) + j - Len(s) = j
        BY <2>2
      <3> QED BY <2>3, <3>1
    <2>6. Len(s) <= Len(u)
      BY <2>2, <2>3
    <2> QED BY <2>1, <2>2, <2>3, <2>4, <2>5, <2>6 DEF s, t, u
  <1>5. 0 \in P
    BY <1>1, <1>3
  <1>6. ASSUME NEW m \in 1 .. n, m - 1 \in P PROVE m \in P
    <2> DEFINE k == n - m + 1
    <2>1. k \in 1 .. n /\ k - 1 = n - m /\ k = n - (m - 1) /\ m \in 0 .. n
      BY <1>1
    <2>2. Within(k)
      BY <1>6, <2>1
    <2> HIDE DEF k, P
    <2>3. Within(k - 1)
      <3> DEFINE u == h[k]
                 v == h[k - 1]
      <3>1. Len(v) <= Len(u) /\ \A j \in 1 .. Len(v) : u[j] = v[j]
        BY <1>4, <2>1
      <3>2. Len(u) \in Nat /\ Len(v) \in Nat /\ Len(whole) \in Nat
        BY <1>1, <1>3, <1>4, <2>1
      <3>3. Len(u) <= Len(whole) /\ \A j \in 1 .. Len(u) : whole[j] = u[j]
        BY <2>2
      <3> HIDE DEF whole, u, v
      <3>4. Len(v) <= Len(whole) /\ \A j \in 1 .. Len(v) : whole[j] = v[j]
        BY <3>1, <3>2, <3>3
      <3> QED BY <3>4 DEF v
    <2> QED BY <2>1, <2>3 DEF P
  <1> HIDE DEF P
  <1>7. \A m \in 0 .. n : m \in P
    BY <1>1, <1>5, <1>6, Counting
  <1>8. ASSUME NEW k \in 0 .. n PROVE Within(k)
    <2>1. n - k \in 0 .. n /\ n - (n - k) = k
      BY <1>1
    <2> QED BY <1>7, <2>1 DEF P
  <1>9. at \in [0 .. n -> 0 .. Len(whole)]
    <2>1. \A k \in 0 .. n : Len(h[k]) \in 0 .. Len(whole)
      BY <1>3, <1>8
    <2> QED BY <2>1
  <1>10. at[0] = 0 /\ at[n] = Len(whole)
    <2>1. 0 \in 0 .. n /\ n \in 0 .. n /\ Len(h[0]) = 0
      BY <1>1, <1>2
    <2> QED BY <2>1
  <1>11. ASSUME NEW k \in 1 .. n
         PROVE  /\ at[k] = at[k - 1] + Len(pieces[k])
                /\ \A j \in 1 .. Len(pieces[k]) : whole[at[k - 1] + j] = pieces[k][j]
    <2>1. at[k] = Len(h[k]) /\ at[k - 1] = Len(h[k - 1]) /\ Within(k) /\ Len(h[k - 1]) \in Nat
      BY <1>3, <1>4, <1>8
    <2> HIDE DEF at, whole
    <2> QED BY <1>4, <2>1
  <1> HIDE DEF at, whole
  <1>12. Layout(pieces, whole, at)
    BY <1>9, <1>10, <1>11 DEF Layout, n
  <1> QED BY <1>12 DEF whole, at, n

LEMMA FlattenLayout ==
  ASSUME NEW S, NEW pieces \in Seq(Seq(S))
  PROVE  /\ FlattenSeq(pieces) \in Seq(S)
         /\ \E at : Layout(pieces, FlattenSeq(pieces), at)
  <1> DEFINE n == Len(pieces)
  <1>1. PICK h : FlattenSteps(pieces, h, S) /\ FlattenSeq(pieces) = h[n]
    BY FlattenBySteps
  <1>2. n \in Nat
    BY LenProperties
  <1>3. /\ h \in [0 .. n -> Seq(S)] /\ h[0] = <<>>
        /\ \A k \in 1 .. n : h[k] = h[k - 1] \o pieces[k]
    BY <1>1 DEF FlattenSteps
  <1> DEFINE at == [k \in 0 .. n |-> Len(h[k])]
  <1>4. Layout(pieces, h[n], at)
    <2> HIDE DEF n
    <2>1. n = Len(pieces)
      BY DEF n
    <2> QED BY <1>3, <2>1, PiecesInPlace
  <1> HIDE DEF n, at
  <1>5. h[n] \in Seq(S)
    BY <1>2, <1>3
  <1> QED BY <1>1, <1>4, <1>5

(* One piece more.                                                         *)
FlattenedMore(pieces, x) == FlattenSeq(Append(pieces, x)) = FlattenSeq(pieces) \o x

LEMMA FlattenGrows ==
  ASSUME NEW S, NEW pieces \in Seq(Seq(S)), NEW x \in Seq(S)
  PROVE  FlattenedMore(pieces, x)
  <1> DEFINE n == Len(pieces)
             more == Append(pieces, x)
  <1>1. /\ more \in Seq(Seq(S)) /\ Len(more) = n + 1 /\ n \in Nat
        /\ more[n + 1] = x /\ \A k \in 1 .. n : more[k] = pieces[k]
    <2>1. more \in Seq(Seq(S)) /\ Len(more) = n + 1
      BY AppendProperties
    <2>2. more[n + 1] = x /\ \A k \in 1 .. n : more[k] = pieces[k]
      BY AppendProperties
    <2> QED BY <2>1, <2>2, LenProperties
  <1> HIDE DEF more
  <1>2. PICK h : FlattenSteps(pieces, h, S) /\ FlattenSeq(pieces) = h[n]
    BY FlattenBySteps
  <1>3. PICK f : FlattenSteps(more, f, S) /\ FlattenSeq(more) = f[Len(more)]
    BY <1>1, FlattenBySteps
  <1>4. h[0] = <<>> /\ \A k \in 1 .. n : h[k] = h[k - 1] \o pieces[k]
    BY <1>2 DEF FlattenSteps
  <1>5. f[0] = <<>> /\ \A k \in 1 .. n + 1 : f[k] = f[k - 1] \o more[k]
    BY <1>1, <1>3 DEF FlattenSteps
  <1> HIDE DEF n
  <1> DEFINE P == {k \in 0 .. n : f[k] = h[k]}
  <1>6. 0 \in P
    BY <1>1, <1>4, <1>5
  <1>7. ASSUME NEW k \in 1 .. n, k - 1 \in P PROVE k \in P
    <2>1. k \in 0 .. n /\ k \in 1 .. n + 1 /\ f[k - 1] = h[k - 1] /\ more[k] = pieces[k]
      BY <1>1, <1>7
    <2>2. f[k] = h[k]
      BY <1>4, <1>5, <2>1, Zenon
    <2> QED BY <2>1, <2>2
  <1> HIDE DEF P
  <1>8. \A k \in 0 .. n : k \in P
    BY <1>1, <1>6, <1>7, Counting
  <1>9. f[n] = h[n]
    <2>1. n \in 0 .. n
      BY <1>1
    <2> QED BY <1>8, <2>1 DEF P
  <1>10. f[n + 1] = f[n] \o more[n + 1]
    <2> DEFINE m == n + 1
    <2>1. m \in 1 .. n + 1 /\ m - 1 = n
      BY <1>1
    <2> HIDE DEF m
    <2>2. f[m] = f[m - 1] \o more[m]
      BY <1>5, <2>1, Zenon
    <2> QED BY <2>1, <2>2, Zenon DEF m
  <1> QED BY <1>1, <1>2, <1>3, <1>9, <1>10, Zenon DEF FlattenedMore, more

-----------------------------------------------------------------------------
(* Quotients and remainders. *)

LEMMA DivMod ==
  ASSUME NEW n \in Int, NEW p \in Nat \ {0}
  PROVE  /\ n \div p \in Int
         /\ n % p \in 0 .. p - 1
         /\ n = (n \div p) * p + (n % p)
         /\ n >= 0 => n \div p >= 0
  <1>1. n \div p \in Int /\ n % p \in 0 .. p - 1
    OBVIOUS
  <1>2. n = (n \div p) * p + (n % p)
    OBVIOUS
  <1>3. n >= 0 => n \div p >= 0
    OBVIOUS
  <1> QED BY <1>1, <1>2, <1>3

LEMMA DivModUnique ==
  ASSUME NEW n \in Int, NEW p \in Nat \ {0}, NEW k \in Int, NEW r \in 0 .. p - 1,
         n = k * p + r
  PROVE  n \div p = k /\ n % p = r
  <1> DEFINE d == n \div p
             m == n % p
  <1>1. d \in Int /\ m \in 0 .. p - 1 /\ n = d * p + m
    BY DivMod
  <1> HIDE DEF d, m
  <1>2. d * p \in Int /\ k * p \in Int
    BY <1>1
  <1>3. k >= d + 1 => k * p >= d * p + p
    BY <1>1
  <1>4. d >= k + 1 => d * p >= k * p + p
    BY <1>1
  <1>5. d = k
    BY <1>1, <1>2, <1>3, <1>4
  <1>6. m = r
    BY <1>1, <1>2, <1>5
  <1> QED BY <1>5, <1>6 DEF d, m

(* Subtracting remainders is subtracting, as to the remainder. *)
LEMMA ModDifference ==
  ASSUME NEW a \in Int, NEW b \in Int, NEW w \in Nat \ {0}
  PROVE  (((a + b) % w) - (b % w)) % w = a % w
  <1> DEFINE s == a + b
             q1 == s \div w
             r1 == s % w
             q2 == b \div w
             r2 == b % w
             d == (r1 - r2) \div w
             m == (r1 - r2) % w
  <1>1. q1 \in Int /\ r1 \in 0 .. w - 1 /\ a + b = q1 * w + r1
    BY DivMod
  <1>2. q2 \in Int /\ r2 \in 0 .. w - 1 /\ b = q2 * w + r2
    BY DivMod
  <1> HIDE DEF q1, q2, r1, r2
  <1>3. d \in Int /\ m \in 0 .. w - 1 /\ r1 - r2 = d * w + m
    BY <1>1, <1>2, DivMod
  <1> HIDE DEF d, m
  <1>4. q1 * w \in Int /\ q2 * w \in Int /\ d * w \in Int
    BY <1>1, <1>2, <1>3
  <1>5. a = (q1 * w - q2 * w) + d * w + m
    BY <1>1, <1>2, <1>3, <1>4
  <1>6. (q1 - q2 + d) * w = (q1 * w - q2 * w) + d * w
    BY <1>1, <1>2, <1>3
  <1>7. q1 - q2 + d \in Int /\ a = (q1 - q2 + d) * w + m
    BY <1>1, <1>2, <1>3, <1>5, <1>6
  <1>8. a % w = m
    BY <1>3, <1>7, DivModUnique
  <1> QED BY <1>8 DEF m, r1, r2

LEMMA DivBelow ==
  ASSUME NEW n \in Nat, NEW p \in Nat \ {0}, NEW w \in Nat, n < w * p
  PROVE  n \div p < w
  <1> DEFINE d == n \div p
  <1>1. d \in Nat /\ d * p <= n
    BY DivMod
  <1> HIDE DEF d
  <1>2. d >= w => d * p >= w * p
    BY <1>1
  <1>3. d * p \in Nat /\ w * p \in Nat
    BY <1>1
  <1>4. d < w
    BY <1>1, <1>2, <1>3
  <1> QED BY <1>4 DEF d

LEMMA Division ==
  ASSUME NEW n \in Nat, NEW p \in Nat \ {0}
  PROVE  n \div p \in Nat /\ n % p \in 0 .. p - 1 /\ n = (n \div p) * p + (n % p)
  <1>1. n \div p \in Nat
    OBVIOUS
  <1>2. n % p \in 0 .. p - 1
    OBVIOUS
  <1>3. n = (n \div p) * p + (n % p)
    OBVIOUS
  <1> QED BY <1>1, <1>2, <1>3

LEMMA ProductPositive ==
  ASSUME NEW a \in Nat \ {0}, NEW b \in Nat \ {0}
  PROVE  a * b \in Nat \ {0}
  <1>1. a >= 1 /\ b >= 1 /\ (a - 1) * (b - 1) \in Nat
    OBVIOUS
  <1>2. a * b = (a - 1) * (b - 1) + a + b - 1
    OBVIOUS
  <1> QED BY <1>1, <1>2

(* Dividing twice is dividing by the product. *)
DividesTwice(n, p, a, b) == n \div p = (n \div a) \div b

LEMMA DivTwice ==
  ASSUME NEW n \in Nat, NEW a \in Nat \ {0}, NEW b \in Nat \ {0},
         NEW p \in Nat \ {0}, p = a * b
  PROVE  DividesTwice(n, p, a, b)
  <1> DEFINE d == n \div a
             r == n % a
             k == d \div b
             s == d % b
  <1>1. d \in Nat /\ r \in 0 .. a - 1 /\ n = d * a + r
    BY Division
  <1>2. k \in Nat /\ s \in 0 .. b - 1 /\ d = k * b + s
    <2> HIDE DEF d
    <2> QED BY <1>1, Division
  <1> HIDE DEF d, r, k, s
  <1>3. s * a + r \in 0 .. p - 1
    <2>1. (b - 1 - s) * a \in Nat /\ s * a \in Nat
      BY <1>1, <1>2
    <2>2. (b - 1 - s) * a = a * b - a - s * a
      BY <1>1, <1>2
    <2> QED BY <1>1, <2>1, <2>2
  <1>4. n = k * p + (s * a + r)
    <2>1. d * a = (k * b) * a + s * a
      BY <1>2
    <2>2. (k * b) * a = k * (a * b)
      BY <1>2
    <2> QED BY <1>1, <1>2, <2>1, <2>2
  <1> DEFINE t == s * a + r
  <1>5. t \in 0 .. p - 1 /\ n = k * p + t /\ n \in Int /\ k \in Int
    BY <1>2, <1>3, <1>4
  <1> HIDE DEF t
  <1>6. n \div p = k
    BY <1>5, DivModUnique
  <1> QED BY <1>6 DEF k, d, DividesTwice

(* A number is what its four digits to the base b say. *)
LEMMA FourDigits ==
  ASSUME NEW b \in Nat \ {0}, NEW n \in Nat, n < b * b * b * b
  PROVE  \E d3, d2, d1, d0 \in 0 .. b - 1 :
           /\ (n \div (b * b * b)) % b = d3
           /\ (n \div (b * b)) % b = d2
           /\ (n \div b) % b = d1
           /\ n % b = d0
           /\ ((d3 * b + d2) * b + d1) * b + d0 = n
  <1> DEFINE q1 == n \div b
             q2 == q1 \div b
             q3 == q2 \div b
             d0 == n % b
             d1 == q1 % b
             d2 == q2 % b
  <1>1. q1 \in Nat /\ d0 \in 0 .. b - 1 /\ n = q1 * b + d0
    BY Division
  <1>2. q2 \in Nat /\ d1 \in 0 .. b - 1 /\ q1 = q2 * b + d1
    <2> HIDE DEF q1
    <2> QED BY <1>1, Division
  <1>3. q3 \in Nat /\ d2 \in 0 .. b - 1 /\ q2 = q3 * b + d2
    <2> HIDE DEF q2
    <2> QED BY <1>2, Division
  <1> DEFINE bb == b * b
             bbb == b * b * b
  <1>4. bb = b * b /\ bbb = bb * b /\ b * b * b * b = b * bbb
    OBVIOUS
  <1> HIDE DEF bb, bbb
  <1>5. bb \in Nat \ {0}
    BY <1>4, ProductPositive
  <1>6. bbb \in Nat \ {0}
    BY <1>4, <1>5, ProductPositive
  <1>7. n \div bb = q2
    <2>1. DividesTwice(n, bb, b, b)
      BY <1>4, <1>5, DivTwice
    <2> QED BY <2>1 DEF DividesTwice
  <1>8. n \div bbb = q3
    <2>1. DividesTwice(n, bbb, bb, b)
      BY <1>4, <1>5, <1>6, DivTwice
    <2> QED BY <1>7, <2>1 DEF DividesTwice
  <1> HIDE DEF q1, q2, q3, d0, d1, d2
  <1>9. q3 < b
    BY <1>4, <1>6, <1>8, DivBelow
  <1>10. q3 % b = q3
    BY <1>3, <1>9
  <1>11. (n \div b) % b = d1 /\ n % b = d0
    BY DEF d1, d0, q1
  <1>12. (n \div (b * b)) % b = d2
    BY <1>4, <1>7 DEF d2
  <1>13. (n \div (b * b * b)) % b = q3
    BY <1>8, <1>10 DEF bbb
  <1>14. ((q3 * b + d2) * b + d1) * b + d0 = n
    BY <1>1, <1>2, <1>3
  <1>15. q3 \in 0 .. b - 1
    BY <1>3, <1>9
  <1> QED BY <1>1, <1>2, <1>3, <1>11, <1>12, <1>13, <1>14, <1>15
=============================================================================
