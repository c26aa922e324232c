------------------------------ MODULE LoadProofs ------------------------------
(***************************************************************************)
(* Theorems about Load, for every torrent, every cut or continued text of  *)
(* it, every command line and every size of word.                          *)
(***************************************************************************)
EXTENDS Load, DataTheorems

(* Each digit stands for its number, and is none of the other marks.       *)
LEMMA DigitFacts ==
  /\ ToSet(Digits) = {Digits[d + 1] : d \in 0 .. 9}
  /\ \A d \in 0 .. 9 : DigitOf(Digits[d + 1]) = d
  /\ \A c \in ToSet(Digits) : DigitOf(c) \in 0 .. 9 /\ c \notin {"-", ":", "d", "e", "i", "l"}
  <1>1. /\ DOMAIN Digits = 1 .. 10
        /\ \A d, c \in 0 .. 9 : Digits[d + 1] = Digits[c + 1] => d = c
        /\ \A d \in 0 .. 9 : Digits[d + 1] \notin {"-", ":", "d", "e", "i", "l"}
    BY SMTT(60) DEF Digits
  <1>2. ToSet(Digits) = {Digits[d + 1] : d \in 0 .. 9}
    <2>1. \A k \in 1 .. 10 : k - 1 \in 0 .. 9 /\ (k - 1) + 1 = k
      OBVIOUS
    <2>2. \A d \in 0 .. 9 : d + 1 \in 1 .. 10
      OBVIOUS
    <2>3. ToSet(Digits) = {Digits[k] : k \in 1 .. 10}
      BY <1>1 DEF ToSet
    <2> QED BY <2>1, <2>2, <2>3
  <1>3. \A d \in 0 .. 9 : DigitOf(Digits[d + 1]) = d
    BY <1>1 DEF DigitOf
  <1> QED BY <1>1, <1>2, <1>3

-----------------------------------------------------------------------------
(* Numbers. *)

(* What of a number has been read after each of its digits.                *)
Counts(t, f) ==
  /\ f[0] = 0
  /\ \A n \in 1 .. Len(t) : f[n] = 10 * f[n - 1] + DigitOf(t[n])

LEMMA NumberCounts ==
  ASSUME NEW t \in Seq(ToSet(Digits))
  PROVE  \E f \in [0 .. Len(t) -> Nat] : Counts(t, f) /\ NumberOf(t) = f[Len(t)]
  <1> DEFINE m == Len(t)
             step == [p \in (1 .. m) \X Nat |-> 10 * p[2] + DigitOf(t[p[1]])]
             upTo == CHOOSE g : g = [n \in 0 .. Len(t) |->
                                       IF n = 0 THEN 0 ELSE 10 * g[n - 1] + DigitOf(t[n])]
  <1>1. m \in Nat /\ \A k \in 1 .. m : DigitOf(t[k]) \in Nat
    BY LenProperties, ElementOfSeq, DigitFacts
  <1>2. step \in [(1 .. m) \X Nat -> Nat]
    <2> HIDE DEF m
    <2> QED BY <1>1
  <1>3. \A k \in 1 .. m, q \in Nat : step[<<k, q>>] = 10 * q + DigitOf(t[k])
    OBVIOUS
  <1> HIDE DEF step
  <1>4. PICK f : Loop(f, m, Nat, 0, step)
    <2> HIDE DEF m
    <2> QED BY <1>1, <1>2, LoopFunction
  <1>5. f \in [0 .. m -> Nat] /\ f[0] = 0 /\ \A k \in 1 .. m : f[k] = 10 * f[k - 1] + DigitOf(t[k])
    <2> HIDE DEF m
    <2>1. \A k \in 1 .. m : k - 1 \in 0 .. m
      BY <1>1
    <2> QED BY <1>3, <1>4, <2>1 DEF Loop
  <1>6. f = [n \in 0 .. Len(t) |-> IF n = 0 THEN 0 ELSE 10 * f[n - 1] + DigitOf(t[n])]
    <2>1. \A n \in 0 .. m : n # 0 => n \in 1 .. m
      BY <1>1
    <2> QED BY <1>5, <2>1
  <1>7. upTo = [n \in 0 .. Len(t) |-> IF n = 0 THEN 0 ELSE 10 * upTo[n - 1] + DigitOf(t[n])]
    BY <1>6, Zenon
  <1>8. NumberOf(t) = upTo[Len(t)]
    BY Zenon DEF NumberOf
  <1> HIDE DEF upTo
  <1> DEFINE P == {k \in 0 .. m : upTo[k] = f[k]}
  <1>9. 0 \in P
    BY <1>1, <1>5, <1>7
  <1>10. ASSUME NEW k \in 1 .. m, k - 1 \in P PROVE k \in P
    <2>1. k \in 0 .. Len(t) /\ k # 0 /\ k \in 0 .. m
      BY <1>1
    <2>2. upTo[k] = 10 * upTo[k - 1] + DigitOf(t[k])
      BY <1>7, <2>1
    <2> QED BY <1>5, <1>10, <2>1, <2>2
  <1>11. m \in P
    <2> HIDE DEF P, m
    <2>1. \A k \in 1 .. m : k - 1 \in P => k \in P
      BY <1>10
    <2>2. m \in Nat
      BY <1>1
    <2>3. \A k \in 0 .. m : k \in P
      BY <1>9, <2>1, <2>2, Counting
    <2> QED BY <2>2, <2>3
  <1> QED BY <1>5, <1>8, <1>11 DEF Counts

LEMMA NumberType ==
  ASSUME NEW t \in Seq(ToSet(Digits))
  PROVE  NumberOf(t) \in Nat
  <1>1. Len(t) \in 0 .. Len(t)
    BY LenProperties
  <1> QED BY <1>1, NumberCounts

(* One digit more.                                                         *)
NumberOfMore(s, c) == NumberOf(s \o <<c>>) = 10 * NumberOf(s) + DigitOf(c)

LEMMA NumberGrows ==
  ASSUME NEW s \in Seq(ToSet(Digits)), NEW c \in ToSet(Digits)
  PROVE  NumberOfMore(s, c)
  <1> DEFINE D == ToSet(Digits)
             one == <<c>>
             t == s \o one
             m == Len(s)
  <1> HIDE DEF D
  <1>1. s \in Seq(D) /\ one \in Seq(D) /\ Len(one) = 1 /\ one[1] = c
    BY DEF D
  <1> HIDE DEF one
  <1>2. t \in Seq(D) /\ IsConcat(t, s, one)
    BY <1>1, Concatenation
  <1>3. m \in Nat /\ Len(t) = m + 1 /\ t[m + 1] = c /\ \A k \in 1 .. m : t[k] = s[k]
    BY <1>1, <1>2 DEF IsConcat
  <1> HIDE DEF t, m
  <1>4. PICK f \in [0 .. Len(s) -> Nat] : Counts(s, f) /\ NumberOf(s) = f[Len(s)]
    BY NumberCounts
  <1>5. PICK g \in [0 .. Len(t) -> Nat] : Counts(t, g) /\ NumberOf(t) = g[Len(t)]
    BY <1>2, NumberCounts DEF D
  <1> DEFINE P == {k \in 0 .. m : f[k] = g[k]}
  <1>6. 0 \in P
    BY <1>3, <1>4, <1>5 DEF Counts
  <1>7. ASSUME NEW k \in 1 .. m, k - 1 \in P PROVE k \in P
    <2>1. k \in 1 .. m + 1 /\ k \in 0 .. m
      BY <1>3
    <2>2. f[k] = 10 * f[k - 1] + DigitOf(s[k]) /\ g[k] = 10 * g[k - 1] + DigitOf(t[k])
      BY <1>3, <1>4, <1>5, <2>1 DEF Counts, m
    <2> QED BY <1>3, <1>7, <2>1, <2>2
  <1>8. f[m] = g[m]
    <2>1. \A k \in 1 .. m : k - 1 \in P => k \in P
      BY <1>7
    <2> HIDE DEF P
    <2>2. \A k \in 0 .. m : k \in P
      BY <1>3, <1>6, <2>1, Counting
    <2>3. m \in P
      BY <1>3, <2>2
    <2> QED BY <2>3 DEF P
  <1>9. g[m + 1] = 10 * g[m] + DigitOf(c)
    <2>1. m + 1 \in 1 .. Len(t) /\ (m + 1) - 1 = m
      BY <1>3
    <2>2. g[m + 1] = 10 * g[(m + 1) - 1] + DigitOf(t[m + 1])
      BY <1>5, <2>1 DEF Counts
    <2> QED BY <1>3, <2>1, <2>2
  <1>10. NumberOf(t) = 10 * NumberOf(s) + DigitOf(c)
    BY <1>3, <1>4, <1>5, <1>8, <1>9 DEF m
  <1> QED BY <1>10, Zenon DEF t, one, NumberOfMore

DigitsOf(n, s) == s \in Seq(ToSet(Digits)) /\ s # <<>> /\ NumberOf(s) = n

(* std::to_string and std::from_chars are each other's inverse.            *)
LEMMA DecimalSpells ==
  ASSUME NEW n \in Nat
  PROVE  DigitsOf(n, Decimal(n)) /\ (n > 0 => Decimal(-n) = <<"-">> \o Decimal(n))
  <1> DEFINE D == ToSet(Digits)
             decimal == CHOOSE g : g = [k \in Nat |->
                          IF k < 10 THEN <<Digits[k + 1]>>
                          ELSE g[k \div 10] \o <<Digits[(k % 10) + 1]>>]
             V == Seq(D)
             Base == 0 .. 9
             b == [k \in Base |-> <<Digits[k + 1]>>]
             next == [k \in Nat \ Base |-> k \div 10]
             step == [p \in (Nat \ Base) \X V |-> p[2] \o <<Digits[(p[1] % 10) + 1]>>]
  <1> HIDE DEF D
  <1>1. \A k \in Nat : Digits[(k % 10) + 1] \in D /\ <<Digits[(k % 10) + 1]>> \in V
    <2>1. \A k \in Nat : k % 10 \in 0 .. 9
      OBVIOUS
    <2> QED BY <2>1, DigitFacts DEF D
  <1>2. \A k \in Base : Digits[k + 1] \in D /\ <<Digits[k + 1]>> \in V
    BY DigitFacts DEF D
  <1>3. \A k \in Nat \ Base : k \div 10 \in Nat /\ k \div 10 < k
    OBVIOUS
  <1>4. IsRecursion(Nat, OpToRel(<, Nat), V, Base, b, next, step)
    <2>1. IsWellFoundedOn(OpToRel(<, Nat), Nat)
      BY NatLessThanWellFounded
    <2>2. Base \in SUBSET Nat /\ b \in [Base -> V]
      BY <1>2
    <2>3. next \in [Nat \ Base -> Nat]
      BY <1>3
    <2>4. \A k \in Nat \ Base : <<next[k], k>> \in OpToRel(<, Nat)
      BY <1>3 DEF OpToRel
    <2>5. step \in [(Nat \ Base) \X V -> V]
      <3>1. \A k \in Nat \ Base, q \in V : q \o <<Digits[(k % 10) + 1]>> \in V
        BY <1>1, ConcatProperties
      <3> HIDE DEF V
      <3> QED BY <3>1
    <2> HIDE DEF Base, b, next, step, V
    <2> QED BY <2>1, <2>2, <2>3, <2>4, <2>5 DEF IsRecursion
  <1>5. PICK f : Recursive(f, Nat, V, Base, b, next, step)
    <2> HIDE DEF Base, b, next, step, V
    <2> QED BY <1>4, RecursiveFunction
  <1>6. f = [k \in Nat |-> IF k < 10 THEN <<Digits[k + 1]>>
                           ELSE f[k \div 10] \o <<Digits[(k % 10) + 1]>>]
    <2>1. f \in [Nat -> V] /\ \A k \in Base : f[k] = b[k]
      <3>1. \A k \in Base : k \in Nat
        OBVIOUS
      <3> HIDE DEF Base, b, V
      <3> QED BY <1>5, <3>1 DEF Recursive
    <2>2. ASSUME NEW k \in Nat \ Base PROVE f[k] = f[k \div 10] \o <<Digits[(k % 10) + 1]>>
      <3>1. f[k] = step[<<k, f[next[k]]>>]
        BY <1>5 DEF Recursive
      <3>2. next[k] = k \div 10 /\ f[k \div 10] \in V
        BY <1>3, <2>1
      <3> QED BY <3>1, <3>2
    <2>3. \A k \in Nat : (k < 10 => k \in Base) /\ (~(k < 10) => k \in Nat \ Base)
      OBVIOUS
    <2> HIDE DEF V
    <2> QED BY <2>1, <2>2, <2>3
  <1>7. decimal = [k \in Nat |-> IF k < 10 THEN <<Digits[k + 1]>>
                                 ELSE decimal[k \div 10] \o <<Digits[(k % 10) + 1]>>]
    BY <1>6, Zenon
  <1>8. \A k \in Nat : Decimal(k) = decimal[k] /\ (k > 0 => Decimal(-k) = <<"-">> \o decimal[k])
    <2>1. \A k \in Nat : ~(k < 0) /\ (k > 0 => -k < 0 /\ -(-k) = k)
      OBVIOUS
    <2> HIDE DEF decimal
    <2>2. ASSUME NEW k \in Int
          PROVE  Decimal(k) = IF k < 0 THEN <<"-">> \o decimal[-k] ELSE decimal[k]
      BY Zenon DEF Decimal, decimal
    <2>3. ASSUME NEW k \in Nat PROVE k \in Int /\ -k \in Int
      OBVIOUS
    <2> QED BY <2>1, <2>2, <2>3
  <1> HIDE DEF decimal, Base, b, next, step
  <1> DEFINE T == {k \in Nat : ~DigitsOf(k, decimal[k])}
  <1>9. T = {}
    <2> SUFFICES ASSUME T # {} PROVE FALSE
      OBVIOUS
    <2>1. PICK k \in T : \A j \in T : k <= j
      <3>1. T \subseteq Nat
        OBVIOUS
      <3> HIDE DEF T
      <3> QED BY <3>1, LeastNatural
    <2>2. CASE k < 10
      <3>1. k \in 0 .. 9 /\ decimal[k] = <<Digits[k + 1]>>
        BY <1>7, <2>2
      <3> DEFINE c == Digits[k + 1]
                 empty == <<>>
      <3>2. c \in D /\ DigitOf(c) = k
        BY <3>1, DigitFacts DEF D
      <3> HIDE DEF c
      <3>3. empty \in Seq(D) /\ Len(empty) = 0 /\ empty \o <<c>> = <<c>>
        BY <3>2, ConcatEmptySeq, EmptySeq
      <3> HIDE DEF empty
      <3>4. NumberOf(empty) = 0
        BY <3>3, NumberCounts DEF Counts, D
      <3>5. NumberOf(empty \o <<c>>) = 10 * NumberOf(empty) + DigitOf(c)
        BY <3>2, <3>3, NumberGrows, Zenon DEF D, NumberOfMore
      <3>6. NumberOf(<<c>>) = k
        BY <3>2, <3>3, <3>4, <3>5
      <3>7. <<c>> \in Seq(D) /\ <<c>> # <<>>
        BY <3>2
      <3> QED BY <3>1, <3>6, <3>7 DEF DigitsOf, c, D
    <2>3. CASE ~(k < 10)
      <3> DEFINE q == k \div 10
                 r == k % 10
                 c == Digits[r + 1]
                 s == decimal[q]
      <3>1. q \in Nat /\ q < k /\ r \in 0 .. 9 /\ k = 10 * q + r
        BY <2>3
      <3>2. decimal[k] = s \o <<c>>
        BY <1>7, <2>3
      <3> HIDE DEF q, r
      <3>3. DigitsOf(q, s)
        BY <2>1, <3>1
      <3>4. c \in D /\ DigitOf(c) = r
        BY <3>1, DigitFacts DEF D
      <3> HIDE DEF c, s
      <3>5. NumberOf(s \o <<c>>) = 10 * NumberOf(s) + DigitOf(c)
        BY <3>3, <3>4, NumberGrows, Zenon DEF D, NumberOfMore, DigitsOf
      <3>6. NumberOf(s \o <<c>>) = k
        BY <3>1, <3>3, <3>4, <3>5 DEF DigitsOf
      <3>7. s \o <<c>> \in Seq(D) /\ s \o <<c>> # <<>>
        <4>1. s \in Seq(D) /\ <<c>> \in Seq(D) /\ <<c>> # <<>>
          BY <3>3, <3>4 DEF DigitsOf, D
        <4> QED BY <4>1, ConcatProperties, ConcatEqualIffEmpty
      <3> QED BY <3>2, <3>6, <3>7 DEF DigitsOf, D
    <2> QED BY <2>2, <2>3
  <1> HIDE DEF T
  <1>10. DigitsOf(n, decimal[n])
    BY <1>9 DEF T
  <1> QED BY <1>8, <1>10

-----------------------------------------------------------------------------
(* Reading. *)

(* The loops that look for the end of a token.                             *)
Stops(c, in, i, j) ==
  /\ j \in i .. Len(in) + 1
  /\ j > Len(in) \/ in[j] = c
  /\ \A k \in i .. j - 1 : in[k] # c

LEMMA SkipToStops ==
  ASSUME NEW c, NEW in \in Seq(Byte), NEW i \in 1 .. Len(in) + 1
  PROVE  Stops(c, in, i, SkipTo(c, in, i)) /\ \A j : Stops(c, in, i, j) => j = SkipTo(c, in, i)
  <1> DEFINE n == Len(in)
             T == {j \in i .. n + 1 : j > n \/ in[j] = c}
  <1>1. n \in Nat
    BY LenProperties
  <1> HIDE DEF n
  <1>2. T \subseteq Nat /\ T # {}
    <2>1. n + 1 \in T
      BY <1>1 DEF n
    <2>2. i \in Nat
      BY DEF n
    <2>3. i .. n + 1 \subseteq Nat
      BY <1>1, <2>2
    <2>4. T \subseteq i .. n + 1
      OBVIOUS
    <2> HIDE DEF T
    <2> QED BY <2>1, <2>3, <2>4, Zenon
  <1>3. PICK j \in T : \A k \in T : j <= k
    <2> HIDE DEF T
    <2> QED BY <1>2, LeastNatural
  <1>4. Stops(c, in, i, j)
    <2>1. ASSUME NEW k \in i .. j - 1 PROVE in[k] # c
      <3>1. k \in i .. n + 1 /\ ~(j <= k)
        BY <1>1, <2>1 DEF n
      <3> QED BY <1>3, <3>1
    <2> QED BY <1>3, <2>1 DEF Stops, n
  <1>5. ASSUME NEW k, NEW l, Stops(c, in, i, k), Stops(c, in, i, l) PROVE k = l
    <2>1. i \in Int /\ k \in Int /\ l \in Int /\ i <= k /\ i <= l /\ k <= n + 1 /\ l <= n + 1
      BY <1>1, <1>5 DEF Stops, n
    <2>2. ~(k < l)
      BY <1>1, <1>5, <2>1 DEF Stops, n
    <2>3. ~(l < k)
      BY <1>1, <1>5, <2>1 DEF Stops, n
    <2> QED BY <2>1, <2>2, <2>3
  <1>6. SkipTo(c, in, i) = CHOOSE k : Stops(c, in, i, k)
    <2>1. SkipTo(c, in, i) = CHOOSE k : k \in i .. Len(in) + 1 /\ (k > Len(in) \/ in[k] = c)
                                        /\ \A l \in i .. k - 1 : in[l] # c
      BY Zenon DEF SkipTo
    <2>2. \A k : Stops(c, in, i, k) <=> k \in i .. Len(in) + 1 /\ (k > Len(in) \/ in[k] = c)
                                        /\ \A l \in i .. k - 1 : in[l] # c
      BY Zenon DEF Stops
    <2> QED BY <2>1, <2>2, Zenon
  <1> QED BY <1>4, <1>5, <1>6, Zenon

LEMMA ResultFacts ==
  /\ ~ Failed.ok
  /\ \A v, p : Parsed(v, p).ok /\ Parsed(v, p).value = v /\ Parsed(v, p).pos = p
  BY DEF Failed, Parsed

LEMMA TokenType ==
  ASSUME NEW in \in Seq(Byte), NEW i \in Int, NEW j \in Int, 1 <= i, j <= Len(in)
  PROVE  SubSeq(in, i, j) \in Seq(Byte)
  <1>1. Len(in) \in Nat
    BY LenProperties
  <1>2. \A k \in i .. j : k \in 1 .. Len(in)
    BY <1>1
  <1>3. \A k \in i .. j : in[k] \in Byte
    BY <1>2, ElementOfSeq
  <1> QED BY <1>3, SubSeqProperties

IsDigits(t) == t \in Seq(ToSet(Digits)) /\ t # <<>>

LEMMA NumberIsDigits ==
  ASSUME NEW t \in Seq(Byte), IsNumber(t)
  PROVE  IsDigits(t)
  <1>1. Len(t) \in Nat /\ DOMAIN t = 1 .. Len(t) /\ t = [k \in 1 .. Len(t) |-> t[k]]
    BY LenProperties
  <1>2. \A k \in 1 .. Len(t) : t[k] \in ToSet(Digits)
    BY <1>1 DEF IsNumber, ToSet
  <1>3. t \in [1 .. Len(t) -> ToSet(Digits)]
    BY <1>1, <1>2
  <1>4. t \in Seq(ToSet(Digits))
    BY <1>1, <1>3, SeqDef
  <1> QED BY <1>4 DEF IsDigits, IsNumber

(* What parseString and parseInteger return.                               *)
IsString(r, in, i) ==
  r = Failed \/ \E s \in Seq(Byte), p \in i + 1 .. Len(in) + 1 : r = Parsed(Text(s), p)

LEMMA StringRead ==
  ASSUME NEW in \in Seq(Byte), NEW i \in 1 .. Len(in) + 1
  PROVE  IsString(ParseString(in, i), in, i)
  <1> DEFINE n == Len(in)
             colon == SkipTo(":", in, i)
             token == SubSeq(in, i, colon - 1)
             last == colon + NumberOf(token)
             fine == colon <= Len(in) /\ IsNumber(token) /\ last <= Len(in)
  <1>1. n \in Nat /\ i \in Int /\ 1 <= i
    BY LenProperties
  <1>2. colon \in i .. n + 1
    BY SkipToStops DEF Stops
  <1>3. ParseString(in, i) = IF fine THEN Parsed(Text(SubSeq(in, colon + 1, last)), last + 1)
                             ELSE Failed
    BY Zenon DEF ParseString
  <1> HIDE DEF colon
  <1>4. CASE fine
    <2>1. token \in Seq(Byte)
      <3>1. colon - 1 \in Int /\ colon - 1 <= Len(in)
        BY <1>1, <1>2
      <3> QED BY <1>1, <3>1, TokenType
    <2>2. NumberOf(token) \in Nat
      <3> HIDE DEF token
      <3> QED BY <1>4, <2>1, NumberIsDigits, NumberType DEF IsDigits
    <2> HIDE DEF token
    <2>3. last \in Int /\ last + 1 \in i + 1 .. Len(in) + 1 /\ colon + 1 \in Int /\ 1 <= colon + 1
      BY <1>1, <1>2, <1>4, <2>2
    <2>4. SubSeq(in, colon + 1, last) \in Seq(Byte)
      BY <1>4, <2>3, TokenType
    <2> HIDE DEF last
    <2> QED BY <1>3, <1>4, <2>3, <2>4 DEF IsString
  <1>5. CASE ~ fine
    BY <1>3, <1>5, Zenon DEF IsString
  <1> QED BY <1>4, <1>5

IsWhole(r, in, i) ==
  r = Failed \/ \E k \in Int, p \in i + 1 .. Len(in) + 1 : r = Parsed(Integer(k), p)

LEMMA TailNumber ==
  ASSUME NEW t \in Seq(Byte), IsInteger(t)
  PROVE  IntegerOf(t) \in Int
  <1>1. CASE IsNegative(t)
    <2>1. Tail(t) \in Seq(Byte)
      BY <1>1, HeadTailProperties DEF IsNegative
    <2>2. IsNumber(Tail(t))
      BY <1>1 DEF IsInteger
    <2>3. NumberOf(Tail(t)) \in Nat
      BY <2>1, <2>2, NumberIsDigits, NumberType DEF IsDigits
    <2> QED BY <1>1, <2>3 DEF IntegerOf
  <1>2. CASE ~ IsNegative(t)
    <2>1. IsNumber(t)
      BY <1>2 DEF IsInteger
    <2>2. NumberOf(t) \in Nat
      BY <2>1, NumberIsDigits, NumberType DEF IsDigits
    <2> QED BY <1>2, <2>2 DEF IntegerOf
  <1> QED BY <1>1, <1>2

LEMMA IntegerRead ==
  ASSUME NEW in \in Seq(Byte), NEW i \in 1 .. Len(in)
  PROVE  IsWhole(ParseInteger(in, i), in, i)
  <1> DEFINE n == Len(in)
             stop == SkipTo("e", in, i + 1)
             token == SubSeq(in, i + 1, stop - 1)
             fine == stop <= Len(in) /\ IsInteger(token)
  <1>1. n \in Nat /\ i \in Int /\ 1 <= i /\ i + 1 \in 1 .. Len(in) + 1 /\ i + 1 \in Int
    BY LenProperties
  <1>2. stop \in i + 1 .. n + 1
    BY <1>1, SkipToStops DEF Stops
  <1>3. ParseInteger(in, i) = IF fine THEN Parsed(Integer(IntegerOf(token)), stop + 1)
                              ELSE Failed
    BY Zenon DEF ParseInteger
  <1> HIDE DEF stop
  <1>4. CASE fine
    <2>1. token \in Seq(Byte)
      <3>1. stop - 1 \in Int /\ stop - 1 <= Len(in) /\ 1 <= i + 1
        BY <1>1, <1>2
      <3> QED BY <1>1, <3>1, TokenType
    <2> HIDE DEF token
    <2>2. IntegerOf(token) \in Int
      BY <1>4, <2>1, TailNumber
    <2>3. stop + 1 \in i + 1 .. Len(in) + 1
      BY <1>1, <1>2, <1>4
    <2> QED BY <1>3, <1>4, <2>2, <2>3 DEF IsWhole
  <1>5. CASE ~ fine
    BY <1>3, <1>5, Zenon DEF IsWhole
  <1> QED BY <1>4, <1>5

(* The table of all that the parser would return, and how it is computed.  *)
Forms == {"value", "list", "dictionary"}

ParseAt(in, f, i) ==
  [form \in Forms |->
     CASE form = "value" -> ParseValue(in, f, i)
       [] form = "list" -> ParseList(in, f, i)
       [] form = "dictionary" -> ParseDictionary(in, f, i)]

IsParse(in, f) == f = [i \in 1 .. Len(in) + 1 |-> ParseAt(in, f, i)]
Parse(in) == CHOOSE f : IsParse(in, f)

(* A parser that returns has read something, and not past the end.         *)
Ahead(r, in, i) ==
  r = Failed \/ \E v : \E p \in i + 1 .. Len(in) + 1 : r = Parsed(v, p)
AllAhead(r, in, i) == \A form \in Forms : Ahead(r[form], in, i)

LEMMA ParseAtForms ==
  ASSUME NEW in, NEW f, NEW i
  PROVE  /\ ParseAt(in, f, i)["value"] = ParseValue(in, f, i)
         /\ ParseAt(in, f, i)["list"] = ParseList(in, f, i)
         /\ ParseAt(in, f, i)["dictionary"] = ParseDictionary(in, f, i)
  <1> DEFINE r == ParseAt(in, f, i)
  <1>1. \A form \in Forms : r[form] = CASE form = "value" -> ParseValue(in, f, i)
                                        [] form = "list" -> ParseList(in, f, i)
                                        [] form = "dictionary" -> ParseDictionary(in, f, i)
    BY DEF ParseAt
  <1> HIDE DEF r
  <1>2. "value" \in Forms /\ "list" \in Forms /\ "dictionary" \in Forms
    BY DEF Forms
  <1>3. "value" # "list" /\ "list" # "dictionary" /\ "value" # "dictionary"
    OBVIOUS
  <1> QED BY <1>1, <1>2, <1>3 DEF r

LEMMA ValueAhead ==
  ASSUME NEW in \in Seq(Byte), NEW f, NEW i \in 1 .. Len(in) + 1,
         \A j \in i + 1 .. Len(in) + 1 : AllAhead(f[j], in, j)
  PROVE  Ahead(ParseValue(in, f, i), in, i)
  <1>1. Len(in) \in Nat
    BY LenProperties
  <1>2. CASE i > Len(in)
    BY <1>2 DEF ParseValue, Ahead
  <1>3. CASE ~(i > Len(in))
    <2>1. i \in 1 .. Len(in) /\ i + 1 \in i + 1 .. Len(in) + 1
      BY <1>1, <1>3
    <2>2. \A form \in Forms : Ahead(f[i + 1][form], in, i)
      <3>1. \A p \in i + 1 + 1 .. Len(in) + 1 : p \in i + 1 .. Len(in) + 1
        BY <1>1
      <3> QED BY <2>1, <3>1 DEF AllAhead, Ahead
    <2>3. Ahead(ParseInteger(in, i), in, i)
      BY <2>1, IntegerRead DEF IsWhole, Ahead
    <2>4. Ahead(ParseString(in, i), in, i)
      BY StringRead DEF IsString, Ahead
    <2>5. Ahead(Failed, in, i)
      BY DEF Ahead
    <2>6. ParseValue(in, f, i) \in {ParseInteger(in, i), f[i + 1]["list"], f[i + 1]["dictionary"],
                                    ParseString(in, i), Failed}
      BY <1>3, Zenon DEF ParseValue
    <2> QED BY <2>2, <2>3, <2>4, <2>5, <2>6 DEF Forms
  <1> QED BY <1>2, <1>3

LEMMA Farther ==
  ASSUME NEW in \in Seq(Byte), NEW i \in 1 .. Len(in) + 1, NEW r, NEW s,
         Ahead(r, in, i), r.ok, Ahead(s, in, r.pos)
  PROVE  r.pos \in i + 1 .. Len(in) + 1 /\ Ahead(s, in, i)
  <1>1. Len(in) \in Nat
    BY LenProperties
  <1>2. r.pos \in i + 1 .. Len(in) + 1
    BY ResultFacts DEF Ahead
  <1>3. \A p \in r.pos + 1 .. Len(in) + 1 : p \in i + 1 .. Len(in) + 1
    BY <1>1, <1>2
  <1> QED BY <1>2, <1>3 DEF Ahead

LEMMA AheadPosition ==
  ASSUME NEW in, NEW i, NEW r, Ahead(r, in, i), r.ok
  PROVE  r.pos \in i + 1 .. Len(in) + 1
  BY ResultFacts DEF Ahead

LEMMA ParseAtAhead ==
  ASSUME NEW in \in Seq(Byte), NEW f, NEW i \in 1 .. Len(in) + 1,
         \A j \in i + 1 .. Len(in) + 1 : AllAhead(f[j], in, j)
  PROVE  AllAhead(ParseAt(in, f, i), in, i)
  <1>1. Len(in) \in Nat
    BY LenProperties
  <1>2. Ahead(Failed, in, i) /\ \A v : i <= Len(in) => Ahead(Parsed(v, i + 1), in, i)
    BY <1>1 DEF Ahead
  <1>3. \A j \in i + 1 .. Len(in) + 1 : j \in 1 .. Len(in) + 1 /\ \A form \in Forms : Ahead(f[j][form], in, j)
    BY DEF AllAhead
  <1>4. Ahead(ParseValue(in, f, i), in, i)
    BY ValueAhead
  <1>5. Ahead(ParseList(in, f, i), in, i)
    <2> DEFINE item == ParseValue(in, f, i)
               rest == f[item.pos]["list"]
    <2>1. ParseList(in, f, i) \in {Failed, Parsed(List(<<>>), i + 1)}
          \/ (item.ok /\ rest.ok /\ ParseList(in, f, i) = Parsed(List(<<i>> \o rest.value.list), rest.pos))
      BY Zenon DEF ParseList
    <2>2. i <= Len(in) \/ ParseList(in, f, i) = Failed
      BY <1>1 DEF ParseList
    <2> HIDE DEF item
    <2>3. CASE item.ok /\ rest.ok /\ ParseList(in, f, i) = Parsed(List(<<i>> \o rest.value.list), rest.pos)
      <3>1. item.pos \in i + 1 .. Len(in) + 1
        BY <1>4, <2>3, AheadPosition DEF item
      <3>2. Ahead(rest, in, item.pos)
        BY <1>3, <3>1 DEF Forms
      <3> HIDE DEF rest
      <3>3. Ahead(rest, in, i)
        BY <1>4, <2>3, <3>2, Farther DEF item
      <3>4. rest.pos \in i + 1 .. Len(in) + 1
        BY <2>3, <3>3, AheadPosition
      <3> QED BY <2>3, <3>4 DEF Ahead
    <2> QED BY <1>2, <2>1, <2>2, <2>3
  <1>6. Ahead(ParseDictionary(in, f, i), in, i)
    <2> DEFINE key == ParseString(in, i)
               value == f[key.pos]["value"]
               rest == f[value.pos]["dictionary"]
    <2>1. ParseDictionary(in, f, i) \in {Failed, Parsed(Dictionary(<<>>), i + 1)}
          \/ (key.ok /\ value.ok /\ rest.ok /\ ParseDictionary(in, f, i) = ParsePair(key, rest))
      BY Zenon DEF ParseDictionary
    <2>2. i <= Len(in) \/ ParseDictionary(in, f, i) = Failed
      BY <1>1 DEF ParseDictionary
    <2>3. Ahead(key, in, i)
      BY StringRead DEF IsString, Ahead
    <2> HIDE DEF key
    <2>4. CASE key.ok /\ value.ok /\ rest.ok /\ ParseDictionary(in, f, i) = ParsePair(key, rest)
      <3>1. key.pos \in i + 1 .. Len(in) + 1
        BY <2>3, <2>4, AheadPosition
      <3>2. Ahead(value, in, key.pos) /\ key.pos \in 1 .. Len(in) + 1
        BY <1>3, <3>1 DEF Forms
      <3> HIDE DEF value
      <3>3. Ahead(value, in, i)
        BY <2>3, <2>4, <3>2, Farther
      <3>4. value.pos \in i + 1 .. Len(in) + 1
        BY <2>4, <3>3, AheadPosition
      <3>5. Ahead(rest, in, value.pos)
        BY <1>3, <3>4 DEF Forms
      <3> HIDE DEF rest
      <3>6. Ahead(rest, in, i)
        BY <2>4, <3>3, <3>5, Farther
      <3>7. rest.pos \in i + 1 .. Len(in) + 1
        BY <2>4, <3>6, AheadPosition
      <3>8. \E v : ParsePair(key, rest) = Parsed(v, rest.pos)
        BY Zenon DEF ParsePair
      <3> QED BY <2>4, <3>7, <3>8 DEF Ahead
    <2> QED BY <1>2, <2>1, <2>2, <2>4
  <1> QED BY <1>4, <1>5, <1>6, ParseAtForms DEF AllAhead, Forms

(* A turn of the loops, from what is read in it and what the rest gives.   *)
ListWith(in, i, item, rest) ==
  IF i > Len(in) THEN Failed
  ELSE IF in[i] = "e" THEN Parsed(List(<<>>), i + 1)
  ELSE IF item.ok /\ rest.ok THEN Parsed(List(<<i>> \o rest.value.list), rest.pos)
  ELSE Failed
DictionaryWith(in, i, key, value, rest) ==
  IF i > Len(in) THEN Failed
  ELSE IF in[i] = "e" THEN Parsed(Dictionary(<<>>), i + 1)
  ELSE IF key.ok /\ value.ok /\ rest.ok THEN ParsePair(key, rest)
  ELSE Failed

LEMMA Turns ==
  ASSUME NEW in, NEW f, NEW i
  PROVE  LET item == ParseValue(in, f, i)
             key == ParseString(in, i)
             value == f[key.pos]["value"]
         IN  /\ ParseList(in, f, i) = ListWith(in, i, item, f[item.pos]["list"])
             /\ ParseDictionary(in, f, i)
                  = DictionaryWith(in, i, key, value, f[value.pos]["dictionary"])
  BY Zenon DEF ParseList, ParseDictionary, ListWith, DictionaryWith

LEMMA BrokenTurns ==
  ASSUME NEW in, NEW i, NEW item, NEW key, NEW value, NEW v, NEW r, NEW s
  PROVE  /\ ~ item.ok => ListWith(in, i, item, r) = ListWith(in, i, item, s)
         /\ ~ key.ok => DictionaryWith(in, i, key, value, r) = DictionaryWith(in, i, key, v, s)
         /\ ~ value.ok => DictionaryWith(in, i, key, value, r) = DictionaryWith(in, i, key, value, s)
  BY Zenon DEF ListWith, DictionaryWith

LEMMA ParseAtSame ==
  ASSUME NEW in \in Seq(Byte), NEW f, NEW g, NEW i \in 1 .. Len(in) + 1,
         \A j \in i + 1 .. Len(in) + 1 : AllAhead(f[j], in, j) /\ g[j] = f[j]
  PROVE  ParseAt(in, g, i) = ParseAt(in, f, i)
  <1>1. Len(in) \in Nat
    BY LenProperties
  <1>2. \A j \in i + 1 .. Len(in) + 1 : /\ j \in 1 .. Len(in) + 1 /\ g[j] = f[j]
                                        /\ \A form \in Forms : Ahead(f[j][form], in, j)
    BY DEF AllAhead
  <1> DEFINE item == ParseValue(in, f, i)
  <1>3. ParseValue(in, g, i) = item
    <2>1. CASE i > Len(in)
      BY <2>1 DEF ParseValue
    <2>2. CASE ~(i > Len(in))
      <3>1. g[i + 1] = f[i + 1]
        BY <1>1, <1>2, <2>2
      <3>2. g[i + 1]["list"] = f[i + 1]["list"] /\ g[i + 1]["dictionary"] = f[i + 1]["dictionary"]
        BY <3>1, Zenon
      <3> QED BY <3>2, SMT DEF ParseValue
    <2> QED BY <2>1, <2>2
  <1>4. Ahead(item, in, i)
    BY ValueAhead
  <1> HIDE DEF item
  <1>5. ParseList(in, g, i) = ParseList(in, f, i)
    <2>1. ParseList(in, g, i) = ListWith(in, i, item, g[item.pos]["list"])
      BY <1>3, Turns, Zenon
    <2>2. ParseList(in, f, i) = ListWith(in, i, item, f[item.pos]["list"])
      BY Turns, Zenon DEF item
    <2>3. CASE item.ok
      <3>1. g[item.pos] = f[item.pos]
        BY <1>2, <1>4, <2>3, AheadPosition
      <3> QED BY <2>1, <2>2, <3>1, Zenon
    <2>4. CASE ~ item.ok
      <3> DEFINE r == f[item.pos]["list"]
                 s == g[item.pos]["list"]
      <3> HIDE DEF r, s
      <3>1. ListWith(in, i, item, s) = ListWith(in, i, item, r)
        BY <2>4, BrokenTurns
      <3> QED BY <2>1, <2>2, <3>1, Zenon DEF r, s
    <2> QED BY <2>3, <2>4
  <1>6. ParseDictionary(in, g, i) = ParseDictionary(in, f, i)
    <2> DEFINE key == ParseString(in, i)
               value == f[key.pos]["value"]
               other == g[key.pos]["value"]
    <2>1. Ahead(key, in, i)
      BY StringRead DEF IsString, Ahead
    <2>2. ParseDictionary(in, f, i) = DictionaryWith(in, i, key, value, f[value.pos]["dictionary"])
      BY Zenon DEF ParseDictionary, DictionaryWith
    <2>3. ParseDictionary(in, g, i) = DictionaryWith(in, i, key, other, g[other.pos]["dictionary"])
      BY Zenon DEF ParseDictionary, DictionaryWith
    <2> HIDE DEF key
    <2>4. CASE key.ok
      <3>1. key.pos \in i + 1 .. Len(in) + 1
        BY <2>1, <2>4, AheadPosition
      <3>2. other = value
        BY <1>2, <3>1, Zenon
      <3>3. Ahead(value, in, key.pos) /\ key.pos \in 1 .. Len(in) + 1
        BY <1>2, <3>1 DEF Forms
      <3> HIDE DEF value, other
      <3>4. CASE value.ok
        <4>1. value.pos \in i + 1 .. Len(in) + 1
          BY <2>1, <2>4, <3>3, <3>4, AheadPosition, Farther
        <4>2. g[value.pos] = f[value.pos]
          BY <1>2, <4>1, Zenon
        <4> QED BY <2>2, <2>3, <3>2, <4>2, Zenon
      <3>5. CASE ~ value.ok
        <4> DEFINE r == f[value.pos]["dictionary"]
                   s == g[value.pos]["dictionary"]
        <4> HIDE DEF r, s
        <4>1. DictionaryWith(in, i, key, value, s) = DictionaryWith(in, i, key, value, r)
          BY <3>5, BrokenTurns
        <4> QED BY <2>2, <2>3, <3>2, <4>1, Zenon DEF r, s
      <3> QED BY <3>4, <3>5
    <2>5. CASE ~ key.ok
      <3> DEFINE r == f[value.pos]["dictionary"]
                 s == g[other.pos]["dictionary"]
      <3>1. ParseDictionary(in, f, i) = DictionaryWith(in, i, key, value, r)
        BY <2>2, Zenon
      <3>2. ParseDictionary(in, g, i) = DictionaryWith(in, i, key, other, s)
        BY <2>3, Zenon
      <3> HIDE DEF r, s, value, other
      <3>3. DictionaryWith(in, i, key, other, s) = DictionaryWith(in, i, key, value, r)
        BY <2>5, Zenon DEF DictionaryWith
      <3> QED BY <3>1, <3>2, <3>3, Zenon
    <2> QED BY <2>4, <2>5
  <1>7. ParseValue(in, g, i) = ParseValue(in, f, i)
    BY <1>3 DEF item
  <1> QED BY <1>5, <1>6, <1>7, SMT DEF ParseAt

LEMMA ParseExists ==
  ASSUME NEW in \in Seq(Byte)
  PROVE  /\ IsParse(in, Parse(in))
         /\ \A i \in 1 .. Len(in) + 1 : AllAhead(Parse(in)[i], in, i)
  <1> DEFINE n == Len(in) + 1
             Done(f, k) == \A i \in n - k + 1 .. n : f[i] = ParseAt(in, f, i) /\ AllAhead(f[i], in, i)
             IsTable(f) == f = [i \in 1 .. n |-> f[i]]
             P == {k \in 0 .. n : \E f : IsTable(f) /\ Done(f, k)}
  <1>1. n \in Nat
    BY LenProperties
  <1>2. 0 \in P
    <2> DEFINE f == [i \in 1 .. n |-> 0]
    <2>1. IsTable(f) /\ Done(f, 0)
      BY <1>1
    <2> QED BY <1>1, <2>1
  <1>3. ASSUME NEW k \in 1 .. n, k - 1 \in P PROVE k \in P
    <2>1. PICK f : IsTable(f) /\ Done(f, k - 1)
      BY <1>3
    <2> DEFINE m == n - k + 1
               g == [i \in 1 .. n |-> IF i = m THEN ParseAt(in, f, i) ELSE f[i]]
    <2>2. m \in 1 .. n /\ n - (k - 1) + 1 = m + 1
      BY <1>1
    <2>3. \A i \in m + 1 .. n : i \in 1 .. n /\ i # m
      BY <1>1, <2>2
    <2>4. \A i \in m + 1 .. n : AllAhead(f[i], in, i) /\ f[i] = ParseAt(in, f, i)
      BY <2>1, <2>2
    <2> HIDE DEF m
    <2>5. g[m] = ParseAt(in, f, m) /\ \A i \in m + 1 .. n : g[i] = f[i]
      BY <2>2, <2>3
    <2>6. IsTable(g)
      OBVIOUS
    <2> HIDE DEF g
    <2>7. AllAhead(g[m], in, m)
      BY <2>2, <2>4, <2>5, ParseAtAhead
    <2>8. ASSUME NEW i \in m .. n PROVE g[i] = ParseAt(in, g, i) /\ AllAhead(g[i], in, i)
      <3>1. i \in 1 .. Len(in) + 1 /\ \A j \in i + 1 .. Len(in) + 1 : j \in m + 1 .. n
        BY <1>1, <2>2
      <3>2. ParseAt(in, g, i) = ParseAt(in, f, i)
        BY <2>4, <2>5, <3>1, ParseAtSame
      <3>3. CASE i = m
        BY <2>5, <2>7, <3>2, <3>3
      <3>4. CASE i # m
        <4>1. i \in m + 1 .. n
          BY <1>1, <2>2, <3>4
        <4> QED BY <2>4, <2>5, <3>2, <4>1
      <3> QED BY <3>3, <3>4
    <2>9. Done(g, k)
      BY <2>8 DEF m
    <2>10. k \in 0 .. n
      BY <1>1
    <2> HIDE DEF n
    <2> QED BY <2>6, <2>9, <2>10
  <1>4. n \in P
    <2>1. \A k \in 1 .. n : k - 1 \in P => k \in P
      BY <1>3
    <2> HIDE DEF P, n
    <2>2. \A k \in 0 .. n : k \in P
      BY <1>1, <1>2, <2>1, Counting
    <2> QED BY <1>1, <2>2
  <1>5. PICK f : IsTable(f) /\ Done(f, n)
    BY <1>4
  <1>6. \A i \in 1 .. n : f[i] = ParseAt(in, f, i)
    BY <1>1, <1>5
  <1>7. IsParse(in, f)
    <2> HIDE DEF n
    <2>1. f = [i \in 1 .. n |-> ParseAt(in, f, i)]
      BY <1>5, <1>6
    <2> QED BY <2>1, Zenon DEF IsParse, n
  <1>8. IsParse(in, Parse(in))
    BY <1>7, Zenon DEF Parse
  <1> DEFINE p == Parse(in)
  <1>9. \A i \in 1 .. n : p[i] = ParseAt(in, p, i)
    BY <1>8, Zenon DEF IsParse
  <1> HIDE DEF p
  <1> DEFINE Q == {k \in 0 .. n : \A i \in n - k + 1 .. n : AllAhead(p[i], in, i)}
  <1>10. 0 \in Q
    BY <1>1
  <1>11. ASSUME NEW k \in 1 .. n, k - 1 \in Q PROVE k \in Q
    <2> DEFINE m == n - k + 1
    <2>1. m \in 1 .. n /\ n - (k - 1) + 1 = m + 1
      BY <1>1
    <2>2. \A i \in m + 1 .. n : AllAhead(p[i], in, i)
      BY <1>11, <2>1
    <2> HIDE DEF m
    <2>3. AllAhead(ParseAt(in, p, m), in, m)
      BY <2>1, <2>2, ParseAtAhead
    <2>4. AllAhead(p[m], in, m)
      BY <1>9, <2>1, <2>3
    <2>5. \A i \in m .. n : i = m \/ i \in m + 1 .. n
      BY <1>1, <2>1
    <2> QED BY <2>2, <2>4, <2>5 DEF m
  <1>12. n \in Q
    <2>1. \A k \in 1 .. n : k - 1 \in Q => k \in Q
      BY <1>11
    <2> HIDE DEF Q, n
    <2>2. \A k \in 0 .. n : k \in Q
      BY <1>1, <1>10, <2>1, Counting
    <2> QED BY <1>1, <2>2
  <1>13. \A i \in 1 .. n : AllAhead(p[i], in, i)
    BY <1>1, <1>12
  <1> QED BY <1>8, <1>13 DEF p

LEMMA ParseFacts ==
  ASSUME NEW in \in Seq(Byte)
  PROVE  /\ Values(in) = [i \in 1 .. Len(in) + 1 |-> Parse(in)[i]["value"]]
         /\ \A i \in 1 .. Len(in) + 1 :
              /\ Parse(in)[i]["value"] = ParseValue(in, Parse(in), i)
              /\ Parse(in)[i]["list"] = ParseList(in, Parse(in), i)
              /\ Parse(in)[i]["dictionary"] = ParseDictionary(in, Parse(in), i)
              /\ \A form \in Forms : Ahead(Parse(in)[i][form], in, i)
  <1>1. IsParse(in, Parse(in)) /\ \A i \in 1 .. Len(in) + 1 : AllAhead(Parse(in)[i], in, i)
    BY ParseExists
  <1>2. Values(in) = [i \in 1 .. Len(in) + 1 |-> Parse(in)[i]["value"]]
    BY Zenon DEF Values, Parse, IsParse, ParseAt, Forms
  <1>3. \A i \in 1 .. Len(in) + 1 : Parse(in)[i] = ParseAt(in, Parse(in), i)
    BY <1>1, Zenon DEF IsParse
  <1> DEFINE p == Parse(in)
  <1>4. ASSUME NEW i \in 1 .. Len(in) + 1
        PROVE  /\ p[i]["value"] = ParseValue(in, p, i)
               /\ p[i]["list"] = ParseList(in, p, i)
               /\ p[i]["dictionary"] = ParseDictionary(in, p, i)
    <2> HIDE DEF p
    <2>1. p[i] = ParseAt(in, p, i)
      BY <1>3 DEF p
    <2> QED BY <2>1, ParseAtForms
  <1>5. \A i \in 1 .. Len(in) + 1 : \A form \in Forms : Ahead(p[i][form], in, i)
    BY <1>1, Zenon DEF AllAhead
  <1> QED BY <1>2, <1>4, <1>5, Zenon DEF p

-----------------------------------------------------------------------------
(* Trees. *)

LEMMA FunctionIsSeq ==
  ASSUME NEW S, NEW n \in Nat, NEW s \in [1 .. n -> S]
  PROVE  s \in Seq(S)
  BY SeqDef

LEMMA SeqFacts ==
  ASSUME NEW S, NEW s \in Seq(S)
  PROVE  Len(s) \in Nat /\ DOMAIN s = 1 .. Len(s) /\ \A k \in 1 .. Len(s) : s[k] \in S
  BY LenProperties, ElementOfSeq

LEMMA NodeFacts ==
  ASSUME NEW t, IsTree(t), NEW m \in DOMAIN t
  PROVE  /\ Len(t) \in Nat /\ DOMAIN t = 1 .. Len(t)
         /\ t[m].kind \in {"integer", "string", "list", "dictionary"}
         /\ t[m].kind = "integer" => t[m].spelling \in Seq(Byte \ {"e"})
         /\ t[m].kind = "string" => t[m].bytes \in Seq(Byte)
         /\ t[m].kind = "list" => t[m].items \in Seq(m + 1 .. Len(t))
         /\ t[m].kind = "dictionary" => t[m].pairs \in Seq(Byte \X (m + 1 .. Len(t)))
         /\ Children(t[m]) \subseteq m + 1 .. Len(t)
  <1>1. t \in Seq(Nodes) /\ Children(t[m]) \subseteq m + 1 .. Len(t)
    BY DEF IsTree
  <1>2. Len(t) \in Nat /\ DOMAIN t = 1 .. Len(t)
    BY <1>1, LenProperties
  <1>3. t[m] \in Nodes
    BY <1>1, <1>2, ElementOfSeq
  <1> DEFINE node == t[m]
             after == m + 1 .. Len(t)
  <1> HIDE DEF node, after
  <1>4. node \in Nodes /\ Children(node) \subseteq after
    BY <1>1, <1>3 DEF node, after
  <1>5. /\ node.kind \in {"integer", "string", "list", "dictionary"}
        /\ node.kind = "integer" => node.spelling \in Seq(Byte \ {"e"})
        /\ node.kind = "string" => node.bytes \in Seq(Byte)
        /\ node.kind = "list" => node.items \in Seq(Nat)
        /\ node.kind = "dictionary" => node.pairs \in Seq(Byte \X Nat)
    BY <1>4, SMT DEF Nodes
  <1>6. ASSUME node.kind = "list" PROVE node.items \in Seq(after)
    <2> DEFINE s == node.items
    <2>1. s \in Seq(Nat) /\ Len(s) \in Nat /\ DOMAIN s = 1 .. Len(s) /\ s = [k \in 1 .. Len(s) |-> s[k]]
      BY <1>5, <1>6, LenProperties
    <2>2. Children(node) = ToSet(s)
      BY <1>6 DEF Children
    <2>3. \A k \in 1 .. Len(s) : s[k] \in after
      BY <1>4, <2>1, <2>2 DEF ToSet
    <2> HIDE DEF s
    <2>4. s \in [1 .. Len(s) -> after]
      BY <2>1, <2>3
    <2>5. s \in Seq(after)
      BY <2>1, <2>4, FunctionIsSeq
    <2> QED BY <2>5 DEF s
  <1>7. ASSUME node.kind = "dictionary" PROVE node.pairs \in Seq(Byte \X after)
    <2> DEFINE s == node.pairs
    <2>1. s \in Seq(Byte \X Nat) /\ Len(s) \in Nat /\ DOMAIN s = 1 .. Len(s) /\ s = [k \in 1 .. Len(s) |-> s[k]]
      BY <1>5, <1>7, LenProperties
    <2>2. Children(node) = {s[k][2] : k \in DOMAIN s}
      BY <1>7 DEF Children
    <2>3. ASSUME NEW k \in 1 .. Len(s) PROVE s[k] \in Byte \X after
      <3>1. s[k] \in Byte \X Nat
        BY <2>1, ElementOfSeq
      <3>2. s[k][2] \in after
        BY <1>4, <2>1, <2>2
      <3> QED BY <3>1, <3>2
    <2> HIDE DEF s
    <2>4. s \in [1 .. Len(s) -> Byte \X after]
      BY <2>1, <2>3
    <2>5. s \in Seq(Byte \X after)
      BY <2>1, <2>4, FunctionIsSeq
    <2> QED BY <2>5 DEF s
  <1> QED BY <1>1, <1>2, <1>5, <1>6, <1>7 DEF node, after

ItemTexts(items, f) == [k \in DOMAIN items |-> f[items[k]]]
PairTexts(pairs, f) == [k \in DOMAIN pairs |-> EncodeString(<<pairs[k][1]>>) \o f[pairs[k][2]]]

SpellAt(t, f, m) ==
  CASE t[m].kind = "integer" -> <<"i">> \o t[m].spelling \o <<"e">>
    [] t[m].kind = "string" -> EncodeString(t[m].bytes)
    [] t[m].kind = "list" -> <<"l">> \o FlattenSeq(ItemTexts(t[m].items, f)) \o <<"e">>
    [] t[m].kind = "dictionary" -> <<"d">> \o FlattenSeq(PairTexts(t[m].pairs, f)) \o <<"e">>

LEMMA ByteFacts ==
  /\ ToSet(Digits) \subseteq Byte
  /\ {"-", ":", "d", "e", "i", "l"} \subseteq Byte
  /\ <<"-">> \in Seq(Byte) /\ <<":">> \in Seq(Byte) /\ <<"d">> \in Seq(Byte)
  /\ <<"e">> \in Seq(Byte) /\ <<"i">> \in Seq(Byte) /\ <<"l">> \in Seq(Byte)
  <1>1. \A c \in Byte : <<c>> \in Seq(Byte)
    OBVIOUS
  <1>2. {"-", ":", "d", "e", "i", "l"} \subseteq Byte /\ ToSet(Digits) \subseteq Byte
    BY BencodeAssumption
  <1> QED BY <1>1, <1>2

LEMMA DecimalType ==
  ASSUME NEW n \in Int
  PROVE  Decimal(n) \in Seq(Byte)
  <1>1. \A k \in Nat : Decimal(k) \in Seq(Byte)
    BY DecimalSpells, ByteFacts, SeqMonotonic DEF DigitsOf
  <1>2. CASE n \in Nat
    BY <1>1, <1>2
  <1>3. CASE n \notin Nat
    <2>1. -n \in Nat /\ -n > 0 /\ -(-n) = n
      BY <1>3
    <2>2. Decimal(n) = <<"-">> \o Decimal(-n) /\ Decimal(-n) \in Seq(Byte)
      BY <1>1, <2>1, DecimalSpells
    <2> QED BY <2>2, ByteFacts, ConcatProperties
  <1> QED BY <1>2, <1>3

Enclosed(first, s, last, S) == first \o s \o last \in Seq(S)

LEMMA EnclosedType ==
  ASSUME NEW S, NEW first \in Seq(S), NEW s \in Seq(S), NEW last \in Seq(S)
  PROVE  Enclosed(first, s, last, S)
  <1>1. first \o s \in Seq(S)
    BY ConcatProperties
  <1>2. (first \o s) \o last \in Seq(S)
    <2> DEFINE u == first \o s
    <2> HIDE DEF u
    <2>1. u \in Seq(S)
      BY <1>1 DEF u
    <2>2. u \o last \in Seq(S)
      BY <2>1, ConcatProperties
    <2> QED BY <2>2 DEF u
  <1> QED BY <1>2, Zenon DEF Enclosed

LEMMA StringType ==
  ASSUME NEW s \in Seq(Byte)
  PROVE  EncodeString(s) \in Seq(Byte)
  <1>1. Decimal(Len(s)) \in Seq(Byte)
    BY LenProperties, DecimalType
  <1>2. Enclosed(Decimal(Len(s)), <<":">>, s, Byte)
    BY <1>1, ByteFacts, EnclosedType
  <1> QED BY <1>2, Zenon DEF Enclosed, EncodeString

LEMMA PiecesType ==
  ASSUME NEW t, IsTree(t), NEW m \in DOMAIN t, NEW f, \A k \in m + 1 .. Len(t) : f[k] \in Seq(Byte)
  PROVE  /\ t[m].kind = "list" => ItemTexts(t[m].items, f) \in Seq(Seq(Byte))
         /\ t[m].kind = "dictionary" => PairTexts(t[m].pairs, f) \in Seq(Seq(Byte))
  <1>1. ASSUME t[m].kind = "list" PROVE ItemTexts(t[m].items, f) \in Seq(Seq(Byte))
    <2> DEFINE s == t[m].items
               texts == [k \in 1 .. Len(s) |-> f[s[k]]]
    <2>1. Len(s) \in Nat /\ DOMAIN s = 1 .. Len(s) /\ \A k \in 1 .. Len(s) : s[k] \in m + 1 .. Len(t)
      <3>1. s \in Seq(m + 1 .. Len(t))
        BY <1>1, NodeFacts
      <3> HIDE DEF s
      <3> QED BY <3>1, SeqFacts
    <2> HIDE DEF s
    <2>2. texts \in [1 .. Len(s) -> Seq(Byte)]
      BY <2>1
    <2>3. texts \in Seq(Seq(Byte))
      BY <2>1, <2>2, FunctionIsSeq
    <2> QED BY <2>1, <2>3, Zenon DEF ItemTexts, s
  <1>2. ASSUME t[m].kind = "dictionary" PROVE PairTexts(t[m].pairs, f) \in Seq(Seq(Byte))
    <2> DEFINE s == t[m].pairs
               texts == [k \in 1 .. Len(s) |-> EncodeString(<<s[k][1]>>) \o f[s[k][2]]]
    <2>1. /\ Len(s) \in Nat /\ DOMAIN s = 1 .. Len(s)
          /\ \A k \in 1 .. Len(s) : s[k] \in Byte \X (m + 1 .. Len(t))
      <3>1. s \in Seq(Byte \X (m + 1 .. Len(t)))
        BY <1>2, NodeFacts
      <3> HIDE DEF s
      <3> QED BY <3>1, SeqFacts
    <2> HIDE DEF s
    <2>2. ASSUME NEW k \in 1 .. Len(s) PROVE EncodeString(<<s[k][1]>>) \o f[s[k][2]] \in Seq(Byte)
      <3>1. s[k][1] \in Byte /\ s[k][2] \in m + 1 .. Len(t)
        BY <2>1
      <3> DEFINE key == <<s[k][1]>>
                 u == f[s[k][2]]
      <3>2. key \in Seq(Byte) /\ u \in Seq(Byte)
        BY <3>1
      <3> HIDE DEF key, u
      <3>3. EncodeString(key) \in Seq(Byte)
        BY <3>2, StringType
      <3>4. EncodeString(key) \o u \in Seq(Byte)
        BY <3>2, <3>3, ConcatProperties
      <3> QED BY <3>4 DEF key, u
    <2>3. texts \in [1 .. Len(s) -> Seq(Byte)]
      BY <2>2
    <2> HIDE DEF texts
    <2>4. texts \in Seq(Seq(Byte))
      BY <2>1, <2>3, FunctionIsSeq
    <2> QED BY <2>1, <2>4, Zenon DEF PairTexts, s, texts
  <1> QED BY <1>1, <1>2

LEMMA SpellAtType ==
  ASSUME NEW t, IsTree(t), NEW m \in DOMAIN t, NEW f, \A k \in m + 1 .. Len(t) : f[k] \in Seq(Byte)
  PROVE  SpellAt(t, f, m) \in Seq(Byte)
  <1>1. CASE t[m].kind = "integer"
    <2>1. t[m].spelling \in Seq(Byte \ {"e"})
      BY <1>1, NodeFacts
    <2>2. t[m].spelling \in Seq(Byte)
      BY <2>1, SeqMonotonic
    <2>3. Enclosed(<<"i">>, t[m].spelling, <<"e">>, Byte)
      BY <2>2, ByteFacts, EnclosedType
    <2>4. SpellAt(t, f, m) = <<"i">> \o t[m].spelling \o <<"e">>
      BY <1>1 DEF SpellAt
    <2> QED BY <2>3, <2>4, Zenon DEF Enclosed
  <1>2. CASE t[m].kind = "string"
    <2>1. t[m].bytes \in Seq(Byte)
      BY <1>2, NodeFacts
    <2>2. SpellAt(t, f, m) = EncodeString(t[m].bytes)
      BY <1>2 DEF SpellAt
    <2> QED BY <2>1, <2>2, StringType
  <1>3. CASE t[m].kind = "list"
    <2> DEFINE s == FlattenSeq(ItemTexts(t[m].items, f))
    <2>1. s \in Seq(Byte)
      BY <1>3, PiecesType, FlattenLayout
    <2>2. SpellAt(t, f, m) = <<"l">> \o s \o <<"e">>
      BY <1>3 DEF SpellAt
    <2> HIDE DEF s
    <2>3. Enclosed(<<"l">>, s, <<"e">>, Byte)
      BY <2>1, ByteFacts, EnclosedType
    <2> QED BY <2>2, <2>3, Zenon DEF Enclosed
  <1>4. CASE t[m].kind = "dictionary"
    <2> DEFINE s == FlattenSeq(PairTexts(t[m].pairs, f))
    <2>1. s \in Seq(Byte)
      BY <1>4, PiecesType, FlattenLayout
    <2>2. SpellAt(t, f, m) = <<"d">> \o s \o <<"e">>
      BY <1>4 DEF SpellAt
    <2> HIDE DEF s
    <2>3. Enclosed(<<"d">>, s, <<"e">>, Byte)
      BY <2>1, ByteFacts, EnclosedType
    <2> QED BY <2>2, <2>3, Zenon DEF Enclosed
  <1> QED BY <1>1, <1>2, <1>3, <1>4, NodeFacts

(* Of the nodes below, only their texts are used.                          *)
LEMMA PiecesSame ==
  ASSUME NEW t, IsTree(t), NEW m \in DOMAIN t, NEW f, NEW g, \A k \in m + 1 .. Len(t) : g[k] = f[k]
  PROVE  /\ t[m].kind = "list" => ItemTexts(t[m].items, g) = ItemTexts(t[m].items, f)
         /\ t[m].kind = "dictionary" => PairTexts(t[m].pairs, g) = PairTexts(t[m].pairs, f)
  <1>1. ASSUME t[m].kind = "list" PROVE ItemTexts(t[m].items, g) = ItemTexts(t[m].items, f)
    <2> DEFINE s == t[m].items
    <2>1. s \in Seq(m + 1 .. Len(t))
      BY <1>1, NodeFacts
    <2> HIDE DEF s
    <2>2. \A k \in DOMAIN s : g[s[k]] = f[s[k]]
      BY <2>1, SeqFacts
    <2>3. ItemTexts(s, g) = ItemTexts(s, f)
      BY <2>2 DEF ItemTexts
    <2> QED BY <2>3 DEF s
  <1>2. ASSUME t[m].kind = "dictionary" PROVE PairTexts(t[m].pairs, g) = PairTexts(t[m].pairs, f)
    <2> DEFINE s == t[m].pairs
    <2>1. s \in Seq(Byte \X (m + 1 .. Len(t)))
      BY <1>2, NodeFacts
    <2> HIDE DEF s
    <2>2. \A k \in DOMAIN s : s[k] \in Byte \X (m + 1 .. Len(t))
      BY <2>1, SeqFacts
    <2>3. \A k \in DOMAIN s : g[s[k][2]] = f[s[k][2]]
      BY <2>2
    <2>4. PairTexts(s, g) = PairTexts(s, f)
      BY <2>3 DEF PairTexts
    <2> QED BY <2>4 DEF s
  <1> QED BY <1>1, <1>2

LEMMA SpellAtSame ==
  ASSUME NEW t, IsTree(t), NEW m \in DOMAIN t, NEW f, NEW g, \A k \in m + 1 .. Len(t) : g[k] = f[k]
  PROVE  SpellAt(t, g, m) = SpellAt(t, f, m)
  <1>1. t[m].kind \in {"integer", "string", "list", "dictionary"}
    BY NodeFacts
  <1>2. /\ t[m].kind = "list" => ItemTexts(t[m].items, g) = ItemTexts(t[m].items, f)
        /\ t[m].kind = "dictionary" => PairTexts(t[m].pairs, g) = PairTexts(t[m].pairs, f)
    BY PiecesSame
  <1> QED BY <1>1, <1>2 DEF SpellAt

LEMMA SpellExists ==
  ASSUME NEW t, IsTree(t)
  PROVE  \E f \in [1 .. Len(t) -> Seq(Byte)] :
           f = [m \in DOMAIN t |-> SpellAt(t, f, m)]
  <1> DEFINE n == Len(t)
             U == Seq(Byte)
             V == [m \in 1 .. n |-> U]
             step == [p \in (1 .. n) \X [1 .. n -> U] |-> SpellAt(t, p[2], p[1])]
  <1>1. n \in Nat /\ DOMAIN t = 1 .. n
    BY LenProperties DEF IsTree
  <1>2. U # {} /\ \A i \in 1 .. n : V[i] = U
    BY EmptySeq
  <1>3. \A i \in 1 .. n : \A f \in [1 .. n -> U] : step[<<i, f>>] = SpellAt(t, f, i)
    BY <1>1
  <1> HIDE DEF step, V
  <1>4. ASSUME NEW i \in 1 .. n, NEW f \in [1 .. n -> U] PROVE step[<<i, f>>] \in V[i]
    <2>1. \A k \in i + 1 .. Len(t) : f[k] \in Seq(Byte)
      BY <1>1
    <2>2. SpellAt(t, f, i) \in Seq(Byte)
      BY <1>1, <2>1, SpellAtType
    <2> QED BY <1>2, <1>3, <2>2
  <1>5. ASSUME NEW i \in 1 .. n, NEW f \in [1 .. n -> U], NEW g \in [1 .. n -> U],
               \A j \in i + 1 .. n : f[j] \in V[j] /\ g[j] = f[j]
        PROVE  step[<<i, f>>] = step[<<i, g>>]
    <2>1. i \in DOMAIN t /\ \A k \in i + 1 .. Len(t) : g[k] = f[k]
      BY <1>1, <1>5
    <2>2. SpellAt(t, g, i) = SpellAt(t, f, i)
      <3> HIDE DEF n, U
      <3> QED BY <2>1, SpellAtSame
    <2> QED BY <1>3, <2>2
  <1>6. IsBackward(n, U, V, step)
    <2> HIDE DEF n, U
    <2> QED BY <1>2, <1>4, <1>5 DEF IsBackward
  <1>7. PICK f : Backward(f, n, U, V, step)
    <2> HIDE DEF n, U
    <2> QED BY <1>1, <1>6, BackwardFunction
  <1>8. f \in [1 .. n -> U] /\ \A i \in 1 .. n : f[i] = step[<<i, f>>]
    BY <1>7 DEF Backward
  <1>9. \A i \in 1 .. n : f[i] = SpellAt(t, f, i)
    BY <1>3, <1>8
  <1>10. f = [m \in DOMAIN t |-> SpellAt(t, f, m)]
    <2> HIDE DEF n
    <2> QED BY <1>1, <1>8, <1>9
  <1> QED BY <1>8, <1>10

ItemSpellings(t, items) == [k \in DOMAIN items |-> Spell(t, items[k])]
PairSpellings(t, pairs) ==
  [k \in DOMAIN pairs |-> EncodeString(<<pairs[k][1]>>) \o Spell(t, pairs[k][2])]

IsSpelled(t, m) ==
  /\ Spell(t, m) \in Seq(Byte)
  /\ t[m].kind = "integer" => Spell(t, m) = <<"i">> \o t[m].spelling \o <<"e">>
  /\ t[m].kind = "string" => Spell(t, m) = EncodeString(t[m].bytes)
  /\ t[m].kind = "list" =>
       /\ ItemSpellings(t, t[m].items) \in Seq(Seq(Byte))
       /\ Spell(t, m) = <<"l">> \o FlattenSeq(ItemSpellings(t, t[m].items)) \o <<"e">>
  /\ t[m].kind = "dictionary" =>
       /\ PairSpellings(t, t[m].pairs) \in Seq(Seq(Byte))
       /\ Spell(t, m) = <<"d">> \o FlattenSeq(PairSpellings(t, t[m].pairs)) \o <<"e">>

LEMMA SpellFacts ==
  ASSUME NEW t, IsTree(t)
  PROVE  \A m \in DOMAIN t : IsSpelled(t, m)
  <1> DEFINE n == Len(t)
             g == CHOOSE f : f = [m \in DOMAIN t |-> SpellAt(t, f, m)]
  <1>1. n \in Nat /\ DOMAIN t = 1 .. n
    BY LenProperties DEF IsTree
  <1>2. g = [m \in DOMAIN t |-> SpellAt(t, g, m)]
    BY SpellExists, Zenon
  <1>3. \A m : Spell(t, m) = g[m]
    BY Zenon DEF Spell, SpellAt, ItemTexts, PairTexts
  <1> HIDE DEF g
  <1> DEFINE Q == {k \in 0 .. n : \A i \in n - k + 1 .. n : g[i] \in Seq(Byte)}
  <1>4. 0 \in Q
    BY <1>1
  <1>5. ASSUME NEW k \in 1 .. n, k - 1 \in Q PROVE k \in Q
    <2> DEFINE m == n - k + 1
    <2>1. m \in 1 .. n /\ n - (k - 1) + 1 = m + 1
      BY <1>1
    <2>2. \A i \in m + 1 .. n : g[i] \in Seq(Byte)
      BY <1>5, <2>1
    <2> HIDE DEF m
    <2>3. SpellAt(t, g, m) \in Seq(Byte)
      BY <1>1, <2>1, <2>2, SpellAtType
    <2>4. g[m] = SpellAt(t, g, m)
      BY <1>1, <1>2, <2>1, Zenon
    <2>5. \A i \in m .. n : i = m \/ i \in m + 1 .. n
      BY <1>1, <2>1
    <2>6. \A i \in m .. n : g[i] \in Seq(Byte)
      BY <2>2, <2>3, <2>4, <2>5
    <2> QED BY <2>6 DEF m
  <1>6. n \in Q
    <2>1. \A k \in 1 .. n : k - 1 \in Q => k \in Q
      BY <1>5
    <2> HIDE DEF Q, n
    <2>2. \A k \in 0 .. n : k \in Q
      BY <1>1, <1>4, <2>1, Counting
    <2> QED BY <1>1, <2>2
  <1>7. \A m \in DOMAIN t : g[m] \in Seq(Byte)
    BY <1>1, <1>6
  <1> TAKE m \in DOMAIN t
  <1>8. \A k \in m + 1 .. Len(t) : g[k] \in Seq(Byte)
    BY <1>1, <1>7
  <1>9. \A s : ItemTexts(s, g) = ItemSpellings(t, s) /\ PairTexts(s, g) = PairSpellings(t, s)
    BY <1>3, Zenon DEF ItemTexts, ItemSpellings, PairTexts, PairSpellings
  <1>10. Spell(t, m) = SpellAt(t, g, m) /\ Spell(t, m) \in Seq(Byte)
    BY <1>2, <1>3, <1>7, Zenon
  <1>11. /\ t[m].kind = "list" => ItemTexts(t[m].items, g) \in Seq(Seq(Byte))
         /\ t[m].kind = "dictionary" => PairTexts(t[m].pairs, g) \in Seq(Seq(Byte))
    BY <1>8, PiecesType
  <1>12. t[m].kind = "integer" => Spell(t, m) = <<"i">> \o t[m].spelling \o <<"e">>
    BY <1>10, SMT DEF SpellAt
  <1>13. t[m].kind = "string" => Spell(t, m) = EncodeString(t[m].bytes)
    BY <1>10, SMT DEF SpellAt
  <1>14. t[m].kind = "list" => Spell(t, m) = <<"l">> \o FlattenSeq(ItemSpellings(t, t[m].items)) \o <<"e">>
    <2>1. t[m].kind = "list" =>
            SpellAt(t, g, m) = <<"l">> \o FlattenSeq(ItemTexts(t[m].items, g)) \o <<"e">>
      BY SMT DEF SpellAt
    <2> QED BY <1>9, <1>10, <2>1, Zenon
  <1>15. t[m].kind = "dictionary" =>
           Spell(t, m) = <<"d">> \o FlattenSeq(PairSpellings(t, t[m].pairs)) \o <<"e">>
    <2>1. t[m].kind = "dictionary" =>
            SpellAt(t, g, m) = <<"d">> \o FlattenSeq(PairTexts(t[m].pairs, g)) \o <<"e">>
      BY SMT DEF SpellAt
    <2> QED BY <1>9, <1>10, <2>1, Zenon
  <1> QED BY <1>9, <1>10, <1>11, <1>12, <1>13, <1>14, <1>15 DEF IsSpelled

-----------------------------------------------------------------------------
(* Truths about trees, by recursion.                                       *)

(* Something is true of a node if it is of its children, and here too.     *)
Throughout(t, here, f) == f = [m \in DOMAIN t |-> (\A c \in Children(t[m]) : f[c]) /\ here[m]]

LEMMA ThroughoutExists ==
  ASSUME NEW t, IsTree(t), NEW here \in [DOMAIN t -> BOOLEAN]
  PROVE  \E f : Throughout(t, here, f)
  <1> DEFINE n == Len(t)
             V == [m \in 1 .. n |-> BOOLEAN]
             step == [p \in (1 .. n) \X [1 .. n -> BOOLEAN] |->
                        (\A c \in Children(t[p[1]]) : p[2][c]) /\ here[p[1]]]
  <1>1. n \in Nat /\ DOMAIN t = 1 .. n /\ \A m \in 1 .. n : Children(t[m]) \subseteq m + 1 .. n
    BY LenProperties DEF IsTree
  <1> HIDE DEF n
  <1>2. \A i \in 1 .. n : \A f \in [1 .. n -> BOOLEAN] :
          step[<<i, f>>] = ((\A c \in Children(t[i]) : f[c]) /\ here[i])
    BY Zenon
  <1>3. \A i \in 1 .. n : \A f \in [1 .. n -> BOOLEAN] : step[<<i, f>>] \in V[i] /\ V[i] = BOOLEAN
    BY Zenon
  <1> HIDE DEF step, V
  <1>4. ASSUME NEW i \in 1 .. n, NEW f \in [1 .. n -> BOOLEAN], NEW g \in [1 .. n -> BOOLEAN],
               \A j \in i + 1 .. n : f[j] \in V[j] /\ g[j] = f[j]
        PROVE  step[<<i, f>>] = step[<<i, g>>]
    <2>1. \A c \in Children(t[i]) : g[c] = f[c]
      BY <1>1, <1>4
    <2> QED BY <1>2, <2>1, Zenon
  <1>5. IsBackward(n, BOOLEAN, V, step)
    <2>1. BOOLEAN # {}
      BY TRUE \in BOOLEAN, Zenon
    <2>2. \A i \in 1 .. n : V[i] \subseteq BOOLEAN
      <3>1. \A i \in 1 .. n : V[i] = BOOLEAN
        BY Zenon DEF V
      <3> QED BY <3>1, Zenon
    <2>3. \A i \in 1 .. n, f \in [1 .. n -> BOOLEAN] :
            (\A j \in i + 1 .. n : f[j] \in V[j]) => step[<<i, f>>] \in V[i]
      BY <1>3, Zenon
    <2>4. \A i \in 1 .. n, f \in [1 .. n -> BOOLEAN], g \in [1 .. n -> BOOLEAN] :
            (\A j \in i + 1 .. n : f[j] \in V[j] /\ g[j] = f[j]) => step[<<i, f>>] = step[<<i, g>>]
      BY <1>4, Zenon
    <2> QED BY <2>1, <2>2, <2>3, <2>4, Zenon DEF IsBackward
  <1>6. PICK f : Backward(f, n, BOOLEAN, V, step)
    BY <1>1, <1>5, BackwardFunction
  <1>7. f \in [1 .. n -> BOOLEAN] /\ \A i \in 1 .. n : f[i] = step[<<i, f>>]
    BY <1>6 DEF Backward
  <1>8. \A i \in 1 .. n : f[i] = ((\A c \in Children(t[i]) : f[c]) /\ here[i])
    BY <1>2, <1>7, Zenon
  <1>9. f = [m \in 1 .. n |-> (\A c \in Children(t[m]) : f[c]) /\ here[m]]
    BY <1>7, <1>8, Zenon
  <1> QED BY <1>1, <1>9, Zenon DEF Throughout

FitHere(t, m) == t[m].kind = "integer" => IsInteger(t[m].spelling)

LEMMA FitFacts ==
  ASSUME NEW t, IsTree(t), NEW m \in DOMAIN t
  PROVE  IntegersFit(t, m) <=> (\A c \in Children(t[m]) : IntegersFit(t, c)) /\ FitHere(t, m)
  <1> DEFINE here == [k \in DOMAIN t |-> FitHere(t, k)]
             Fits(f) == f = [k \in DOMAIN t |->
                               /\ \A c \in Children(t[k]) : f[c]
                               /\ t[k].kind = "integer" => IsInteger(t[k].spelling)]
             g == CHOOSE f : Fits(f)
  <1>1. here \in [DOMAIN t -> BOOLEAN]
    BY Zenon DEF FitHere
  <1>2. \A k : IntegersFit(t, k) <=> g[k]
    BY Zenon DEF IntegersFit
  <1>3. PICK f : Throughout(t, here, f)
    <2> HIDE DEF here
    <2> QED BY <1>1, ThroughoutExists
  <1>4. \A k \in DOMAIN t : here[k] = FitHere(t, k)
    BY Zenon
  <1> HIDE DEF here
  <1>5. Fits(f)
    BY <1>3, <1>4, Zenon DEF Throughout, FitHere
  <1> HIDE DEF Fits
  <1>6. Fits(g)
    BY <1>5, Zenon
  <1> HIDE DEF g
  <1>7. g[m] = ((\A c \in Children(t[m]) : g[c]) /\ FitHere(t, m))
    BY <1>6, Zenon DEF Fits, FitHere
  <1> QED BY <1>2, <1>7, Zenon

KeysAscend(pairs) ==
  \A j, k \in DOMAIN pairs :
    j < k => IndexIn(ByteOrder, pairs[j][1]) < IndexIn(ByteOrder, pairs[k][1])

CanonicalHere(t, m) ==
  /\ t[m].kind = "integer" => t[m].spelling = Decimal(IntegerOf(t[m].spelling))
  /\ t[m].kind = "dictionary" => KeysAscend(t[m].pairs)

LEMMA CanonicalFacts ==
  ASSUME NEW t, IsTree(t), NEW m \in DOMAIN t
  PROVE  IsCanonical(t, m) <=> (\A c \in Children(t[m]) : IsCanonical(t, c)) /\ CanonicalHere(t, m)
  <1> DEFINE here == [k \in DOMAIN t |-> CanonicalHere(t, k)]
             Fits(f) == f = [k \in DOMAIN t |->
                               /\ \A c \in Children(t[k]) : f[c]
                               /\ t[k].kind = "integer" =>
                                    t[k].spelling = Decimal(IntegerOf(t[k].spelling))
                               /\ t[k].kind = "dictionary" =>
                                    \A i, j \in DOMAIN t[k].pairs :
                                      i < j => IndexIn(ByteOrder, t[k].pairs[i][1])
                                                 < IndexIn(ByteOrder, t[k].pairs[j][1])]
             g == CHOOSE f : Fits(f)
  <1>1. here \in [DOMAIN t -> BOOLEAN]
    BY Zenon DEF CanonicalHere
  <1>2. \A k : IsCanonical(t, k) <=> g[k]
    BY Zenon DEF IsCanonical
  <1>3. PICK f : Throughout(t, here, f)
    <2> HIDE DEF here
    <2> QED BY <1>1, ThroughoutExists
  <1>4. \A k \in DOMAIN t : here[k] = CanonicalHere(t, k)
    BY Zenon
  <1> HIDE DEF here
  <1>5. Fits(f)
    BY <1>3, <1>4, Zenon DEF Throughout, CanonicalHere, KeysAscend
  <1> HIDE DEF Fits
  <1>6. Fits(g)
    BY <1>5, Zenon
  <1> HIDE DEF g
  <1>7. g[m] = ((\A c \in Children(t[m]) : g[c]) /\ CanonicalHere(t, m))
    BY <1>6, Zenon DEF Fits, CanonicalHere, KeysAscend
  <1> QED BY <1>2, <1>7, Zenon

-----------------------------------------------------------------------------
(* The parser reads what a tree spells. *)

(* A text that lies in the input from p on, as far as the input goes.      *)
AgreesAt(in, p, w) ==
  \A k \in 1 .. Len(w) : p + k - 1 <= Len(in) => in[p + k - 1] = w[k]

IsThree(z, a, b, c) ==
  /\ Len(a) \in Nat /\ Len(b) \in Nat /\ Len(c) \in Nat
  /\ Len(z) = Len(a) + Len(b) + Len(c)
  /\ \A k \in 1 .. Len(a) : z[k] = a[k]
  /\ \A k \in 1 .. Len(b) : z[Len(a) + k] = b[k]
  /\ \A k \in 1 .. Len(c) : z[Len(a) + Len(b) + k] = c[k]

LEMMA ThreeInARow ==
  ASSUME NEW S, NEW a \in Seq(S), NEW b \in Seq(S), NEW c \in Seq(S), NEW z, z = a \o b \o c
  PROVE  z \in Seq(S) /\ IsThree(z, a, b, c)
  <1> DEFINE u == a \o b
  <1>1. u \in Seq(S) /\ IsConcat(u, a, b)
    BY Concatenation
  <1>2. z = u \o c
    OBVIOUS
  <1> HIDE DEF u
  <1>3. z \in Seq(S) /\ IsConcat(z, u, c)
    BY <1>1, <1>2, Concatenation
  <1>4. \A k \in 1 .. Len(a) + Len(b) : z[k] = u[k]
    BY <1>1, <1>3 DEF IsConcat
  <1>5. \A k \in 1 .. Len(a) : z[k] = a[k]
    BY <1>1, <1>4 DEF IsConcat
  <1>6. \A k \in 1 .. Len(b) : Len(a) + k \in 1 .. Len(a) + Len(b) /\ u[Len(a) + k] = b[k]
    BY <1>1 DEF IsConcat
  <1> QED BY <1>1, <1>3, <1>4, <1>5, <1>6 DEF IsConcat, IsThree

LEMMA SubSeqIs ==
  ASSUME NEW S, NEW in \in Seq(S), NEW w \in Seq(S), NEW i \in Nat \ {0},
         i + Len(w) - 1 <= Len(in), \A k \in 1 .. Len(w) : in[i + k - 1] = w[k]
  PROVE  SubSeq(in, i, i + Len(w) - 1) = w
  <1> DEFINE n == Len(w)
             j == i + n - 1
             s == SubSeq(in, i, j)
  <1>1. n \in Nat /\ Len(in) \in Nat /\ j \in Int /\ i \in Int
    BY LenProperties
  <1>2. \A k \in i .. j : in[k] \in S
    <2>1. \A k \in i .. j : k \in 1 .. Len(in)
      BY <1>1
    <2> QED BY <2>1, ElementOfSeq
  <1>3. /\ s \in Seq(S) /\ Len(s) = IF i <= j THEN j - i + 1 ELSE 0
        /\ \A k \in 1 .. j - i + 1 : s[k] = in[i + k - 1]
    <2> HIDE DEF n, j
    <2> QED BY <1>1, <1>2, SubSeqProperties
  <1>4. Len(s) = n /\ j - i + 1 = n
    BY <1>1, <1>3
  <1> HIDE DEF s, j
  <1>5. \A k \in 1 .. Len(s) : s[k] = w[k]
    BY <1>3, <1>4
  <1>6. s = w
    BY <1>3, <1>4, <1>5, SeqEqual
  <1> QED BY <1>6 DEF s, j

(* What parseString and parseInteger make of it.                           *)
StringLayout(s, d) ==
  /\ d = Decimal(Len(s)) /\ DigitsOf(Len(s), d) /\ Len(d) \in Nat \ {0}
  /\ \A k \in 1 .. Len(d) : d[k] \in ToSet(Digits)
  /\ EncodeString(s) \in Seq(Byte)
  /\ IsThree(EncodeString(s), d, <<":">>, s)

LEMMA StringInARow ==
  ASSUME NEW s \in Seq(Byte)
  PROVE  StringLayout(s, Decimal(Len(s)))
  <1> DEFINE d == Decimal(Len(s))
  <1>1. Len(s) \in Nat
    BY LenProperties
  <1>2. DigitsOf(Len(s), d) /\ d \in Seq(Byte)
    BY <1>1, DecimalSpells, DecimalType
  <1> HIDE DEF d
  <1>3. d \in Seq(ToSet(Digits)) /\ Len(d) \in Nat \ {0} /\ \A k \in 1 .. Len(d) : d[k] \in ToSet(Digits)
    BY <1>2, SeqFacts, EmptySeq DEF DigitsOf
  <1>4. EncodeString(s) = d \o <<":">> \o s
    BY Zenon DEF EncodeString, d
  <1>5. EncodeString(s) \in Seq(Byte) /\ IsThree(EncodeString(s), d, <<":">>, s)
    BY <1>2, <1>4, ByteFacts, ThreeInARow
  <1> QED BY <1>2, <1>3, <1>5 DEF StringLayout, d

ReadsString(r, in, p, s) ==
  /\ r.ok <=> p + Len(EncodeString(s)) - 1 <= Len(in)
  /\ r.ok => r.value = Text(s) /\ r.pos = p + Len(EncodeString(s))

LEMMA StringIsRead ==
  ASSUME NEW in \in Seq(Byte), NEW s \in Seq(Byte), NEW p \in 1 .. Len(in) + 1,
         AgreesAt(in, p, EncodeString(s))
  PROVE  ReadsString(ParseString(in, p), in, p, s)
  <1> DEFINE w == EncodeString(s)
             d == Decimal(Len(s))
             m == Len(d)
             n == Len(in)
             colon == SkipTo(":", in, p)
             token == SubSeq(in, p, colon - 1)
             last == colon + NumberOf(token)
             fine == colon <= Len(in) /\ IsNumber(token) /\ last <= Len(in)
  <1>1. ParseString(in, p) = IF fine THEN Parsed(Text(SubSeq(in, colon + 1, last)), last + 1)
                             ELSE Failed
    BY Zenon DEF ParseString
  <1>2. StringLayout(s, d)
    BY StringInARow
  <1>3. n \in Nat /\ p \in Int /\ 1 <= p /\ Len(s) \in Nat
    BY LenProperties
  <1>4. /\ m \in Nat \ {0} /\ Len(w) = m + 1 + Len(s) /\ w[m + 1] = ":"
        /\ \A k \in 1 .. m : w[k] = d[k] /\ d[k] \in ToSet(Digits) /\ d[k] # ":"
        /\ \A k \in 1 .. Len(s) : w[m + 1 + k] = s[k]
    <2> HIDE DEF d, w
    <2>1. Len(<<":">>) = 1 /\ <<":">>[1] = ":"
      OBVIOUS
    <2>2. IsThree(w, d, <<":">>, s) /\ m \in Nat \ {0} /\ \A k \in 1 .. m : d[k] \in ToSet(Digits)
      BY <1>2 DEF StringLayout, d, w
    <2>3. w[m + 1] = ":" /\ Len(w) = m + 1 + Len(s)
      BY <2>1, <2>2 DEF IsThree
    <2> QED BY <2>1, <2>2, <2>3, DigitFacts DEF IsThree
  <1>5. d \in Seq(ToSet(Digits)) /\ d # <<>> /\ NumberOf(d) = Len(s)
    BY <1>2 DEF StringLayout, DigitsOf
  <1>6. d \in Seq(Byte)
    BY <1>3, DecimalType
  <1>11. in \in Seq(Byte) /\ s \in Seq(Byte)
    OBVIOUS
  <1> HIDE DEF d, w, colon
  <1>7. \A k \in 1 .. Len(w) : p + k - 1 <= n => in[p + k - 1] = w[k]
    BY DEF AgreesAt, w
  <1>8. \A k \in p .. p + m - 1 : k <= n => in[k] # ":"
    <2> TAKE k \in p .. p + m - 1
    <2> DEFINE j == k - p + 1
    <2>1. j \in 1 .. m /\ j \in 1 .. Len(w) /\ p + j - 1 = k
      BY <1>3, <1>4
    <2> HIDE DEF j
    <2>2. w[j] # ":"
      BY <1>4, <2>1
    <2> QED BY <1>7, <2>1, <2>2
  <1>9. CASE p + m <= n
    <2>1. in[p + m] = ":"
      <3>1. m + 1 \in 1 .. Len(w) /\ p + (m + 1) - 1 = p + m
        BY <1>3, <1>4
      <3> QED BY <1>4, <1>7, <1>9, <3>1
    <2>2. Stops(":", in, p, p + m)
      <3>1. p + m \in p .. Len(in) + 1
        BY <1>3, <1>4, <1>9
      <3>2. \A k \in p .. p + m - 1 : k <= n
        BY <1>3, <1>4, <1>9
      <3> QED BY <1>8, <2>1, <3>1, <3>2 DEF Stops
    <2>3. colon = p + m
      BY <2>2, SkipToStops DEF colon
    <2>4. token = d
      <3> DEFINE part == SubSeq(in, p, p + Len(d) - 1)
      <3>1. p + Len(d) - 1 <= Len(in) /\ p \in Nat \ {0}
        BY <1>3, <1>4, <1>9
      <3>2. \A k \in 1 .. Len(d) : in[p + k - 1] = d[k]
        <4> TAKE k \in 1 .. Len(d)
        <4>1. k \in 1 .. Len(w) /\ p + k - 1 <= n
          BY <1>3, <1>4, <1>9
        <4> QED BY <1>4, <1>7, <4>1
      <3>3. part = d
        BY <1>6, <1>11, <3>1, <3>2, SubSeqIs
      <3> QED BY <2>3, <3>3
    <2>5. IsNumber(d)
      <3>1. ToSet(d) \subseteq ToSet(Digits)
        BY <1>5, SeqFacts DEF ToSet
      <3> QED BY <1>5, <3>1, Zenon DEF IsNumber
    <2> HIDE DEF token
    <2>6. last = p + m + Len(s)
      BY <1>5, <2>3, <2>4
    <2>7. fine <=> p + Len(w) - 1 <= n
      BY <1>3, <1>4, <1>9, <2>3, <2>4, <2>5, <2>6
    <2>8. CASE fine
      <3> DEFINE i == p + m + 1
      <3>1. i \in Nat \ {0} /\ i + Len(s) - 1 <= Len(in)
        BY <1>3, <1>4, <2>3, <2>6, <2>8
      <3>6. i + Len(s) - 1 = last /\ i = colon + 1
        BY <1>3, <1>4, <2>3, <2>6, <2>8
      <3>2. \A k \in 1 .. Len(s) : in[i + k - 1] = s[k]
        <4> TAKE k \in 1 .. Len(s)
        <4>1. m + 1 + k \in 1 .. Len(w) /\ p + (m + 1 + k) - 1 = i + k - 1 /\ i + k - 1 <= n
          BY <1>3, <1>4, <3>1
        <4> QED BY <1>4, <1>7, <4>1
      <3> HIDE DEF i, last
      <3>3. SubSeq(in, i, i + Len(s) - 1) = s
        BY <1>11, <3>1, <3>2, SubSeqIs
      <3>4. ParseString(in, p) = Parsed(Text(s), last + 1)
        BY <1>1, <2>8, <3>3, <3>6
      <3>5. last + 1 = p + Len(w)
        BY <1>3, <1>4, <2>6
      <3> QED BY <2>7, <2>8, <3>4, <3>5, ResultFacts DEF ReadsString, w
    <2>9. CASE ~ fine
      <3>1. ParseString(in, p) = Failed
        BY <1>1, <2>9, Zenon
      <3> QED BY <2>7, <2>9, <3>1, ResultFacts DEF ReadsString, w
    <2> QED BY <2>8, <2>9
  <1>10. CASE ~(p + m <= n)
    <2>1. Stops(":", in, p, n + 1)
      <3>1. n + 1 \in p .. Len(in) + 1 /\ n + 1 > Len(in)
        BY <1>3
      <3>2. \A k \in p .. (n + 1) - 1 : k \in p .. p + m - 1 /\ k <= n
        BY <1>3, <1>4, <1>10
      <3> QED BY <1>8, <3>1, <3>2 DEF Stops
    <2>2. colon = n + 1
      BY <2>1, SkipToStops DEF colon
    <2>3. ~ fine
      BY <1>3, <2>2
    <2>4. ParseString(in, p) = Failed
      BY <1>1, <2>3, Zenon
    <2>5. ~(p + Len(w) - 1 <= n)
      BY <1>3, <1>4, <1>10
    <2> QED BY <2>4, <2>5, ResultFacts DEF ReadsString, w
  <1> QED BY <1>9, <1>10

ReadsInteger(r, in, p, s) ==
  /\ r.ok <=> IsInteger(s) /\ p + Len(s) + 1 <= Len(in)
  /\ r.ok => r.value = Integer(IntegerOf(s)) /\ r.pos = p + Len(s) + 2

LEMMA IntegerIsRead ==
  ASSUME NEW in \in Seq(Byte), NEW s \in Seq(Byte \ {"e"}), NEW p \in 1 .. Len(in),
         AgreesAt(in, p, <<"i">> \o s \o <<"e">>)
  PROVE  ReadsInteger(ParseInteger(in, p), in, p, s)
  <1> DEFINE w == <<"i">> \o s \o <<"e">>
             m == Len(s)
             n == Len(in)
             stop == SkipTo("e", in, p + 1)
             token == SubSeq(in, p + 1, stop - 1)
             fine == stop <= Len(in) /\ IsInteger(token)
  <1>1. ParseInteger(in, p) = IF fine THEN Parsed(Integer(IntegerOf(token)), stop + 1) ELSE Failed
    BY Zenon DEF ParseInteger
  <1>2. s \in Seq(Byte)
    BY SeqMonotonic
  <1>3. n \in Nat /\ m \in Nat /\ p \in Int /\ 1 <= p /\ p + 1 \in 1 .. Len(in) + 1
    BY LenProperties
  <1>4. /\ Len(w) = m + 2 /\ w[m + 2] = "e"
        /\ \A k \in 1 .. m : w[k + 1] = s[k] /\ s[k] # "e"
    <2>1. IsThree(w, <<"i">>, s, <<"e">>)
      BY <1>2, ByteFacts, ThreeInARow
    <2>2. \A k \in 1 .. m : s[k] # "e"
      BY SeqFacts
    <2>3. Len(<<"i">>) = 1 /\ Len(<<"e">>) = 1 /\ <<"e">>[1] = "e"
      OBVIOUS
    <2> HIDE DEF w
    <2>4. Len(w) = m + 2 /\ w[m + 2] = "e"
      <3>1. 1 + m + 1 = m + 2
        BY <1>3
      <3> QED BY <1>3, <2>1, <2>3, <3>1 DEF IsThree
    <2>5. \A k \in 1 .. m : w[k + 1] = s[k]
      <3>1. \A k \in 1 .. m : w[1 + k] = s[k] /\ 1 + k = k + 1
        BY <1>3, <2>1, <2>3 DEF IsThree
      <3> QED BY <3>1
    <2> QED BY <2>2, <2>4, <2>5
  <1> HIDE DEF w, stop
  <1>5. \A k \in 1 .. Len(w) : p + k - 1 <= n => in[p + k - 1] = w[k]
    BY DEF AgreesAt, w
  <1>6. \A k \in p + 1 .. p + m : k <= n => in[k] # "e"
    <2> TAKE k \in p + 1 .. p + m
    <2> DEFINE o == k - p
    <2>1. o \in 1 .. m /\ p + o \in Int /\ p + o = k
      BY <1>3
    <2> HIDE DEF o
    <2>2. o + 1 \in 1 .. Len(w) /\ p + (o + 1) - 1 = k
      BY <1>3, <1>4, <2>1
    <2>3. k <= n => in[k] = w[o + 1]
      BY <1>5, <2>2, Zenon
    <2>4. w[o + 1] # "e"
      BY <1>4, <2>1, Zenon
    <2> QED BY <2>3, <2>4, Zenon
  <1>7. CASE p + m + 1 <= n
    <2>1. in[p + m + 1] = "e"
      <3>1. m + 2 \in 1 .. Len(w) /\ p + (m + 2) - 1 = p + m + 1
        BY <1>3, <1>4
      <3> QED BY <1>4, <1>5, <1>7, <3>1
    <2>2. Stops("e", in, p + 1, p + m + 1)
      <3>1. p + m + 1 \in p + 1 .. Len(in) + 1
        BY <1>3, <1>7
      <3>2. \A k \in p + 1 .. (p + m + 1) - 1 : k \in p + 1 .. p + m /\ k <= n
        BY <1>3, <1>7
      <3> QED BY <1>6, <2>1, <3>1, <3>2 DEF Stops
    <2>3. stop = p + m + 1
      BY <1>3, <2>2, SkipToStops DEF stop
    <2>4. token = s
      <3> DEFINE i == p + 1
                 part == SubSeq(in, i, i + Len(s) - 1)
      <3>1. i + Len(s) - 1 <= Len(in) /\ i \in Nat \ {0} /\ i + Len(s) - 1 = stop - 1
        BY <1>3, <1>7, <2>3
      <3>2. \A k \in 1 .. Len(s) : in[i + k - 1] = s[k]
        <4> TAKE k \in 1 .. Len(s)
        <4>1. k + 1 \in 1 .. Len(w) /\ p + (k + 1) - 1 <= n /\ p + (k + 1) - 1 = i + k - 1
          BY <1>3, <1>4, <1>7
        <4> QED BY <1>4, <1>5, <4>1
      <3> HIDE DEF i
      <3>3. part = s
        BY <1>2, <3>1, <3>2, SubSeqIs
      <3> QED BY <3>1, <3>3 DEF i
    <2> HIDE DEF token
    <2>5. fine <=> IsInteger(s) /\ p + Len(s) + 1 <= Len(in)
      BY <1>3, <1>7, <2>3, <2>4
    <2>6. stop + 1 = p + Len(s) + 2
      BY <1>3, <2>3
    <2>7. CASE fine
      <3>1. ParseInteger(in, p) = Parsed(Integer(IntegerOf(s)), stop + 1)
        BY <1>1, <2>4, <2>7, Zenon
      <3> QED BY <2>5, <2>6, <2>7, <3>1, ResultFacts DEF ReadsInteger
    <2>8. CASE ~ fine
      <3>1. ParseInteger(in, p) = Failed
        BY <1>1, <2>8, Zenon
      <3> QED BY <2>5, <2>8, <3>1, ResultFacts DEF ReadsInteger
    <2> QED BY <2>7, <2>8
  <1>8. CASE ~(p + m + 1 <= n)
    <2>1. Stops("e", in, p + 1, n + 1)
      <3>1. n + 1 \in p + 1 .. Len(in) + 1 /\ n + 1 > Len(in)
        BY <1>3
      <3>2. \A k \in p + 1 .. (n + 1) - 1 : k \in p + 1 .. p + m /\ k <= n
        BY <1>3, <1>8
      <3> QED BY <1>6, <3>1, <3>2 DEF Stops
    <2>2. stop = n + 1
      BY <1>3, <2>1, SkipToStops DEF stop
    <2>3. ~ fine
      BY <1>3, <2>2
    <2>4. ParseInteger(in, p) = Failed
      BY <1>1, <2>3, Zenon
    <2>5. ~(p + Len(s) + 1 <= Len(in))
      BY <1>8
    <2> QED BY <2>4, <2>5, ResultFacts DEF ReadsInteger
  <1> QED BY <1>7, <1>8

FirstOf(t, m) ==
  CASE t[m].kind = "integer" -> {"i"}
    [] t[m].kind = "list" -> {"l"}
    [] t[m].kind = "dictionary" -> {"d"}
    [] OTHER -> ToSet(Digits)

(* A text between two marks.                                               *)
IsMarked(z, s) ==
  /\ Len(s) \in Nat /\ Len(z) = Len(s) + 2
  /\ z[Len(s) + 2] = "e" /\ \A k \in 1 .. Len(s) : z[k + 1] = s[k]

(* What a text between two marks begins with.                              *)
LEMMA MarkedText ==
  ASSUME NEW b \in Byte, NEW s \in Seq(Byte), NEW z, z = <<b>> \o s \o <<"e">>
  PROVE  z \in Seq(Byte) /\ z[1] = b /\ IsMarked(z, s)
  <1>1. <<b>> \in Seq(Byte) /\ Len(<<b>>) = 1 /\ <<b>>[1] = b /\ Len(<<"e">>) = 1 /\ <<"e">>[1] = "e"
    OBVIOUS
  <1> DEFINE a == <<b>>
             e == <<"e">>
  <1>2. a \in Seq(Byte) /\ e \in Seq(Byte) /\ Len(a) = 1 /\ a[1] = b /\ Len(e) = 1 /\ e[1] = "e"
    BY <1>1, ByteFacts
  <1>3. z = a \o s \o e
    OBVIOUS
  <1> HIDE DEF a, e
  <1>4. z \in Seq(Byte) /\ IsThree(z, a, s, e)
    BY <1>2, <1>3, ThreeInARow
  <1>5. Len(s) \in Nat /\ Len(z) = Len(s) + 2
    BY <1>2, <1>4 DEF IsThree
  <1>6. z[1] = b
    BY <1>2, <1>4 DEF IsThree
  <1>7. z[1 + Len(s) + 1] = "e"
    BY <1>2, <1>4 DEF IsThree
  <1>8. \A k \in 1 .. Len(s) : z[1 + k] = s[k]
    BY <1>2, <1>4 DEF IsThree
  <1>9. 1 + Len(s) + 1 = Len(s) + 2 /\ \A k \in 1 .. Len(s) : 1 + k = k + 1
    BY <1>5
  <1>10. \A k \in 1 .. Len(s) : z[k + 1] = s[k]
    BY <1>8, <1>9
  <1> QED BY <1>4, <1>5, <1>6, <1>7, <1>9, <1>10 DEF IsMarked

LEMMA StringBegins ==
  ASSUME NEW s \in Seq(Byte)
  PROVE  /\ EncodeString(s) \in Seq(Byte)
         /\ Len(EncodeString(s)) \in Nat /\ Len(EncodeString(s)) >= 2
         /\ EncodeString(s)[1] \in ToSet(Digits)
  <1> DEFINE w == EncodeString(s)
             d == Decimal(Len(s))
  <1>1. StringLayout(s, d)
    BY StringInARow
  <1> HIDE DEF w, d
  <1>2. IsThree(w, d, <<":">>, s) /\ Len(d) \in Nat \ {0} /\ d[1] \in ToSet(Digits) /\ w \in Seq(Byte)
    BY <1>1 DEF StringLayout, w
  <1>3. Len(<<":">>) = 1
    OBVIOUS
  <1>4. Len(w) = Len(d) + 1 + Len(s) /\ Len(s) \in Nat /\ w[1] = d[1]
    BY <1>2, <1>3 DEF IsThree
  <1> QED BY <1>2, <1>4 DEF w

LEMMA FirstByte ==
  ASSUME NEW t, IsTree(t), NEW m \in DOMAIN t
  PROVE  /\ Spell(t, m) \in Seq(Byte)
         /\ Len(Spell(t, m)) \in Nat /\ Len(Spell(t, m)) >= 2
         /\ Spell(t, m)[1] \in FirstOf(t, m)
  <1> DEFINE w == Spell(t, m)
  <1>1. IsSpelled(t, m)
    BY SpellFacts
  <1>2. w \in Seq(Byte)
    BY <1>1 DEF IsSpelled
  <1>3. {"i", "l", "d"} \subseteq Byte
    BY ByteFacts
  <1>4. CASE t[m].kind = "integer"
    <2>5. t[m].spelling \in Seq(Byte \ {"e"})
      BY <1>4, NodeFacts
    <2>1. t[m].spelling \in Seq(Byte)
      BY <2>5, SeqMonotonic
    <2>2. w = <<"i">> \o t[m].spelling \o <<"e">>
      BY <1>1, <1>4 DEF IsSpelled
    <2> HIDE DEF w
    <2>3. Len(w) = Len(t[m].spelling) + 2 /\ Len(t[m].spelling) \in Nat /\ w[1] = "i"
      BY <1>3, <2>1, <2>2, MarkedText DEF IsMarked
    <2>4. FirstOf(t, m) = {"i"}
      BY <1>4 DEF FirstOf
    <2> QED BY <1>2, <2>3, <2>4 DEF w
  <1>5. CASE t[m].kind = "string"
    <2>1. t[m].bytes \in Seq(Byte)
      BY <1>5, NodeFacts
    <2>2. w = EncodeString(t[m].bytes)
      BY <1>1, <1>5 DEF IsSpelled
    <2>3. FirstOf(t, m) = ToSet(Digits)
      BY <1>5 DEF FirstOf
    <2> QED BY <2>1, <2>2, <2>3, StringBegins
  <1>6. CASE t[m].kind = "list"
    <2> DEFINE s == FlattenSeq(ItemSpellings(t, t[m].items))
    <2>1. s \in Seq(Byte)
      BY <1>1, <1>6, FlattenLayout DEF IsSpelled
    <2>2. w = <<"l">> \o s \o <<"e">>
      BY <1>1, <1>6, Zenon DEF IsSpelled
    <2> HIDE DEF w, s
    <2>3. Len(w) = Len(s) + 2 /\ Len(s) \in Nat /\ w[1] = "l"
      BY <1>3, <2>1, <2>2, MarkedText DEF IsMarked
    <2>4. FirstOf(t, m) = {"l"}
      BY <1>6 DEF FirstOf
    <2> QED BY <1>2, <2>3, <2>4 DEF w
  <1>7. CASE t[m].kind = "dictionary"
    <2> DEFINE s == FlattenSeq(PairSpellings(t, t[m].pairs))
    <2>1. s \in Seq(Byte)
      BY <1>1, <1>7, FlattenLayout DEF IsSpelled
    <2>2. w = <<"d">> \o s \o <<"e">>
      BY <1>1, <1>7, Zenon DEF IsSpelled
    <2> HIDE DEF w, s
    <2>3. Len(w) = Len(s) + 2 /\ Len(s) \in Nat /\ w[1] = "d"
      BY <1>3, <2>1, <2>2, MarkedText DEF IsMarked
    <2>4. FirstOf(t, m) = {"d"}
      BY <1>7 DEF FirstOf
    <2> QED BY <1>2, <2>3, <2>4 DEF w
  <1> QED BY <1>4, <1>5, <1>6, <1>7, NodeFacts

LEMMA ValueCases ==
  ASSUME NEW in, NEW f, NEW p, ~(p > Len(in))
  PROVE  /\ in[p] = "i" => ParseValue(in, f, p) = ParseInteger(in, p)
         /\ in[p] = "l" => ParseValue(in, f, p) = f[p + 1]["list"]
         /\ in[p] = "d" => ParseValue(in, f, p) = f[p + 1]["dictionary"]
         /\ in[p] \in ToSet(Digits) => ParseValue(in, f, p) = ParseString(in, p)
  <1>1. in[p] \in ToSet(Digits) => in[p] \notin {"i", "l", "d"}
    BY DigitFacts
  <1> QED BY <1>1, SMT DEF ParseValue

(* Pieces in a row between two marks, and where each of them begins.       *)
IsRow(in, p, pieces, z, c) ==
  LET m == Len(pieces)
  IN  /\ m \in Nat /\ c \in [1 .. m + 1 -> Nat \ {0}]
      /\ c[1] = p + 1 /\ c[m + 1] = p + Len(z) - 1
      /\ c[m + 1] <= Len(in) => in[c[m + 1]] = "e"
      /\ \A k \in 1 .. m : /\ c[k + 1] = c[k] + Len(pieces[k]) /\ c[k] <= c[m + 1]
                           /\ AgreesAt(in, c[k], pieces[k])

LEMMA RowOfPieces ==
  ASSUME NEW in \in Seq(Byte), NEW p \in Nat \ {0}, NEW pieces \in Seq(Seq(Byte)), NEW whole,
         NEW at, Layout(pieces, whole, at), NEW z, IsMarked(z, whole), AgreesAt(in, p, z)
  PROVE  \E c : IsRow(in, p, pieces, z, c)
  <1> DEFINE m == Len(pieces)
             n == Len(in)
  <1>4. /\ Len(whole) \in Nat /\ Len(z) = Len(whole) + 2
        /\ z[Len(whole) + 2] = "e" /\ \A k \in 1 .. Len(whole) : z[k + 1] = whole[k]
    BY DEF IsMarked
  <1>5. m \in Nat /\ n \in Nat /\ \A k \in 1 .. m : pieces[k] \in Seq(Byte) /\ Len(pieces[k]) \in Nat
    <2>1. m \in Nat /\ \A k \in 1 .. m : pieces[k] \in Seq(Byte)
      BY SeqFacts
    <2>2. n \in Nat
      BY LenProperties
    <2> HIDE DEF m, n
    <2>3. \A k \in 1 .. m : Len(pieces[k]) \in Nat
      BY <2>1, LenProperties
    <2> QED BY <2>1, <2>2, <2>3
  <1> HIDE DEF m, n
  <1>6. /\ at \in [0 .. m -> 0 .. Len(whole)] /\ at[0] = 0 /\ at[m] = Len(whole)
        /\ \A k \in 1 .. m : /\ at[k] = at[k - 1] + Len(pieces[k])
                             /\ \A j \in 1 .. Len(pieces[k]) : whole[at[k - 1] + j] = pieces[k][j]
    BY DEF Layout, m
  <1> DEFINE c == [k \in 1 .. m + 1 |-> p + 1 + at[k - 1]]
             l == Len(whole)
  <1>7. l \in Nat /\ \A k \in 1 .. m + 1 : k - 1 \in 0 .. m /\ at[k - 1] \in 0 .. l
    BY <1>4, <1>5, <1>6
  <1>8. c \in [1 .. m + 1 -> Nat \ {0}] /\ c[1] = p + 1 /\ c[m + 1] = p + 1 + l
    <2>1. \A k \in 1 .. m + 1 : p + 1 + at[k - 1] \in Nat \ {0}
      BY <1>7
    <2>2. 1 \in 1 .. m + 1 /\ m + 1 \in 1 .. m + 1 /\ (m + 1) - 1 = m
      BY <1>5
    <2>3. c \in [1 .. m + 1 -> Nat \ {0}]
      BY <2>1
    <2>4. 1 - 1 = 0 /\ c[1] = p + 1 + at[1 - 1] /\ c[m + 1] = p + 1 + at[(m + 1) - 1]
      BY <2>2
    <2> HIDE DEF c
    <2>5. c[1] = p + 1 + at[0] /\ c[m + 1] = p + 1 + at[m]
      BY <2>2, <2>4
    <2> QED BY <1>6, <2>3, <2>5
  <1>9. \A j \in 1 .. Len(z) : p + j - 1 <= n => in[p + j - 1] = z[j]
    BY DEF AgreesAt, n
  <1>13. Len(z) = l + 2 /\ z[l + 2] = "e" /\ \A k \in 1 .. l : z[k + 1] = whole[k]
    BY <1>4
  <1>14. \A k \in 1 .. m : /\ k \in 1 .. m + 1 /\ k + 1 \in 1 .. m + 1 /\ (k + 1) - 1 = k
                           /\ c[k] = p + 1 + at[k - 1] /\ c[k + 1] = p + 1 + at[k]
                           /\ k \in 0 .. m /\ at[k - 1] \in 0 .. l /\ at[k] \in 0 .. l
    BY <1>5, <1>6, <1>7
  <1> HIDE DEF c, l
  <1>10. c[m + 1] <= n => in[c[m + 1]] = "e"
    <2>1. l + 2 \in 1 .. Len(z) /\ p + (l + 2) - 1 = c[m + 1]
      BY <1>7, <1>8, <1>13
    <2> QED BY <1>9, <1>13, <2>1
  <1>11. ASSUME NEW k \in 1 .. m
         PROVE  c[k + 1] = c[k] + Len(pieces[k]) /\ c[k] <= c[m + 1] /\ AgreesAt(in, c[k], pieces[k])
    <2> DEFINE x == at[k - 1]
               y == at[k]
               o == Len(pieces[k])
               u == pieces[k]
    <2>5. y = x + o /\ \A j \in 1 .. o : whole[x + j] = u[j]
      BY <1>6, Zenon
    <2>6. x \in 0 .. l /\ y \in 0 .. l /\ c[k] = p + 1 + x /\ c[k + 1] = p + 1 + y
      BY <1>14, Zenon
    <2>7. o \in Nat
      BY <1>5
    <2> HIDE DEF x, y, o, u
    <2>1. /\ x \in Int /\ y \in Int /\ 0 <= x /\ y <= l /\ x <= l /\ o \in Nat /\ y = x + o
          /\ c[k] = p + 1 + x /\ c[k + 1] = p + 1 + y /\ c[m + 1] = p + 1 + l
          /\ \A j \in 1 .. o : whole[x + j] = u[j]
      <3>1. l \in Nat /\ c[m + 1] = p + 1 + l
        BY <1>7, <1>8, Zenon
      <3>2. x \in Int /\ y \in Int /\ 0 <= x /\ y <= l /\ x <= l
        BY <2>6, <3>1
      <3> QED BY <2>5, <2>6, <2>7, <3>1, <3>2, Zenon
    <2>2. c[k + 1] = c[k] + o /\ c[k] <= c[m + 1]
      <3>1. /\ x \in Int /\ x <= l /\ o \in Nat /\ y = x + o
            /\ c[k] = p + 1 + x /\ c[k + 1] = p + 1 + y /\ c[m + 1] = p + 1 + l
        BY <2>1, Zenon
      <3>2. l \in Nat /\ p \in Nat
        BY <1>7, Zenon
      <3> QED BY <3>1, <3>2
    <2>3. ASSUME NEW j \in 1 .. o, c[k] + j - 1 <= n
          PROVE  in[c[k] + j - 1] = u[j]
      <3> DEFINE i == x + j
      <3>1. i \in 1 .. l /\ i + 1 \in 1 .. Len(z) /\ p + (i + 1) - 1 = c[k] + j - 1
        BY <1>7, <1>13, <2>1
      <3>2. whole[i] = u[j]
        BY <2>1
      <3> HIDE DEF i
      <3>3. z[i + 1] = whole[i]
        BY <1>13, <3>1
      <3>4. in[p + (i + 1) - 1] = z[i + 1]
        BY <1>9, <2>3, <3>1
      <3> QED BY <3>1, <3>2, <3>3, <3>4
    <2>4. AgreesAt(in, c[k], u)
      BY <2>3 DEF AgreesAt, o, u, n
    <2> QED BY <2>2, <2>4 DEF u, o
  <1>15. c[m + 1] = p + Len(z) - 1
    BY <1>7, <1>8, <1>13
  <1>12. IsRow(in, p, pieces, z, c)
    BY <1>5, <1>8, <1>10, <1>11, <1>15 DEF IsRow, m, n
  <1> QED BY <1>12

LEMMA RowExists ==
  ASSUME NEW in \in Seq(Byte), NEW p \in Nat \ {0}, NEW pieces \in Seq(Seq(Byte)), NEW b \in Byte,
         NEW z, z = <<b>> \o FlattenSeq(pieces) \o <<"e">>, AgreesAt(in, p, z)
  PROVE  \E c : IsRow(in, p, pieces, z, c)
  <1> DEFINE whole == FlattenSeq(pieces)
  <1>1. whole \in Seq(Byte) /\ \E at : Layout(pieces, whole, at)
    BY FlattenLayout
  <1>2. z = <<b>> \o whole \o <<"e">>
    OBVIOUS
  <1> HIDE DEF whole
  <1>3. PICK at : Layout(pieces, whole, at)
    BY <1>1
  <1>5. whole \in Seq(Byte) /\ b \in Byte /\ z = <<b>> \o whole \o <<"e">>
    BY <1>1, <1>2
  <1>4. IsMarked(z, whole)
    BY <1>5, MarkedText
  <1> QED BY <1>3, <1>4, RowOfPieces, Zenon

(* Induction from the end of a range.                                      *)
LEMMA CountingDown ==
  ASSUME NEW n \in Nat, NEW P, \A m \in 1 .. n : (\A j \in m + 1 .. n : j \in P) => m \in P
  PROVE  \A m \in 1 .. n : m \in P
  <1> DEFINE Q == {k \in 0 .. n : \A j \in n - k + 1 .. n : j \in P}
  <1>1. 0 \in Q
    OBVIOUS
  <1>2. ASSUME NEW k \in 1 .. n, k - 1 \in Q PROVE k \in Q
    <2> DEFINE m == n - k + 1
    <2>1. m \in 1 .. n /\ \A j \in m + 1 .. n : j \in P
      BY <1>2
    <2>2. m \in P /\ \A j \in m .. n : j = m \/ j \in m + 1 .. n
      BY <2>1
    <2> QED BY <2>1, <2>2
  <1>3. \A k \in 1 .. n : k - 1 \in Q => k \in Q
    BY <1>2
  <1> HIDE DEF Q
  <1>4. \A k \in 0 .. n : k \in Q
    BY <1>1, <1>3, Counting
  <1>5. n \in Q
    BY <1>4
  <1> QED BY <1>5 DEF Q

(* What the values that were read show of the tree.                        *)
At(in, t, n, p) ==
  /\ p \in 1 .. Len(in) /\ p + Len(Spell(t, n)) - 1 <= Len(in)
  /\ AgreesAt(in, p, Spell(t, n))

First(pairs, k) == \A j \in 1 .. k - 1 : pairs[j][1] # pairs[k][1]

ShowsList(in, t, items, list) ==
  /\ list \in Seq(1 .. Len(in)) /\ Len(list) = Len(items)
  /\ \A k \in 1 .. Len(items) : At(in, t, items[k], list[k])
ShowsPairs(in, t, pairs, dict) ==
  /\ DOMAIN dict = {<<pairs[k][1]>> : k \in DOMAIN pairs}
  /\ \A k \in DOMAIN pairs : First(pairs, k) => At(in, t, pairs[k][2], dict[<<pairs[k][1]>>])

Shows(in, t, n, v) ==
  /\ v.kind = t[n].kind
  /\ t[n].kind = "integer" => v = Integer(IntegerOf(t[n].spelling))
  /\ t[n].kind = "string" => v = Text(t[n].bytes)
  /\ t[n].kind = "list" => ShowsList(in, t, t[n].items, v.list)
  /\ t[n].kind = "dictionary" => ShowsPairs(in, t, t[n].pairs, v.dictionary)

Reads(in, t, n, p) ==
  LET r == Parse(in)[p]["value"]
      end == p + Len(Spell(t, n))
  IN  /\ r.ok <=> IntegersFit(t, n) /\ end <= Len(in) + 1
      /\ r.ok => r.pos = end /\ Shows(in, t, n, r.value)

ReadsWell(in, t, n) ==
  \A p \in 1 .. Len(in) + 1 : AgreesAt(in, p, Spell(t, n)) => Reads(in, t, n, p)

LEMMA ListTurn ==
  ASSUME NEW in \in Seq(Byte), NEW i \in 1 .. Len(in), in[i] # "e"
  PROVE  LET item == Parse(in)[i]["value"]
             rest == Parse(in)[item.pos]["list"]
             r == Parse(in)[i]["list"]
         IN  IF item.ok /\ rest.ok THEN r = Parsed(List(<<i>> \o rest.value.list), rest.pos)
             ELSE r = Failed
  <1>1. i \in 1 .. Len(in) + 1 /\ ~(i > Len(in))
    BY LenProperties
  <1>2. /\ Parse(in)[i]["value"] = ParseValue(in, Parse(in), i)
        /\ Parse(in)[i]["list"] = ParseList(in, Parse(in), i)
    BY <1>1, ParseFacts
  <1> QED BY <1>1, <1>2, Zenon DEF ParseList

LEMMA DictionaryTurn ==
  ASSUME NEW in \in Seq(Byte), NEW i \in 1 .. Len(in), in[i] # "e"
  PROVE  LET key == ParseString(in, i)
             value == Parse(in)[key.pos]["value"]
             rest == Parse(in)[value.pos]["dictionary"]
             r == Parse(in)[i]["dictionary"]
         IN  IF key.ok /\ value.ok /\ rest.ok THEN r = ParsePair(key, rest) ELSE r = Failed
  <1>1. i \in 1 .. Len(in) + 1 /\ ~(i > Len(in))
    BY LenProperties
  <1>2. Parse(in)[i]["dictionary"] = ParseDictionary(in, Parse(in), i)
    BY <1>1, ParseFacts
  <1> QED BY <1>1, <1>2, Zenon DEF ParseDictionary

LEMMA LoopsEnd ==
  ASSUME NEW in \in Seq(Byte), NEW i \in 1 .. Len(in) + 1, i <= Len(in) => in[i] = "e"
  PROVE  LET l == Parse(in)[i]["list"]
             d == Parse(in)[i]["dictionary"]
         IN  IF i > Len(in) THEN l = Failed /\ d = Failed
             ELSE l = Parsed(List(<<>>), i + 1) /\ d = Parsed(Dictionary(<<>>), i + 1)
  <1>1. /\ Parse(in)[i]["list"] = ParseList(in, Parse(in), i)
        /\ Parse(in)[i]["dictionary"] = ParseDictionary(in, Parse(in), i)
    BY ParseFacts
  <1>2. i > Len(in) \/ i <= Len(in)
    BY LenProperties
  <1> QED BY <1>1, <1>2, Zenon DEF ParseList, ParseDictionary

LEMMA LoopsCut ==
  ASSUME NEW in \in Seq(Byte), NEW i \in 1 .. Len(in) + 1, i > Len(in)
  PROVE  Parse(in)[i]["list"] = Failed /\ Parse(in)[i]["dictionary"] = Failed
  <1>1. /\ Parse(in)[i]["list"] = ParseList(in, Parse(in), i)
        /\ Parse(in)[i]["dictionary"] = ParseDictionary(in, Parse(in), i)
    BY ParseFacts
  <1> QED BY <1>1, Zenon DEF ParseList, ParseDictionary

(* What the loop of parseList has read when it is through, from the k-th   *)
(* item on.                                                                *)
IsListRead(in, t, items, c, k) ==
  LET m == Len(items)
      r == Parse(in)[c[k]]["list"]
  IN  /\ r.ok <=> (\A j \in k .. m : IntegersFit(t, items[j])) /\ c[m + 1] <= Len(in)
      /\ r.ok => /\ r.pos = c[m + 1] + 1 /\ r.value.kind = "list"
                 /\ r.value.list \in Seq(Nat) /\ Len(r.value.list) = m - k + 1
                 /\ \A j \in 1 .. m - k + 1 : r.value.list[j] = c[k + j - 1]

LEMMA NotE ==
  ASSUME NEW t, IsTree(t), NEW m \in DOMAIN t
  PROVE  "e" \notin FirstOf(t, m) /\ "e" \notin ToSet(Digits)
  <1>1. "e" \notin ToSet(Digits)
    BY DigitFacts
  <1>2. FirstOf(t, m) \in {{"i"}, {"l"}, {"d"}, ToSet(Digits)}
    BY DEF FirstOf
  <1> QED BY <1>1, <1>2

LEMMA ListStep ==
  ASSUME NEW in \in Seq(Byte), NEW t, IsTree(t), NEW items \in Seq(DOMAIN t),
         NEW c \in [1 .. Len(items) + 1 -> Nat \ {0}],
         NEW k \in 1 .. Len(items), c[k] <= Len(in) + 1, ReadsWell(in, t, items[k]),
         AgreesAt(in, c[k], Spell(t, items[k])),
         c[k + 1] = c[k] + Len(Spell(t, items[k])), c[k + 1] <= c[Len(items) + 1],
         c[k + 1] <= Len(in) + 1 => IsListRead(in, t, items, c, k + 1)
  PROVE  IsListRead(in, t, items, c, k)
  <1> DEFINE m == Len(items)
             n == Len(in)
             q == c[k]
             s == c[k + 1]
             e == c[m + 1]
             w == Spell(t, items[k])
             fit == IntegersFit(t, items[k])
             others == \A j \in k + 1 .. m : IntegersFit(t, items[j])
             r == Parse(in)[q]["list"]
             item == Parse(in)[q]["value"]
             rest == Parse(in)[item.pos]["list"]
             next == Parse(in)[s]["list"]
  <1>1. m \in Nat /\ n \in Nat /\ k \in 1 .. m /\ items[k] \in DOMAIN t
    <2>1. m \in Nat /\ n \in Nat
      BY LenProperties
    <2>2. items[k] \in DOMAIN t
      BY SeqFacts, Zenon
    <2> QED BY <2>1, <2>2, Zenon
  <1>2. q \in Nat \ {0} /\ s \in Nat \ {0} /\ e \in Nat /\ q <= n + 1 /\ s <= e
    <2>1. k \in 1 .. m + 1 /\ k + 1 \in 1 .. m + 1 /\ m + 1 \in 1 .. m + 1
      <3> HIDE DEF m
      <3> QED BY <1>1
    <2>2. q \in Nat \ {0} /\ s \in Nat \ {0} /\ e \in Nat \ {0}
      BY <2>1, Zenon
    <2>3. e \in Nat
      <3> HIDE DEF e
      <3> QED BY <2>2
    <2> QED BY <2>2, <2>3, Zenon
  <1>3. w \in Seq(Byte) /\ Len(w) \in Nat /\ Len(w) >= 2 /\ w[1] # "e"
    <2>1. w[1] \in FirstOf(t, items[k]) /\ "e" \notin FirstOf(t, items[k])
      BY <1>1, FirstByte, NotE
    <2> QED BY <1>1, <2>1, FirstByte
  <1>4. AgreesAt(in, q, w) /\ s = q + Len(w)
    OBVIOUS
  <1>5. (\A j \in k .. m : IntegersFit(t, items[j])) <=> fit /\ others
    <2>1. \A j \in k .. m : j = k \/ j \in k + 1 .. m
      BY <1>1
    <2>2. k \in k .. m /\ \A j \in k + 1 .. m : j \in k .. m
      BY <1>1
    <2> QED BY <2>1, <2>2, Zenon
  <1>6. s <= n + 1 =>
          /\ next.ok <=> others /\ e <= n
          /\ next.ok => /\ next.pos = e + 1 /\ next.value.kind = "list"
                        /\ next.value.list \in Seq(Nat) /\ Len(next.value.list) = m - (k + 1) + 1
                        /\ \A j \in 1 .. m - (k + 1) + 1 : next.value.list[j] = c[(k + 1) + j - 1]
    BY DEF IsListRead
  <1>7. q \in 1 .. Len(in) + 1
    BY <1>1, <1>2
  <1>8. Reads(in, t, items[k], q)
    BY <1>4, <1>7 DEF ReadsWell
  <1>9. /\ item.ok <=> fit /\ s <= n + 1
        /\ item.ok => item.pos = s
    BY <1>4, <1>8 DEF Reads
  <1>10. IsListRead(in, t, items, c, k) <=>
          /\ r.ok <=> fit /\ others /\ e <= n
          /\ r.ok => /\ r.pos = e + 1 /\ r.value.kind = "list"
                     /\ r.value.list \in Seq(Nat) /\ Len(r.value.list) = m - k + 1
                     /\ \A j \in 1 .. m - k + 1 : r.value.list[j] = c[k + j - 1]
    BY <1>5, Zenon DEF IsListRead
  <1>11. CASE q > n
    <2>1. r = Failed
      BY <1>7, <1>11, LoopsCut
    <2>2. ~(e <= n)
      BY <1>1, <1>2, <1>3, <1>4, <1>11
    <2> QED BY <1>10, <2>1, <2>2, ResultFacts
  <1>12. CASE ~(q > n)
    <2>1. q \in 1 .. Len(in)
      BY <1>1, <1>2, <1>12
    <2>2. in[q] # "e"
      <3>1. 1 \in 1 .. Len(w) /\ q + 1 - 1 = q /\ q <= Len(in)
        BY <1>2, <1>3, <2>1
      <3>2. q + 1 - 1 <= Len(in) => in[q + 1 - 1] = w[1]
        BY <1>4, <3>1, Zenon DEF AgreesAt
      <3> QED BY <1>3, <3>1, <3>2
    <2>3. IF item.ok /\ rest.ok THEN r = Parsed(List(<<q>> \o rest.value.list), rest.pos) ELSE r = Failed
      BY <2>1, <2>2, ListTurn
    <2>4. item.ok => rest = next
      BY <1>9, Zenon
    <2> HIDE DEF r, item, rest, next, fit, others, w, q, s, e
    <2>5. CASE item.ok /\ rest.ok
      <3>1. s <= n + 1 /\ fit /\ rest = next /\ next.ok
        BY <1>9, <2>4, <2>5
      <3> DEFINE l == next.value.list
                 i == m - (k + 1) + 1
      <3>2. /\ others /\ e <= n /\ next.pos = e + 1
            /\ l \in Seq(Nat) /\ Len(l) = i
            /\ \A j \in 1 .. i : l[j] = c[(k + 1) + j - 1]
        BY <1>6, <3>1
      <3>3. r = Parsed(List(<<q>> \o l), e + 1)
        BY <2>3, <2>5, <3>1, <3>2
      <3>4. /\ i \in Nat /\ i + 1 = m - k + 1
            /\ \A j \in 1 .. i : (k + 1) + j - 1 = k + (j + 1) - 1
        BY <1>1
      <3> HIDE DEF l, i
      <3> DEFINE u == <<q>> \o l
      <3>5. u \in Seq(Nat) /\ Len(u) = i + 1 /\ u[1] = q /\ \A j \in 1 .. i : u[j + 1] = l[j]
        <4>1. <<q>> \in Seq(Nat) /\ Len(<<q>>) = 1 /\ <<q>>[1] = q
          BY <1>2
        <4> DEFINE v == <<q>>
        <4>2. v \in Seq(Nat) /\ Len(v) = 1 /\ v[1] = q
          BY <4>1
        <4> HIDE DEF v
        <4>3. v \o l \in Seq(Nat) /\ IsConcat(v \o l, v, l)
          BY <3>2, <4>2, Concatenation
        <4> DEFINE x == v \o l
        <4> HIDE DEF x
        <4>4. IsConcat(x, v, l)
          BY <4>3 DEF x
        <4>5. Len(x) = i + 1 /\ x[1] = q /\ \A j \in 1 .. i : x[j + 1] = l[j]
          <5>1. \A j \in 1 .. i : 1 + j = j + 1
            BY <3>4
          <5>2. 1 + i = i + 1
            BY <3>4
          <5> QED BY <3>2, <4>2, <4>4, <5>1, <5>2 DEF IsConcat
        <4> QED BY <4>3, <4>5 DEF x, v
      <3> HIDE DEF u
      <3>6. r = Parsed(List(u), e + 1)
        BY <3>3 DEF u
      <3>7. r.ok /\ r.pos = e + 1 /\ r.value = List(u)
        BY <3>6, ResultFacts
      <3>8. r.value.kind = "list" /\ r.value.list = u
        BY <3>7 DEF List
      <3>9. \A j \in 1 .. i + 1 : u[j] = c[k + j - 1]
        <4> TAKE j \in 1 .. i + 1
        <4>1. CASE j = 1
          <5>1. k + 1 - 1 = k
            BY <1>1
          <5> QED BY <3>5, <4>1, <5>1 DEF q
        <4>2. CASE j # 1
          <5> DEFINE h == j - 1
          <5>1. h \in 1 .. i /\ j = h + 1
            BY <3>4, <4>2
          <5> HIDE DEF h
          <5>2. u[h + 1] = c[(k + 1) + h - 1]
            BY <3>2, <3>5, <5>1
          <5>3. (k + 1) + h - 1 = k + (h + 1) - 1
            BY <3>4, <5>1
          <5> QED BY <5>1, <5>2, <5>3
        <4> QED BY <4>1, <4>2
      <3> QED BY <1>10, <3>1, <3>2, <3>4, <3>5, <3>7, <3>8, <3>9
    <2>6. CASE ~(item.ok /\ rest.ok)
      <3>1. r = Failed
        BY <2>3, <2>6
      <3>2. ~(fit /\ others /\ e <= n)
        BY <1>1, <1>2, <1>6, <1>9, <2>4, <2>6
      <3> QED BY <1>10, <3>1, <3>2, ResultFacts
    <2> QED BY <2>5, <2>6
  <1> QED BY <1>11, <1>12

LEMMA ListIsRead ==
  ASSUME NEW in \in Seq(Byte), NEW t, IsTree(t), NEW items \in Seq(DOMAIN t),
         \A k \in 1 .. Len(items) : ReadsWell(in, t, items[k]),
         NEW p \in Nat, NEW z, NEW c, IsRow(in, p, ItemSpellings(t, items), z, c),
         c[1] <= Len(in) + 1
  PROVE  IsListRead(in, t, items, c, 1)
  <1> DEFINE m == Len(items)
             P == {k \in 1 .. m + 1 : c[k] <= Len(in) + 1 => IsListRead(in, t, items, c, k)}
  <1>1. m \in Nat /\ DOMAIN items = 1 .. m
    BY SeqFacts
  <1>2. /\ Len(ItemSpellings(t, items)) = m
        /\ \A k \in 1 .. m : ItemSpellings(t, items)[k] = Spell(t, items[k])
    BY <1>1 DEF ItemSpellings
  <1>3. /\ c \in [1 .. m + 1 -> Nat \ {0}]
        /\ c[m + 1] <= Len(in) => in[c[m + 1]] = "e"
        /\ \A k \in 1 .. m : /\ c[k + 1] = c[k] + Len(Spell(t, items[k])) /\ c[k] <= c[m + 1]
                             /\ AgreesAt(in, c[k], Spell(t, items[k]))
    BY <1>2 DEF IsRow
  <1>4. ASSUME NEW k \in 1 .. m + 1, \A j \in k + 1 .. m + 1 : j \in P PROVE k \in P
    <2>1. CASE k \in 1 .. m
      <3>1. k + 1 \in P /\ c[k + 1] <= c[m + 1]
        <4>1. k + 1 \in k + 1 .. m + 1 /\ (k + 1 = m + 1 \/ k + 1 \in 1 .. m)
          BY <1>1, <2>1
        <4>2. c[m + 1] \in Nat
          <5>1. m + 1 \in 1 .. m + 1
            BY <1>1
          <5>2. c[m + 1] \in Nat \ {0}
            BY <1>3, <5>1, Zenon
          <5> QED BY <5>2, Zenon
        <4>3. k + 1 \in P
          <5> HIDE DEF P
          <5> QED BY <1>4, <4>1, Zenon
        <4>4. CASE k + 1 = m + 1
          BY <4>2, <4>3, <4>4
        <4>5. CASE k + 1 \in 1 .. m
          BY <1>3, <4>3, <4>5, Zenon
        <4> QED BY <4>1, <4>4, <4>5, Zenon
      <3>2. ASSUME c[k] <= Len(in) + 1 PROVE IsListRead(in, t, items, c, k)
        <4>1. c[k + 1] <= Len(in) + 1 => IsListRead(in, t, items, c, k + 1)
          BY <3>1
        <4>2. ReadsWell(in, t, items[k]) /\ AgreesAt(in, c[k], Spell(t, items[k]))
          BY <1>3, <2>1
        <4>3. c[k + 1] = c[k] + Len(Spell(t, items[k])) /\ c[k + 1] <= c[Len(items) + 1]
          BY <1>3, <2>1, <3>1
        <4> HIDE DEF P
        <4> QED BY <1>3, <2>1, <3>2, <4>1, <4>2, <4>3, ListStep
      <3> QED BY <3>2
    <2>2. CASE k = m + 1
      <3> SUFFICES ASSUME c[m + 1] <= Len(in) + 1 PROVE IsListRead(in, t, items, c, m + 1)
        BY <2>2
      <3> DEFINE e == c[m + 1]
                 r == Parse(in)[e]["list"]
      <3>1. e \in 1 .. Len(in) + 1 /\ (e <= Len(in) => in[e] = "e")
        <4>1. m + 1 \in 1 .. m + 1 /\ Len(in) \in Nat
          BY <1>1, LenProperties
        <4>2. e \in Nat \ {0}
          BY <1>3, <4>1, Zenon
        <4>3. e <= Len(in) => in[e] = "e"
          BY <1>3, Zenon
        <4> HIDE DEF e
        <4>4. e <= Len(in) + 1
          BY DEF e
        <4> QED BY <4>1, <4>2, <4>3, <4>4
      <3>2. IF e > Len(in) THEN r = Failed ELSE r = Parsed(List(<<>>), e + 1)
        BY <3>1, LoopsEnd
      <3>3. /\ \A j \in m + 1 .. m : FALSE
            /\ m - (m + 1) + 1 = 0 /\ \A j \in 1 .. m - (m + 1) + 1 : FALSE
        BY <1>1
      <3>4. IsListRead(in, t, items, c, m + 1) <=>
              /\ r.ok <=> e <= Len(in)
              /\ r.ok => /\ r.pos = e + 1 /\ r.value.kind = "list"
                         /\ r.value.list \in Seq(Nat) /\ Len(r.value.list) = 0
        BY <3>3 DEF IsListRead
      <3> HIDE DEF e, r
      <3>5. CASE e > Len(in)
        BY <3>1, <3>2, <3>4, <3>5, ResultFacts, LenProperties
      <3>6. CASE ~(e > Len(in))
        <4>1. r = Parsed(List(<<>>), e + 1)
          BY <3>2, <3>6
        <4>2. r.ok /\ r.pos = e + 1 /\ r.value = List(<<>>)
          BY <4>1, ResultFacts
        <4>3. r.value.kind = "list" /\ r.value.list = <<>>
          BY <4>2 DEF List
        <4>4. <<>> \in Seq(Nat) /\ Len(<<>>) = 0
          OBVIOUS
        <4>5. e <= Len(in)
          BY <3>1, <3>6, LenProperties
        <4> QED BY <3>4, <4>2, <4>3, <4>4, <4>5
      <3> QED BY <3>5, <3>6
    <2> QED BY <1>1, <2>1, <2>2
  <1>5. \A k \in 1 .. m + 1 : k \in P
    <2>1. m + 1 \in Nat /\ \A k \in 1 .. m + 1 : (\A j \in k + 1 .. m + 1 : j \in P) => k \in P
      BY <1>1, <1>4
    <2> DEFINE n == m + 1
    <2> HIDE DEF P, n
    <2>2. \A k \in 1 .. n : k \in P
      BY <2>1, CountingDown DEF n
    <2> QED BY <2>2 DEF n
  <1>6. 1 \in P
    BY <1>1, <1>5
  <1> QED BY <1>6

(* What the loop of parseDictionary has read when it is through, from the  *)
(* k-th pair on.                                                           *)
KeyText(pair) == EncodeString(<<pair[1]>>)
PairText(t, pair) == KeyText(pair) \o Spell(t, pair[2])

IsDictFrom(dict, pairs, c, k) ==
  /\ DOMAIN dict = {<<pairs[j][1]>> : j \in k .. Len(pairs)}
  /\ \A j \in k .. Len(pairs) :
       (\A i \in k .. j - 1 : pairs[i][1] # pairs[j][1]) =>
         dict[<<pairs[j][1]>>] = c[j] + Len(KeyText(pairs[j]))

IsDictionaryRead(in, t, pairs, c, k) ==
  LET m == Len(pairs)
      r == Parse(in)[c[k]]["dictionary"]
  IN  /\ r.ok <=> (\A j \in k .. m : IntegersFit(t, pairs[j][2])) /\ c[m + 1] <= Len(in)
      /\ r.ok => /\ r.pos = c[m + 1] + 1 /\ r.value.kind = "dictionary"
                 /\ IsDictFrom(r.value.dictionary, pairs, c, k)

LEMMA AgreesSplit ==
  ASSUME NEW in, NEW p \in Int, NEW u \in Seq(Byte), NEW w \in Seq(Byte), AgreesAt(in, p, u \o w)
  PROVE  AgreesAt(in, p, u) /\ AgreesAt(in, p + Len(u), w)
  <1> DEFINE x == u \o w
  <1>1. x \in Seq(Byte) /\ IsConcat(x, u, w)
    BY Concatenation
  <1>2. AgreesAt(in, p, x)
    OBVIOUS
  <1> HIDE DEF x
  <1>3. Len(u) \in Nat /\ Len(w) \in Nat /\ Len(x) = Len(u) + Len(w)
    BY <1>1, LenProperties DEF IsConcat
  <1>4. \A k \in 1 .. Len(u) : k \in 1 .. Len(x) /\ x[k] = u[k]
    BY <1>1, <1>3 DEF IsConcat
  <1>5. \A k \in 1 .. Len(w) : Len(u) + k \in 1 .. Len(x) /\ x[Len(u) + k] = w[k]
    BY <1>1, <1>3 DEF IsConcat
  <1>6. AgreesAt(in, p, u)
    BY <1>2, <1>4 DEF AgreesAt
  <1>7. ASSUME NEW k \in 1 .. Len(w), p + Len(u) + k - 1 <= Len(in)
        PROVE  in[p + Len(u) + k - 1] = w[k]
    <2> DEFINE j == Len(u) + k
    <2>1. j \in 1 .. Len(x) /\ x[j] = w[k] /\ p + j - 1 = p + Len(u) + k - 1
      BY <1>3, <1>5
    <2> HIDE DEF j
    <2>2. p + j - 1 <= Len(in)
      BY <1>7, <2>1
    <2> QED BY <1>2, <2>1, <2>2 DEF AgreesAt
  <1> QED BY <1>6, <1>7 DEF AgreesAt

PairsAre(r, pairs, c, k, end) ==
  /\ r.ok /\ r.pos = end /\ r.value.kind = "dictionary"
  /\ IsDictFrom(r.value.dictionary, pairs, c, k)

LEMMA PairsWith ==
  ASSUME NEW pairs, NEW c, NEW k \in Nat, k <= Len(pairs), Len(pairs) \in Nat, NEW key, NEW rest,
         key.value = Text(<<pairs[k][1]>>), key.pos = c[k] + Len(KeyText(pairs[k])),
         IsDictFrom(rest.value.dictionary, pairs, c, k + 1)
  PROVE  PairsAre(ParsePair(key, rest), pairs, c, k, rest.pos)
  <1> DEFINE m == Len(pairs)
             dict == rest.value.dictionary
             b == <<pairs[k][1]>>
             whole == [l \in {b} \cup DOMAIN dict |-> IF l = b THEN key.pos ELSE dict[l]]
  <1>1. key.value.string = b
    BY DEF Text
  <1>2. ParsePair(key, rest) = Parsed(Dictionary(whole), rest.pos)
    BY <1>1, Zenon DEF ParsePair
  <1>3. /\ ParsePair(key, rest).ok /\ ParsePair(key, rest).pos = rest.pos
        /\ ParsePair(key, rest).value = Dictionary(whole)
    <2> HIDE DEF whole
    <2> QED BY <1>2, ResultFacts
  <1>4. Dictionary(whole).kind = "dictionary" /\ Dictionary(whole).dictionary = whole
    <2> HIDE DEF whole
    <2> QED BY DEF Dictionary
  <1> HIDE DEF dict
  <1>5. /\ DOMAIN dict = {<<pairs[j][1]>> : j \in k + 1 .. m}
        /\ \A j \in k + 1 .. m :
             (\A i \in k + 1 .. j - 1 : pairs[i][1] # pairs[j][1]) =>
               dict[<<pairs[j][1]>>] = c[j] + Len(KeyText(pairs[j]))
    BY DEF IsDictFrom, dict
  <1>6. k \in k .. m /\ \A j : j \in k .. m <=> j = k \/ j \in k + 1 .. m
    OBVIOUS
  <1>7. DOMAIN whole = {<<pairs[j][1]>> : j \in k .. m}
    BY <1>5, <1>6
  <1>8. whole[b] = key.pos /\ \A l \in DOMAIN dict : l # b => whole[l] = dict[l]
    OBVIOUS
  <1> HIDE DEF whole
  <1>9. ASSUME NEW j \in k .. m, \A i \in k .. j - 1 : pairs[i][1] # pairs[j][1]
        PROVE  whole[<<pairs[j][1]>>] = c[j] + Len(KeyText(pairs[j]))
    <2>1. CASE j = k
      BY <1>8, <2>1
    <2>2. CASE j # k
      <3>1. j \in k + 1 .. m /\ k \in k .. j - 1 /\ \A i \in k + 1 .. j - 1 : i \in k .. j - 1
        BY <2>2
      <3>2. pairs[k][1] # pairs[j][1]
        BY <1>9, <3>1
      <3>3. <<pairs[j][1]>> \in DOMAIN dict /\ <<pairs[j][1]>> # b
        BY <1>5, <3>1, <3>2
      <3>4. dict[<<pairs[j][1]>>] = c[j] + Len(KeyText(pairs[j]))
        BY <1>5, <1>9, <3>1
      <3> QED BY <1>8, <3>3, <3>4
    <2> QED BY <2>1, <2>2
  <1>10. IsDictFrom(whole, pairs, c, k)
    BY <1>7, <1>9 DEF IsDictFrom
  <1> QED BY <1>3, <1>4, <1>10 DEF PairsAre

LEMMA DictionaryStep ==
  ASSUME NEW in \in Seq(Byte), NEW t, IsTree(t), NEW pairs \in Seq(Byte \X DOMAIN t),
         NEW c \in [1 .. Len(pairs) + 1 -> Nat \ {0}],
         NEW k \in 1 .. Len(pairs), c[k] <= Len(in) + 1, ReadsWell(in, t, pairs[k][2]),
         AgreesAt(in, c[k], PairText(t, pairs[k])),
         c[k + 1] = c[k] + Len(PairText(t, pairs[k])), c[k + 1] <= c[Len(pairs) + 1],
         c[k + 1] <= Len(in) + 1 => IsDictionaryRead(in, t, pairs, c, k + 1)
  PROVE  IsDictionaryRead(in, t, pairs, c, k)
  <1> DEFINE m == Len(pairs)
             n == Len(in)
             b == pairs[k][1]
             child == pairs[k][2]
             q == c[k]
             s == c[k + 1]
             e == c[m + 1]
             v == KeyText(pairs[k])
             o == q + Len(v)
             w == Spell(t, child)
             fit == IntegersFit(t, child)
             others == \A j \in k + 1 .. m : IntegersFit(t, pairs[j][2])
             r == Parse(in)[q]["dictionary"]
             key == ParseString(in, q)
             value == Parse(in)[key.pos]["value"]
             rest == Parse(in)[value.pos]["dictionary"]
             next == Parse(in)[s]["dictionary"]
  <1>1. m \in Nat /\ n \in Nat /\ k \in 1 .. m /\ b \in Byte /\ child \in DOMAIN t
    <2>1. m \in Nat /\ pairs[k] \in Byte \X DOMAIN t
      BY SeqFacts
    <2>2. n \in Nat
      BY LenProperties
    <2> QED BY <2>1, <2>2
  <1>2. q \in Nat \ {0} /\ s \in Nat \ {0} /\ e \in Nat /\ q <= n + 1 /\ s <= e
    <2>1. k \in 1 .. m + 1 /\ k + 1 \in 1 .. m + 1 /\ m + 1 \in 1 .. m + 1
      BY <1>1
    <2>2. \A i \in 1 .. m + 1 : c[i] \in Nat \ {0}
      BY Zenon
    <2> QED BY <2>1, <2>2
  <1>3. <<b>> \in Seq(Byte) /\ v = EncodeString(<<b>>)
    <2>1. v = EncodeString(<<b>>)
      BY DEF KeyText
    <2>2. \A x \in Byte : <<x>> \in Seq(Byte)
      OBVIOUS
    <2> HIDE DEF v, b
    <2> QED BY <1>1, <2>1, <2>2
  <1>4. v \in Seq(Byte) /\ Len(v) \in Nat /\ Len(v) >= 2 /\ v[1] # "e"
    <2> DEFINE y == <<b>>
    <2>1. y \in Seq(Byte) /\ v = EncodeString(y)
      BY <1>3
    <2> HIDE DEF y, v
    <2>2. "e" \notin ToSet(Digits)
      BY DigitFacts
    <2> QED BY <2>1, <2>2, StringBegins
  <1>5. w \in Seq(Byte) /\ Len(w) \in Nat /\ Len(w) >= 2
    BY <1>1, FirstByte
  <1>6. AgreesAt(in, q, v) /\ AgreesAt(in, o, w)
    <2>1. AgreesAt(in, q, v \o w) /\ q \in Int
      BY <1>2 DEF PairText
    <2> HIDE DEF v, w, q
    <2>2. AgreesAt(in, q, v) /\ AgreesAt(in, q + Len(v), w)
      BY <1>4, <1>5, <2>1, AgreesSplit
    <2> QED BY <2>2
  <1>7. o \in Nat /\ s = o + Len(w) /\ q < o /\ o < s
    <2>1. Len(v \o w) = Len(v) + Len(w)
      <3> HIDE DEF v, w
      <3> QED BY <1>4, <1>5, ConcatProperties
    <2>2. s = q + Len(v \o w)
      BY DEF PairText
    <2>3. q \in Nat /\ o = q + Len(v)
      BY <1>2
    <2> HIDE DEF q, s, v, o, w
    <2> QED BY <1>4, <1>5, <2>1, <2>2, <2>3
  <1>8. (\A j \in k .. m : IntegersFit(t, pairs[j][2])) <=> fit /\ others
    <2>1. \A j \in k .. m : j = k \/ j \in k + 1 .. m
      BY <1>1
    <2>2. k \in k .. m /\ \A j \in k + 1 .. m : j \in k .. m
      BY <1>1
    <2> QED BY <2>1, <2>2, Zenon
  <1>9. s <= n + 1 =>
          /\ next.ok <=> others /\ e <= n
          /\ next.ok => /\ next.pos = e + 1
                        /\ IsDictFrom(next.value.dictionary, pairs, c, k + 1)
    BY DEF IsDictionaryRead
  <1>10. IsDictionaryRead(in, t, pairs, c, k) <=>
          /\ r.ok <=> fit /\ others /\ e <= n
          /\ r.ok => /\ r.pos = e + 1 /\ r.value.kind = "dictionary"
                     /\ IsDictFrom(r.value.dictionary, pairs, c, k)
    BY <1>8, Zenon DEF IsDictionaryRead
  <1>11. q \in 1 .. Len(in) + 1
    BY <1>1, <1>2
  <1>12. /\ key.ok <=> o <= n + 1
         /\ key.ok => key.value = Text(<<b>>) /\ key.pos = o
    <2> DEFINE y == <<b>>
    <2>1. y \in Seq(Byte) /\ v = EncodeString(y)
      BY <1>3
    <2> HIDE DEF y, v, q, key
    <2>2. ReadsString(ParseString(in, q), in, q, y)
      BY <1>6, <1>11, <2>1, StringIsRead
    <2>3. ReadsString(key, in, q, y)
      BY <2>2 DEF key
    <2>4. q + Len(v) - 1 <= n <=> o <= n + 1
      BY <1>1, <1>2, <1>4
    <2> QED BY <2>1, <2>3, <2>4 DEF ReadsString, y
  <1>13. key.ok => /\ value.ok <=> fit /\ s <= n + 1
                   /\ value.ok => value.pos = s
    <2> SUFFICES ASSUME key.ok
                 PROVE  /\ value.ok <=> fit /\ s <= n + 1
                        /\ value.ok => value.pos = s
      OBVIOUS
    <2>1. key.pos = o /\ o \in 1 .. Len(in) + 1
      <3>1. key.pos = o /\ o <= n + 1
        BY <1>12, Zenon
      <3>2. q < o /\ o \in Nat /\ q \in Nat
        BY <1>2, <1>7
      <3> HIDE DEF o, q, key
      <3> QED BY <1>1, <3>1, <3>2
    <2>2. Reads(in, t, child, o)
      BY <1>6, <2>1 DEF ReadsWell
    <2>3. value = Parse(in)[o]["value"]
      BY <2>1, Zenon
    <2>4. s = o + Len(w)
      BY <1>7, Zenon
    <2> HIDE DEF value, o, s, key, q
    <2> QED BY <2>2, <2>3, <2>4, Zenon DEF Reads
  <1>14. CASE q > n
    <2>1. r = Failed
      BY <1>11, <1>14, LoopsCut
    <2>2. ~(e <= n)
      <3>1. q < o /\ o < s /\ s <= e
        BY <1>2, <1>7, Zenon
      <3>2. q \in Nat /\ o \in Nat /\ s \in Nat /\ e \in Nat
        BY <1>2, <1>7
      <3> HIDE DEF q, o, s, e
      <3> QED BY <1>1, <1>14, <3>1, <3>2
    <2> QED BY <1>10, <2>1, <2>2, ResultFacts
  <1>15. CASE ~(q > n)
    <2>1. q \in 1 .. Len(in)
      BY <1>1, <1>2, <1>15
    <2>2. in[q] # "e"
      <3>1. 1 \in 1 .. Len(v) /\ q + 1 - 1 = q /\ q <= Len(in)
        BY <1>2, <1>4, <2>1
      <3>2. q + 1 - 1 <= Len(in) => in[q + 1 - 1] = v[1]
        BY <1>6, <3>1, Zenon DEF AgreesAt
      <3> QED BY <1>4, <3>1, <3>2
    <2>3. IF key.ok /\ value.ok /\ rest.ok THEN r = ParsePair(key, rest) ELSE r = Failed
      BY <2>1, <2>2, DictionaryTurn
    <2>4. key.ok /\ value.ok => rest = next
      BY <1>13, Zenon
    <2> HIDE DEF r, key, value, rest, next, fit, others, w, v, s, e, o
    <2>5. CASE key.ok /\ value.ok /\ rest.ok
      <3>1. s <= n + 1 /\ fit /\ rest = next /\ next.ok
        BY <1>13, <2>4, <2>5
      <3>2. others /\ e <= n /\ rest.pos = e + 1 /\ IsDictFrom(rest.value.dictionary, pairs, c, k + 1)
        BY <1>9, <3>1
      <3>3. r = ParsePair(key, rest)
        BY <2>3, <2>5
      <3>4. key.value = Text(<<pairs[k][1]>>) /\ key.pos = c[k] + Len(KeyText(pairs[k]))
        BY <1>12, <2>5 DEF o, v
      <3>5. k \in Nat /\ k <= Len(pairs) /\ Len(pairs) \in Nat
        BY <1>1
      <3> HIDE DEF m, b, q
      <3>6. PairsAre(ParsePair(key, rest), pairs, c, k, rest.pos)
        BY <3>2, <3>4, <3>5, PairsWith, Zenon
      <3>7. PairsAre(r, pairs, c, k, e + 1)
        BY <3>2, <3>3, <3>6
      <3> QED BY <1>10, <3>1, <3>2, <3>7, Zenon DEF PairsAre
    <2>6. CASE ~(key.ok /\ value.ok /\ rest.ok)
      <3>1. r = Failed
        BY <2>3, <2>6
      <3>2. ASSUME fit, others, e <= n PROVE FALSE
        <4>1. o <= n + 1 /\ s <= n + 1
          BY <1>1, <1>2, <1>7, <3>2
        <4>2. key.ok /\ value.ok
          BY <1>12, <1>13, <3>2, <4>1, Zenon
        <4>3. rest.ok
          BY <1>9, <2>4, <3>2, <4>1, <4>2, Zenon
        <4> QED BY <2>6, <4>2, <4>3, Zenon
      <3> QED BY <1>10, <3>1, <3>2, ResultFacts
    <2> QED BY <2>5, <2>6
  <1> QED BY <1>14, <1>15

LEMMA DictionaryIsRead ==
  ASSUME NEW in \in Seq(Byte), NEW t, IsTree(t), NEW pairs \in Seq(Byte \X DOMAIN t),
         \A k \in 1 .. Len(pairs) : ReadsWell(in, t, pairs[k][2]),
         NEW p \in Nat, NEW z, NEW c, IsRow(in, p, PairSpellings(t, pairs), z, c),
         c[1] <= Len(in) + 1
  PROVE  IsDictionaryRead(in, t, pairs, c, 1)
  <1> DEFINE m == Len(pairs)
             P == {k \in 1 .. m + 1 : c[k] <= Len(in) + 1 => IsDictionaryRead(in, t, pairs, c, k)}
  <1>1. m \in Nat /\ DOMAIN pairs = 1 .. m
    BY SeqFacts
  <1>2. /\ Len(PairSpellings(t, pairs)) = m
        /\ \A k \in 1 .. m : PairSpellings(t, pairs)[k] = PairText(t, pairs[k])
    BY <1>1 DEF PairSpellings, PairText, KeyText
  <1>3. /\ c \in [1 .. m + 1 -> Nat \ {0}]
        /\ c[m + 1] <= Len(in) => in[c[m + 1]] = "e"
        /\ \A k \in 1 .. m : /\ c[k + 1] = c[k] + Len(PairText(t, pairs[k])) /\ c[k] <= c[m + 1]
                             /\ AgreesAt(in, c[k], PairText(t, pairs[k]))
    BY <1>2 DEF IsRow
  <1>4. ASSUME NEW k \in 1 .. m + 1, \A j \in k + 1 .. m + 1 : j \in P PROVE k \in P
    <2>1. CASE k \in 1 .. m
      <3>1. k + 1 \in P /\ c[k + 1] <= c[m + 1]
        <4>1. k + 1 \in k + 1 .. m + 1 /\ (k + 1 = m + 1 \/ k + 1 \in 1 .. m)
          BY <1>1, <2>1
        <4>2. c[m + 1] \in Nat
          <5>1. m + 1 \in 1 .. m + 1
            BY <1>1
          <5>2. \A i \in 1 .. m + 1 : c[i] \in Nat \ {0}
            BY <1>3, Zenon
          <5> QED BY <5>1, <5>2
        <4> QED BY <1>3, <1>4, <4>1, <4>2
      <3>2. ASSUME c[k] <= Len(in) + 1 PROVE IsDictionaryRead(in, t, pairs, c, k)
        <4>1. c[k + 1] <= Len(in) + 1 => IsDictionaryRead(in, t, pairs, c, k + 1)
          BY <3>1
        <4>2. ReadsWell(in, t, pairs[k][2]) /\ AgreesAt(in, c[k], PairText(t, pairs[k]))
          BY <1>3, <2>1
        <4>3. c[k + 1] = c[k] + Len(PairText(t, pairs[k])) /\ c[k + 1] <= c[Len(pairs) + 1]
          BY <1>3, <2>1, <3>1
        <4> HIDE DEF P
        <4> QED BY <1>3, <2>1, <3>2, <4>1, <4>2, <4>3, DictionaryStep
      <3> QED BY <3>2
    <2>2. CASE k = m + 1
      <3> SUFFICES ASSUME c[m + 1] <= Len(in) + 1 PROVE IsDictionaryRead(in, t, pairs, c, m + 1)
        BY <2>2
      <3> DEFINE e == c[m + 1]
                 r == Parse(in)[e]["dictionary"]
      <3>1. e \in 1 .. Len(in) + 1 /\ (e <= Len(in) => in[e] = "e")
        BY <1>1, <1>3, LenProperties
      <3>2. IF e > Len(in) THEN r = Failed ELSE r = Parsed(Dictionary(<<>>), e + 1)
        BY <3>1, LoopsEnd
      <3>3. \A j \in m + 1 .. Len(pairs) : FALSE
        BY <1>1
      <3>4. IsDictionaryRead(in, t, pairs, c, m + 1) <=>
              /\ r.ok <=> e <= Len(in)
              /\ r.ok => /\ r.pos = e + 1 /\ r.value.kind = "dictionary"
                         /\ IsDictFrom(r.value.dictionary, pairs, c, m + 1)
        BY <3>3 DEF IsDictionaryRead
      <3> HIDE DEF e, r
      <3>5. CASE e > Len(in)
        BY <3>1, <3>2, <3>4, <3>5, ResultFacts, LenProperties
      <3>6. CASE ~(e > Len(in))
        <4>1. r = Parsed(Dictionary(<<>>), e + 1)
          BY <3>2, <3>6
        <4>2. r.ok /\ r.pos = e + 1 /\ r.value = Dictionary(<<>>)
          BY <4>1, ResultFacts
        <4>3. r.value.kind = "dictionary" /\ r.value.dictionary = <<>>
          BY <4>2 DEF Dictionary
        <4>4. DOMAIN <<>> = {}
          OBVIOUS
        <4>5. IsDictFrom(<<>>, pairs, c, m + 1)
          BY <3>3, <4>4 DEF IsDictFrom
        <4>6. e <= Len(in)
          BY <3>1, <3>6, LenProperties
        <4> QED BY <3>4, <4>2, <4>3, <4>5, <4>6
      <3> QED BY <3>5, <3>6
    <2> QED BY <1>1, <2>1, <2>2
  <1>5. \A k \in 1 .. m + 1 : k \in P
    <2>1. m + 1 \in Nat /\ \A k \in 1 .. m + 1 : (\A j \in k + 1 .. m + 1 : j \in P) => k \in P
      BY <1>1, <1>4
    <2> DEFINE n == m + 1
    <2> HIDE DEF P, n
    <2>2. \A k \in 1 .. n : k \in P
      BY <2>1, CountingDown DEF n
    <2> QED BY <2>2 DEF n
  <1>6. 1 \in P
    BY <1>1, <1>5
  <1> QED BY <1>6

LEMMA LeafFits ==
  ASSUME NEW t, IsTree(t), NEW m \in DOMAIN t
  PROVE  /\ t[m].kind = "integer" => (IntegersFit(t, m) <=> IsInteger(t[m].spelling))
         /\ t[m].kind = "string" => IntegersFit(t, m)
         /\ t[m].kind = "list" =>
              (IntegersFit(t, m) <=> \A k \in 1 .. Len(t[m].items) : IntegersFit(t, t[m].items[k]))
         /\ t[m].kind = "dictionary" =>
              (IntegersFit(t, m) <=> \A k \in 1 .. Len(t[m].pairs) : IntegersFit(t, t[m].pairs[k][2]))
  <1>1. IntegersFit(t, m) <=> (\A c \in Children(t[m]) : IntegersFit(t, c)) /\ FitHere(t, m)
    BY FitFacts
  <1>2. t[m].kind = "integer" => Children(t[m]) = {}
    BY DEF Children
  <1>3. t[m].kind = "string" => Children(t[m]) = {}
    BY DEF Children
  <1>4. ASSUME t[m].kind = "list"
        PROVE  IntegersFit(t, m) <=> \A k \in 1 .. Len(t[m].items) : IntegersFit(t, t[m].items[k])
    <2> DEFINE s == t[m].items
    <2>1. Children(t[m]) = ToSet(s) /\ FitHere(t, m)
      BY <1>4 DEF Children, FitHere
    <2>2. s \in Seq(m + 1 .. Len(t))
      BY <1>4, NodeFacts
    <2> HIDE DEF s
    <2>3. DOMAIN s = 1 .. Len(s)
      BY <2>2, SeqFacts
    <2>4. (\A c \in ToSet(s) : IntegersFit(t, c)) <=> \A k \in 1 .. Len(s) : IntegersFit(t, s[k])
      BY <2>3, Zenon DEF ToSet
    <2> QED BY <1>1, <2>1, <2>4, Zenon DEF s
  <1>5. ASSUME t[m].kind = "dictionary"
        PROVE  IntegersFit(t, m) <=> \A k \in 1 .. Len(t[m].pairs) : IntegersFit(t, t[m].pairs[k][2])
    <2> DEFINE s == t[m].pairs
    <2>1. Children(t[m]) = {s[k][2] : k \in DOMAIN s} /\ FitHere(t, m)
      BY <1>5 DEF Children, FitHere
    <2>2. s \in Seq(Byte \X (m + 1 .. Len(t)))
      BY <1>5, NodeFacts
    <2> HIDE DEF s
    <2>3. DOMAIN s = 1 .. Len(s)
      BY <2>2, SeqFacts
    <2>4. (\A c \in {s[k][2] : k \in DOMAIN s} : IntegersFit(t, c))
            <=> \A k \in 1 .. Len(s) : IntegersFit(t, s[k][2])
      BY <2>3, Zenon
    <2> QED BY <1>1, <2>1, <2>4, Zenon DEF s
  <1> QED BY <1>1, <1>2, <1>3, <1>4, <1>5 DEF FitHere

(* The parser at a node's place.                                           *)
Placed(in, t, m, p) ==
  /\ in \in Seq(Byte) /\ IsTree(t) /\ m \in DOMAIN t /\ p \in 1 .. Len(in)
  /\ AgreesAt(in, p, Spell(t, m))

LEMMA PlaceFacts ==
  ASSUME NEW in, NEW t, NEW m, NEW p, Placed(in, t, m, p)
  PROVE  /\ in[p] \in FirstOf(t, m)
         /\ Spell(t, m) \in Seq(Byte) /\ Len(Spell(t, m)) \in Nat /\ Len(Spell(t, m)) >= 2
         /\ p \in Nat \ {0} /\ p \in 1 .. Len(in) + 1 /\ ~(p > Len(in)) /\ Len(in) \in Nat
         /\ Parse(in)[p]["value"] = ParseValue(in, Parse(in), p)
  <1>1. in \in Seq(Byte) /\ IsTree(t) /\ m \in DOMAIN t /\ p \in 1 .. Len(in)
    BY DEF Placed
  <1> DEFINE w == Spell(t, m)
  <1>2. w \in Seq(Byte) /\ Len(w) \in Nat /\ Len(w) >= 2 /\ w[1] \in FirstOf(t, m)
    BY <1>1, FirstByte
  <1>3. Len(in) \in Nat
    BY <1>1, LenProperties
  <1>4. p \in Nat \ {0} /\ p \in 1 .. Len(in) + 1 /\ ~(p > Len(in))
    BY <1>1, <1>3
  <1>5. AgreesAt(in, p, w)
    BY DEF Placed
  <1> HIDE DEF w
  <1>6. in[p] = w[1]
    <2>1. 1 \in 1 .. Len(w) /\ p + 1 - 1 = p /\ p <= Len(in)
      BY <1>1, <1>2, <1>3
    <2>2. p + 1 - 1 <= Len(in) => in[p + 1 - 1] = w[1]
      BY <1>5, <2>1, Zenon DEF AgreesAt
    <2> QED BY <2>1, <2>2
  <1>7. Parse(in)[p]["value"] = ParseValue(in, Parse(in), p)
    BY <1>1, <1>4, ParseFacts
  <1> QED BY <1>2, <1>3, <1>4, <1>6, <1>7 DEF w

LEMMA ReadsIntegerNode ==
  ASSUME NEW in, NEW t, NEW m, NEW p, Placed(in, t, m, p), t[m].kind = "integer"
  PROVE  Reads(in, t, m, p)
  <1> DEFINE s == t[m].spelling
             w == Spell(t, m)
             r == Parse(in)[p]["value"]
  <1>1. in \in Seq(Byte) /\ IsTree(t) /\ m \in DOMAIN t /\ p \in 1 .. Len(in) /\ AgreesAt(in, p, w)
    BY DEF Placed
  <1>2. s \in Seq(Byte \ {"e"}) /\ (IntegersFit(t, m) <=> IsInteger(s))
    BY <1>1, NodeFacts, LeafFits
  <1>3. s \in Seq(Byte) /\ "i" \in Byte
    BY <1>2, ByteFacts, SeqMonotonic
  <1>4. w = <<"i">> \o s \o <<"e">>
    BY <1>1, SpellFacts DEF IsSpelled
  <1>5. in[p] = "i"
    <2>1. FirstOf(t, m) = {"i"}
      BY DEF FirstOf
    <2> QED BY <2>1, PlaceFacts
  <1>6. r = ParseInteger(in, p)
    BY <1>5, PlaceFacts, ValueCases
  <1>7. p \in Nat \ {0} /\ Len(in) \in Nat
    BY PlaceFacts
  <1> HIDE DEF s, w, r
  <1>8. Len(w) = Len(s) + 2 /\ Len(s) \in Nat
    BY <1>3, <1>4, MarkedText DEF IsMarked
  <1>9. ReadsInteger(ParseInteger(in, p), in, p, s)
    <2>1. AgreesAt(in, p, <<"i">> \o s \o <<"e">>)
      BY <1>1, <1>4
    <2> QED BY <1>1, <1>2, <2>1, IntegerIsRead
  <1>10. /\ r.ok <=> IsInteger(s) /\ p + Len(s) + 1 <= Len(in)
         /\ r.ok => r.value = Integer(IntegerOf(s)) /\ r.pos = p + Len(s) + 2
    BY <1>6, <1>9 DEF ReadsInteger
  <1>11. /\ r.ok <=> IntegersFit(t, m) /\ p + Len(w) <= Len(in) + 1
         /\ r.ok => r.pos = p + Len(w)
    BY <1>2, <1>7, <1>8, <1>10
  <1>12. r.ok => Shows(in, t, m, r.value)
    BY <1>10 DEF Shows, s, Integer
  <1> QED BY <1>11, <1>12, Zenon DEF Reads, r, w

LEMMA ReadsStringNode ==
  ASSUME NEW in, NEW t, NEW m, NEW p, Placed(in, t, m, p), t[m].kind = "string"
  PROVE  Reads(in, t, m, p)
  <1> DEFINE s == t[m].bytes
             w == Spell(t, m)
             r == Parse(in)[p]["value"]
  <1>1. in \in Seq(Byte) /\ IsTree(t) /\ m \in DOMAIN t /\ p \in 1 .. Len(in) /\ AgreesAt(in, p, w)
    BY DEF Placed
  <1>2. s \in Seq(Byte) /\ IntegersFit(t, m)
    BY <1>1, NodeFacts, LeafFits
  <1>3. w = EncodeString(s)
    BY <1>1, SpellFacts DEF IsSpelled
  <1>4. in[p] \in ToSet(Digits)
    <2>1. FirstOf(t, m) = ToSet(Digits)
      BY DEF FirstOf
    <2> QED BY <2>1, PlaceFacts
  <1>5. r = ParseString(in, p)
    BY <1>4, PlaceFacts, ValueCases
  <1>6. p \in Nat \ {0} /\ Len(in) \in Nat /\ Len(w) \in Nat /\ p \in 1 .. Len(in) + 1
    BY PlaceFacts
  <1> HIDE DEF s, w, r
  <1>7. ReadsString(ParseString(in, p), in, p, s)
    <2>1. AgreesAt(in, p, EncodeString(s))
      BY <1>1, <1>3
    <2> QED BY <1>1, <1>2, <1>6, <2>1, StringIsRead
  <1>8. /\ r.ok <=> p + Len(w) - 1 <= Len(in)
        /\ r.ok => r.value = Text(s) /\ r.pos = p + Len(w)
    BY <1>3, <1>5, <1>7 DEF ReadsString
  <1>9. /\ r.ok <=> IntegersFit(t, m) /\ p + Len(w) <= Len(in) + 1
        /\ r.ok => r.pos = p + Len(w)
    BY <1>2, <1>6, <1>8
  <1>10. r.ok => Shows(in, t, m, r.value)
    BY <1>8 DEF Shows, s, Text
  <1> QED BY <1>9, <1>10, Zenon DEF Reads, r, w

LEMMA ReadsListNode ==
  ASSUME NEW in, NEW t, NEW m, NEW p, Placed(in, t, m, p), t[m].kind = "list",
         \A k \in m + 1 .. Len(t) : ReadsWell(in, t, k)
  PROVE  Reads(in, t, m, p)
  <1> DEFINE items == t[m].items
             pieces == ItemSpellings(t, items)
             w == Spell(t, m)
             n == Len(items)
             r == Parse(in)[p]["value"]
  <1>1. in \in Seq(Byte) /\ IsTree(t) /\ m \in DOMAIN t /\ p \in 1 .. Len(in) /\ AgreesAt(in, p, w)
    BY DEF Placed
  <1>2. items \in Seq(m + 1 .. Len(t)) /\ m + 1 .. Len(t) \subseteq DOMAIN t
    <2>1. items \in Seq(m + 1 .. Len(t))
      BY <1>1, NodeFacts
    <2>2. DOMAIN t = 1 .. Len(t) /\ Len(t) \in Nat
      BY <1>1, NodeFacts
    <2>3. m + 1 .. Len(t) \subseteq DOMAIN t
      BY <1>1, <2>2
    <2> QED BY <2>1, <2>3
  <1>3. IntegersFit(t, m) <=> \A k \in 1 .. n : IntegersFit(t, items[k])
    BY <1>1, LeafFits
  <1>4. w = <<"l">> \o FlattenSeq(pieces) \o <<"e">> /\ pieces \in Seq(Seq(Byte))
    BY <1>1, SpellFacts, Zenon DEF IsSpelled
  <1>5. in[p] = "l"
    <2>1. FirstOf(t, m) = {"l"}
      BY DEF FirstOf
    <2> QED BY <2>1, PlaceFacts
  <1>6. r = Parse(in)[p + 1]["list"]
    BY <1>5, PlaceFacts, ValueCases
  <1>7. p \in Nat \ {0} /\ Len(in) \in Nat /\ Len(w) \in Nat /\ p <= Len(in) /\ p \in Nat
    BY PlaceFacts
  <1> HIDE DEF items, w, r
  <1>8. n \in Nat /\ items \in Seq(DOMAIN t) /\ DOMAIN items = 1 .. n
        /\ \A k \in 1 .. n : items[k] \in m + 1 .. Len(t) /\ items[k] \in DOMAIN t
    BY <1>2, SeqFacts, SeqMonotonic
  <1>9. Len(pieces) = n /\ \A k \in 1 .. n : pieces[k] = Spell(t, items[k])
    BY <1>8 DEF ItemSpellings
  <1> HIDE DEF pieces, n
  <1>10. \E c : IsRow(in, p, pieces, w, c)
    BY <1>1, <1>4, <1>7, ByteFacts, RowExists
  <1>11. PICK c : IsRow(in, p, pieces, w, c)
    BY <1>10
  <1>12. /\ c \in [1 .. n + 1 -> Nat \ {0}]
         /\ c[1] = p + 1 /\ c[n + 1] = p + Len(w) - 1
         /\ \A k \in 1 .. n : /\ c[k + 1] = c[k] + Len(Spell(t, items[k])) /\ c[k] <= c[n + 1]
                              /\ AgreesAt(in, c[k], Spell(t, items[k]))
    BY <1>9, <1>11 DEF IsRow
  <1>13. IsListRead(in, t, items, c, 1)
    <2>1. c[1] <= Len(in) + 1
      BY <1>7, <1>12
    <2>2. IsRow(in, p, ItemSpellings(t, items), w, c)
      BY <1>11 DEF pieces
    <2>3. \A k \in 1 .. Len(items) : ReadsWell(in, t, items[k])
      BY <1>8 DEF n
    <2> QED BY <1>1, <1>7, <1>8, <2>1, <2>2, <2>3, ListIsRead
  <1>14. r = Parse(in)[c[1]]["list"]
    BY <1>6, <1>12
  <1>15. /\ r.ok <=> (\A j \in 1 .. n : IntegersFit(t, items[j])) /\ c[n + 1] <= Len(in)
         /\ r.ok => /\ r.pos = c[n + 1] + 1 /\ r.value.kind = "list"
                    /\ r.value.list \in Seq(Nat) /\ Len(r.value.list) = n - 1 + 1
                    /\ \A j \in 1 .. n - 1 + 1 : r.value.list[j] = c[1 + j - 1]
    BY <1>13, <1>14, Zenon DEF IsListRead, n
  <1>16. /\ r.ok <=> IntegersFit(t, m) /\ p + Len(w) <= Len(in) + 1
         /\ r.ok => r.pos = p + Len(w) /\ c[n + 1] <= Len(in)
    BY <1>3, <1>7, <1>12, <1>15 DEF n, items
  <1>17. ASSUME r.ok PROVE Shows(in, t, m, r.value)
    <2> DEFINE l == r.value.list
    <2>1. /\ r.value.kind = "list" /\ l \in Seq(Nat) /\ Len(l) = n
          /\ \A j \in 1 .. n : l[j] = c[j]
      <3>1. n - 1 + 1 = n /\ \A j \in 1 .. n : 1 + j - 1 = j
        BY <1>8
      <3> QED BY <1>15, <1>17, <3>1
    <2> HIDE DEF l
    <2>2. ASSUME NEW k \in 1 .. n PROVE l[k] \in 1 .. Len(in) /\ At(in, t, items[k], l[k])
      <3> DEFINE q == c[k]
                 s == c[k + 1]
                 e == c[n + 1]
                 v == Spell(t, items[k])
      <3>1. k \in 1 .. n + 1 /\ k + 1 \in 1 .. n + 1 /\ n + 1 \in 1 .. n + 1
        BY <1>8
      <3>2. \A i \in 1 .. n + 1 : c[i] \in Nat \ {0}
        BY <1>12, Zenon
      <3>3. q \in Nat \ {0} /\ s \in Nat /\ e \in Nat /\ s = q + Len(v) /\ q <= e /\ AgreesAt(in, q, v)
        BY <1>12, <3>1, <3>2
      <3>4. s <= e
        <4>1. k + 1 = n + 1 \/ k + 1 \in 1 .. n
          BY <1>8
        <4> QED BY <1>12, <3>3, <4>1
      <3>5. e <= Len(in) /\ l[k] = q
        BY <1>16, <1>17, <2>1
      <3>6. Len(v) \in Nat
        BY <1>1, <1>8, FirstByte
      <3> HIDE DEF q, s, e, v
      <3>7. q \in 1 .. Len(in) /\ q + Len(v) - 1 <= Len(in)
        BY <1>7, <3>3, <3>4, <3>5, <3>6
      <3>8. At(in, t, items[k], q)
        BY <3>3, <3>7 DEF At, v
      <3> QED BY <3>5, <3>7, <3>8
    <2>3. l \in Seq(1 .. Len(in))
      <3>1. l = [k \in 1 .. n |-> l[k]]
        BY <2>1, LenProperties
      <3>2. l \in [1 .. n -> 1 .. Len(in)]
        BY <2>2, <3>1
      <3> QED BY <1>8, <3>2, FunctionIsSeq
    <2>4. ShowsList(in, t, items, l)
      BY <2>1, <2>2, <2>3 DEF ShowsList, n
    <2> QED BY <2>1, <2>4 DEF Shows, items, l
  <1> QED BY <1>16, <1>17, Zenon DEF Reads, r, w

LEMMA ReadsDictionaryNode ==
  ASSUME NEW in, NEW t, NEW m, NEW p, Placed(in, t, m, p), t[m].kind = "dictionary",
         \A k \in m + 1 .. Len(t) : ReadsWell(in, t, k)
  PROVE  Reads(in, t, m, p)
  <1> DEFINE pairs == t[m].pairs
             pieces == PairSpellings(t, pairs)
             w == Spell(t, m)
             n == Len(pairs)
             r == Parse(in)[p]["value"]
  <1>1. in \in Seq(Byte) /\ IsTree(t) /\ m \in DOMAIN t /\ p \in 1 .. Len(in) /\ AgreesAt(in, p, w)
    BY DEF Placed
  <1>2. pairs \in Seq(Byte \X (m + 1 .. Len(t))) /\ m + 1 .. Len(t) \subseteq DOMAIN t
    BY <1>1, NodeFacts
  <1>3. IntegersFit(t, m) <=> \A k \in 1 .. n : IntegersFit(t, pairs[k][2])
    BY <1>1, LeafFits
  <1>4. w = <<"d">> \o FlattenSeq(pieces) \o <<"e">> /\ pieces \in Seq(Seq(Byte))
    BY <1>1, SpellFacts, Zenon DEF IsSpelled
  <1>5. in[p] = "d"
    <2>1. FirstOf(t, m) = {"d"}
      BY DEF FirstOf
    <2> QED BY <2>1, PlaceFacts
  <1>6. r = Parse(in)[p + 1]["dictionary"]
    BY <1>5, PlaceFacts, ValueCases
  <1>7. p \in Nat \ {0} /\ Len(in) \in Nat /\ Len(w) \in Nat /\ p <= Len(in) /\ p \in Nat
    BY PlaceFacts
  <1> HIDE DEF pairs, w, r
  <1>8. n \in Nat /\ DOMAIN pairs = 1 .. n
        /\ \A k \in 1 .. n : pairs[k] \in Byte \X (m + 1 .. Len(t))
    BY <1>2, SeqFacts
  <1>18. pairs \in Seq(Byte \X DOMAIN t)
    <2>1. Byte \X (m + 1 .. Len(t)) \subseteq Byte \X DOMAIN t
      BY <1>2
    <2> QED BY <1>2, <2>1, SeqMonotonic
  <1>19. \A k \in 1 .. n : pairs[k][1] \in Byte /\ pairs[k][2] \in m + 1 .. Len(t) /\ pairs[k][2] \in DOMAIN t
    BY <1>2, <1>8
  <1>9. Len(pieces) = n /\ \A k \in 1 .. n : pieces[k] = PairText(t, pairs[k])
    BY <1>8 DEF PairSpellings, PairText, KeyText
  <1> HIDE DEF pieces, n
  <1>10. \E c : IsRow(in, p, pieces, w, c)
    BY <1>1, <1>4, <1>7, ByteFacts, RowExists
  <1>11. PICK c : IsRow(in, p, pieces, w, c)
    BY <1>10
  <1>12. /\ c \in [1 .. n + 1 -> Nat \ {0}]
         /\ c[1] = p + 1 /\ c[n + 1] = p + Len(w) - 1
         /\ \A k \in 1 .. n : /\ c[k + 1] = c[k] + Len(PairText(t, pairs[k])) /\ c[k] <= c[n + 1]
                              /\ AgreesAt(in, c[k], PairText(t, pairs[k]))
    BY <1>9, <1>11 DEF IsRow
  <1>13. IsDictionaryRead(in, t, pairs, c, 1)
    <2>1. c[1] <= Len(in) + 1
      BY <1>7, <1>12
    <2>2. IsRow(in, p, PairSpellings(t, pairs), w, c)
      BY <1>11 DEF pieces
    <2>3. \A k \in 1 .. Len(pairs) : ReadsWell(in, t, pairs[k][2])
      BY <1>19 DEF n
    <2> QED BY <1>1, <1>7, <1>18, <2>1, <2>2, <2>3, DictionaryIsRead
  <1>14. r = Parse(in)[c[1]]["dictionary"]
    BY <1>6, <1>12
  <1>15. /\ r.ok <=> (\A j \in 1 .. n : IntegersFit(t, pairs[j][2])) /\ c[n + 1] <= Len(in)
         /\ r.ok => /\ r.pos = c[n + 1] + 1 /\ r.value.kind = "dictionary"
                    /\ IsDictFrom(r.value.dictionary, pairs, c, 1)
    BY <1>13, <1>14, Zenon DEF IsDictionaryRead, n
  <1>16. /\ r.ok <=> IntegersFit(t, m) /\ p + Len(w) <= Len(in) + 1
         /\ r.ok => r.pos = p + Len(w) /\ c[n + 1] <= Len(in)
    BY <1>3, <1>7, <1>12, <1>15 DEF n, pairs
  <1>17. ASSUME r.ok PROVE Shows(in, t, m, r.value)
    <2> DEFINE d == r.value.dictionary
    <2>1. r.value.kind = "dictionary" /\ IsDictFrom(d, pairs, c, 1)
      BY <1>15, <1>17
    <2> HIDE DEF d
    <2>2. ASSUME NEW k \in 1 .. n, First(pairs, k)
          PROVE  At(in, t, pairs[k][2], d[<<pairs[k][1]>>])
      <3> DEFINE q == c[k]
                 s == c[k + 1]
                 e == c[n + 1]
                 u == KeyText(pairs[k])
                 v == Spell(t, pairs[k][2])
      <3>1. k \in 1 .. n + 1 /\ k + 1 \in 1 .. n + 1 /\ n + 1 \in 1 .. n + 1
        BY <1>8
      <3>2. \A i \in 1 .. n + 1 : c[i] \in Nat \ {0}
        BY <1>12, Zenon
      <3>3. /\ q \in Nat \ {0} /\ s \in Nat /\ e \in Nat /\ s = q + Len(u \o v)
            /\ AgreesAt(in, q, u \o v)
        BY <1>12, <3>1, <3>2 DEF PairText
      <3>4. s <= e
        <4>1. k + 1 = n + 1 \/ k + 1 \in 1 .. n
          BY <1>8
        <4> QED BY <1>12, <3>3, <4>1
      <3>5. e <= Len(in)
        BY <1>16, <1>17
      <3>6. v \in Seq(Byte) /\ Len(v) \in Nat /\ Len(v) >= 2
        BY <1>1, <1>19, FirstByte
      <3>7. u \in Seq(Byte) /\ Len(u) \in Nat
        <4> DEFINE b == <<pairs[k][1]>>
        <4>1. b \in Seq(Byte) /\ u = EncodeString(b)
          BY <1>19 DEF KeyText
        <4> HIDE DEF b, u
        <4> QED BY <4>1, StringBegins
      <3>8. d[<<pairs[k][1]>>] = q + Len(u)
        BY <2>1, <2>2 DEF IsDictFrom, First, n
      <3> HIDE DEF q, s, e, u, v
      <3>9. Len(u \o v) = Len(u) + Len(v)
        BY <3>6, <3>7, ConcatProperties
      <3>10. AgreesAt(in, q + Len(u), v)
        <4>1. q \in Int /\ AgreesAt(in, q, u \o v)
          BY <3>3
        <4> QED BY <3>6, <3>7, <4>1, AgreesSplit, Zenon
      <3> DEFINE o == q + Len(u)
      <3>11. o \in 1 .. Len(in) /\ o + Len(v) - 1 <= Len(in)
        BY <1>7, <3>3, <3>4, <3>5, <3>6, <3>7, <3>9
      <3> HIDE DEF o
      <3>12. At(in, t, pairs[k][2], o)
        BY <3>10, <3>11 DEF At, v, o
      <3> QED BY <3>8, <3>12 DEF o
    <2>3. ShowsPairs(in, t, pairs, d)
      <3>1. DOMAIN d = {<<pairs[k][1]>> : k \in DOMAIN pairs}
        BY <1>8, <2>1 DEF IsDictFrom, n
      <3> QED BY <1>8, <2>2, <3>1 DEF ShowsPairs
    <2> QED BY <2>1, <2>3 DEF Shows, pairs, d
  <1> QED BY <1>16, <1>17, Zenon DEF Reads, r, w

(* The parser reads every node of a tree where its text lies in the input. *)
LEMMA TreeIsRead ==
  ASSUME NEW in \in Seq(Byte), NEW t, IsTree(t)
  PROVE  \A m \in DOMAIN t : ReadsWell(in, t, m)
  <1> DEFINE P == {m \in DOMAIN t : ReadsWell(in, t, m)}
  <1>1. Len(t) \in Nat /\ DOMAIN t = 1 .. Len(t) /\ Len(in) \in Nat
    BY LenProperties DEF IsTree
  <1>2. ASSUME NEW m \in 1 .. Len(t), \A j \in m + 1 .. Len(t) : j \in P PROVE m \in P
    <2>1. m \in DOMAIN t /\ \A k \in m + 1 .. Len(t) : ReadsWell(in, t, k)
      BY <1>1, <1>2
    <2> HIDE DEF P
    <2>2. ASSUME NEW p \in 1 .. Len(in) + 1, AgreesAt(in, p, Spell(t, m)) PROVE Reads(in, t, m, p)
      <3>1. CASE p \in 1 .. Len(in)
        <4>1. Placed(in, t, m, p)
          BY <2>1, <2>2, <3>1 DEF Placed
        <4>2. t[m].kind \in {"integer", "string", "list", "dictionary"}
          BY <2>1, NodeFacts
        <4> QED BY <2>1, <4>1, <4>2, ReadsIntegerNode, ReadsStringNode, ReadsListNode, ReadsDictionaryNode
      <3>2. CASE p \notin 1 .. Len(in)
        <4>1. p > Len(in)
          BY <1>1, <3>2
        <4>2. Parse(in)[p]["value"] = Failed
          <5>1. Parse(in)[p]["value"] = ParseValue(in, Parse(in), p)
            BY ParseFacts
          <5> QED BY <4>1, <5>1, Zenon DEF ParseValue
        <4>3. ~(p + Len(Spell(t, m)) <= Len(in) + 1)
          <5>1. Len(Spell(t, m)) \in Nat /\ Len(Spell(t, m)) >= 2
            BY <2>1, FirstByte
          <5> QED BY <1>1, <4>1, <5>1
        <4> QED BY <4>2, <4>3, ResultFacts, Zenon DEF Reads
      <3> QED BY <3>1, <3>2
    <2>3. ReadsWell(in, t, m)
      BY <2>2 DEF ReadsWell
    <2> QED BY <2>1, <2>3 DEF P
  <1>3. \A m \in 1 .. Len(t) : m \in P
    <2> HIDE DEF P
    <2> QED BY <1>1, <1>2, CountingDown
  <1> QED BY <1>1, <1>3

PrefixIn(s, w) == Len(s) <= Len(w) /\ \A k \in 1 .. Len(s) : s[k] = w[k]

LEMMA PrefixFacts ==
  ASSUME NEW s \in Seq(Byte), NEW w \in Seq(Byte), IsPrefix(s, w)
  PROVE  PrefixIn(s, w)
  <1> DEFINE n == Len(s)
             a == SubSeq(s, 1, n)
             b == SubSeq(w, 1, n)
  <1>1. n \in Nat /\ Len(w) \in Nat /\ n <= Len(w) /\ a = b
    BY LenProperties DEF IsPrefix
  <1>2. \A k \in 1 .. n : s[k] \in Byte /\ w[k] \in Byte
    <2>1. \A k \in 1 .. n : k \in 1 .. Len(w)
      BY <1>1
    <2> QED BY <2>1, ElementOfSeq
  <1> HIDE DEF n
  <1>3. \A k \in 1 .. n - 1 + 1 : a[k] = s[1 + k - 1]
    BY <1>1, <1>2, SubSeqProperties
  <1>4. \A k \in 1 .. n - 1 + 1 : b[k] = w[1 + k - 1]
    BY <1>1, <1>2, SubSeqProperties
  <1>5. n - 1 + 1 = n /\ \A k \in 1 .. n : 1 + k - 1 = k
    BY <1>1
  <1> HIDE DEF a, b
  <1>6. \A k \in 1 .. n : s[k] = w[k]
    BY <1>1, <1>3, <1>4, <1>5
  <1> QED BY <1>1, <1>6 DEF PrefixIn, n

LEMMA TextAgrees ==
  ASSUME NEW in \in Seq(Byte), NEW w \in Seq(Byte), IsPrefix(in, w) \/ IsPrefix(w, in)
  PROVE  AgreesAt(in, 1, w) /\ (Len(in) = Len(w) => in = w)
  <1>1. Len(in) \in Nat /\ Len(w) \in Nat
    BY LenProperties
  <1>2. PrefixIn(in, w) \/ PrefixIn(w, in)
    BY PrefixFacts
  <1>3. ASSUME NEW k \in 1 .. Len(w), k <= Len(in) PROVE in[k] = w[k]
    BY <1>1, <1>2, <1>3 DEF PrefixIn
  <1>4. AgreesAt(in, 1, w)
    <2>1. \A k \in 1 .. Len(w) : 1 + k - 1 = k
      BY <1>1
    <2> QED BY <1>3, <2>1 DEF AgreesAt
  <1>5. ASSUME Len(in) = Len(w) PROVE in = w
    <2>1. \A k \in 1 .. Len(in) : in[k] = w[k]
      BY <1>1, <1>3, <1>5
    <2> QED BY <1>5, <2>1, SeqEqual
  <1> QED BY <1>4, <1>5

LEMMA ValuesAre ==
  ASSUME NEW in \in Seq(Byte), NEW i \in 1 .. Len(in) + 1
  PROVE  Values(in)[i] = Parse(in)[i]["value"]
  <1> DEFINE p == Parse(in)
             n == Len(in) + 1
  <1>1. Values(in) = [j \in 1 .. n |-> p[j]["value"]]
    BY ParseFacts, Zenon
  <1> HIDE DEF p, n
  <1>2. i \in 1 .. n
    BY DEF n
  <1> QED BY <1>1, <1>2 DEF p

(* BencodeParser::parse accepts the whole text of a tree whose integers    *)
(* fit, and nothing that is shorter or longer.                             *)
LEMMA TextIsRead ==
  ASSUME NEW in \in Seq(Byte), NEW t, IsTree(t),
         IsPrefix(in, Spell(t, 1)) \/ IsPrefix(Spell(t, 1), in)
  PROVE  /\ 1 \in DOMAIN t
         /\ IsParsed(in, Values(in)) <=> IntegersFit(t, 1) /\ in = Spell(t, 1)
         /\ in = Spell(t, 1) => At(in, t, 1, 1)
  <1> DEFINE w == Spell(t, 1)
             r == Parse(in)[1]["value"]
  <1>1. 1 \in DOMAIN t
    BY LenProperties, EmptySeq DEF IsTree
  <1>2. w \in Seq(Byte) /\ Len(w) \in Nat /\ Len(w) >= 2 /\ Len(in) \in Nat
    BY <1>1, FirstByte, LenProperties
  <1>3. 1 \in 1 .. Len(in) + 1
    BY <1>2
  <1>4. Values(in)[1] = r
    BY <1>3, ValuesAre
  <1>5. IsPrefix(in, w) \/ IsPrefix(w, in)
    OBVIOUS
  <1> HIDE DEF w, r
  <1>6. AgreesAt(in, 1, w) /\ (Len(in) = Len(w) => in = w)
    BY <1>2, <1>5, TextAgrees
  <1>7. Reads(in, t, 1, 1)
    <2>1. ReadsWell(in, t, 1)
      BY <1>1, TreeIsRead
    <2> QED BY <1>3, <1>6, <2>1 DEF ReadsWell, w
  <1>8. /\ r.ok <=> IntegersFit(t, 1) /\ 1 + Len(w) <= Len(in) + 1
        /\ r.ok => r.pos = 1 + Len(w)
    BY <1>7, Zenon DEF Reads, r, w
  <1>9. IsParsed(in, Values(in)) <=> r.ok /\ r.pos > Len(in)
    BY <1>4, Zenon DEF IsParsed
  <1>10. IsParsed(in, Values(in)) <=> IntegersFit(t, 1) /\ in = w
    <2>1. CASE r.ok
      <3>1. r.pos > Len(in) <=> Len(in) = Len(w)
        BY <1>2, <1>8, <2>1
      <3> QED BY <1>6, <1>8, <1>9, <2>1, <3>1
    <2>2. CASE ~ r.ok
      <3>1. in = w => 1 + Len(w) <= Len(in) + 1
        BY <1>2
      <3> QED BY <1>8, <1>9, <2>2, <3>1
    <2> QED BY <2>1, <2>2
  <1>11. in = w => At(in, t, 1, 1)
    <2> SUFFICES ASSUME in = w PROVE At(in, t, 1, 1)
      OBVIOUS
    <2>1. 1 \in 1 .. Len(in) /\ 1 + Len(w) - 1 <= Len(in)
      BY <1>2
    <2> QED BY <1>6, <2>1 DEF At, w
  <1> QED BY <1>1, <1>10, <1>11 DEF w

(* A node that is wholly in the input, with integers that fit.             *)
Shown(in, t, n, p) == n \in DOMAIN t /\ At(in, t, n, p) /\ IntegersFit(t, n)

LEMMA NodeIsRead ==
  ASSUME NEW in \in Seq(Byte), NEW t, IsTree(t), NEW n, NEW p, Shown(in, t, n, p)
  PROVE  /\ p \in 1 .. Len(in)
         /\ Values(in)[p].ok
         /\ Shows(in, t, n, Values(in)[p].value)
         /\ \A c \in Children(t[n]) : c \in DOMAIN t /\ c > n /\ IntegersFit(t, c)
  <1> DEFINE r == Parse(in)[p]["value"]
  <1>1. n \in DOMAIN t /\ At(in, t, n, p) /\ IntegersFit(t, n)
    BY DEF Shown
  <1>2. p \in 1 .. Len(in) /\ p + Len(Spell(t, n)) - 1 <= Len(in) /\ AgreesAt(in, p, Spell(t, n))
    BY <1>1 DEF At
  <1>3. Len(in) \in Nat /\ Len(Spell(t, n)) \in Nat
    BY <1>1, FirstByte, LenProperties
  <1>4. p \in 1 .. Len(in) + 1 /\ p + Len(Spell(t, n)) <= Len(in) + 1
    BY <1>2, <1>3
  <1>5. Values(in)[p] = r
    BY <1>4, ValuesAre
  <1>6. Reads(in, t, n, p)
    <2>1. ReadsWell(in, t, n)
      BY <1>1, TreeIsRead
    <2> QED BY <1>2, <1>4, <2>1 DEF ReadsWell
  <1>7. r.ok /\ Shows(in, t, n, r.value)
    BY <1>1, <1>4, <1>6 DEF Reads
  <1>8. \A c \in Children(t[n]) : c \in DOMAIN t /\ c > n /\ IntegersFit(t, c)
    <2>1. \A c \in Children(t[n]) : IntegersFit(t, c)
      BY <1>1, FitFacts
    <2>2. Children(t[n]) \subseteq n + 1 .. Len(t) /\ DOMAIN t = 1 .. Len(t) /\ Len(t) \in Nat
      BY <1>1, NodeFacts
    <2> QED BY <1>1, <2>1, <2>2
  <1> HIDE DEF r
  <1> QED BY <1>2, <1>5, <1>7, <1>8

HasFirst(pairs, key) ==
  LET i == SelectInSeq(pairs, LAMBDA pair : pair[1] = key)
  IN  i \in 1 .. Len(pairs) /\ pairs[i][1] = key /\ First(pairs, i)

LEMMA FirstPair ==
  ASSUME NEW pairs, NEW key, Len(pairs) \in Nat, \E k \in 1 .. Len(pairs) : pairs[k][1] = key
  PROVE  HasFirst(pairs, key)
  <1> DEFINE I == {k \in 1 .. Len(pairs) : pairs[k][1] = key}
             i == SelectInSeq(pairs, LAMBDA pair : pair[1] = key)
  <1>1. i = IF I # {} THEN Min(I) ELSE 0
    BY DEF SelectInSeq
  <1> HIDE DEF i
  <1>2. I # {} /\ I \subseteq Nat /\ I \subseteq 1 .. Len(pairs)
    OBVIOUS
  <1> HIDE DEF I
  <1>3. PICK k \in I : \A j \in I : k <= j
    BY <1>2, LeastNatural
  <1>4. i = k
    BY <1>1, <1>2, <1>3, FirstSelected
  <1>5. i \in 1 .. Len(pairs) /\ pairs[i][1] = key /\ \A j \in 1 .. i - 1 : pairs[j][1] # key
    BY <1>3, <1>4 DEF I
  <1>6. i \in 1 .. Len(pairs) /\ pairs[i][1] = key /\ First(pairs, i)
    BY <1>5 DEF First
  <1> QED BY <1>6, Zenon DEF HasFirst, i

LEMMA PairsAreShown ==
  ASSUME NEW in \in Seq(Byte), NEW t, IsTree(t), NEW n, NEW p, Shown(in, t, n, p),
         t[n].kind = "dictionary"
  PROVE  /\ n \in DOMAIN t /\ ShowsPairs(in, t, t[n].pairs, Values(in)[p].value.dictionary)
         /\ \A c \in Children(t[n]) : c \in DOMAIN t /\ IntegersFit(t, c)
  BY NodeIsRead DEF Shows, Shown

LEMMA DictionaryIsShown ==
  ASSUME NEW in \in Seq(Byte), NEW t, IsTree(t), NEW n, NEW p, Shown(in, t, n, p),
         t[n].kind = "dictionary", NEW key
  PROVE  LET dict == Values(in)[p].value.dictionary
         IN  /\ <<key>> \in DOMAIN dict <=> Has(t[n], key)
             /\ Has(t[n], key) => Shown(in, t, Get(t[n], key), dict[<<key>>])
  <1> DEFINE dict == Values(in)[p].value.dictionary
             pairs == t[n].pairs
             i == SelectInSeq(pairs, LAMBDA pair : pair[1] = key)
  <1>1. n \in DOMAIN t /\ ShowsPairs(in, t, pairs, dict)
        /\ \A c \in Children(t[n]) : c \in DOMAIN t /\ IntegersFit(t, c)
    BY PairsAreShown
  <1>2. Len(pairs) \in Nat /\ DOMAIN pairs = 1 .. Len(pairs)
    <2>1. pairs \in Seq(Byte \X (n + 1 .. Len(t)))
      BY <1>1, NodeFacts
    <2> HIDE DEF pairs
    <2> QED BY <2>1, SeqFacts
  <1>3. Has(t[n], key) <=> \E k \in DOMAIN pairs : pairs[k][1] = key
    BY Zenon DEF Has
  <1>4. Get(t[n], key) = pairs[i][2]
    BY Zenon DEF Get
  <1>5. Children(t[n]) = {pairs[k][2] : k \in DOMAIN pairs}
    BY DEF Children
  <1>6. (\E k \in DOMAIN pairs : pairs[k][1] = key) =>
           i \in 1 .. Len(pairs) /\ pairs[i][1] = key /\ First(pairs, i)
    <2> SUFFICES ASSUME \E k \in DOMAIN pairs : pairs[k][1] = key
                 PROVE  i \in 1 .. Len(pairs) /\ pairs[i][1] = key /\ First(pairs, i)
      OBVIOUS
    <2> HIDE DEF pairs, i
    <2>1. HasFirst(pairs, key)
      BY <1>2, FirstPair
    <2> QED BY <2>1, Zenon DEF HasFirst, i
  <1> HIDE DEF dict, pairs, i
  <1>7. <<key>> \in DOMAIN dict <=> Has(t[n], key)
    <2>1. \A x : <<x>> = <<key>> <=> x = key
      OBVIOUS
    <2> QED BY <1>1, <1>3, <2>1 DEF ShowsPairs
  <1>8. ASSUME Has(t[n], key) PROVE Shown(in, t, Get(t[n], key), dict[<<key>>])
    <2>1. i \in DOMAIN pairs /\ pairs[i][1] = key /\ First(pairs, i)
      BY <1>2, <1>3, <1>6, <1>8
    <2>2. At(in, t, pairs[i][2], dict[<<key>>])
      BY <1>1, <2>1 DEF ShowsPairs
    <2>3. pairs[i][2] \in Children(t[n])
      BY <1>5, <2>1
    <2> QED BY <1>1, <1>4, <2>2, <2>3 DEF Shown
  <1> QED BY <1>7, <1>8 DEF dict

LEMMA ListIsShown ==
  ASSUME NEW in \in Seq(Byte), NEW t, IsTree(t), NEW n, NEW p, Shown(in, t, n, p), t[n].kind = "list"
  PROVE  LET list == Values(in)[p].value.list
         IN  /\ list \in Seq(1 .. Len(in)) /\ Len(list) = Len(t[n].items)
             /\ \A k \in 1 .. Len(list) : Shown(in, t, t[n].items[k], list[k])
  <1> DEFINE list == Values(in)[p].value.list
             items == t[n].items
  <1>1. n \in DOMAIN t /\ ShowsList(in, t, items, list)
        /\ \A c \in Children(t[n]) : c \in DOMAIN t /\ IntegersFit(t, c)
    BY NodeIsRead DEF Shows, Shown
  <1>2. DOMAIN items = 1 .. Len(items) /\ Children(t[n]) = {items[k] : k \in DOMAIN items}
    <2>1. items \in Seq(n + 1 .. Len(t))
      BY <1>1, NodeFacts
    <2>2. Children(t[n]) = ToSet(items)
      BY DEF Children
    <2> HIDE DEF items
    <2> QED BY <2>1, <2>2, SeqFacts, Zenon DEF ToSet
  <1> HIDE DEF list, items
  <1>3. list \in Seq(1 .. Len(in)) /\ Len(list) = Len(items)
    BY <1>1 DEF ShowsList
  <1>4. ASSUME NEW k \in 1 .. Len(items) PROVE Shown(in, t, items[k], list[k])
    BY <1>1, <1>2 DEF ShowsList, Shown
  <1> QED BY <1>3, <1>4 DEF list, items

-----------------------------------------------------------------------------
(* The invariant: at each place, what the program has is what the torrent  *)
(* says.  It is past the command line only with one it accepts; it refuses *)
(* no whole torrent; it is past parsing only with a whole one; info has    *)
(* what it needs; and the files are those of the list so far, each behind  *)
(* the one before.                                                         *)

InFull == input.text = Spell(input.torrent, 1)
InfoNode == input.torrent[Get(input.torrent[1], "info")]
FileNode(k) == input.torrent[input.torrent[Get(InfoNode, "files")].items[k]]

ConfigRead ==
  pc \notin {"config", "refused"} =>
    CommandLineFine /\ cacheSize = (Stoull(input.gigabytes) * Gib) % Word

RefusedRightly == pc = "refused" => ~(CommandLineFine /\ InFull /\ IsTorrent(input.torrent))

TorrentParsed ==
  pc \in {"info", "files", "ready"} =>
    /\ values = Values(input.text) /\ InFull
    /\ IntegersFit(input.torrent, 1)
    /\ input.torrent[1].kind = "dictionary"
    /\ HasKind(input.torrent, input.torrent[1], "info", "dictionary")

HasFields(t, node) ==
  /\ HasKind(t, node, "name", "string")
  /\ HasKind(t, node, "piece length", "integer")
  /\ HasKind(t, node, "pieces", "string")
  /\ IF Has(node, "files") THEN t[Get(node, "files")].kind = "list"
     ELSE HasKind(t, node, "length", "integer")

InfoRead ==
  pc \in {"files", "ready"} =>
    /\ HasFields(input.torrent, InfoNode)
    /\ hashed = Encode(values, Root[<<"info">>])

(* The files that have been read, and those still to come.                 *)
QueueLeft ==
  LET n == Len(metadata.files)
      list == Entry(Info, "files").list
  IN  /\ Len(queue) = Len(list) - n
      /\ \A k \in 1 .. Len(queue) : queue[k] = list[n + k]

FilesRecorded ==
  pc \in {"files", "ready"} =>
    LET files == metadata.files
        n == Len(files)
    IN  /\ \E S : files \in Seq(S)
        /\ queue \in Seq(Int) /\ {"files", "totalSize"} \subseteq DOMAIN metadata
        /\ pc = "ready" => queue = <<>>
        /\ IF Has(InfoNode, "files")
           THEN QueueLeft /\ \A k \in 1 .. n : IsFile(input.torrent, FileNode(k))
           ELSE pc = "ready" /\ n = 1

(* Each file begins where the one before it ends, in the arithmetic of     *)
(* words.                                                                  *)
LaidOut(files, lengths, total) ==
  LET n == Len(files)
  IN  /\ \A k \in 1 .. n : files[k].size = lengths[k] % Word
      /\ \A k \in 1 .. n : files[k].offset =
           IF k = 1 THEN 0 ELSE (files[k - 1].offset + files[k - 1].size) % Word
      /\ total = IF n = 0 THEN 0 ELSE (files[n].offset + files[n].size) % Word

FilesLaid ==
  pc \in {"files", "ready"} =>
    LaidOut(metadata.files, LengthsOf(input.torrent, InfoNode), metadata.totalSize)

LoadInv ==
  /\ input \in Inputs
  /\ pc \in {"config", "start", "unopened", "refused", "info", "files", "ready"}
  /\ ConfigRead /\ RefusedRightly /\ TorrentParsed /\ InfoRead
  /\ FilesRecorded /\ FilesLaid

-----------------------------------------------------------------------------
(* What the values read say of the torrent. *)

LEMMA InputFacts ==
  ASSUME NEW in \in Inputs
  PROVE  /\ in.text \in Seq(Byte) /\ IsTree(in.torrent)
         /\ IsPrefix(in.text, Spell(in.torrent, 1)) \/ IsPrefix(Spell(in.torrent, 1), in.text)
         /\ in.gigabytes \in Int \cup {NotANumber}
  BY LoadAssumption

(* What a dictionary of the text has for a key.                            *)
KeyIsRead(in, t, n, p, key) ==
  LET dict == Values(in)[p].value.dictionary
      q == dict[<<key>>]
  IN  /\ <<key>> \in DOMAIN dict <=> Has(t[n], key)
      /\ Has(t[n], key) => /\ Shown(in, t, Get(t[n], key), q)
                           /\ Shows(in, t, Get(t[n], key), Values(in)[q].value)
                           /\ Values(in)[q].value.kind = t[Get(t[n], key)].kind

LEMMA EntryIsRead ==
  ASSUME NEW in \in Seq(Byte), NEW t, IsTree(t), NEW n, NEW p, Shown(in, t, n, p),
         t[n].kind = "dictionary", NEW key
  PROVE  KeyIsRead(in, t, n, p, key)
  <1> DEFINE dict == Values(in)[p].value.dictionary
             q == dict[<<key>>]
             c == Get(t[n], key)
  <1>1. /\ <<key>> \in DOMAIN dict <=> Has(t[n], key)
        /\ Has(t[n], key) => Shown(in, t, c, q)
    BY DictionaryIsShown, Zenon
  <1>2. ASSUME Has(t[n], key)
        PROVE  Shown(in, t, c, q) /\ Shows(in, t, c, Values(in)[q].value)
               /\ Values(in)[q].value.kind = t[c].kind
    <2> HIDE DEF dict, q, c
    <2>1. Shown(in, t, c, q)
      BY <1>1, <1>2
    <2>2. Shows(in, t, c, Values(in)[q].value)
      BY <2>1, NodeIsRead
    <2> QED BY <2>1, <2>2, Zenon DEF Shows
  <1> QED BY <1>1, <1>2, Zenon DEF KeyIsRead

LEMMA RootIsRead ==
  ASSUME NEW in \in Seq(Byte), NEW t, IsTree(t),
         IsPrefix(in, Spell(t, 1)) \/ IsPrefix(Spell(t, 1), in)
  PROVE  LET vals == Values(in)
             root == vals[1].value
         IN  /\ IsParsed(in, vals) /\ root.kind = "dictionary"
                /\ <<"info">> \in DOMAIN root.dictionary
                /\ vals[root.dictionary[<<"info">>]].value.kind = "dictionary"
                <=> in = Spell(t, 1) /\ IntegersFit(t, 1) /\ t[1].kind = "dictionary"
                    /\ HasKind(t, t[1], "info", "dictionary")
  <1> DEFINE vals == Values(in)
             root == vals[1].value
             q == root.dictionary[<<"info">>]
  <1>1. /\ 1 \in DOMAIN t
        /\ IsParsed(in, vals) <=> IntegersFit(t, 1) /\ in = Spell(t, 1)
        /\ in = Spell(t, 1) => At(in, t, 1, 1)
    BY TextIsRead
  <1>2. CASE IsParsed(in, vals)
    <2>1. Shown(in, t, 1, 1) /\ IntegersFit(t, 1) /\ in = Spell(t, 1)
      BY <1>1, <1>2 DEF Shown
    <2>2. Shows(in, t, 1, root)
      BY <2>1, NodeIsRead
    <2>3. root.kind = t[1].kind
      BY <2>2, Zenon DEF Shows
    <2>4. ASSUME t[1].kind = "dictionary"
          PROVE  <<"info">> \in DOMAIN root.dictionary /\ vals[q].value.kind = "dictionary"
                   <=> HasKind(t, t[1], "info", "dictionary")
      <3>1. KeyIsRead(in, t, 1, 1, "info")
        BY <2>1, <2>4, EntryIsRead
      <3> QED BY <3>1, Zenon DEF KeyIsRead, HasKind
    <2> QED BY <1>2, <2>1, <2>3, <2>4, Zenon
  <1>3. CASE ~ IsParsed(in, vals)
    BY <1>1, <1>3, Zenon
  <1> QED BY <1>2, <1>3, Zenon

(* The files of a torrent that are read one by one.                        *)
FileIsShown(in, t, n, p) ==
  LET f == Values(in)[p].value
      path == Values(in)[f.dictionary[<<"path">>]].value
      length == Values(in)[f.dictionary[<<"length">>]].value
  IN  /\ /\ f.kind = "dictionary"
         /\ <<"path">> \in DOMAIN f.dictionary /\ path.kind = "list"
         /\ \A part \in ToSet(path.list) : Values(in)[part].value.kind = "string"
         /\ <<"length">> \in DOMAIN f.dictionary /\ length.kind = "integer"
         <=> IsFile(t, t[n])
      /\ IsFile(t, t[n]) => length.integer = LengthIn(t, t[n])

LEMMA FileIsRead ==
  ASSUME NEW in \in Seq(Byte), NEW t, IsTree(t), NEW n, NEW p, Shown(in, t, n, p)
  PROVE  FileIsShown(in, t, n, p)
  <1> DEFINE f == Values(in)[p].value
             path == Values(in)[f.dictionary[<<"path">>]].value
             length == Values(in)[f.dictionary[<<"length">>]].value
             items == t[Get(t[n], "path")].items
             strings == \A part \in ToSet(path.list) : Values(in)[part].value.kind = "string"
  <1> SUFFICES /\ /\ f.kind = "dictionary"
                  /\ <<"path">> \in DOMAIN f.dictionary /\ path.kind = "list" /\ strings
                  /\ <<"length">> \in DOMAIN f.dictionary /\ length.kind = "integer"
                  <=> IsFile(t, t[n])
               /\ IsFile(t, t[n]) => length.integer = LengthIn(t, t[n])
    BY Zenon DEF FileIsShown
  <1>1. f.kind = t[n].kind
    <2>1. Shows(in, t, n, Values(in)[p].value)
      BY NodeIsRead
    <2> QED BY <2>1, Zenon DEF Shows
  <1>2. CASE t[n].kind = "dictionary"
    <2>1. KeyIsRead(in, t, n, p, "path") /\ KeyIsRead(in, t, n, p, "length")
      BY <1>2, EntryIsRead
    <2>2. <<"path">> \in DOMAIN f.dictionary /\ path.kind = "list" <=> HasKind(t, t[n], "path", "list")
      BY <2>1, Zenon DEF KeyIsRead, HasKind
    <2>3. <<"length">> \in DOMAIN f.dictionary /\ length.kind = "integer"
            <=> HasKind(t, t[n], "length", "integer")
      BY <2>1, Zenon DEF KeyIsRead, HasKind
    <2>4. ASSUME HasKind(t, t[n], "length", "integer") PROVE length.integer = LengthIn(t, t[n])
      <3>1. Shows(in, t, Get(t[n], "length"), length) /\ t[Get(t[n], "length")].kind = "integer"
        BY <2>1, <2>4, Zenon DEF KeyIsRead, HasKind
      <3> HIDE DEF length
      <3>2. length = Integer(IntegerOf(t[Get(t[n], "length")].spelling))
        BY <3>1 DEF Shows
      <3>3. length.integer = IntegerOf(t[Get(t[n], "length")].spelling)
        BY <3>2 DEF Integer
      <3> QED BY <3>3 DEF LengthIn
    <2>5. ASSUME HasKind(t, t[n], "path", "list")
          PROVE  strings <=> \A part \in ToSet(items) : t[part].kind = "string"
      <3> DEFINE q == f.dictionary[<<"path">>]
                 c == Get(t[n], "path")
                 list == path.list
      <3>1. Shown(in, t, c, q) /\ t[c].kind = "list"
        BY <2>1, <2>5, Zenon DEF KeyIsRead, HasKind
      <3> HIDE DEF q, c
      <3>2. LET l == Values(in)[q].value.list
            IN  /\ l \in Seq(1 .. Len(in)) /\ Len(l) = Len(t[c].items)
                /\ \A k \in 1 .. Len(l) : Shown(in, t, t[c].items[k], l[k])
        BY <3>1, ListIsShown
      <3>3. /\ list \in Seq(1 .. Len(in)) /\ Len(list) = Len(items)
            /\ \A k \in 1 .. Len(list) : Shown(in, t, items[k], list[k])
        BY <3>2, Zenon DEF q, c
      <3>4. items \in Seq(c + 1 .. Len(t))
        <4>1. c \in DOMAIN t
          BY <3>1 DEF Shown
        <4>2. t[c].items \in Seq(c + 1 .. Len(t))
          BY <3>1, <4>1, NodeFacts
        <4> QED BY <4>2 DEF c
      <3> HIDE DEF list, items
      <3>5. DOMAIN list = 1 .. Len(list) /\ DOMAIN items = 1 .. Len(list)
        BY <3>3, <3>4, SeqFacts
      <3>6. \A k \in 1 .. Len(list) : Values(in)[list[k]].value.kind = t[items[k]].kind
        <4> TAKE k \in 1 .. Len(list)
        <4> DEFINE i == items[k]
                   j == list[k]
        <4>1. Shown(in, t, i, j)
          BY <3>3
        <4> HIDE DEF i, j
        <4>2. Shows(in, t, i, Values(in)[j].value)
          BY <4>1, NodeIsRead
        <4> QED BY <4>2, Zenon DEF Shows, i, j
      <3>7. strings <=> \A k \in 1 .. Len(list) : Values(in)[list[k]].value.kind = "string"
        BY <3>5, Zenon DEF ToSet, list
      <3>8. (\A part \in ToSet(items) : t[part].kind = "string")
              <=> \A k \in 1 .. Len(list) : t[items[k]].kind = "string"
        BY <3>5, Zenon DEF ToSet
      <3> QED BY <3>6, <3>7, <3>8, Zenon DEF items
    <2> QED BY <1>1, <1>2, <2>2, <2>3, <2>4, <2>5, Zenon DEF IsFile
  <1>3. CASE t[n].kind # "dictionary"
    BY <1>1, <1>3, Zenon DEF IsFile
  <1> QED BY <1>2, <1>3

(* The info of the torrent, and the program's.                             *)
InfoKnown ==
  LET in == input.text
      t == input.torrent
  IN  /\ Shown(in, t, Get(t[1], "info"), Root[<<"info">>])
      /\ InfoNode.kind = "dictionary"
      /\ \A key : KeyIsRead(in, t, Get(t[1], "info"), Root[<<"info">>], key)

LEMMA InfoIsKnown ==
  ASSUME input \in Inputs, TorrentParsed, pc \in {"info", "files", "ready"}
  PROVE  InfoKnown
  <1> DEFINE in == input.text
             t == input.torrent
             n == Get(t[1], "info")
             p == Root[<<"info">>]
  <1>1. in \in Seq(Byte) /\ IsTree(t)
        /\ (IsPrefix(in, Spell(t, 1)) \/ IsPrefix(Spell(t, 1), in))
    BY InputFacts
  <1>2. values = Values(in) /\ in = Spell(t, 1) /\ IntegersFit(t, 1) /\ t[1].kind = "dictionary"
        /\ HasKind(t, t[1], "info", "dictionary")
    BY Zenon DEF TorrentParsed, InFull
  <1>3. p = Values(in)[1].value.dictionary[<<"info">>]
    BY <1>2, Zenon DEF Root
  <1> HIDE DEF in, t
  <1>4. Shown(in, t, 1, 1)
    BY <1>1, <1>2, TextIsRead DEF Shown
  <1>5. KeyIsRead(in, t, 1, 1, "info")
    BY <1>1, <1>2, <1>4, EntryIsRead
  <1>6. Shown(in, t, n, p) /\ t[n].kind = "dictionary"
    BY <1>2, <1>3, <1>5, Zenon DEF KeyIsRead, HasKind
  <1> HIDE DEF n, p
  <1>7. \A key : KeyIsRead(in, t, n, p, key)
    BY <1>1, <1>6, EntryIsRead
  <1> QED BY <1>6, <1>7, Zenon DEF InfoKnown, InfoNode, n, p, in, t

(* A key of info: whether it is there, of what kind, and what it says.     *)
InfoEntry(key) ==
  LET t == input.torrent
      c == Get(InfoNode, key)
  IN  /\ <<key>> \in DOMAIN Info <=> Has(InfoNode, key)
      /\ \A kind : Find(Info, key, kind) <=> HasKind(t, InfoNode, key, kind)
      /\ Has(InfoNode, key) => /\ Shown(input.text, t, c, Info[<<key>>])
                               /\ Shows(input.text, t, c, Entry(Info, key))
                               /\ Entry(Info, key).kind = t[c].kind

LEMMA InfoEntries ==
  ASSUME input \in Inputs, TorrentParsed, pc \in {"info", "files", "ready"}, NEW key
  PROVE  InfoEntry(key)
  <1>1. InfoKnown /\ values = Values(input.text)
    BY InfoIsKnown DEF TorrentParsed
  <1>2. KeyIsRead(input.text, input.torrent, Get(input.torrent[1], "info"), Root[<<"info">>], key)
    BY <1>1, Zenon DEF InfoKnown
  <1>3. Info = Values(input.text)[Root[<<"info">>]].value.dictionary
    BY <1>1, Zenon DEF Info, Entry
  <1>4. /\ <<key>> \in DOMAIN Info <=> Has(InfoNode, key)
        /\ Has(InfoNode, key) => /\ Shown(input.text, input.torrent, Get(InfoNode, key), Info[<<key>>])
                                 /\ Shows(input.text, input.torrent, Get(InfoNode, key), Entry(Info, key))
                                 /\ Entry(Info, key).kind = input.torrent[Get(InfoNode, key)].kind
    BY <1>1, <1>2, <1>3, Zenon DEF KeyIsRead, Entry, InfoNode
  <1>5. \A kind : Find(Info, key, kind) <=> HasKind(input.torrent, InfoNode, key, kind)
    BY <1>4, Zenon DEF Find, HasKind
  <1> QED BY <1>4, <1>5, Zenon DEF InfoEntry

LEMMA InfoFineIs ==
  ASSUME input \in Inputs, TorrentParsed, pc \in {"info", "files", "ready"}
  PROVE  InfoFine <=> HasFields(input.torrent, InfoNode)
  <1>1. InfoEntry("name") /\ InfoEntry("piece length") /\ InfoEntry("pieces") /\ InfoEntry("files")
        /\ InfoEntry("length")
    BY InfoEntries
  <1> QED BY <1>1, Zenon DEF InfoFine, HasFields, InfoEntry

(* The list of files.                                                      *)
ListKnown ==
  LET t == input.torrent
      list == Entry(Info, "files").list
      items == t[Get(InfoNode, "files")].items
  IN  /\ list \in Seq(Int) /\ Len(list) = Len(items) /\ DOMAIN items = 1 .. Len(list)
      /\ Entry(Info, "files").kind = "list"
      /\ \A k \in 1 .. Len(list) : /\ Shown(input.text, t, items[k], list[k])
                                   /\ FileFine(values[list[k]].value) <=> IsFile(t, FileNode(k))
                                   /\ IsFile(t, FileNode(k)) =>
                                        Entry(values[list[k]].value.dictionary, "length").integer
                                          = LengthIn(t, FileNode(k))

LEMMA ListIsKnown ==
  ASSUME input \in Inputs, TorrentParsed, pc \in {"info", "files", "ready"},
         HasFields(input.torrent, InfoNode), Has(InfoNode, "files")
  PROVE  ListKnown
  <1> DEFINE in == input.text
             t == input.torrent
             c == Get(InfoNode, "files")
             q == Info[<<"files">>]
             list == Entry(Info, "files").list
             items == t[c].items
  <1>1. in \in Seq(Byte) /\ IsTree(t) /\ values = Values(in)
    BY InputFacts DEF TorrentParsed
  <1>2. InfoEntry("files")
    BY InfoEntries
  <1>3. t[c].kind = "list"
    BY Zenon DEF HasFields
  <1>4. Shown(in, t, c, q) /\ Entry(Info, "files").kind = "list"
    BY <1>2, <1>3, Zenon DEF InfoEntry
  <1>5. list = Values(in)[q].value.list
    BY <1>1, Zenon DEF Entry
  <1> HIDE DEF in, t, c, q
  <1>6. LET l == Values(in)[q].value.list
        IN  /\ l \in Seq(1 .. Len(in)) /\ Len(l) = Len(t[c].items)
            /\ \A k \in 1 .. Len(l) : Shown(in, t, t[c].items[k], l[k])
    BY <1>1, <1>3, <1>4, ListIsShown
  <1>7. /\ list \in Seq(1 .. Len(in)) /\ Len(list) = Len(items)
        /\ \A k \in 1 .. Len(list) : Shown(in, t, items[k], list[k])
    BY <1>5, <1>6, Zenon
  <1>8. items \in Seq(c + 1 .. Len(t))
    <2>1. c \in DOMAIN t
      BY <1>4 DEF Shown
    <2> QED BY <1>1, <1>3, <2>1, NodeFacts
  <1> HIDE DEF list, items
  <1>9. DOMAIN items = 1 .. Len(list)
    BY <1>7, <1>8, SeqFacts
  <1>10. list \in Seq(Int)
    <2>1. 1 .. Len(in) \subseteq Int
      OBVIOUS
    <2> QED BY <1>7, <2>1, SeqMonotonic
  <1>11. ASSUME NEW k \in 1 .. Len(list)
         PROVE  /\ FileFine(values[list[k]].value) <=> IsFile(t, t[items[k]])
                /\ IsFile(t, t[items[k]]) =>
                     Entry(values[list[k]].value.dictionary, "length").integer
                       = LengthIn(t, t[items[k]])
    <2> DEFINE n == items[k]
               p == list[k]
    <2>1. Shown(in, t, n, p)
      BY <1>7
    <2> HIDE DEF n, p
    <2>2. FileIsShown(in, t, n, p)
      BY <1>1, <2>1, FileIsRead
    <2>3. /\ FileFine(values[p].value) <=> IsFile(t, t[n])
          /\ IsFile(t, t[n]) => Entry(values[p].value.dictionary, "length").integer = LengthIn(t, t[n])
      BY <1>1, <2>2, Zenon DEF FileFine, Find, Entry, FileIsShown
    <2> QED BY <2>3, Zenon DEF n, p
  <1>12. \A k \in 1 .. Len(list) : FileNode(k) = t[items[k]]
    BY Zenon DEF FileNode, items, t, c
  <1> QED BY <1>4, <1>7, <1>9, <1>10, <1>11, <1>12, Zenon DEF ListKnown, list, items, in, t, c

-----------------------------------------------------------------------------
(* The invariant is kept. *)

LEMMA WordFacts ==
  /\ \A n \in Int : n % Word \in Int
  /\ \A n \in Int : (0 + (n % Word)) % Word = n % Word
  <1>1. Word \in Nat \ {0}
    BY BencodeAssumption
  <1>2. \A n \in Int : n % Word \in 0 .. Word - 1
    BY <1>1, DivMod
  <1>3. ASSUME NEW n \in Int PROVE (0 + (n % Word)) % Word = n % Word
    <2> DEFINE r == n % Word
    <2>1. r \in 0 .. Word - 1
      BY <1>2
    <2> HIDE DEF r
    <2>2. r = 0 * Word + r /\ r \in Int
      BY <1>1, <2>1
    <2>3. r % Word = r
      BY <1>1, <2>1, <2>2, DivModUnique
    <2>4. 0 + r = r
      BY <2>2
    <2> QED BY <2>3, <2>4 DEF r
  <1>4. \A n \in Int : n % Word \in Int
    BY <1>2
  <1> QED BY <1>3, <1>4

LEMMA InputKept ==
  ASSUME input' = input
  PROVE  /\ CommandLineFine' = CommandLineFine
         /\ InFull' = InFull
         /\ InfoNode' = InfoNode
         /\ \A k : FileNode(k)' = FileNode(k)
  BY Zenon DEF CommandLineFine, InFull, InfoNode, FileNode

LEMMA ValuesKept ==
  ASSUME input' = input, values' = values
  PROVE  /\ Root' = Root /\ Info' = Info
         /\ \A k : Entry(Info, k)' = Entry(Info, k)
         /\ (TorrentParsed /\ pc \in {"info", "files", "ready"} => TorrentParsed')
  <1>1. Root' = Root
    BY Zenon DEF Root
  <1>2. Info' = Info
    BY <1>1, Zenon DEF Info, Entry
  <1>3. \A k : Entry(Info, k)' = Entry(Info, k)
    BY <1>2, Zenon DEF Entry
  <1>4. InFull' = InFull
    BY InputKept
  <1>5. TorrentParsed /\ pc \in {"info", "files", "ready"} => TorrentParsed'
    BY <1>4, Zenon DEF TorrentParsed
  <1> QED BY <1>1, <1>2, <1>3, <1>5

LEMMA InitInv ==
  ASSUME Init
  PROVE  LoadInv
  <1>1. pc = "config" /\ input \in Inputs
    BY DEF Init
  <1>2. pc \notin {"refused", "info", "files", "ready"}
    BY <1>1
  <1>3. ConfigRead /\ RefusedRightly /\ TorrentParsed /\ InfoRead /\ FilesRecorded /\ FilesLaid
    BY <1>1, <1>2, Zenon DEF ConfigRead, RefusedRightly, TorrentParsed, InfoRead, FilesRecorded, FilesLaid
  <1> QED BY <1>1, <1>3, Zenon DEF LoadInv

(* The steps before the torrent is parsed.                                 *)
LEMMA EarlySteps ==
  ASSUME LoadInv, ParseConfig \/ RefuseConfig \/ StorageFails
  PROVE  LoadInv'
  <1>1. input' = input /\ input \in Inputs
    BY DEF LoadInv, ParseConfig, RefuseConfig, StorageFails
  <1>2. CommandLineFine' = CommandLineFine
    BY <1>1, InputKept
  <1>3. CASE ParseConfig
    BY <1>1, <1>2, <1>3, SMT
       DEF LoadInv, ParseConfig, Goto, ConfigRead, RefusedRightly, TorrentParsed, InfoRead,
           FilesRecorded, FilesLaid
  <1>4. CASE RefuseConfig
    BY <1>1, <1>2, <1>4, SMT
       DEF LoadInv, RefuseConfig, Goto, ConfigRead, RefusedRightly, TorrentParsed, InfoRead,
           FilesRecorded, FilesLaid
  <1>5. CASE StorageFails
    BY <1>1, <1>2, <1>5, SMT
       DEF LoadInv, StorageFails, Goto, ConfigRead, RefusedRightly, TorrentParsed, InfoRead,
           FilesRecorded, FilesLaid
  <1> QED BY <1>3, <1>4, <1>5

LEMMA ParseStep ==
  ASSUME LoadInv, ParseTorrent
  PROVE  LoadInv'
  <1> DEFINE in == input.text
             t == input.torrent
             vals == Values(in)
             root == vals[1].value
             fine == /\ IsParsed(in, vals) /\ root.kind = "dictionary"
                     /\ <<"info">> \in DOMAIN root.dictionary
                     /\ vals[root.dictionary[<<"info">>]].value.kind = "dictionary"
             should == in = Spell(t, 1) /\ IntegersFit(t, 1) /\ t[1].kind = "dictionary"
                       /\ HasKind(t, t[1], "info", "dictionary")
  <1>1. input' = input /\ input \in Inputs /\ values' = vals /\ pc = "start"
        /\ UNCHANGED <<cacheSize, metadata, hashed, queue>>
    BY Zenon DEF LoadInv, ParseTorrent, Goto
  <1>2. fine <=> should
    <2>1. in \in Seq(Byte) /\ IsTree(t) /\ (IsPrefix(in, Spell(t, 1)) \/ IsPrefix(Spell(t, 1), in))
      BY <1>1, InputFacts
    <2> QED BY <2>1, RootIsRead, Zenon
  <1>3. IsParsed(input.text, values') /\ RootFine' <=> fine
    BY <1>1, Zenon DEF RootFine, Root, Find, Entry
  <1>4. pc' = IF fine THEN "info" ELSE "refused"
    BY <1>3, Zenon DEF ParseTorrent, Goto
  <1>5. CommandLineFine' = CommandLineFine /\ InFull' = InFull
    BY <1>1, InputKept
  <1>6. CommandLineFine /\ cacheSize = (Stoull(input.gigabytes) * Gib) % Word
    BY <1>1 DEF LoadInv, ConfigRead
  <1>7. input' \in Inputs /\ pc' \in {"refused", "info"}
    BY <1>1, <1>4
  <1>8. ConfigRead'
    BY <1>1, <1>5, <1>6, Zenon DEF ConfigRead
  <1>9. RefusedRightly'
    <2>1. ~ should => ~(InFull /\ IsTorrent(t))
      BY Zenon DEF InFull, IsTorrent, IsInfo, HasKind
    <2>2. pc' = "refused" => ~ should
      BY <1>2, <1>4
    <2> HIDE DEF should
    <2> QED BY <1>1, <1>5, <2>1, <2>2, Zenon DEF RefusedRightly
  <1>10. TorrentParsed'
    <2>1. pc' \in {"info", "files", "ready"} => fine
      BY <1>4
    <2>2. should => InFull /\ IntegersFit(t, 1) /\ t[1].kind = "dictionary"
                    /\ HasKind(t, t[1], "info", "dictionary")
      BY Zenon DEF InFull
    <2> HIDE DEF fine, should
    <2> QED BY <1>1, <1>2, <1>5, <2>1, <2>2, Zenon DEF TorrentParsed
  <1>11. pc' \notin {"files", "ready"}
    BY <1>4
  <1>12. InfoRead' /\ FilesRecorded' /\ FilesLaid'
    BY <1>11, Zenon DEF InfoRead, FilesRecorded, FilesLaid
  <1> HIDE DEF fine
  <1> QED BY <1>7, <1>8, <1>9, <1>10, <1>12, SMT DEF LoadInv

LEMMA RefuseInfoStep ==
  ASSUME LoadInv, RefuseInfo
  PROVE  LoadInv'
  <1>1. input' = input /\ input \in Inputs /\ pc = "info" /\ pc' = "refused" /\ cacheSize' = cacheSize
        /\ ~ InfoFine /\ TorrentParsed /\ ConfigRead
    BY DEF LoadInv, RefuseInfo, Goto
  <1>2. CommandLineFine' = CommandLineFine /\ InFull' = InFull
    BY <1>1, InputKept
  <1>3. ~ HasFields(input.torrent, InfoNode)
    BY <1>1, InfoFineIs
  <1>4. ~ IsTorrent(input.torrent)
    BY <1>3, Zenon DEF HasFields, IsTorrent, IsInfo, InfoNode
  <1>5. ~ IsTorrent(input'.torrent)
    BY <1>1, <1>4
  <1> QED BY <1>1, <1>2, <1>5, SMT
          DEF LoadInv, ConfigRead, RefusedRightly, TorrentParsed, InfoRead, FilesRecorded, FilesLaid

(* The files read are the first ones of the list.                          *)
LEMMA NextFile ==
  ASSUME LoadInv, pc = "files", queue # <<>>
  PROVE  LET n == Len(metadata.files)
             items == input.torrent[Get(InfoNode, "files")].items
         IN  /\ ListKnown /\ Has(InfoNode, "files") /\ n \in Nat
             /\ n + 1 \in 1 .. Len(Entry(Info, "files").list) /\ n + 1 \in DOMAIN items
             /\ Head(queue) = Entry(Info, "files").list[n + 1]
  <1> DEFINE n == Len(metadata.files)
             list == Entry(Info, "files").list
  <1>1. TorrentParsed /\ HasFields(input.torrent, InfoNode) /\ input \in Inputs
    BY DEF LoadInv, InfoRead
  <1>2. /\ \E S : metadata.files \in Seq(S)
        /\ queue \in Seq(Int) /\ Has(InfoNode, "files") /\ QueueLeft
    BY DEF LoadInv, FilesRecorded
  <1>3. ListKnown
    BY <1>1, <1>2, ListIsKnown
  <1>4. list \in Seq(Int) /\ DOMAIN input.torrent[Get(InfoNode, "files")].items = 1 .. Len(list)
    BY <1>3, Zenon DEF ListKnown
  <1>5. Len(queue) = Len(list) - n /\ \A k \in 1 .. Len(queue) : queue[k] = list[n + k]
    BY <1>2 DEF QueueLeft
  <1>6. n \in Nat
    BY <1>2, LenProperties
  <1> HIDE DEF n, list
  <1>7. Len(list) \in Nat /\ Len(queue) \in Nat /\ Len(queue) # 0 /\ Head(queue) = queue[1]
    BY <1>2, <1>4, LenProperties, EmptySeq
  <1>8. n + 1 \in 1 .. Len(list) /\ Head(queue) = list[n + 1]
    BY <1>5, <1>6, <1>7
  <1> QED BY <1>2, <1>3, <1>4, <1>6, <1>8 DEF n, list

LEMMA RefuseFileStep ==
  ASSUME LoadInv, RefuseFile
  PROVE  LoadInv'
  <1> DEFINE n == Len(metadata.files)
             t == input.torrent
             node == Get(InfoNode, "files")
  <1>1. input' = input /\ input \in Inputs /\ pc = "files" /\ pc' = "refused" /\ cacheSize' = cacheSize
        /\ queue # <<>> /\ ~ FileFine(values[Head(queue)].value) /\ ConfigRead
    BY DEF LoadInv, RefuseFile, Goto
  <1>2. CommandLineFine' = CommandLineFine /\ InFull' = InFull
    BY <1>1, InputKept
  <1>3. /\ ListKnown /\ Has(InfoNode, "files")
        /\ n + 1 \in 1 .. Len(Entry(Info, "files").list) /\ n + 1 \in DOMAIN t[node].items
        /\ Head(queue) = Entry(Info, "files").list[n + 1]
    BY <1>1, NextFile
  <1>4. ~ IsFile(t, FileNode(n + 1))
    BY <1>1, <1>3, Zenon DEF ListKnown
  <1>5. ~ IsTorrent(t)
    <2> SUFFICES ASSUME IsTorrent(t) PROVE FALSE
      OBVIOUS
    <2>1. \A f \in ToSet(t[node].items) : IsFile(t, t[f])
      BY <1>3, Zenon DEF IsTorrent, IsInfo, InfoNode
    <2>2. t[node].items[n + 1] \in ToSet(t[node].items)
      BY <1>3, Zenon DEF ToSet
    <2>3. IsFile(t, FileNode(n + 1))
      BY <2>1, <2>2, Zenon DEF FileNode
    <2> QED BY <1>4, <2>3
  <1>6. ~ IsTorrent(input'.torrent)
    BY <1>1, <1>5
  <1> QED BY <1>1, <1>2, <1>6, SMT
          DEF LoadInv, ConfigRead, RefusedRightly, TorrentParsed, InfoRead, FilesRecorded, FilesLaid

(* Lengths are integers.                                                   *)
LEMMA LengthIsRead ==
  ASSUME NEW in \in Seq(Byte), NEW t, IsTree(t), NEW n, NEW p, Shown(in, t, n, p),
         t[n].kind = "integer"
  PROVE  IntegerOf(t[n].spelling) \in Int
  <1>1. n \in DOMAIN t /\ IntegersFit(t, n)
    BY DEF Shown
  <1>2. IsInteger(t[n].spelling)
    BY <1>1, FitFacts DEF FitHere
  <1>3. t[n].spelling \in Seq(Byte \ {"e"})
    BY <1>1, NodeFacts
  <1>4. t[n].spelling \in Seq(Byte)
    BY <1>3, SeqMonotonic
  <1> QED BY <1>2, <1>4, TailNumber

LEMMA InfoLength ==
  ASSUME input \in Inputs, TorrentParsed, pc \in {"info", "files", "ready"},
         HasFields(input.torrent, InfoNode), ~ Has(InfoNode, "files")
  PROVE  /\ LengthsOf(input.torrent, InfoNode) = <<LengthIn(input.torrent, InfoNode)>>
         /\ Entry(Info, "length").integer = LengthIn(input.torrent, InfoNode)
         /\ LengthIn(input.torrent, InfoNode) \in Int
  <1> DEFINE in == input.text
             t == input.torrent
             c == Get(InfoNode, "length")
  <1>1. in \in Seq(Byte) /\ IsTree(t)
    BY InputFacts
  <1>2. Has(InfoNode, "length") /\ t[c].kind = "integer"
    BY Zenon DEF HasFields, HasKind
  <1>3. InfoEntry("length")
    BY InfoEntries
  <1>4. Shown(in, t, c, Info[<<"length">>]) /\ Shows(in, t, c, Entry(Info, "length"))
    BY <1>2, <1>3, Zenon DEF InfoEntry
  <1>5. IntegerOf(t[c].spelling) \in Int
    <2> HIDE DEF in, t, c
    <2> QED BY <1>1, <1>2, <1>4, LengthIsRead
  <1>6. Entry(Info, "length") = Integer(IntegerOf(t[c].spelling))
    BY <1>2, <1>4, Zenon DEF Shows
  <1>7. Entry(Info, "length").integer = IntegerOf(t[c].spelling)
    BY <1>6 DEF Integer
  <1> QED BY <1>5, <1>7, Zenon DEF LengthsOf, LengthIn

LEMMA ReadInfoStep ==
  ASSUME LoadInv, ReadInfo
  PROVE  LoadInv'
  <1> DEFINE t == input.torrent
             many == <<"files">> \in DOMAIN Info
             size == Entry(Info, "length").integer % Word
             list == Entry(Info, "files").list
  <1>1. input' = input /\ input \in Inputs /\ pc = "info" /\ cacheSize' = cacheSize /\ values' = values
        /\ InfoFine /\ TorrentParsed /\ ConfigRead
    BY DEF LoadInv, ReadInfo
  <1>2. /\ CommandLineFine' = CommandLineFine /\ InFull' = InFull /\ InfoNode' = InfoNode
        /\ \A k : FileNode(k)' = FileNode(k)
    BY <1>1, InputKept
  <1>3. Root' = Root /\ Info' = Info /\ \A k : Entry(Info, k)' = Entry(Info, k)
    BY <1>1, ValuesKept
  <1>4. HasFields(t, InfoNode)
    BY <1>1, InfoFineIs
  <1>5. many <=> Has(InfoNode, "files")
    <2>1. InfoEntry("files")
      BY <1>1, InfoEntries
    <2> QED BY <2>1, Zenon DEF InfoEntry
  <1>6. /\ hashed' = Encode(values, Root[<<"info">>])
        /\ queue' = IF many THEN list ELSE <<>>
        /\ pc' = IF many THEN "files" ELSE "ready"
    BY Zenon DEF ReadInfo
  <1>7. /\ {"files", "totalSize"} \subseteq DOMAIN metadata'
        /\ many => metadata'.files = <<>> /\ metadata'.totalSize = 0
        /\ ~many => /\ \E r : /\ metadata'.files = <<r>> /\ r.size = size /\ r.offset = 0
                    /\ metadata'.totalSize = size
    <2> DEFINE r == Record(Entry(Info, "name").string, Entry(Info, "length").integer, 0)
               many1 == many
    <2>1. r.size = size /\ r.offset = 0
      BY DEF Record
    <2> HIDE DEF r, size
    <2>2. <<r>>[1] = r
      OBVIOUS
    <2>3. \E a, b, c, d : metadata' =
            [announce |-> a, name |-> b, pieceLength |-> c, pieceCount |-> d,
             totalSize |-> IF many THEN 0 ELSE <<r>>[1].size,
             files |-> IF many THEN <<>> ELSE <<r>>]
      BY Zenon DEF ReadInfo, r
    <2> HIDE DEF many
    <2> QED BY <2>1, <2>2, <2>3
  <1> HIDE DEF many
  <1>8. InfoRead' /\ ConfigRead' /\ RefusedRightly' /\ TorrentParsed'
    <2>1. pc' # "refused"
      BY <1>6
    <2>2. ConfigRead'
      BY <1>1, <1>2, Zenon DEF ConfigRead
    <2>3. RefusedRightly'
      BY <2>1, Zenon DEF RefusedRightly
    <2>4. TorrentParsed'
      BY <1>1, ValuesKept
    <2>5. InfoRead'
      BY <1>1, <1>2, <1>3, <1>4, <1>6, Zenon DEF InfoRead
    <2> QED BY <2>2, <2>3, <2>4, <2>5
  <1>9. CASE many
    <2>1. queue' = list /\ pc' = "files" /\ metadata'.files = <<>> /\ metadata'.totalSize = 0
      BY <1>6, <1>7, <1>9
    <2>2. ListKnown
      BY <1>1, <1>4, <1>5, <1>9, ListIsKnown
    <2>3. list \in Seq(Int)
      BY <2>2, Zenon DEF ListKnown
    <2> HIDE DEF list
    <2>5. Len(metadata'.files) = 0 /\ Len(list) \in Nat
      BY <2>1, <2>3, LenProperties
    <2>6. QueueLeft'
      <3>1. Len(queue') = Len(list) - Len(metadata'.files)
            /\ \A k \in 1 .. Len(queue') : queue'[k] = list[Len(metadata'.files) + k]
        <4>1. Len(list) - 0 = Len(list) /\ \A k \in 1 .. Len(list) : 0 + k = k
          BY <2>5
        <4> QED BY <2>1, <2>5, <4>1, Zenon
      <3> QED BY <1>3, <3>1, Zenon DEF QueueLeft, list
    <2>7. FilesRecorded'
      <3>1. metadata'.files \in Seq(Int) /\ 1 .. Len(metadata'.files) = {}
        BY <2>1, <2>5
      <3>2. Has(InfoNode', "files")
        BY <1>2, <1>5, <1>9
      <3>3. queue' \in Seq(Int) /\ pc' # "ready"
        BY <2>1, <2>3
      <3>4. \E S : metadata'.files \in Seq(S)
        BY <3>1
      <3>5. \A k \in 1 .. Len(metadata'.files) : IsFile(input'.torrent, FileNode(k)')
        BY <3>1
      <3> QED BY <1>7, <2>6, <3>2, <3>3, <3>4, <3>5, Zenon DEF FilesRecorded
    <2>8. FilesLaid'
      <3>1. 1 .. Len(metadata'.files) = {}
        BY <2>5
      <3>2. LaidOut(metadata'.files, LengthsOf(input'.torrent, InfoNode'), metadata'.totalSize)
        BY <2>1, <2>5, <3>1, Zenon DEF LaidOut
      <3> QED BY <3>2, Zenon DEF FilesLaid
    <2> QED BY <1>1, <1>8, <2>1, <2>7, <2>8, Zenon DEF LoadInv
  <1>10. CASE ~many
    <2>1. queue' = <<>> /\ pc' = "ready" /\ metadata'.totalSize = size
      BY <1>6, <1>7, <1>10
    <2>2. PICK r : metadata'.files = <<r>> /\ r.size = size /\ r.offset = 0
      BY <1>7, <1>10
    <2> DEFINE files == metadata'.files
               length == LengthIn(t, InfoNode)
    <2>3. LengthsOf(t, InfoNode) = <<length>> /\ size = length % Word /\ length \in Int
      BY <1>1, <1>4, <1>5, <1>10, InfoLength
    <2>4. Len(files) = 1 /\ files[1] = r /\ files \in Seq({r})
      BY <2>2
    <2>5. FilesRecorded'
      <3>1. queue' \in Seq(Int)
        BY <2>1
      <3> QED BY <1>2, <1>5, <1>7, <1>10, <2>1, <2>4, <3>1, Zenon DEF FilesRecorded
    <2>6. FilesLaid'
      <3> HIDE DEF size, length
      <3>1. (0 + (length % Word)) % Word = length % Word
        BY <2>3, WordFacts
      <3>2. <<length>>[1] = length /\ 1 .. 1 = {1} /\ 1 # 0
        OBVIOUS
      <3>3. LaidOut(files, LengthsOf(t, InfoNode), metadata'.totalSize)
        BY <2>1, <2>2, <2>3, <2>4, <3>1, <3>2, Zenon DEF LaidOut
      <3> QED BY <1>1, <1>2, <3>3, Zenon DEF FilesLaid
    <2> QED BY <1>1, <1>8, <2>1, <2>5, <2>6, Zenon DEF LoadInv
  <1> QED BY <1>9, <1>10

LEMMA AppendFacts ==
  ASSUME NEW S, NEW s \in Seq(S), NEW x, NEW z, z = Append(s, x)
  PROVE  /\ z \in Seq(S \cup {x}) /\ Len(s) \in Nat /\ Len(z) = Len(s) + 1
         /\ \A k \in 1 .. Len(s) : z[k] = s[k]
         /\ z[Len(s) + 1] = x
  <1>1. s \in Seq(S \cup {x})
    BY SeqMonotonic
  <1> QED BY <1>1, AppendProperties, LenProperties

LEMMA TailFacts ==
  ASSUME NEW S, NEW s \in Seq(S), s # <<>>
  PROVE  /\ Tail(s) \in Seq(S) /\ Len(s) \in Nat /\ Len(Tail(s)) = Len(s) - 1
         /\ \A k \in 1 .. Len(Tail(s)) : Tail(s)[k] = s[k + 1]
  BY HeadTailProperties, LenProperties

LEMMA OneMoreLaid ==
  ASSUME NEW S, NEW files \in Seq(S), NEW r, NEW z, z = Append(files, r), NEW lengths, NEW total,
         LaidOut(files, lengths, total),
         r.size = lengths[Len(files) + 1] % Word, r.offset = total
  PROVE  LaidOut(z, lengths, (total + r.size) % Word)
  <1> DEFINE n == Len(files)
  <1>1. /\ n \in Nat /\ Len(z) = n + 1
        /\ \A k \in 1 .. n : z[k] = files[k]
        /\ z[n + 1] = r
    BY AppendFacts
  <1>2. \A k \in 1 .. n : files[k].size = lengths[k] % Word
    BY Zenon DEF LaidOut
  <1>3. \A k \in 1 .. n : files[k].offset =
          IF k = 1 THEN 0 ELSE (files[k - 1].offset + files[k - 1].size) % Word
    BY Zenon DEF LaidOut
  <1>4. total = IF n = 0 THEN 0 ELSE (files[n].offset + files[n].size) % Word
    BY Zenon DEF LaidOut
  <1>5. r.size = lengths[n + 1] % Word
    OBVIOUS
  <1> HIDE DEF n
  <1>6. \A k \in 1 .. n + 1 : k \in 1 .. n \/ k = n + 1
    BY <1>1
  <1>7. \A k \in 1 .. n + 1 : z[k].size = lengths[k] % Word
    BY <1>1, <1>2, <1>5, <1>6, Zenon
  <1>8. ASSUME NEW k \in 1 .. n + 1
        PROVE  z[k].offset = IF k = 1 THEN 0 ELSE (z[k - 1].offset + z[k - 1].size) % Word
    <2>1. k # 1 => k - 1 \in 1 .. n
      BY <1>1
    <2>2. k # 1 => z[k - 1] = files[k - 1]
      BY <1>1, <2>1
    <2>3. CASE k \in 1 .. n
      <3>1. z[k] = files[k]
        BY <1>1, <2>3
      <3> QED BY <1>3, <2>2, <2>3, <3>1, Zenon
    <2>4. CASE k = n + 1
      <3>1. k - 1 = n /\ (n = 0 <=> k = 1)
        BY <1>1, <2>4
      <3>2. z[k].offset = total
        BY <1>1, <2>4, Zenon
      <3> QED BY <1>4, <2>2, <3>1, <3>2, Zenon
    <2> QED BY <1>6, <2>3, <2>4
  <1>9. (total + r.size) % Word =
          IF n + 1 = 0 THEN 0 ELSE (z[n + 1].offset + z[n + 1].size) % Word
    <2>1. n + 1 # 0
      BY <1>1
    <2>2. z[n + 1] = r /\ r.offset = total
      BY <1>1, Zenon
    <2> QED BY <2>1, <2>2, Zenon
  <1>10. Len(z) = n + 1
    BY <1>1, Zenon
  <1> QED BY <1>7, <1>8, <1>9, <1>10, Zenon DEF LaidOut

LEMMA ReadFileStep ==
  ASSUME LoadInv, ReadFile
  PROVE  LoadInv'
  <1> DEFINE n == Len(metadata.files)
             t == input.torrent
             node == Get(InfoNode, "files")
             f == values[Head(queue)].value
             length == Entry(f.dictionary, "length").integer
             list == Entry(Info, "files").list
             lengths == LengthsOf(t, InfoNode)
  <1>1. input' = input /\ input \in Inputs /\ pc = "files" /\ pc' = pc /\ cacheSize' = cacheSize
        /\ values' = values /\ hashed' = hashed /\ queue # <<>> /\ queue' = Tail(queue) /\ FileFine(f)
        /\ TorrentParsed /\ ConfigRead /\ InfoRead /\ FilesRecorded /\ FilesLaid
    BY DEF LoadInv, ReadFile
  <1>2. /\ CommandLineFine' = CommandLineFine /\ InFull' = InFull /\ InfoNode' = InfoNode
        /\ \A k : FileNode(k)' = FileNode(k)
    BY <1>1, InputKept
  <1>3. Root' = Root /\ Info' = Info /\ \A k : Entry(Info, k)' = Entry(Info, k)
    BY <1>1, ValuesKept
  <1>4. /\ ListKnown /\ Has(InfoNode, "files") /\ n \in Nat
        /\ n + 1 \in 1 .. Len(list) /\ n + 1 \in DOMAIN t[node].items
        /\ Head(queue) = list[n + 1]
    BY <1>1, NextFile
  <1>5. /\ \E S : metadata.files \in Seq(S)
        /\ queue \in Seq(Int) /\ QueueLeft /\ {"files", "totalSize"} \subseteq DOMAIN metadata
        /\ \A k \in 1 .. n : IsFile(t, FileNode(k))
    BY <1>1, <1>4, Zenon DEF FilesRecorded
  <1>6. LaidOut(metadata.files, lengths, metadata.totalSize)
    BY <1>1, Zenon DEF FilesLaid
  <1>7. IsFile(t, FileNode(n + 1)) /\ length = LengthIn(t, FileNode(n + 1))
    BY <1>1, <1>4, Zenon DEF ListKnown
  <1>8. lengths[n + 1] = length
    <2>1. lengths = [k \in DOMAIN t[node].items |-> LengthIn(t, t[t[node].items[k]])]
      BY <1>4, Zenon DEF LengthsOf
    <2> HIDE DEF lengths
    <2> QED BY <1>4, <1>7, <2>1, Zenon DEF FileNode
  <1>9. PICK r : /\ r.size = length % Word /\ r.offset = metadata.totalSize
                 /\ metadata' = [metadata EXCEPT !.files = Append(@, r),
                                                 !.totalSize = (@ + r.size) % Word]
    <2> DEFINE parts == Entry(f.dictionary, "path").list
               path == JoinPathList([k \in DOMAIN parts |-> values[parts[k]].value.string])
               name == metadata.name \o <<"/">> \o path
               r == Record(name, length, NextOffset(metadata))
    <2>1. metadata' = [metadata EXCEPT !.files = Append(@, r), !.totalSize = (@ + r.size) % Word]
      BY Zenon DEF ReadFile
    <2> HIDE DEF name, length
    <2>2. r.size = length % Word /\ r.offset = metadata.totalSize
      BY DEF Record, NextOffset
    <2> QED BY <2>1, <2>2, Zenon
  <1> HIDE DEF length, lengths, n, list, f
  <1>10. /\ metadata'.files = Append(metadata.files, r)
         /\ metadata'.totalSize = (metadata.totalSize + r.size) % Word
         /\ DOMAIN metadata' = DOMAIN metadata
    BY <1>5, <1>9
  <1>11. PICK S : metadata.files \in Seq(S)
    BY <1>5
  <1>12. /\ metadata'.files \in Seq(S \cup {r}) /\ Len(metadata'.files) = n + 1
         /\ n \in Nat
    BY <1>10, <1>11, AppendFacts DEF n
  <1>13. TorrentParsed' /\ InfoRead' /\ RefusedRightly' /\ ConfigRead'
    <2>1. TorrentParsed'
      BY <1>1, ValuesKept
    <2>2. InfoRead'
      BY <1>1, <1>2, <1>3, Zenon DEF InfoRead
    <2>3. RefusedRightly'
      BY <1>1, Zenon DEF RefusedRightly
    <2>4. ConfigRead'
      BY <1>1, <1>2, Zenon DEF ConfigRead
    <2> QED BY <2>1, <2>2, <2>3, <2>4
  <1>14. FilesLaid'
    <2>1. r.size = lengths[n + 1] % Word
      BY <1>8, <1>9
    <2>2. LaidOut(metadata'.files, lengths, metadata'.totalSize)
      BY <1>6, <1>9, <1>10, <1>11, <2>1, OneMoreLaid DEF n
    <2> QED BY <1>1, <1>2, <1>10, <2>2, Zenon DEF FilesLaid, lengths
  <1>15. QueueLeft'
    <2>1. Len(queue) = Len(list) - n /\ \A k \in 1 .. Len(queue) : queue[k] = list[n + k]
      BY <1>5, Zenon DEF QueueLeft, n, list
    <2>2. Len(list) \in Nat
      <3>1. list \in Seq(Int)
        BY <1>4, Zenon DEF ListKnown, list
      <3> QED BY <3>1, LenProperties
    <2>3. /\ Len(queue) \in Nat /\ Len(queue') = Len(queue) - 1
          /\ \A k \in 1 .. Len(queue') : queue'[k] = queue[k + 1]
      BY <1>1, <1>5, TailFacts
    <2>4. Len(queue') = Len(list) - (n + 1)
      BY <1>12, <2>1, <2>2, <2>3
    <2>5. ASSUME NEW k \in 1 .. Len(queue') PROVE queue'[k] = list[(n + 1) + k]
      <3>1. k + 1 \in 1 .. Len(queue) /\ n + (k + 1) = (n + 1) + k
        BY <1>12, <2>3
      <3> QED BY <2>1, <2>3, <3>1, Zenon
    <2> QED BY <1>3, <1>12, <2>4, <2>5, Zenon DEF QueueLeft, list
  <1>16. FilesRecorded'
    <2>1. queue' \in Seq(Int)
      BY <1>1, <1>5, TailFacts
    <2>2. \A k \in 1 .. n + 1 : IsFile(t, FileNode(k))
      <3>1. \A k \in 1 .. n + 1 : k \in 1 .. n \/ k = n + 1
        BY <1>12
      <3> QED BY <1>5, <1>7, <3>1, Zenon DEF n
    <2>3. \E T : metadata'.files \in Seq(T)
      BY <1>12
    <2>4. \A k \in 1 .. Len(metadata'.files) : IsFile(input'.torrent, FileNode(k)')
      BY <1>1, <1>2, <1>12, <2>2, Zenon
    <2>5. Has(InfoNode', "files") /\ pc' # "ready"
      BY <1>1, <1>2, <1>4
    <2>6. {"files", "totalSize"} \subseteq DOMAIN metadata'
      BY <1>5, <1>10, Zenon
    <2> QED BY <1>15, <2>1, <2>3, <2>4, <2>5, <2>6, Zenon DEF FilesRecorded
  <1> QED BY <1>1, <1>13, <1>14, <1>16, Zenon DEF LoadInv

LEMMA FilesReadStep ==
  ASSUME LoadInv, FilesRead
  PROVE  LoadInv'
  <1>1. /\ pc = "files" /\ pc' = "ready" /\ queue = <<>> /\ input \in Inputs
        /\ input' = input /\ cacheSize' = cacheSize /\ values' = values /\ metadata' = metadata
        /\ hashed' = hashed /\ queue' = queue
        /\ ConfigRead /\ TorrentParsed /\ InfoRead /\ FilesRecorded /\ FilesLaid
    BY DEF LoadInv, FilesRead, Goto
  <1>2. /\ CommandLineFine' = CommandLineFine /\ InFull' = InFull /\ InfoNode' = InfoNode
        /\ \A k : FileNode(k)' = FileNode(k)
    BY <1>1, InputKept
  <1>3. Root' = Root /\ Info' = Info /\ \A k : Entry(Info, k)' = Entry(Info, k)
    BY <1>1, ValuesKept
  <1>4. ConfigRead' /\ RefusedRightly' /\ TorrentParsed' /\ InfoRead'
    <2>1. ConfigRead'
      BY <1>1, <1>2, Zenon DEF ConfigRead
    <2>2. RefusedRightly'
      BY <1>1, Zenon DEF RefusedRightly
    <2>3. TorrentParsed'
      BY <1>1, ValuesKept
    <2>4. InfoRead'
      BY <1>1, <1>2, <1>3, Zenon DEF InfoRead
    <2> QED BY <2>1, <2>2, <2>3, <2>4
  <1>5. QueueLeft' = QueueLeft
    <2>1. metadata' = metadata /\ queue' = queue
      BY <1>1
    <2> QED BY <1>3, <2>1, Zenon DEF QueueLeft
  <1>6. FilesRecorded'
    BY <1>1, <1>2, <1>5, Zenon DEF FilesRecorded
  <1>7. FilesLaid'
    BY <1>1, <1>2, Zenon DEF FilesLaid
  <1> QED BY <1>1, <1>4, <1>6, <1>7, Zenon DEF LoadInv

LEMMA LoadNext ==
  ASSUME LoadInv, [Next]_vars
  PROVE  LoadInv'
  <1>1. CASE UNCHANGED vars
    <2>1. input' = input /\ pc' = pc /\ cacheSize' = cacheSize /\ values' = values
          /\ metadata' = metadata /\ hashed' = hashed /\ queue' = queue
      BY <1>1 DEF vars
    <2>2. /\ CommandLineFine' = CommandLineFine /\ InFull' = InFull /\ InfoNode' = InfoNode
          /\ \A k : FileNode(k)' = FileNode(k)
      BY <2>1, InputKept
    <2>3. Root' = Root /\ Info' = Info /\ \A k : Entry(Info, k)' = Entry(Info, k)
      BY <2>1, ValuesKept
    <2>4. QueueLeft' = QueueLeft
      BY <2>1, <2>3, Zenon DEF QueueLeft
    <2>5. /\ ConfigRead' = ConfigRead /\ RefusedRightly' = RefusedRightly
          /\ TorrentParsed' = TorrentParsed /\ InfoRead' = InfoRead
      BY <2>1, <2>2, <2>3, Zenon DEF ConfigRead, RefusedRightly, TorrentParsed, InfoRead
    <2>6. FilesRecorded' = FilesRecorded
      BY <2>1, <2>2, <2>4, Zenon DEF FilesRecorded
    <2>7. FilesLaid' = FilesLaid
      BY <2>1, <2>2, Zenon DEF FilesLaid
    <2> QED BY <2>1, <2>5, <2>6, <2>7, Zenon DEF LoadInv
  <1>2. CASE Next
    BY <1>2, EarlySteps, ParseStep, ReadInfoStep, RefuseInfoStep, ReadFileStep, RefuseFileStep,
       FilesReadStep, Zenon DEF Next
  <1> QED BY <1>1, <1>2

(* From the command line to the last file of the list, what the program    *)
(* has read says of the torrent what its text says: it refuses no torrent, *)
(* goes on with no text that is not one, and its files are those of the    *)
(* list so far (Config.cpp:14-45, Bencode.cpp:19-124,                      *)
(* TorrentMetadata.cpp:14-95).                                             *)
THEOREM LoadInvariant == Spec => []LoadInv
  <1>1. Init => LoadInv
    BY InitInv
  <1>2. LoadInv /\ [Next]_vars => LoadInv'
    BY LoadNext
  <1> QED BY <1>1, <1>2, PTL DEF Spec

LEMMA SizeKeptHere ==
  ASSUME LoadInv
  PROVE  CacheSizeKept
  <1> SUFFICES ASSUME pc \notin {"config", "refused"}, input.gigabytes >= 0
               PROVE  cacheSize = input.gigabytes * Gib
    BY DEF CacheSizeKept
  <1> DEFINE n == input.gigabytes
             q == (Word - 1) \div Gib
  <1>1. SizeAccepted(n) /\ cacheSize = (Stoull(n) * Gib) % Word /\ n \in Int \cup {NotANumber}
    BY InputFacts DEF LoadInv, ConfigRead, CommandLineFine
  <1>2. n \in Int /\ n >= 0 /\ ~ (n >= Word) /\ n % Word <= q
    BY <1>1 DEF SizeAccepted, OutOfRange, Stoull
  <1>3. Word \in Nat \ {0} /\ Gib \in Nat \ {0} /\ n \in 0 .. Word - 1
    BY <1>2, BencodeAssumption, LoadAssumption
  <1>4. Word - 1 \in Nat /\ q \in Nat /\ q * Gib <= Word - 1
    <2>1. Word - 1 \in Nat
      BY <1>3
    <2>2. q \in Nat /\ (Word - 1) % Gib \in 0 .. Gib - 1 /\ Word - 1 = q * Gib + ((Word - 1) % Gib)
      BY <1>3, <2>1, Division
    <2> HIDE DEF q
    <2>3. \A r \in 0 .. Gib - 1 : Word - 1 = q * Gib + r => q * Gib <= Word - 1
      BY <1>3, <2>1, <2>2
    <2> QED BY <2>1, <2>2, <2>3
  <1> HIDE DEF n, q
  <1>5. n % Word = n
    <2>1. n = 0 * Word + n
      BY <1>3
    <2> QED BY <1>2, <1>3, <2>1, DivModUnique
  <1>6. n * Gib \in 0 .. Word - 1
    <2>1. n <= q
      BY <1>2, <1>5
    <2>2. n * Gib <= q * Gib /\ n * Gib >= 0 /\ n * Gib \in Int /\ q * Gib \in Int
      BY <1>2, <1>3, <1>4, <2>1
    <2> QED BY <1>3, <1>4, <2>2
  <1>7. (n * Gib) % Word = n * Gib
    <2> DEFINE m == n * Gib
    <2>1. m \in 0 .. Word - 1
      BY <1>6
    <2> HIDE DEF m
    <2>2. m \in Int /\ m = 0 * Word + m
      BY <1>3, <2>1
    <2>3. m % Word = m
      BY <1>3, <2>1, <2>2, DivModUnique
    <2> QED BY <2>3 DEF m
  <1> QED BY <1>1, <1>5, <1>7 DEF Stoull, n

(* A cache of n gigabytes has n gigabytes, whatever the size of a word and *)
(* of a gigabyte: the limit of Config::parse is the one below which the    *)
(* product does not wrap (Config.cpp:32-43).                               *)
THEOREM CacheSizeIsKept == Spec => []CacheSizeKept
  BY LoadInvariant, SizeKeptHere, PTL

LEMMA ExactlyTorrentsHere ==
  ASSUME LoadInv
  PROVE  LoadsExactlyTorrents
  <1> DEFINE t == input.torrent
             node == Get(InfoNode, "files")
             items == t[node].items
             list == Entry(Info, "files").list
  <1>1. input \in Inputs /\ RefusedRightly /\ TorrentParsed /\ InfoRead /\ FilesRecorded
    BY DEF LoadInv
  <1>2. ASSUME pc = "ready" PROVE InFull /\ IsTorrent(t)
    <2>1. /\ InFull /\ IntegersFit(t, 1) /\ t[1].kind = "dictionary"
          /\ HasKind(t, t[1], "info", "dictionary")
      BY <1>1, <1>2, Zenon DEF TorrentParsed
    <2>2. HasFields(t, InfoNode)
      BY <1>1, <1>2, Zenon DEF InfoRead
    <2>3. ASSUME Has(InfoNode, "files") PROVE \A f \in ToSet(items) : IsFile(t, t[f])
      <3> DEFINE n == Len(metadata.files)
      <3>1. /\ queue = <<>> /\ QueueLeft /\ \E S : metadata.files \in Seq(S)
            /\ \A k \in 1 .. n : IsFile(t, FileNode(k))
        BY <1>1, <1>2, <2>3, Zenon DEF FilesRecorded
      <3>2. list \in Seq(Int) /\ DOMAIN items = 1 .. Len(list)
        <4>1. ListKnown
          BY <1>1, <1>2, <2>2, <2>3, ListIsKnown
        <4> QED BY <4>1, Zenon DEF ListKnown
      <3>3. Len(queue) = Len(list) - n
        BY <3>1 DEF QueueLeft
      <3>4. n \in Nat /\ Len(list) \in Nat
        BY <3>1, <3>2, LenProperties
      <3> HIDE DEF n, list
      <3>5. Len(list) = n
        BY <3>1, <3>3, <3>4
      <3>6. ToSet(items) = {items[k] : k \in 1 .. n}
        BY <3>2, <3>5, Zenon DEF ToSet
      <3>7. \A k \in 1 .. n : FileNode(k) = t[items[k]]
        BY Zenon DEF FileNode
      <3> HIDE DEF items, t
      <3> QED BY <3>1, <3>6, <3>7, Zenon
    <2>4. InfoNode.kind = "dictionary" /\ Has(t[1], "info")
      BY <2>1, Zenon DEF HasKind, InfoNode
    <2>5. IsInfo(t, InfoNode)
      BY <2>2, <2>3, <2>4, Zenon DEF IsInfo, HasFields
    <2> QED BY <2>1, <2>4, <2>5, Zenon DEF IsTorrent, InfoNode
  <1> QED BY <1>1, <1>2, Zenon DEF LoadsExactlyTorrents, RefusedRightly, InFull

(* For every torrent, cut anywhere or with anything behind it: the parser  *)
(* of values accepts exactly the whole text, and TorrentMetadata exactly   *)
(* the torrents among the values (Bencode.cpp:19-124,                      *)
(* TorrentMetadata.cpp:14-95).                                             *)
THEOREM ExactlyTorrentsAreLoaded == Spec => []LoadsExactlyTorrents
  BY LoadInvariant, ExactlyTorrentsHere, PTL

-----------------------------------------------------------------------------
(* The files in the torrent: running sums of their lengths. *)

RunningSum(n, size, at) ==
  /\ at \in [0 .. n -> Nat] /\ at[0] = 0
  /\ \A k \in 1 .. n : at[k] = at[k - 1] + size[k]

LEMMA RunningSums ==
  ASSUME NEW n \in Nat, NEW size, \A k \in 1 .. n : size[k] \in Nat
  PROVE  RunningSum(n, size, [k \in 0 .. n |-> SumOf(size, 1 .. k)])
  <1>1. \A k \in 0 .. n : IsFiniteSet(1 .. k) /\ 1 .. k \subseteq 1 .. n
    <2> TAKE k \in 0 .. n
    <2>1. IsFiniteSet(1 .. k)
      BY FS_Interval
    <2> QED BY <2>1
  <1>2. \A k \in 0 .. n : SumOf(size, 1 .. k) \in Nat
    <2> TAKE k \in 0 .. n
    <2>1. IsFiniteSet(1 .. k) /\ \A j \in 1 .. k : size[j] \in Nat
      BY <1>1
    <2> QED BY <2>1, SumType
  <1>3. SumOf(size, 1 .. 0) = 0
    <2>1. 1 .. 0 = {}
      OBVIOUS
    <2> QED BY <2>1, SumEmpty
  <1>4. ASSUME NEW k \in 1 .. n PROVE SumOf(size, 1 .. k) = SumOf(size, 1 .. k - 1) + size[k]
    <2>1. k - 1 \in 0 .. n /\ k \notin 1 .. k - 1 /\ 1 .. k = (1 .. k - 1) \cup {k}
      OBVIOUS
    <2> DEFINE S == 1 .. k - 1
    <2>2. IsFiniteSet(S) /\ \A j \in S : size[j] \in Nat
      BY <1>1, <2>1
    <2>3. SumOf(size, S) \in Nat /\ size[k] \in Nat
      BY <1>2, <2>1
    <2>4. k \notin S
      BY <2>1
    <2> HIDE DEF S
    <2>5. SumOf(size, S \cup {k}) = size[k] + SumOf(size, S)
      BY <2>2, <2>3, <2>4, SumAdd
    <2>6. SumOf(size, S \cup {k}) = SumOf(size, S) + size[k]
      BY <2>3, <2>5
    <2> QED BY <2>1, <2>6 DEF S
  <1> DEFINE at == [k \in 0 .. n |-> SumOf(size, 1 .. k)]
  <1>5. at \in [0 .. n -> Nat]
    BY <1>2
  <1>6. at[0] = 0
    BY <1>3
  <1>7. \A k \in 1 .. n : at[k] = at[k - 1] + size[k]
    <2> TAKE k \in 1 .. n
    <2>1. k \in 0 .. n /\ k - 1 \in 0 .. n
      OBVIOUS
    <2>2. at[k] = SumOf(size, 1 .. k) /\ at[k - 1] = SumOf(size, 1 .. k - 1)
      BY <2>1
    <2> QED BY <1>4, <2>2
  <1> QED BY <1>5, <1>6, <1>7 DEF RunningSum

LEMMA RunningSumGrows ==
  ASSUME NEW n \in Nat, NEW size, \A k \in 1 .. n : size[k] \in Nat, NEW at,
         RunningSum(n, size, at)
  PROVE  \A k \in 0 .. n : \A j \in 0 .. k : at[j] <= at[k]
  <1> DEFINE P == {k \in 0 .. n : \A j \in 0 .. k : at[j] <= at[k]}
  <1>1. at \in [0 .. n -> Nat] /\ \A k \in 1 .. n : at[k] = at[k - 1] + size[k]
    BY DEF RunningSum
  <1>2. 0 \in P
    BY <1>1
  <1>3. ASSUME NEW k \in 1 .. n, k - 1 \in P PROVE k \in P
    <2>1. at[k - 1] <= at[k] /\ at[k] \in Nat /\ at[k - 1] \in Nat
      <3>1. k \in 0 .. n /\ k - 1 \in 0 .. n
        OBVIOUS
      <3>2. at[k] \in Nat /\ at[k - 1] \in Nat /\ size[k] \in Nat /\ at[k] = at[k - 1] + size[k]
        BY <1>1, <3>1
      <3> QED BY <3>2
    <2>2. ASSUME NEW j \in 0 .. k PROVE at[j] <= at[k]
      <3>1. j = k \/ j \in 0 .. k - 1
        OBVIOUS
      <3>2. at[j] \in Nat
        BY <1>1
      <3> QED BY <1>3, <2>1, <3>1, <3>2
    <2> QED BY <2>2
  <1>4. \A k \in 1 .. n : k - 1 \in P => k \in P
    BY <1>3
  <1> HIDE DEF P
  <1>5. \A k \in 0 .. n : k \in P
    BY <1>2, <1>4, Counting
  <1> QED BY <1>5 DEF P

(* Every number below the sum falls into exactly one of the steps. *)
LEMMA StepsTile ==
  ASSUME NEW n \in Nat, NEW size, \A k \in 1 .. n : size[k] \in Nat, NEW at,
         RunningSum(n, size, at), NEW b \in Nat, b < at[n]
  PROVE  Cardinality({k \in 1 .. n : at[k - 1] <= b /\ b < at[k]}) = 1
  <1>1. at \in [0 .. n -> Nat] /\ at[0] = 0
    BY DEF RunningSum
  <1>2. \A k \in 0 .. n : \A j \in 0 .. k : at[j] <= at[k]
    BY RunningSumGrows
  <1> DEFINE T == {k \in 0 .. n : b < at[k]}
  <1>3. T \subseteq Nat /\ T # {}
    OBVIOUS
  <1> HIDE DEF T
  <1>4. PICK k \in T : \A m \in T : k <= m
    BY <1>3, LeastNatural
  <1>5. k \in 1 .. n /\ b < at[k] /\ at[k - 1] <= b
    <2>1. k \in 0 .. n /\ b < at[k]
      BY DEF T
    <2>2. k # 0
      BY <1>1, <2>1
    <2>3. k - 1 \in 0 .. n /\ k - 1 \notin T
      BY <1>4, <2>1, <2>2
    <2>4. ~ (b < at[k - 1]) /\ at[k - 1] \in Nat
      BY <1>1, <2>3 DEF T
    <2> QED BY <2>1, <2>2, <2>4
  <1>6. ASSUME NEW j \in 1 .. n, at[j - 1] <= b, b < at[j] PROVE j = k
    <2>1. /\ at[j] \in Nat /\ at[k] \in Nat /\ at[j - 1] \in Nat /\ at[k - 1] \in Nat
      BY <1>1, <1>5
    <2>2. CASE j < k
      <3>1. j \in 0 .. k - 1 /\ k - 1 \in 0 .. n
        BY <1>5, <2>2
      <3>2. at[j] <= at[k - 1]
        BY <1>2, <3>1
      <3> QED BY <1>5, <1>6, <2>1, <3>2
    <2>3. CASE k < j
      <3>1. k \in 0 .. j - 1 /\ j - 1 \in 0 .. n
        BY <1>5, <2>3
      <3>2. at[k] <= at[j - 1]
        BY <1>2, <3>1
      <3> QED BY <1>5, <1>6, <2>1, <3>2
    <2> QED BY <1>5, <2>2, <2>3
  <1>7. {j \in 1 .. n : at[j - 1] <= b /\ b < at[j]} = {k}
    BY <1>5, <1>6, Zenon
  <1> QED BY <1>7, FS_Singleton

-----------------------------------------------------------------------------
LEMMA ModBelow ==
  ASSUME NEW n \in Nat, n < Word
  PROVE  n % Word = n
  <1>1. Word \in Nat \ {0}
    BY BencodeAssumption
  <1>2. n = 0 * Word + n /\ n \in 0 .. Word - 1 /\ n \in Int
    BY <1>1
  <1> QED BY <1>1, <1>2, DivModUnique

(* Files laid out one behind the other, as long as their lengths fit.      *)
LEMMA LaidInPlace ==
  ASSUME NEW S, NEW files \in Seq(S), NEW lengths, NEW total, LaidOut(files, lengths, total),
         \A k \in 1 .. Len(files) : lengths[k] \in Nat, NEW at,
         RunningSum(Len(files), lengths, at), at[Len(files)] < Word
  PROVE  /\ total = at[Len(files)]
         /\ \A k \in 1 .. Len(files) : files[k].offset = at[k - 1] /\ files[k].size = lengths[k]
                                       /\ at[k] = at[k - 1] + lengths[k]
  <1> DEFINE n == Len(files)
  <1>1. n \in Nat /\ (\A k \in 1 .. n : lengths[k] \in Nat) /\ RunningSum(n, lengths, at)
        /\ at[n] < Word /\ Word \in Nat \ {0}
    BY LenProperties, BencodeAssumption
  <1>2. /\ \A k \in 1 .. n : files[k].size = lengths[k] % Word
        /\ \A k \in 1 .. n : files[k].offset =
             IF k = 1 THEN 0 ELSE (files[k - 1].offset + files[k - 1].size) % Word
        /\ total = IF n = 0 THEN 0 ELSE (files[n].offset + files[n].size) % Word
    BY Zenon DEF LaidOut
  <1> HIDE DEF n
  <1>3. /\ at \in [0 .. n -> Nat] /\ at[0] = 0
        /\ \A k \in 1 .. n : at[k] = at[k - 1] + lengths[k]
    BY <1>1 DEF RunningSum
  <1>4. \A k \in 0 .. n : at[k] \in Nat /\ at[k] < Word
    <2>1. \A k \in 0 .. n : \A j \in 0 .. k : at[j] <= at[k]
      BY <1>1, RunningSumGrows
    <2>2. \A j \in 0 .. n : at[j] <= at[n]
      BY <1>1, <2>1
    <2> QED BY <1>1, <1>3, <2>2
  <1>5. \A k \in 0 .. n : at[k] % Word = at[k]
    BY <1>4, ModBelow
  <1>6. ASSUME NEW k \in 1 .. n PROVE files[k].size = lengths[k]
    <2>1. k \in 0 .. n /\ k - 1 \in 0 .. n
      BY <1>1
    <2>2. at[k] = at[k - 1] + lengths[k] /\ at[k] < Word /\ at[k - 1] \in Nat /\ lengths[k] \in Nat
      BY <1>1, <1>3, <1>4, <2>1
    <2>3. lengths[k] < Word
      BY <1>1, <2>1, <1>4, <2>2
    <2>4. lengths[k] % Word = lengths[k]
      BY <2>2, <2>3, ModBelow
    <2> QED BY <1>2, <2>4
  <1> DEFINE P == {k \in 0 .. n : k # 0 => files[k].offset = at[k - 1]}
  <1>7. 0 \in P
    BY <1>1
  <1>8. ASSUME NEW k \in 1 .. n, k - 1 \in P PROVE k \in P
    <2>1. CASE k = 1
      <3>1. files[k].offset = 0
        BY <1>2, <2>1
      <3> QED BY <1>3, <2>1, <3>1
    <2>2. CASE k # 1
      <3>1. k - 1 \in 1 .. n /\ k - 1 # 0
        BY <1>1, <2>2
      <3>2. files[k].offset = (files[k - 1].offset + files[k - 1].size) % Word
        BY <1>2, <2>2, Zenon
      <3>3. files[k - 1].offset = at[k - 1 - 1] /\ files[k - 1].size = lengths[k - 1]
        BY <1>6, <1>8, <3>1
      <3>4. at[k - 1] = at[k - 1 - 1] + lengths[k - 1]
        BY <1>3, <3>1
      <3>5. files[k].offset = at[k - 1] % Word
        BY <3>2, <3>3, <3>4, Zenon
      <3>6. k - 1 \in 0 .. n
        BY <1>1
      <3>7. at[k - 1] % Word = at[k - 1]
        BY <1>5, <3>6
      <3> QED BY <3>5, <3>7
    <2> QED BY <2>1, <2>2
  <1>9. \A k \in 1 .. n : k - 1 \in P => k \in P
    BY <1>8
  <1> HIDE DEF P
  <1>10. \A k \in 0 .. n : k \in P
    BY <1>1, <1>7, <1>9, Counting
  <1>11. \A k \in 1 .. n : files[k].offset = at[k - 1]
    <2> TAKE k \in 1 .. n
    <2>1. k \in P /\ k # 0
      BY <1>10
    <2> QED BY <2>1 DEF P
  <1>12. total = at[n]
    <2>1. CASE n = 0
      BY <1>2, <1>3, <2>1
    <2>2. CASE n # 0
      <3>1. n \in 1 .. n /\ n \in 0 .. n
        BY <1>1, <2>2
      <3>2. total = (files[n].offset + files[n].size) % Word
        BY <1>2, <2>2, Zenon
      <3>3. files[n].offset = at[n - 1] /\ files[n].size = lengths[n] /\ at[n] = at[n - 1] + lengths[n]
        BY <1>3, <1>6, <1>11, <3>1
      <3>4. total = at[n] % Word
        BY <3>2, <3>3, Zenon
      <3> QED BY <1>5, <3>1, <3>4
    <2> QED BY <2>1, <2>2
  <1> QED BY <1>3, <1>6, <1>11, <1>12 DEF n

(* The number of files is that of the lengths, and these are integers.     *)
LEMMA LengthsAre ==
  ASSUME LoadInv, pc = "ready"
  PROVE  LET lengths == LengthsOf(input.torrent, InfoNode)
         IN  /\ Len(metadata.files) \in Nat /\ DOMAIN lengths = 1 .. Len(metadata.files)
             /\ Len(lengths) = Len(metadata.files)
             /\ \A k \in DOMAIN lengths : lengths[k] \in Int
  <1> DEFINE in == input.text
             t == input.torrent
             node == Get(InfoNode, "files")
             items == t[node].items
             list == Entry(Info, "files").list
             n == Len(metadata.files)
             lengths == LengthsOf(t, InfoNode)
  <1>1. /\ input \in Inputs /\ TorrentParsed /\ FilesRecorded /\ HasFields(t, InfoNode)
    BY DEF LoadInv, InfoRead
  <1>2. in \in Seq(Byte) /\ IsTree(t)
    BY <1>1, InputFacts
  <1>3. n \in Nat
    <2>1. \E S : metadata.files \in Seq(S)
      BY <1>1, Zenon DEF FilesRecorded
    <2> QED BY <2>1, LenProperties
  <1>4. CASE Has(InfoNode, "files")
    <2>1. queue = <<>> /\ QueueLeft /\ \A k \in 1 .. n : IsFile(t, FileNode(k))
      BY <1>1, <1>4, Zenon DEF FilesRecorded
    <2>2. ListKnown
      BY <1>1, <1>4, ListIsKnown
    <2>3. list \in Seq(Int) /\ DOMAIN items = 1 .. Len(list)
          /\ \A k \in 1 .. Len(list) : Shown(in, t, items[k], list[k])
      BY <2>2, Zenon DEF ListKnown
    <2>4. Len(queue) = Len(list) - n
      BY <2>1 DEF QueueLeft
    <2>5. Len(list) \in Nat
      BY <2>3, LenProperties
    <2>6. lengths = [k \in DOMAIN items |-> LengthIn(t, t[items[k]])]
      BY <1>4, Zenon DEF LengthsOf
    <2>7. \A k : FileNode(k) = t[items[k]]
      BY Zenon DEF FileNode
    <2> HIDE DEF n, list, items, lengths, in, t
    <2>8. Len(list) = n
      BY <1>3, <2>1, <2>4, <2>5
    <2>9. DOMAIN lengths = 1 .. n
      BY <2>3, <2>6, <2>8
    <2>10. Len(lengths) = n
      BY <1>3, <2>6, <2>9, <2>3, <2>8
    <2>11. ASSUME NEW k \in 1 .. n PROVE lengths[k] \in Int
      <3> DEFINE m == items[k]
                 p == list[k]
      <3>1. Shown(in, t, m, p) /\ IsFile(t, t[m])
        BY <2>1, <2>3, <2>7, <2>8, Zenon
      <3>2. lengths[k] = LengthIn(t, t[m])
        BY <2>3, <2>6, <2>8, Zenon
      <3> HIDE DEF m, p
      <3>3. t[m].kind = "dictionary" /\ HasKind(t, t[m], "length", "integer")
        BY <3>1 DEF IsFile
      <3>4. KeyIsRead(in, t, m, p, "length")
        BY <1>2, <3>1, <3>3, EntryIsRead
      <3> DEFINE c == Get(t[m], "length")
                 q == Values(in)[p].value.dictionary[<<"length">>]
      <3>5. Shown(in, t, c, q) /\ t[c].kind = "integer"
        BY <3>3, <3>4, Zenon DEF KeyIsRead, HasKind
      <3> HIDE DEF c, q
      <3>6. IntegerOf(t[c].spelling) \in Int
        BY <1>2, <3>5, LengthIsRead
      <3> QED BY <3>2, <3>6 DEF LengthIn, c
    <2> QED BY <1>3, <2>9, <2>10, <2>11 DEF n, lengths, t
  <1>5. CASE ~ Has(InfoNode, "files")
    <2>1. n = 1
      BY <1>1, <1>5, Zenon DEF FilesRecorded
    <2>2. lengths = <<LengthIn(t, InfoNode)>> /\ LengthIn(t, InfoNode) \in Int
      BY <1>1, <1>5, InfoLength
    <2> HIDE DEF lengths
    <2>3. DOMAIN lengths = 1 .. 1 /\ Len(lengths) = 1 /\ \A k \in 1 .. 1 : lengths[k] \in Int
      BY <2>2
    <2> QED BY <1>3, <2>1, <2>3 DEF lengths
  <1> QED BY <1>4, <1>5

LEMMA FilesTileHere ==
  ASSUME LoadInv
  PROVE  FilesTile
  <1> DEFINE lengths == LengthsOf(input.torrent, InfoNode)
             total == MapThenSumSet(LAMBDA k : lengths[k], DOMAIN lengths)
             files == metadata.files
             n == Len(files)
             at == [k \in 0 .. n |-> SumOf(lengths, 1 .. k)]
             holders(b) == {k \in DOMAIN files :
                              files[k].offset <= b /\ b < files[k].offset + files[k].size}
  <1>1. SUFFICES ASSUME pc = "ready", \A k \in DOMAIN lengths : lengths[k] >= 0, total < Word
                 PROVE  /\ Len(files) = Len(lengths)
                        /\ metadata.totalSize = total
                        /\ \A b \in 0 .. total - 1 : Cardinality(holders(b)) = 1
                        /\ \A k \in DOMAIN files : files[k].size = lengths[k]
    BY Zenon DEF FilesTile, InfoNode
  <1>2. /\ n \in Nat /\ DOMAIN lengths = 1 .. n /\ Len(lengths) = n
        /\ \A k \in DOMAIN lengths : lengths[k] \in Int
    BY <1>1, LengthsAre
  <1>3. LaidOut(files, lengths, metadata.totalSize)
    BY <1>1, Zenon DEF LoadInv, FilesLaid
  <1>4. PICK S : files \in Seq(S)
    BY <1>1, Zenon DEF LoadInv, FilesRecorded
  <1>5. DOMAIN files = 1 .. n
    BY <1>4, SeqFacts
  <1>6. total = SumOf(lengths, DOMAIN lengths)
    BY Zenon DEF SumOf
  <1>7. total < Word /\ \A k \in DOMAIN lengths : lengths[k] >= 0
    BY <1>1
  <1> HIDE DEF lengths, total
  <1>8. \A k \in 1 .. n : lengths[k] \in Nat
    BY <1>2, <1>7
  <1>9. RunningSum(n, lengths, at)
    <2> HIDE DEF n
    <2> QED BY <1>2, <1>8, RunningSums
  <1>10. at[n] = total
    BY <1>2, <1>6
  <1> HIDE DEF at
  <1>11. /\ metadata.totalSize = at[n]
         /\ \A k \in 1 .. n : files[k].offset = at[k - 1] /\ files[k].size = lengths[k]
                              /\ at[k] = at[k - 1] + lengths[k]
    <2>1. at[n] < Word
      BY <1>7, <1>10
    <2> QED BY <1>3, <1>4, <1>8, <1>9, <2>1, LaidInPlace
  <1> HIDE DEF n, files
  <1>12. ASSUME NEW b \in 0 .. total - 1 PROVE Cardinality(holders(b)) = 1
    <2>1. at[n] \in Nat
      BY <1>2, <1>9 DEF RunningSum
    <2>2. b \in Nat /\ b < at[n]
      BY <1>10, <2>1
    <2>3. Cardinality({k \in 1 .. n : at[k - 1] <= b /\ b < at[k]}) = 1
      BY <1>2, <1>8, <1>9, <2>2, StepsTile
    <2>4. holders(b) = {k \in 1 .. n : at[k - 1] <= b /\ b < at[k]}
      <3>1. \A k \in 1 .. n : files[k].offset = at[k - 1] /\ files[k].offset + files[k].size = at[k]
        BY <1>11, Zenon
      <3> QED BY <1>5, <3>1, Zenon
    <2> QED BY <2>3, <2>4
  <1> QED BY <1>2, <1>5, <1>10, <1>11, <1>12 DEF n, files

(* For every list of files: as long as their lengths add up to less than a *)
(* word, every byte of the torrent is in exactly one of them               *)
(* (TorrentMetadata.cpp:70-95).                                            *)
THEOREM FilesTileTheTorrent == Spec => []FilesTile
  BY LoadInvariant, FilesTileHere, PTL

(* Two orders of a set by the same rank are the same.                      *)
LEMMA OrderIsOne ==
  ASSUME NEW T, IsFiniteSet(T), NEW rank, \A x \in T : rank[x] \in Nat,
         NEW s \in SetToSeqs(T), NEW u \in SetToSeqs(T), Sorted(s, rank), Sorted(u, rank)
  PROVE  s = u
  <1> DEFINE n == Cardinality(T)
             P == {k \in 0 .. n : \A j \in 1 .. k : s[j] = u[j]}
  <1>1. /\ n \in Nat /\ s \in [1 .. n -> T] /\ u \in [1 .. n -> T]
        /\ T = {s[i] : i \in 1 .. n} /\ T = {u[i] : i \in 1 .. n}
        /\ \A i, j \in 1 .. n : i # j => s[i] # s[j] /\ u[i] # u[j]
    BY OrderCovers
  <1>2. \A i, j \in 1 .. n : i < j => rank[s[i]] < rank[s[j]] /\ rank[u[i]] < rank[u[j]]
    BY <1>1 DEF Sorted
  <1>3. 0 \in P
    BY <1>1
  <1> HIDE DEF n
  <1>4. ASSUME NEW k \in 1 .. n, \A j \in 1 .. k - 1 : s[j] = u[j] PROVE s[k] = u[k]
    <2>1. PICK m \in 1 .. n : s[k] = u[m]
      BY <1>1
    <2>2. PICK l \in 1 .. n : u[k] = s[l]
      BY <1>1
    <2>3. ~ (m < k) /\ ~ (l < k)
      <3>1. ASSUME m < k PROVE FALSE
        <4>1. m \in 1 .. k - 1 /\ m # k
          BY <3>1
        <4> QED BY <1>1, <1>4, <2>1, <4>1
      <3>2. ASSUME l < k PROVE FALSE
        <4>1. l \in 1 .. k - 1 /\ l # k
          BY <3>2
        <4> QED BY <1>1, <1>4, <2>2, <4>1
      <3> QED BY <3>1, <3>2
    <2>4. CASE m = k \/ l = k
      BY <2>1, <2>2, <2>4
    <2>5. CASE k < m /\ k < l
      <3>1. rank[u[k]] < rank[s[k]] /\ rank[s[k]] < rank[u[k]]
        BY <1>2, <2>1, <2>2, <2>5
      <3>2. rank[u[k]] \in Nat /\ rank[s[k]] \in Nat
        BY <1>1
      <3> QED BY <3>1, <3>2
    <2> QED BY <2>3, <2>4, <2>5
  <1>5. \A k \in 1 .. n : k - 1 \in P => k \in P
    <2> SUFFICES ASSUME NEW k \in 1 .. n, k - 1 \in P PROVE k \in P
      OBVIOUS
    <2>1. \A j \in 1 .. k - 1 : s[j] = u[j]
      OBVIOUS
    <2>2. s[k] = u[k] /\ \A j \in 1 .. k : j = k \/ j \in 1 .. k - 1
      BY <1>4, <2>1
    <2> QED BY <1>1, <2>1, <2>2
  <1> HIDE DEF P
  <1>6. n \in P
    <2>1. \A k \in 0 .. n : k \in P
      BY <1>1, <1>3, <1>5, Counting
    <2> QED BY <1>1, <2>1
  <1>7. \A j \in 1 .. n : s[j] = u[j]
    BY <1>6 DEF P
  <1> QED BY <1>1, <1>7

-----------------------------------------------------------------------------
(* The order of the keys. *)

Rank(b) == IndexIn(ByteOrder, b)

LEMMA RankFacts ==
  /\ \A b \in Byte : Rank(b) \in Nat
  /\ \A b, c \in Byte : Rank(b) = Rank(c) => b = c
  <1>1. ASSUME NEW b \in Byte PROVE Rank(b) \in Nat /\ ByteOrder[Rank(b)] = b
    <2> DEFINE I == {k \in 1 .. Len(ByteOrder) : ByteOrder[k] = b}
    <2>1. Rank(b) = IF I # {} THEN Min(I) ELSE 0
      BY DEF Rank, IndexIn, SelectInSeq
    <2>2. Len(ByteOrder) \in Nat /\ DOMAIN ByteOrder = 1 .. Len(ByteOrder)
      BY BencodeAssumption, SeqFacts
    <2>3. I # {}
      BY <2>2 DEF Byte, ToSet
    <2>4. I \subseteq 1 .. Len(ByteOrder) /\ I \subseteq Nat
      OBVIOUS
    <2>5. \A k \in I : ByteOrder[k] = b
      OBVIOUS
    <2> HIDE DEF I
    <2>6. PICK k \in I : \A j \in I : k <= j
      BY <2>3, <2>4, LeastNatural
    <2>7. Rank(b) = k
      BY <2>1, <2>2, <2>3, <2>4, <2>6, FirstSelected
    <2> QED BY <2>4, <2>5, <2>6, <2>7
  <1> QED BY <1>1

(* s is less than t, as they show at k first.                              *)
LessAt(s, t, k) ==
  /\ k \in 1 .. Len(t) /\ k <= Len(s) + 1
  /\ \A j \in 1 .. k - 1 : s[j] = t[j]
  /\ k <= Len(s) => Rank(s[k]) < Rank(t[k])

LEMMA SamePrefix ==
  ASSUME NEW s \in Seq(Byte), NEW t \in Seq(Byte), NEW m \in Nat, m <= Len(s), m <= Len(t)
  PROVE  SubSeq(s, 1, m) = SubSeq(t, 1, m) <=> \A j \in 1 .. m : s[j] = t[j]
  <1> DEFINE a == SubSeq(s, 1, m)
             b == SubSeq(t, 1, m)
  <1>1. Len(s) \in Nat /\ Len(t) \in Nat
    BY LenProperties
  <1>2. /\ a = [j \in 1 .. m |-> s[j]] /\ b = [j \in 1 .. m |-> t[j]]
    <2>1. \A j \in 1 .. m : 1 + j - 1 = j
      OBVIOUS
    <2>2. m = 0 \/ m \in 1 .. m
      OBVIOUS
    <2> QED BY <1>1, <2>1, <2>2 
  <1> HIDE DEF a, b
  <1>3. a = b <=> \A j \in 1 .. m : s[j] = t[j]
    BY <1>2, Zenon
  <1> QED BY <1>3 DEF a, b

LEMMA LessIs ==
  ASSUME NEW s \in Seq(Byte), NEW t \in Seq(Byte)
  PROVE  LexLess(s, t) <=> \E k \in 1 .. Len(t) : LessAt(s, t, k)
  <1>1. Len(s) \in Nat /\ Len(t) \in Nat
    BY LenProperties
  <1>2. ASSUME NEW k \in 1 .. Len(t), k <= Len(s) + 1
        PROVE  SubSeq(s, 1, k - 1) = SubSeq(t, 1, k - 1) <=> \A j \in 1 .. k - 1 : s[j] = t[j]
    <2>1. k - 1 \in Nat /\ k - 1 <= Len(s) /\ k - 1 <= Len(t)
      BY <1>1, <1>2
    <2> QED BY <2>1, SamePrefix
  <1> QED BY <1>2, Zenon DEF LexLess, LessAt, Rank

LEMMA LessIsOrder ==
  /\ \A s \in Seq(Byte) : ~ LexLess(s, s)
  /\ \A s, t, u \in Seq(Byte) : LexLess(s, t) /\ LexLess(t, u) => LexLess(s, u)
  /\ \A s, t \in Seq(Byte) : s # t => LexLess(s, t) \/ LexLess(t, s)
  <1>1. ASSUME NEW s \in Seq(Byte) PROVE Len(s) \in Nat /\ \A k \in 1 .. Len(s) : Rank(s[k]) \in Nat
    BY SeqFacts, RankFacts
  <1>2. ASSUME NEW s \in Seq(Byte), LexLess(s, s) PROVE FALSE
    <2>1. PICK k \in 1 .. Len(s) : LessAt(s, s, k)
      BY <1>2, LessIs
    <2>2. Rank(s[k]) < Rank(s[k]) /\ Rank(s[k]) \in Nat
      BY <1>1, <2>1 DEF LessAt
    <2> QED BY <2>2
  <1>3. ASSUME NEW s \in Seq(Byte), NEW t \in Seq(Byte), NEW u \in Seq(Byte),
               LexLess(s, t), LexLess(t, u)
        PROVE  LexLess(s, u)
    <2>1. PICK k \in 1 .. Len(t) : LessAt(s, t, k)
      BY <1>3, LessIs
    <2>2. PICK m \in 1 .. Len(u) : LessAt(t, u, m)
      BY <1>3, LessIs
    <2>3. Len(s) \in Nat /\ Len(t) \in Nat /\ Len(u) \in Nat
      BY <1>1
    <2>4. /\ k <= Len(s) + 1 /\ (\A j \in 1 .. k - 1 : s[j] = t[j])
          /\ k <= Len(s) => Rank(s[k]) < Rank(t[k])
          /\ m <= Len(t) + 1 /\ (\A j \in 1 .. m - 1 : t[j] = u[j])
          /\ m <= Len(t) => Rank(t[m]) < Rank(u[m])
      BY <2>1, <2>2 DEF LessAt
    <2>5. CASE k < m
      <3>1. k \in 1 .. Len(u) /\ k \in 1 .. m - 1 /\ \A j \in 1 .. k - 1 : j \in 1 .. m - 1
        BY <2>3, <2>5
      <3>2. LessAt(s, u, k)
        BY <2>4, <3>1 DEF LessAt
      <3> QED BY <3>1, <3>2, LessIs
    <2>6. CASE m < k
      <3>1. m <= Len(s) + 1 /\ m <= Len(t) /\ m \in 1 .. k - 1 /\ \A j \in 1 .. m - 1 : j \in 1 .. k - 1
        BY <2>3, <2>4, <2>6
      <3>2. LessAt(s, u, m)
        BY <2>4, <3>1 DEF LessAt
      <3> QED BY <3>2, LessIs
    <2>7. CASE k = m
      <3>1. /\ k \in 1 .. Len(u) /\ k <= Len(t) /\ k <= Len(s) + 1
            /\ \A j \in 1 .. k - 1 : s[j] = u[j]
        BY <2>3, <2>4, <2>7
      <3>2. k <= Len(s) => Rank(s[k]) < Rank(u[k])
        <4> SUFFICES ASSUME k <= Len(s) PROVE Rank(s[k]) < Rank(u[k])
          OBVIOUS
        <4>1. Rank(s[k]) \in Nat /\ Rank(t[k]) \in Nat /\ Rank(u[k]) \in Nat
          BY <1>1, <2>3, <3>1
        <4> QED BY <2>4, <2>7, <3>1, <4>1
      <3>3. LessAt(s, u, k)
        BY <3>1, <3>2 DEF LessAt
      <3> QED BY <3>1, <3>3, LessIs
    <2> QED BY <2>3, <2>5, <2>6, <2>7
  <1>4. ASSUME NEW s \in Seq(Byte), NEW t \in Seq(Byte), s # t
        PROVE  LexLess(s, t) \/ LexLess(t, s)
    <2> DEFINE D == {k \in Nat \ {0} : k > Len(s) \/ k > Len(t) \/ s[k] # t[k]}
    <2>1. Len(s) \in Nat /\ Len(t) \in Nat
      BY <1>1
    <2>2. D \subseteq Nat /\ D # {}
      <3>1. Len(s) + 1 \in D
        BY <2>1
      <3> QED BY <3>1
    <2> HIDE DEF D
    <2>3. PICK k \in D : \A m \in D : k <= m
      BY <2>2, LeastNatural
    <2>4. k \in Nat \ {0} /\ (k > Len(s) \/ k > Len(t) \/ s[k] # t[k])
      BY DEF D
    <2>5. \A j \in 1 .. k - 1 : j <= Len(s) /\ j <= Len(t) /\ s[j] = t[j]
      <3> TAKE j \in 1 .. k - 1
      <3>1. j \notin D /\ j \in Nat \ {0}
        BY <2>3, <2>4
      <3> QED BY <2>1, <3>1 DEF D
    <2>6. k <= Len(s) + 1 /\ k <= Len(t) + 1
      <3>1. k = 1 \/ k - 1 \in 1 .. k - 1
        BY <2>4
      <3> QED BY <2>1, <2>4, <2>5, <3>1
    <2>7. CASE k > Len(s) /\ k > Len(t)
      <3>1. Len(s) = Len(t) /\ \A j \in 1 .. Len(s) : j \in 1 .. k - 1
        BY <2>1, <2>4, <2>6, <2>7
      <3>2. s = t
        BY <2>5, <3>1, SeqEqual
      <3> QED BY <1>4, <3>2
    <2>8. CASE k > Len(s) /\ k <= Len(t)
      <3>1. k \in 1 .. Len(t) /\ LessAt(s, t, k)
        BY <2>1, <2>4, <2>5, <2>6, <2>8 DEF LessAt
      <3> QED BY <3>1, LessIs
    <2>9. CASE k <= Len(s) /\ k > Len(t)
      <3>1. k \in 1 .. Len(s) /\ LessAt(t, s, k)
        BY <2>1, <2>4, <2>5, <2>6, <2>9 DEF LessAt
      <3> QED BY <3>1, LessIs
    <2>10. CASE k <= Len(s) /\ k <= Len(t)
      <3>1. k \in 1 .. Len(s) /\ k \in 1 .. Len(t) /\ s[k] # t[k]
        BY <2>1, <2>4, <2>10
      <3>2. s[k] \in Byte /\ t[k] \in Byte
        BY <3>1, SeqFacts
      <3>3. Rank(s[k]) < Rank(t[k]) \/ Rank(t[k]) < Rank(s[k])
        BY <3>1, <3>2, RankFacts
      <3>4. LessAt(s, t, k) \/ LessAt(t, s, k)
        BY <2>5, <2>6, <3>1, <3>3 DEF LessAt
      <3> QED BY <3>1, <3>4, LessIs
    <2> QED BY <2>1, <2>4, <2>7, <2>8, <2>9, <2>10
  <1> QED BY <1>2, <1>3, <1>4

KeyRank(T) == [x \in T |-> Cardinality({y \in T : LexLess(y, x)})]

LEMMA KeyRankFacts ==
  ASSUME NEW T, IsFiniteSet(T), T \subseteq Seq(Byte)
  PROVE  /\ \A x \in T : KeyRank(T)[x] \in Nat
         /\ \A x, y \in T : LexLess(x, y) <=> KeyRank(T)[x] < KeyRank(T)[y]
         /\ \A x, y \in T : KeyRank(T)[x] = KeyRank(T)[y] => x = y
  <1> DEFINE below(x) == {y \in T : LexLess(y, x)}
             rank == KeyRank(T)
  <1>1. \A x \in T : rank[x] = Cardinality(below(x))
    BY DEF KeyRank
  <1>2. \A x \in T : IsFiniteSet(below(x)) /\ below(x) \subseteq T
    BY FS_Subset
  <1>3. \A x, y \in T : LexLess(x, y) => below(x) \subseteq below(y) /\ below(x) # below(y)
    <2> SUFFICES ASSUME NEW x \in T, NEW y \in T, LexLess(x, y)
                 PROVE  below(x) \subseteq below(y) /\ below(x) # below(y)
      OBVIOUS
    <2>1. \A z \in T : LexLess(z, x) => LexLess(z, y)
      BY LessIsOrder
    <2>2. ~ LexLess(x, x)
      BY LessIsOrder
    <2> QED BY <2>1, <2>2, Zenon
  <1> HIDE DEF below, rank
  <1>4. \A x \in T : rank[x] \in Nat
    BY <1>1, <1>2, FS_CardinalityType
  <1>5. \A x, y \in T : LexLess(x, y) => rank[x] < rank[y]
    <2> SUFFICES ASSUME NEW x \in T, NEW y \in T, LexLess(x, y)
                 PROVE  rank[x] < rank[y]
      OBVIOUS
    <2>1. below(x) \in SUBSET below(y) /\ below(x) # below(y) /\ IsFiniteSet(below(y))
      BY <1>2, <1>3
    <2>2. /\ Cardinality(below(x)) <= Cardinality(below(y))
          /\ Cardinality(below(y)) = Cardinality(below(x)) => below(y) = below(x)
      BY <2>1, FS_Subset
    <2>3. rank[x] <= rank[y] /\ rank[x] # rank[y] /\ rank[x] \in Nat /\ rank[y] \in Nat
      BY <1>1, <1>4, <2>1, <2>2
    <2> QED BY <2>3
  <1>6. \A x, y \in T : x = y \/ LexLess(x, y) \/ LexLess(y, x)
    BY LessIsOrder
  <1>7. \A x, y \in T : rank[x] < rank[y] => LexLess(x, y)
    BY <1>4, <1>5, <1>6
  <1>8. \A x, y \in T : rank[x] = rank[y] => x = y
    BY <1>4, <1>5, <1>6
  <1> QED BY <1>4, <1>5, <1>7, <1>8 DEF rank

IsKeyOrder(s, T) == s \in SetToSeqs(T) /\ \A j, k \in DOMAIN s : j < k => LexLess(s[j], s[k])

LEMMA KeyOrderIs ==
  ASSUME NEW dict, IsFiniteSet(DOMAIN dict), DOMAIN dict \subseteq Seq(Byte)
  PROVE  /\ IsKeyOrder(SortedKeys(dict), DOMAIN dict)
         /\ \A s : IsKeyOrder(s, DOMAIN dict) => s = SortedKeys(dict)
  <1> DEFINE T == DOMAIN dict
             rank == KeyRank(T)
  <1>1. IsFiniteSet(T) /\ T \subseteq Seq(Byte)
    OBVIOUS
  <1>2. SortedKeys(dict) = CHOOSE s : IsKeyOrder(s, T)
    BY Zenon DEF SortedKeys, IsKeyOrder
  <1> HIDE DEF T
  <1>3. /\ \A x \in T : rank[x] \in Nat
        /\ \A x, y \in T : LexLess(x, y) <=> rank[x] < rank[y]
        /\ \A x, y \in T : rank[x] = rank[y] => x = y
    BY <1>1, KeyRankFacts
  <1> HIDE DEF rank
  <1>4. \A s \in SetToSeqs(T) : \A j \in DOMAIN s : s[j] \in T
    BY DEF SetToSeqs
  <1>5. \A s : IsKeyOrder(s, T) <=> s \in SetToSeqs(T) /\ Sorted(s, rank)
    BY <1>3, <1>4, Zenon DEF IsKeyOrder, Sorted
  <1>6. \E s : IsKeyOrder(s, T)
    BY <1>1, <1>3, <1>5, OrderExists
  <1>7. IsKeyOrder(SortedKeys(dict), T)
    BY <1>2, <1>6, Zenon
  <1>8. \A s : IsKeyOrder(s, T) => s = SortedKeys(dict)
    BY <1>1, <1>3, <1>5, <1>7, OrderIsOne
  <1> QED BY <1>7, <1>8 DEF T

-----------------------------------------------------------------------------
(* What the parser returns is a value: encodeBencode can go over it.       *)

(* The positions from i on at which there is a value.                      *)
Later(in, i) == {k \in i .. Len(in) + 1 : Parse(in)[k]["value"].ok}

IsMap(dict, S) ==
  /\ IsFiniteSet(DOMAIN dict) /\ DOMAIN dict \subseteq Seq(Byte)
  /\ \A key \in DOMAIN dict : dict[key] \in S

ListSound(in, i) ==
  LET r == Parse(in)[i]["list"]
  IN  r.ok => r.value.kind = "list" /\ r.value.list \in Seq(Later(in, i))
DictionarySound(in, i) ==
  LET r == Parse(in)[i]["dictionary"]
  IN  r.ok => r.value.kind = "dictionary" /\ IsMap(r.value.dictionary, Later(in, i))

LEMMA ValueForms ==
  /\ \A s : List(s).kind = "list" /\ List(s).list = s
  /\ \A d : Dictionary(d).kind = "dictionary" /\ Dictionary(d).dictionary = d
  /\ \A s : Text(s).kind = "string" /\ Text(s).string = s
  /\ \A n : Integer(n).kind = "integer" /\ Integer(n).integer = n
  BY DEF List, Dictionary, Text, Integer

LEMMA LaterGrows ==
  ASSUME NEW in \in Seq(Byte), NEW i \in Int, NEW j \in Int, i <= j
  PROVE  Later(in, j) \subseteq Later(in, i)
  <1>1. Len(in) \in Nat
    BY LenProperties
  <1>2. \A k \in j .. Len(in) + 1 : k \in i .. Len(in) + 1
    BY <1>1
  <1> QED BY <1>2 DEF Later

LEMMA ReadAhead ==
  ASSUME NEW in \in Seq(Byte), NEW i \in 1 .. Len(in) + 1, NEW form \in Forms,
         Parse(in)[i][form].ok
  PROVE  Parse(in)[i][form].pos \in i + 1 .. Len(in) + 1
  <1>1. Ahead(Parse(in)[i][form], in, i)
    BY ParseFacts
  <1> QED BY <1>1, AheadPosition

LEMMA OneInFront ==
  ASSUME NEW S, NEW x \in S, NEW s \in Seq(S)
  PROVE  <<x>> \o s \in Seq(S)
  <1> DEFINE a == <<x>>
  <1>1. a \in Seq(S)
    OBVIOUS
  <1> HIDE DEF a
  <1>2. a \o s \in Seq(S)
    BY <1>1, ConcatProperties
  <1> QED BY <1>2 DEF a

LEMMA ListStepSound ==
  ASSUME NEW in \in Seq(Byte), NEW i \in 1 .. Len(in), in[i] # "e",
         \A j \in i + 1 .. Len(in) + 1 : ListSound(in, j)
  PROVE  ListSound(in, i)
  <1> DEFINE item == Parse(in)[i]["value"]
             rest == Parse(in)[item.pos]["list"]
             r == Parse(in)[i]["list"]
  <1>1. IF item.ok /\ rest.ok THEN r = Parsed(List(<<i>> \o rest.value.list), rest.pos)
        ELSE r = Failed
    BY ListTurn
  <1>2. i \in 1 .. Len(in) + 1 /\ i \in Int /\ "value" \in Forms /\ Len(in) \in Nat
    BY LenProperties DEF Forms
  <1>3. ASSUME item.ok PROVE item.pos \in i + 1 .. Len(in) + 1
    <2> HIDE DEF item
    <2> QED BY <1>2, <1>3, ReadAhead DEF item
  <1>4. CASE item.ok /\ rest.ok
    <2> DEFINE j == item.pos
               s == rest.value.list
               l == <<i>> \o s
    <2>1. j \in i + 1 .. Len(in) + 1 /\ ListSound(in, j)
      BY <1>3, <1>4
    <2>2. s \in Seq(Later(in, j))
      BY <1>4, <2>1 DEF ListSound
    <2>3. i \in Later(in, i)
      BY <1>2, <1>4 DEF Later
    <2>4. r = Parsed(List(l), rest.pos)
      BY <1>1, <1>4
    <2> HIDE DEF j, s, item, rest, r
    <2>5. Later(in, j) \subseteq Later(in, i)
      BY <1>2, <2>1, LaterGrows
    <2>6. s \in Seq(Later(in, i))
      BY <2>2, <2>5, SeqMonotonic
    <2>7. l \in Seq(Later(in, i))
      BY <2>3, <2>6, OneInFront, Zenon
    <2> HIDE DEF l
    <2>8. r.value = List(l)
      BY <2>4, ResultFacts
    <2>9. r.value.kind = "list" /\ r.value.list = l
      BY <2>8, ValueForms
    <2> QED BY <2>7, <2>9 DEF ListSound, r
  <1>5. CASE ~ (item.ok /\ rest.ok)
    <2>1. ~ r.ok
      <3> HIDE DEF item, rest, r
      <3> QED BY <1>1, <1>5, ResultFacts
    <2> QED BY <2>1 DEF ListSound
  <1> QED BY <1>4, <1>5

LEMMA DictionaryStepSound ==
  ASSUME NEW in \in Seq(Byte), NEW i \in 1 .. Len(in), in[i] # "e",
         \A j \in i + 1 .. Len(in) + 1 : DictionarySound(in, j)
  PROVE  DictionarySound(in, i)
  <1> DEFINE key == ParseString(in, i)
             value == Parse(in)[key.pos]["value"]
             rest == Parse(in)[value.pos]["dictionary"]
             r == Parse(in)[i]["dictionary"]
  <1>1. IF key.ok /\ value.ok /\ rest.ok THEN r = ParsePair(key, rest) ELSE r = Failed
    BY DictionaryTurn
  <1>2. i \in 1 .. Len(in) + 1 /\ i \in Int /\ "value" \in Forms /\ Len(in) \in Nat
    BY LenProperties DEF Forms
  <1>3. CASE key.ok /\ value.ok /\ rest.ok
    <2> DEFINE k == key.value.string
               dict == rest.value.dictionary
               p == key.pos
               j == value.pos
               d == [l \in {k} \cup DOMAIN dict |-> IF l = k THEN p ELSE dict[l]]
    <2>1. k \in Seq(Byte) /\ p \in i + 1 .. Len(in) + 1
      <3>1. IsString(key, in, i)
        BY <1>2, StringRead
      <3>2. PICK s \in Seq(Byte), q \in i + 1 .. Len(in) + 1 : key = Parsed(Text(s), q)
        BY <1>3, <3>1, ResultFacts DEF IsString
      <3> HIDE DEF key
      <3>3. key.value = Text(s) /\ key.pos = q
        BY <3>2, ResultFacts
      <3> QED BY <3>3, ValueForms
    <2>2. j \in p + 1 .. Len(in) + 1
      <3>1. p \in 1 .. Len(in) + 1
        BY <1>2, <2>1
      <3>2. Parse(in)[p]["value"].ok
        BY <1>3
      <3> HIDE DEF p
      <3>3. Parse(in)[p]["value"].pos \in p + 1 .. Len(in) + 1
        BY <1>2, <3>1, <3>2, ReadAhead
      <3> QED BY <3>3 DEF p
    <2>3. p \in Later(in, i)
      BY <1>2, <1>3, <2>1 DEF Later
    <2> HIDE DEF k, p, j
    <2>4. r = Parsed(Dictionary(d), rest.pos)
      BY <1>1, <1>3, Zenon DEF ParsePair, k, p
    <2>5. j \in i + 1 .. Len(in) + 1 /\ i <= j /\ j \in Int
      BY <1>2, <2>1, <2>2
    <2>6. DictionarySound(in, j)
      BY <2>5
    <2>7. IsMap(dict, Later(in, j))
      BY <1>3, <2>6, Zenon DEF DictionarySound, j
    <2> HIDE DEF rest, r, dict
    <2>8. Later(in, j) \subseteq Later(in, i)
      BY <1>2, <2>5, LaterGrows
    <2>9. IsMap(d, Later(in, i))
      <3>1. IsFiniteSet({k} \cup DOMAIN dict)
        <4>1. IsFiniteSet(DOMAIN dict)
          BY <2>7 DEF IsMap
        <4>2. IsFiniteSet(DOMAIN dict \cup {k})
          BY <4>1, FS_AddElement
        <4>3. DOMAIN dict \cup {k} = {k} \cup DOMAIN dict
          OBVIOUS
        <4> QED BY <4>2, <4>3
      <3>2. DOMAIN d = {k} \cup DOMAIN dict
        BY Zenon
      <3>3. \A l \in {k} \cup DOMAIN dict : d[l] = IF l = k THEN p ELSE dict[l]
        BY Zenon
      <3> HIDE DEF d
      <3>4. \A l \in DOMAIN dict : dict[l] \in Later(in, i)
        BY <2>7, <2>8 DEF IsMap
      <3>5. \A l \in DOMAIN d : d[l] \in Later(in, i)
        BY <2>3, <3>2, <3>3, <3>4, Zenon
      <3>6. DOMAIN d \subseteq Seq(Byte)
        BY <2>1, <2>7, <3>2 DEF IsMap
      <3> QED BY <3>1, <3>2, <3>5, <3>6 DEF IsMap
    <2> HIDE DEF d
    <2>10. r.value = Dictionary(d)
      BY <2>4, ResultFacts
    <2>11. r.value.kind = "dictionary" /\ r.value.dictionary = d
      BY <2>10, ValueForms
    <2> QED BY <2>9, <2>11 DEF DictionarySound, r
  <1>4. CASE ~ (key.ok /\ value.ok /\ rest.ok)
    <2>1. ~ r.ok
      <3> HIDE DEF key, value, rest, r
      <3> QED BY <1>1, <1>4, ResultFacts
    <2> QED BY <2>1 DEF DictionarySound
  <1> QED BY <1>3, <1>4

LEMMA LoopsAreSound ==
  ASSUME NEW in \in Seq(Byte)
  PROVE  \A i \in 1 .. Len(in) + 1 : ListSound(in, i) /\ DictionarySound(in, i)
  <1> DEFINE n == Len(in) + 1
             P == {i \in 1 .. n : ListSound(in, i) /\ DictionarySound(in, i)}
  <1>1. n \in Nat /\ Len(in) \in Nat
    BY LenProperties
  <1>2. ASSUME NEW i \in 1 .. n, \A j \in i + 1 .. n : j \in P
        PROVE  i \in P
    <2>1. \A j \in i + 1 .. Len(in) + 1 : ListSound(in, j) /\ DictionarySound(in, j)
      BY <1>2
    <2>2. CASE i <= Len(in) /\ in[i] # "e"
      <3>1. i \in 1 .. Len(in)
        BY <1>1, <2>2
      <3>2. ListSound(in, i)
        BY <2>1, <2>2, <3>1, ListStepSound
      <3>3. DictionarySound(in, i)
        BY <2>1, <2>2, <3>1, DictionaryStepSound
      <3> QED BY <3>2, <3>3
    <2>3. CASE i <= Len(in) => in[i] = "e"
      <3> DEFINE l == Parse(in)[i]["list"]
                 d == Parse(in)[i]["dictionary"]
      <3>1. IF i > Len(in) THEN l = Failed /\ d = Failed
            ELSE l = Parsed(List(<<>>), i + 1) /\ d = Parsed(Dictionary(<<>>), i + 1)
        BY <2>3, LoopsEnd
      <3> HIDE DEF l, d
      <3>2. l.ok => l.value = List(<<>>)
        BY <3>1, ResultFacts
      <3>3. d.ok => d.value = Dictionary(<<>>)
        BY <3>1, ResultFacts
      <3>4. <<>> \in Seq(Later(in, i)) /\ IsMap(<<>>, Later(in, i))
        <4>1. DOMAIN <<>> = {} /\ IsFiniteSet({})
          BY FS_EmptySet
        <4> QED BY <4>1 DEF IsMap
      <3> DEFINE empty == List(<<>>)
      <3>5. l.ok => l.value.kind = "list" /\ l.value.list \in Seq(Later(in, i))
        <4>1. empty.kind = "list" /\ empty.list = <<>>
          BY ValueForms
        <4> HIDE DEF empty
        <4> QED BY <3>2, <3>4, <4>1, Zenon DEF empty
      <3>6. d.ok => d.value.kind = "dictionary" /\ IsMap(d.value.dictionary, Later(in, i))
        BY <3>3, <3>4, ValueForms
      <3> QED BY <3>5, <3>6 DEF ListSound, DictionarySound, l, d
    <2> QED BY <2>2, <2>3
  <1>3. \A i \in 1 .. n : (\A j \in i + 1 .. n : j \in P) => i \in P
    BY <1>2
  <1> HIDE DEF P
  <1>4. \A i \in 1 .. n : i \in P
    <2> HIDE DEF n
    <2> QED BY <1>1, <1>3, CountingDown
  <1> QED BY <1>4 DEF P

ValueSound(in, i, v) ==
  /\ v.kind \in {"integer", "string", "list", "dictionary"}
  /\ v.kind = "list" => v.list \in Seq(Later(in, i + 1))
  /\ v.kind = "dictionary" => IsMap(v.dictionary, Later(in, i + 1))

LEMMA ValuesAreSound ==
  ASSUME NEW in \in Seq(Byte), NEW i \in 1 .. Len(in) + 1, Values(in)[i].ok
  PROVE  i \in 1 .. Len(in) /\ ValueSound(in, i, Values(in)[i].value)
  <1> DEFINE r == Parse(in)[i]["value"]
  <1>1. Values(in)[i] = r /\ Len(in) \in Nat
    BY ValuesAre, LenProperties
  <1>2. r = ParseValue(in, Parse(in), i) /\ r.ok
    BY <1>1, ParseFacts
  <1>3. i \in 1 .. Len(in) /\ ~ (i > Len(in))
    <2>1. i > Len(in) => r = Failed
      BY <1>2, Zenon DEF ParseValue
    <2>2. r # Failed
      BY <1>2, ResultFacts
    <2> QED BY <1>1, <2>1, <2>2
  <1>4. i + 1 \in 1 .. Len(in) + 1
    BY <1>1, <1>3
  <1>5. CASE in[i] = "i"
    <2>1. IsWhole(r, in, i)
      BY <1>2, <1>3, <1>5, ValueCases, IntegerRead
    <2>2. \E k, p : r = Parsed(Integer(k), p)
      BY <1>2, <2>1, ResultFacts DEF IsWhole
    <2>3. r.value.kind = "integer"
      BY <2>2, ResultFacts, ValueForms
    <2> QED BY <1>1, <1>3, <2>3 DEF ValueSound
  <1>6. CASE in[i] \in ToSet(Digits)
    <2>1. IsString(r, in, i)
      BY <1>2, <1>3, <1>6, ValueCases, StringRead
    <2>2. \E s, p : r = Parsed(Text(s), p)
      BY <1>2, <2>1, ResultFacts DEF IsString
    <2>3. r.value.kind = "string"
      BY <2>2, ResultFacts, ValueForms
    <2> QED BY <1>1, <1>3, <2>3 DEF ValueSound
  <1>7. CASE in[i] = "l"
    <2>1. r = Parse(in)[i + 1]["list"]
      BY <1>2, <1>3, <1>7, ValueCases
    <2>2. ListSound(in, i + 1)
      BY <1>4, LoopsAreSound
    <2>3. r.value.kind = "list" /\ r.value.list \in Seq(Later(in, i + 1))
      BY <1>2, <2>1, <2>2, Zenon DEF ListSound
    <2> QED BY <1>1, <1>3, <2>3 DEF ValueSound
  <1>8. CASE in[i] = "d"
    <2>1. r = Parse(in)[i + 1]["dictionary"]
      BY <1>2, <1>3, <1>8, ValueCases
    <2>2. DictionarySound(in, i + 1)
      BY <1>4, LoopsAreSound
    <2>3. r.value.kind = "dictionary" /\ IsMap(r.value.dictionary, Later(in, i + 1))
      BY <1>2, <2>1, <2>2, Zenon DEF DictionarySound
    <2> QED BY <1>1, <1>3, <2>3 DEF ValueSound
  <1>9. CASE in[i] \notin {"i", "l", "d"} /\ in[i] \notin ToSet(Digits)
    <2>1. r = Failed
      BY <1>2, <1>3, <1>9, SMT DEF ParseValue
    <2> QED BY <1>2, <2>1, ResultFacts
  <1> QED BY <1>5, <1>6, <1>7, <1>8, <1>9

(* The encoding of a value, from those of what is in it.                   *)
KeyTexts(dict, f) ==
  [k \in DOMAIN SortedKeys(dict) |->
     EncodeString(SortedKeys(dict)[k]) \o f[dict[SortedKeys(dict)[k]]]]

EncodeAt(v, f) ==
  CASE v.kind = "integer" -> <<"i">> \o Decimal(v.integer) \o <<"e">>
    [] v.kind = "string" -> EncodeString(v.string)
    [] v.kind = "list" -> <<"l">> \o FlattenSeq(ItemTexts(v.list, f)) \o <<"e">>
    [] v.kind = "dictionary" -> <<"d">> \o FlattenSeq(KeyTexts(v.dictionary, f)) \o <<"e">>

ReadAt(in) == {k \in DOMAIN Values(in) : Values(in)[k].ok}
EncodesFrom(in, m, f) ==
  LET D == {k \in ReadAt(in) : k >= m}
  IN  f = [k \in D |-> EncodeAt(Values(in)[k].value, f)]

LEMMA TextsSame ==
  ASSUME NEW S, NEW f, NEW g, \A c \in S : f[c] = g[c]
  PROVE  /\ \A list \in Seq(S) : ItemTexts(list, f) = ItemTexts(list, g)
         /\ \A dict : IsMap(dict, S) => KeyTexts(dict, f) = KeyTexts(dict, g)
  <1>1. ASSUME NEW list \in Seq(S) PROVE ItemTexts(list, f) = ItemTexts(list, g)
    <2>1. \A k \in DOMAIN list : list[k] \in S
      BY SeqFacts
    <2>2. \A k \in DOMAIN list : f[list[k]] = g[list[k]]
      BY <2>1
    <2> QED BY <2>2, Zenon DEF ItemTexts
  <1>2. ASSUME NEW dict, IsMap(dict, S) PROVE KeyTexts(dict, f) = KeyTexts(dict, g)
    <2> DEFINE s == SortedKeys(dict)
    <2>1. s \in SetToSeqs(DOMAIN dict)
      BY <1>2, KeyOrderIs, Zenon DEF IsMap, IsKeyOrder
    <2>2. \A k \in DOMAIN s : s[k] \in DOMAIN dict
      <3> HIDE DEF s
      <3> QED BY <2>1 DEF SetToSeqs
    <2>3. \A k \in DOMAIN s : f[dict[s[k]]] = g[dict[s[k]]]
      BY <1>2, <2>2, Zenon DEF IsMap
    <2> QED BY <2>3, Zenon DEF KeyTexts
  <1> QED BY <1>1, <1>2

LEMMA EncodeAtSame ==
  ASSUME NEW in, NEW i, NEW v, ValueSound(in, i, v), NEW f, NEW g,
         \A c \in Later(in, i + 1) : f[c] = g[c]
  PROVE  EncodeAt(v, f) = EncodeAt(v, g)
  <1>1. /\ v.kind = "list" => ItemTexts(v.list, f) = ItemTexts(v.list, g)
        /\ v.kind = "dictionary" => KeyTexts(v.dictionary, f) = KeyTexts(v.dictionary, g)
    <2>1. /\ v.kind = "list" => v.list \in Seq(Later(in, i + 1))
          /\ v.kind = "dictionary" => IsMap(v.dictionary, Later(in, i + 1))
      BY Zenon DEF ValueSound
    <2> DEFINE S == Later(in, i + 1)
    <2> HIDE DEF S
    <2>2. /\ \A list \in Seq(S) : ItemTexts(list, f) = ItemTexts(list, g)
          /\ \A dict : IsMap(dict, S) => KeyTexts(dict, f) = KeyTexts(dict, g)
      <3>1. \A c \in S : f[c] = g[c]
        BY Zenon DEF S
      <3> QED BY <3>1, TextsSame
    <2> QED BY <2>1, <2>2, Zenon DEF S
  <1>2. v.kind \in {"integer", "string", "list", "dictionary"}
    BY DEF ValueSound
  <1> QED BY <1>1, <1>2, SMT DEF EncodeAt

LEMMA ReadAtIs ==
  ASSUME NEW in \in Seq(Byte)
  PROVE  /\ Len(in) \in Nat /\ ReadAt(in) = Later(in, 1)
         /\ \A k \in ReadAt(in) : k \in 1 .. Len(in) /\ ValueSound(in, k, Values(in)[k].value)
  <1> DEFINE vals == Values(in)
  <1>1. Len(in) \in Nat
    BY LenProperties
  <1>2. DOMAIN vals = 1 .. Len(in) + 1
    <2>1. vals = [i \in 1 .. Len(in) + 1 |-> Parse(in)[i]["value"]]
      BY ParseFacts, Zenon
    <2> HIDE DEF vals
    <2> QED BY <2>1, Zenon
  <1>3. \A k \in 1 .. Len(in) + 1 : vals[k] = Parse(in)[k]["value"]
    BY ValuesAre
  <1>4. \A k \in ReadAt(in) : k \in 1 .. Len(in) /\ ValueSound(in, k, Values(in)[k].value)
    BY <1>2, ValuesAreSound DEF ReadAt
  <1> HIDE DEF vals
  <1>5. ReadAt(in) = Later(in, 1)
    BY <1>2, <1>3, Zenon DEF ReadAt, Later, vals
  <1> QED BY <1>1, <1>4, <1>5

LEMMA OneMoreEncoded ==
  ASSUME NEW in \in Seq(Byte), NEW m \in Int, NEW g, EncodesFrom(in, m + 1, g)
  PROVE  \E f : EncodesFrom(in, m, f)
  <1> DEFINE D == {k \in ReadAt(in) : k >= m}
             E == {k \in ReadAt(in) : k >= m + 1}
             at(k) == EncodeAt(Values(in)[k].value, g)
             f == [k \in D |-> at(k)]
  <1>1. \A k \in ReadAt(in) : k \in Int /\ ValueSound(in, k, Values(in)[k].value)
    BY ReadAtIs
  <1>2. \A k \in E : g[k] = at(k)
    BY Zenon DEF EncodesFrom
  <1>3. \A k \in D : f[k] = at(k)
    OBVIOUS
  <1>4. \A k \in D : Later(in, k + 1) \subseteq E
    <2> TAKE k \in D
    <2>1. ReadAt(in) = Later(in, 1) /\ Len(in) \in Nat
      BY ReadAtIs
    <2>2. k \in Int /\ k >= m /\ k \in 1 .. Len(in)
      BY ReadAtIs
    <2>3. \A c \in Later(in, k + 1) : c >= k + 1 /\ c \in Int
      BY <2>1, <2>2 DEF Later
    <2>4. Later(in, k + 1) \subseteq Later(in, 1)
      <3>1. k + 1 \in Int /\ 1 <= k + 1
        BY <2>2
      <3> QED BY <3>1, LaterGrows
    <2> QED BY <2>1, <2>2, <2>3, <2>4
  <1>5. E \subseteq D
    BY <1>1
  <1> HIDE DEF f, D, E
  <1>6. ASSUME NEW k \in D PROVE f[k] = EncodeAt(Values(in)[k].value, f)
    <2>1. \A c \in Later(in, k + 1) : f[c] = g[c]
      BY <1>2, <1>3, <1>4, <1>5, Zenon
    <2>2. ValueSound(in, k, Values(in)[k].value)
      BY <1>1 DEF D
    <2>3. EncodeAt(Values(in)[k].value, f) = at(k)
      BY <2>1, <2>2, EncodeAtSame
    <2> QED BY <1>3, <2>3
  <1>7. f = [k \in D |-> EncodeAt(Values(in)[k].value, f)]
    <2>1. f = [k \in D |-> f[k]]
      BY DEF f
    <2> QED BY <1>6, <2>1, Zenon
  <1> QED BY <1>7, Zenon DEF EncodesFrom, D

LEMMA EncodeExists ==
  ASSUME NEW in \in Seq(Byte)
  PROVE  \E f : EncodesFrom(in, 1, f)
  <1> DEFINE n == Len(in) + 1
             P == {k \in 0 .. n : \E f : EncodesFrom(in, n - k + 1, f)}
  <1>1. n \in Nat /\ \A k \in ReadAt(in) : k \in Int /\ k <= n
    BY ReadAtIs
  <1>2. 0 \in P
    <2>1. \A k \in ReadAt(in) : ~ (k >= n - 0 + 1)
      BY <1>1
    <2> DEFINE f == [k \in {} |-> {}]
    <2> HIDE DEF n
    <2>2. EncodesFrom(in, n - 0 + 1, f)
      <3>1. {k \in ReadAt(in) : k >= n - 0 + 1} = {}
        BY <2>1, Zenon
      <3>2. f = [k \in {} |-> EncodeAt(Values(in)[k].value, f)]
        OBVIOUS
      <3> HIDE DEF f
      <3> QED BY <3>1, <3>2, Zenon DEF EncodesFrom
    <2> QED BY <1>1, <2>2
  <1>3. ASSUME NEW k \in 1 .. n, k - 1 \in P PROVE k \in P
    <2> DEFINE m == n - k + 1
    <2>1. n - (k - 1) + 1 = m + 1 /\ m \in Int
      BY <1>1
    <2>2. \E f : EncodesFrom(in, m + 1, f)
      BY <1>3, <2>1
    <2> HIDE DEF m
    <2>3. \E f : EncodesFrom(in, m, f)
      BY <2>1, <2>2, OneMoreEncoded
    <2> QED BY <2>3 DEF m
  <1>4. \A k \in 1 .. n : k - 1 \in P => k \in P
    BY <1>3
  <1> HIDE DEF P
  <1>5. n \in P
    <2> HIDE DEF n
    <2>1. \A k \in 0 .. n : k \in P
      BY <1>1, <1>2, <1>4, Counting
    <2> QED BY <1>1, <2>1
  <1>6. n - n + 1 = 1
    BY <1>1
  <1> QED BY <1>5, <1>6 DEF P

Encodings(in, list) == [k \in DOMAIN list |-> Encode(Values(in), list[k])]
KeyEncodings(in, dict) ==
  [k \in DOMAIN SortedKeys(dict) |->
     EncodeString(SortedKeys(dict)[k]) \o Encode(Values(in), dict[SortedKeys(dict)[k]])]

IsEncoded(in, i) ==
  LET v == Values(in)[i].value
      text == Encode(Values(in), i)
  IN  /\ v.kind = "integer" => text = <<"i">> \o Decimal(v.integer) \o <<"e">>
      /\ v.kind = "string" => text = EncodeString(v.string)
      /\ v.kind = "list" => text = <<"l">> \o FlattenSeq(Encodings(in, v.list)) \o <<"e">>
      /\ v.kind = "dictionary" =>
           text = <<"d">> \o FlattenSeq(KeyEncodings(in, v.dictionary)) \o <<"e">>

LEMMA EncodeFacts ==
  ASSUME NEW in \in Seq(Byte), NEW i \in 1 .. Len(in), Values(in)[i].ok
  PROVE  IsEncoded(in, i)
  <1> DEFINE vals == Values(in)
             Fits(f) == f = [j \in {k \in DOMAIN vals : vals[k].ok} |-> EncodeAt(vals[j].value, f)]
             g == CHOOSE f : Fits(f)
  <1>1. \A k : Encode(vals, k) = g[k]
    BY Zenon DEF Encode, EncodeAt, ItemTexts, KeyTexts
  <1>2. \A f : Fits(f) <=> f = [k \in ReadAt(in) |-> EncodeAt(vals[k].value, f)]
    BY Zenon DEF ReadAt
  <1>3. {k \in ReadAt(in) : k >= 1} = ReadAt(in)
    BY ReadAtIs
  <1> HIDE DEF Fits
  <1>4. \A f : EncodesFrom(in, 1, f) => Fits(f)
    BY <1>2, <1>3, Zenon DEF EncodesFrom
  <1>5. Fits(g)
    BY <1>4, EncodeExists, Zenon
  <1> HIDE DEF g
  <1>6. i \in ReadAt(in)
    <2>1. Values(in)[i] = Parse(in)[i]["value"] /\ i \in 1 .. Len(in) + 1
      BY ValuesAre, LenProperties
    <2>2. i \in Later(in, 1)
      BY <2>1 DEF Later
    <2> QED BY <2>2, ReadAtIs
  <1>7. Encode(vals, i) = EncodeAt(vals[i].value, g)
    BY <1>1, <1>2, <1>5, <1>6, Zenon
  <1>8. /\ \A list : ItemTexts(list, g) = Encodings(in, list)
        /\ \A dict : KeyTexts(dict, g) = KeyEncodings(in, dict)
    BY <1>1, Zenon DEF ItemTexts, KeyTexts, Encodings, KeyEncodings
  <1> DEFINE v == vals[i].value
  <1> HIDE DEF v
  <1>9. /\ v.kind = "integer" => EncodeAt(v, g) = <<"i">> \o Decimal(v.integer) \o <<"e">>
        /\ v.kind = "string" => EncodeAt(v, g) = EncodeString(v.string)
        /\ v.kind = "list" => EncodeAt(v, g) = <<"l">> \o FlattenSeq(ItemTexts(v.list, g)) \o <<"e">>
        /\ v.kind = "dictionary" =>
             EncodeAt(v, g) = <<"d">> \o FlattenSeq(KeyTexts(v.dictionary, g)) \o <<"e">>
    BY SMT DEF EncodeAt
  <1> QED BY <1>7, <1>8, <1>9, Zenon DEF IsEncoded, v

-----------------------------------------------------------------------------
(* The encoding of what has been read of a tree is what the tree spells. *)

(* What the program encodes of a node that it has read.                    *)
EncodesTo(in, t, m, p) ==
  LET text == Encode(Values(in), p)
  IN  text \in Seq(Byte) /\ (IsCanonical(t, m) => text = Spell(t, m))
EncodesWell(in, t, m) == \A p : Shown(in, t, m, p) => EncodesTo(in, t, m, p)

MarkedWith(text, first, s) == text = first \o s \o <<"e">>

LEMMA MarkedType ==
  ASSUME NEW text, NEW first \in Seq(Byte), NEW s \in Seq(Byte), MarkedWith(text, first, s)
  PROVE  text \in Seq(Byte)
  <1>1. Enclosed(first, s, <<"e">>, Byte)
    BY ByteFacts, EnclosedType
  <1> QED BY <1>1, Zenon DEF Enclosed, MarkedWith

LEMMA IntegerEncodes ==
  ASSUME NEW in \in Seq(Byte), NEW t, IsTree(t), NEW m, NEW p, Shown(in, t, m, p),
         t[m].kind = "integer"
  PROVE  EncodesTo(in, t, m, p)
  <1> DEFINE v == Values(in)[p].value
             k == IntegerOf(t[m].spelling)
             text == Encode(Values(in), p)
  <1>1. p \in 1 .. Len(in) /\ Values(in)[p].ok /\ Shows(in, t, m, v) /\ m \in DOMAIN t
    BY NodeIsRead DEF Shown
  <1>2. IsEncoded(in, p)
    BY <1>1, EncodeFacts
  <1>3. v = Integer(k) /\ k \in Int
    BY <1>1, LengthIsRead DEF Shows
  <1>4. v.kind = "integer" /\ v.integer = k
    <2> HIDE DEF v, k
    <2> QED BY <1>3, ValueForms
  <1>5. MarkedWith(text, <<"i">>, Decimal(k))
    BY <1>2, <1>4, Zenon DEF IsEncoded, MarkedWith
  <1>6. IsSpelled(t, m)
    BY <1>1, SpellFacts
  <1>7. IsCanonical(t, m) => t[m].spelling = Decimal(k)
    BY <1>1, CanonicalFacts DEF CanonicalHere
  <1>8. MarkedWith(Spell(t, m), <<"i">>, t[m].spelling)
    BY <1>6, Zenon DEF IsSpelled, MarkedWith
  <1>9. text \in Seq(Byte)
    <2> HIDE DEF k, text
    <2>1. Decimal(k) \in Seq(Byte) /\ <<"i">> \in Seq(Byte)
      BY <1>3, DecimalType, ByteFacts
    <2> QED BY <1>5, <2>1, MarkedType
  <1> QED BY <1>5, <1>7, <1>8, <1>9, Zenon DEF EncodesTo, MarkedWith

LEMMA StringEncodes ==
  ASSUME NEW in \in Seq(Byte), NEW t, IsTree(t), NEW m, NEW p, Shown(in, t, m, p),
         t[m].kind = "string"
  PROVE  EncodesTo(in, t, m, p)
  <1> DEFINE v == Values(in)[p].value
             s == t[m].bytes
             text == Encode(Values(in), p)
  <1>1. p \in 1 .. Len(in) /\ Values(in)[p].ok /\ Shows(in, t, m, v) /\ m \in DOMAIN t
    BY NodeIsRead DEF Shown
  <1>2. IsEncoded(in, p)
    BY <1>1, EncodeFacts
  <1>3. v = Text(s)
    BY <1>1 DEF Shows
  <1>4. v.kind = "string" /\ v.string = s
    <2> HIDE DEF v, s
    <2> QED BY <1>3, ValueForms
  <1>5. text = EncodeString(s)
    BY <1>2, <1>4, Zenon DEF IsEncoded
  <1>6. IsSpelled(t, m) /\ s \in Seq(Byte)
    BY <1>1, SpellFacts, NodeFacts
  <1>7. Spell(t, m) = EncodeString(s)
    BY <1>6, Zenon DEF IsSpelled
  <1>8. text \in Seq(Byte)
    <2> HIDE DEF s, text
    <2> QED BY <1>5, <1>6, StringType
  <1> QED BY <1>5, <1>7, <1>8, Zenon DEF EncodesTo

LEMMA ListEncodes ==
  ASSUME NEW in \in Seq(Byte), NEW t, IsTree(t), NEW m, NEW p, Shown(in, t, m, p),
         t[m].kind = "list", \A c \in Children(t[m]) : EncodesWell(in, t, c)
  PROVE  EncodesTo(in, t, m, p)
  <1> DEFINE v == Values(in)[p].value
             list == v.list
             items == t[m].items
             text == Encode(Values(in), p)
             pieces == Encodings(in, list)
  <1>1. p \in 1 .. Len(in) /\ Values(in)[p].ok /\ Shows(in, t, m, v) /\ m \in DOMAIN t
    BY NodeIsRead DEF Shown
  <1>2. IsEncoded(in, p) /\ v.kind = "list"
    BY <1>1, EncodeFacts DEF Shows
  <1>3. /\ list \in Seq(1 .. Len(in)) /\ Len(list) = Len(items)
        /\ \A k \in 1 .. Len(list) : Shown(in, t, items[k], list[k])
    BY ListIsShown
  <1>4. items \in Seq(m + 1 .. Len(t)) /\ Children(t[m]) = ToSet(items)
    BY <1>1, NodeFacts DEF Children
  <1>5. MarkedWith(text, <<"l">>, FlattenSeq(pieces))
    BY <1>2, Zenon DEF IsEncoded, MarkedWith
  <1>6. IsSpelled(t, m)
    BY <1>1, SpellFacts
  <1>7. MarkedWith(Spell(t, m), <<"l">>, FlattenSeq(ItemSpellings(t, items)))
    BY <1>6, Zenon DEF IsSpelled, MarkedWith
  <1>8. IsCanonical(t, m) => \A c \in Children(t[m]) : IsCanonical(t, c)
    BY <1>1, CanonicalFacts
  <1> HIDE DEF v, list, items, text, pieces
  <1>9. DOMAIN list = 1 .. Len(list) /\ DOMAIN items = 1 .. Len(list) /\ Len(list) \in Nat
    BY <1>3, <1>4, SeqFacts
  <1>10. ASSUME NEW k \in 1 .. Len(list) PROVE items[k] \in Children(t[m])
    BY <1>4, <1>9 DEF ToSet
  <1>11. ASSUME NEW k \in 1 .. Len(list)
         PROVE  EncodesTo(in, t, items[k], list[k])
    BY <1>3, <1>10 DEF EncodesWell
  <1>12. pieces = [k \in 1 .. Len(list) |-> Encode(Values(in), list[k])]
    BY <1>9, Zenon DEF pieces, Encodings
  <1>13. pieces \in Seq(Seq(Byte))
    <2>1. \A k \in 1 .. Len(list) : Encode(Values(in), list[k]) \in Seq(Byte)
      BY <1>11, Zenon DEF EncodesTo
    <2>2. pieces \in [1 .. Len(list) -> Seq(Byte)]
      BY <1>12, <2>1, Zenon
    <2> QED BY <1>9, <2>2, FunctionIsSeq
  <1>14. FlattenSeq(pieces) \in Seq(Byte) /\ <<"l">> \in Seq(Byte)
    BY <1>13, FlattenLayout, ByteFacts
  <1>15. text \in Seq(Byte)
    <2> DEFINE s == FlattenSeq(pieces)
               first == <<"l">>
    <2>1. s \in Seq(Byte) /\ MarkedWith(text, first, s) /\ first \in Seq(Byte)
      BY <1>5, <1>14
    <2> HIDE DEF s, first
    <2> QED BY <2>1, MarkedType
  <1>16. IsCanonical(t, m) => pieces = ItemSpellings(t, items)
    <2> SUFFICES ASSUME IsCanonical(t, m) PROVE pieces = ItemSpellings(t, items)
      OBVIOUS
    <2>1. \A k \in 1 .. Len(list) : Encode(Values(in), list[k]) = Spell(t, items[k])
      BY <1>8, <1>10, <1>11, Zenon DEF EncodesTo
    <2> QED BY <1>9, <1>12, <2>1, Zenon DEF ItemSpellings
  <1> QED BY <1>5, <1>7, <1>15, <1>16, Zenon DEF EncodesTo, MarkedWith, text, items

(* The keys of a dictionary are single bytes, and their values are shown.  *)
LEMMA KeysAreShown ==
  ASSUME NEW in \in Seq(Byte), NEW t, IsTree(t), NEW m, NEW p, Shown(in, t, m, p),
         t[m].kind = "dictionary"
  PROVE  LET dict == Values(in)[p].value.dictionary
             pairs == t[m].pairs
         IN  /\ IsFiniteSet(DOMAIN dict) /\ DOMAIN dict \subseteq Seq(Byte)
             /\ DOMAIN dict = {<<pairs[k][1]>> : k \in DOMAIN pairs}
             /\ DOMAIN pairs = 1 .. Len(pairs) /\ Len(pairs) \in Nat
             /\ \A k \in DOMAIN pairs : pairs[k][1] \in Byte /\ pairs[k][2] \in Children(t[m])
             /\ \A k \in DOMAIN pairs :
                  First(pairs, k) => Shown(in, t, pairs[k][2], dict[<<pairs[k][1]>>])
             /\ \A x \in DOMAIN dict : \E k \in DOMAIN pairs : x = <<pairs[k][1]>> /\ First(pairs, k)
  <1> DEFINE v == Values(in)[p].value
             dict == v.dictionary
             pairs == t[m].pairs
  <1>1. p \in 1 .. Len(in) /\ Values(in)[p].ok /\ v.kind = "dictionary"
    BY NodeIsRead DEF Shows
  <1>2. m \in DOMAIN t /\ ShowsPairs(in, t, pairs, dict)
        /\ \A c \in Children(t[m]) : c \in DOMAIN t /\ IntegersFit(t, c)
    BY PairsAreShown
  <1>3. IsFiniteSet(DOMAIN dict) /\ DOMAIN dict \subseteq Seq(Byte)
    <2>1. p \in 1 .. Len(in) + 1
      BY <1>1, LenProperties
    <2>2. ValueSound(in, p, v)
      BY <1>1, <2>1, ValuesAreSound
    <2> QED BY <1>1, <2>2, Zenon DEF ValueSound, IsMap
  <1>4. pairs \in Seq(Byte \X (m + 1 .. Len(t)))
    BY <1>2, NodeFacts
  <1>5. Children(t[m]) = {pairs[k][2] : k \in DOMAIN pairs}
    BY DEF Children
  <1> HIDE DEF v, dict, pairs
  <1>6. DOMAIN pairs = 1 .. Len(pairs) /\ Len(pairs) \in Nat
        /\ \A k \in DOMAIN pairs : pairs[k] \in Byte \X (m + 1 .. Len(t))
    BY <1>4, SeqFacts
  <1>7. \A k \in DOMAIN pairs : pairs[k][1] \in Byte /\ pairs[k][2] \in Children(t[m])
    BY <1>5, <1>6
  <1>8. DOMAIN dict = {<<pairs[k][1]>> : k \in DOMAIN pairs}
    BY <1>2 DEF ShowsPairs
  <1>9. \A k \in DOMAIN pairs : First(pairs, k) => Shown(in, t, pairs[k][2], dict[<<pairs[k][1]>>])
    BY <1>2, <1>7 DEF ShowsPairs, Shown
  <1>10. ASSUME NEW x \in DOMAIN dict
         PROVE  \E k \in DOMAIN pairs : x = <<pairs[k][1]>> /\ First(pairs, k)
    <2>1. PICK j \in DOMAIN pairs : x = <<pairs[j][1]>>
      BY <1>8
    <2> DEFINE key == pairs[j][1]
    <2>2. \E k \in 1 .. Len(pairs) : pairs[k][1] = key
      BY <1>6
    <2> HIDE DEF key
    <2>3. HasFirst(pairs, key)
      BY <1>6, <2>2, FirstPair
    <2>4. \E k \in DOMAIN pairs : pairs[k][1] = key /\ First(pairs, k)
      BY <1>6, <2>3, Zenon DEF HasFirst
    <2> QED BY <2>1, <2>4, Zenon DEF key
  <1> QED BY <1>3, <1>6, <1>7, <1>8, <1>9, <1>10 DEF v, dict, pairs

(* Keys in ascending order are the order of the std::map.                  *)
LEMMA AscendingKeys ==
  ASSUME NEW pairs, NEW dict, IsFiniteSet(DOMAIN dict), DOMAIN dict \subseteq Seq(Byte),
         DOMAIN dict = {<<pairs[k][1]>> : k \in DOMAIN pairs},
         DOMAIN pairs = 1 .. Len(pairs), Len(pairs) \in Nat,
         \A k \in DOMAIN pairs : pairs[k][1] \in Byte, KeysAscend(pairs)
  PROVE  /\ SortedKeys(dict) = [k \in DOMAIN pairs |-> <<pairs[k][1]>>]
         /\ \A k \in DOMAIN pairs : First(pairs, k)
  <1> DEFINE T == DOMAIN dict
             n == Len(pairs)
             u == [k \in 1 .. n |-> <<pairs[k][1]>>]
  <1>1. \A j, k \in 1 .. n : j < k => Rank(pairs[j][1]) < Rank(pairs[k][1])
    BY Zenon DEF KeysAscend, Rank
  <1>2. \A k \in 1 .. n : Rank(pairs[k][1]) \in Nat
    BY RankFacts
  <1>3. \A j, k \in 1 .. n : j # k => pairs[j][1] # pairs[k][1]
    <2> SUFFICES ASSUME NEW j \in 1 .. n, NEW k \in 1 .. n, j # k, pairs[j][1] = pairs[k][1]
                 PROVE  FALSE
      OBVIOUS
    <2>1. j < k \/ k < j
      OBVIOUS
    <2> QED BY <1>1, <1>2, <2>1
  <1>4. \A k \in DOMAIN pairs : First(pairs, k)
    <2> TAKE k \in DOMAIN pairs
    <2>1. \A j \in 1 .. k - 1 : j \in 1 .. n /\ j # k
      OBVIOUS
    <2> QED BY <1>3, <2>1 DEF First
  <1>5. /\ n \in Nat /\ T = {<<pairs[k][1]>> : k \in 1 .. n}
        /\ \A k \in 1 .. n : u[k] = <<pairs[k][1]>>
    BY Zenon
  <1>6. \A k \in 1 .. n : u[k] \in T
    BY <1>5
  <1>7. u \in [1 .. n -> T]
    BY <1>6, Zenon
  <1>8. \A j, k \in 1 .. n : u[j] = u[k] => j = k
    BY <1>3, <1>5
  <1>9. \A x \in T : \E k \in 1 .. n : u[k] = x
    BY <1>5
  <1> HIDE DEF u
  <1>10. Cardinality(T) = n
    <2> HIDE DEF T, n
    <2>1. u \in Injection(1 .. n, T)
      BY <1>7, <1>8 DEF Injection, IsInjective
    <2>2. u \in Surjection(1 .. n, T)
      BY <1>7, <1>9 DEF Surjection
    <2>3. ExistsBijection(1 .. n, T)
      BY <2>1, <2>2, Zenon DEF ExistsBijection, Bijection
    <2> QED BY <1>5, <2>3, FS_CountingElements
  <1>11. u \in SetToSeqs(T)
    BY <1>7, <1>8, <1>10, Zenon DEF SetToSeqs
  <1>12. DOMAIN u = 1 .. n
    BY <1>7
  <1>13. ASSUME NEW j \in 1 .. n, NEW k \in 1 .. n, j < k PROVE LexLess(u[j], u[k])
    <2> DEFINE a == pairs[j][1]
               b == pairs[k][1]
    <2>1. a \in Byte /\ b \in Byte /\ Rank(a) < Rank(b)
      BY <1>1, <1>13
    <2>2. u[j] = <<a>> /\ u[k] = <<b>>
      BY <1>5
    <2> HIDE DEF a, b, T, n
    <2>3. <<a>> \in Seq(Byte) /\ <<b>> \in Seq(Byte)
      BY <2>1
    <2>4. LessAt(<<a>>, <<b>>, 1) /\ 1 \in 1 .. Len(<<b>>)
      BY <2>1 DEF LessAt
    <2>5. LexLess(<<a>>, <<b>>)
      BY <2>3, <2>4, LessIs
    <2> QED BY <2>2, <2>5
  <1>14. IsKeyOrder(u, T)
    BY <1>11, <1>12, <1>13, Zenon DEF IsKeyOrder
  <1>15. u = SortedKeys(dict)
    BY <1>14, KeyOrderIs
  <1> QED BY <1>4, <1>15 DEF u

LEMMA DictionaryEncodes ==
  ASSUME NEW in \in Seq(Byte), NEW t, IsTree(t), NEW m, NEW p, Shown(in, t, m, p),
         t[m].kind = "dictionary", \A c \in Children(t[m]) : EncodesWell(in, t, c)
  PROVE  EncodesTo(in, t, m, p)
  <1> DEFINE v == Values(in)[p].value
             dict == v.dictionary
             pairs == t[m].pairs
             text == Encode(Values(in), p)
             pieces == KeyEncodings(in, dict)
             s == SortedKeys(dict)
             n == Cardinality(DOMAIN dict)
  <1>1. p \in 1 .. Len(in) /\ Values(in)[p].ok /\ Shows(in, t, m, v) /\ m \in DOMAIN t
    BY NodeIsRead DEF Shown
  <1>2. IsEncoded(in, p) /\ v.kind = "dictionary"
    BY <1>1, EncodeFacts DEF Shows
  <1>3. /\ IsFiniteSet(DOMAIN dict) /\ DOMAIN dict \subseteq Seq(Byte)
        /\ DOMAIN dict = {<<pairs[k][1]>> : k \in DOMAIN pairs}
        /\ DOMAIN pairs = 1 .. Len(pairs) /\ Len(pairs) \in Nat
        /\ \A k \in DOMAIN pairs : pairs[k][1] \in Byte /\ pairs[k][2] \in Children(t[m])
        /\ \A k \in DOMAIN pairs :
             First(pairs, k) => Shown(in, t, pairs[k][2], dict[<<pairs[k][1]>>])
        /\ \A x \in DOMAIN dict : \E k \in DOMAIN pairs : x = <<pairs[k][1]>> /\ First(pairs, k)
    BY KeysAreShown
  <1>4. MarkedWith(text, <<"d">>, FlattenSeq(pieces))
    BY <1>2, Zenon DEF IsEncoded, MarkedWith
  <1>5. IsSpelled(t, m)
    BY <1>1, SpellFacts
  <1>6. MarkedWith(Spell(t, m), <<"d">>, FlattenSeq(PairSpellings(t, pairs)))
    BY <1>5, Zenon DEF IsSpelled, MarkedWith
  <1>7. IsCanonical(t, m) => KeysAscend(pairs) /\ \A c \in Children(t[m]) : IsCanonical(t, c)
    BY <1>1, CanonicalFacts DEF CanonicalHere
  <1>8. pieces = [k \in DOMAIN s |-> EncodeString(s[k]) \o Encode(Values(in), dict[s[k]])]
    BY Zenon DEF KeyEncodings
  <1> HIDE DEF v, dict, pairs, text, pieces, s, n
  <1>9. s \in SetToSeqs(DOMAIN dict)
    BY <1>3, KeyOrderIs DEF s, IsKeyOrder
  <1>10. n \in Nat /\ s \in [1 .. n -> DOMAIN dict]
    BY <1>3, <1>9, OrderCovers DEF n
  <1>11. ASSUME NEW k \in DOMAIN pairs, First(pairs, k)
         PROVE  EncodesTo(in, t, pairs[k][2], dict[<<pairs[k][1]>>])
    BY <1>3, <1>11 DEF EncodesWell
  <1>12. pieces \in Seq(Seq(Byte))
    <2>1. DOMAIN s = 1 .. n
      BY <1>10
    <2>2. ASSUME NEW k \in 1 .. n
          PROVE  EncodeString(s[k]) \o Encode(Values(in), dict[s[k]]) \in Seq(Byte)
      <3> DEFINE x == s[k]
                 a == EncodeString(x)
                 b == Encode(Values(in), dict[x])
      <3>1. x \in DOMAIN dict
        BY <1>10
      <3> HIDE DEF x
      <3>2. x \in Seq(Byte)
        BY <1>3, <3>1
      <3>3. a \in Seq(Byte)
        BY <3>2, StringType
      <3>4. PICK j \in DOMAIN pairs : x = <<pairs[j][1]>> /\ First(pairs, j)
        BY <1>3, <3>1
      <3>5. EncodesTo(in, t, pairs[j][2], dict[x])
        BY <1>11, <3>4
      <3>6. b \in Seq(Byte)
        BY <3>5, Zenon DEF EncodesTo
      <3> HIDE DEF a, b
      <3>7. a \o b \in Seq(Byte)
        BY <3>3, <3>6, ConcatProperties
      <3> QED BY <3>7, Zenon DEF a, b, x
    <2>3. pieces \in [1 .. n -> Seq(Byte)]
      BY <1>8, <2>1, <2>2, Zenon
    <2> QED BY <1>10, <2>3, FunctionIsSeq
  <1>13. text \in Seq(Byte)
    <2> DEFINE z == FlattenSeq(pieces)
               first == <<"d">>
    <2>1. z \in Seq(Byte) /\ MarkedWith(text, first, z) /\ first \in Seq(Byte)
      BY <1>4, <1>12, FlattenLayout, ByteFacts
    <2> HIDE DEF z, first
    <2> QED BY <2>1, MarkedType
  <1>14. IsCanonical(t, m) => pieces = PairSpellings(t, pairs)
    <2> SUFFICES ASSUME IsCanonical(t, m) PROVE pieces = PairSpellings(t, pairs)
      OBVIOUS
    <2>1. KeysAscend(pairs) /\ \A c \in Children(t[m]) : IsCanonical(t, c)
      BY <1>7
    <2>2. /\ s = [k \in DOMAIN pairs |-> <<pairs[k][1]>>]
          /\ \A k \in DOMAIN pairs : First(pairs, k)
      BY <1>3, <2>1, AscendingKeys DEF s
    <2>3. DOMAIN s = DOMAIN pairs /\ \A k \in DOMAIN pairs : s[k] = <<pairs[k][1]>>
      BY <2>2, Zenon
    <2>4. \A k \in DOMAIN pairs : Encode(Values(in), dict[<<pairs[k][1]>>]) = Spell(t, pairs[k][2])
      BY <1>3, <1>11, <2>1, <2>2, Zenon DEF EncodesTo
    <2>5. \A k \in DOMAIN pairs :
            EncodeString(s[k]) \o Encode(Values(in), dict[s[k]])
              = EncodeString(<<pairs[k][1]>>) \o Spell(t, pairs[k][2])
      BY <2>3, <2>4, Zenon
    <2> QED BY <1>8, <2>3, <2>5, Zenon DEF PairSpellings
  <1> QED BY <1>4, <1>6, <1>13, <1>14, Zenon DEF EncodesTo, MarkedWith, text, pairs

LEMMA TreeEncodes ==
  ASSUME NEW in \in Seq(Byte), NEW t, IsTree(t)
  PROVE  \A m, p : Shown(in, t, m, p) => EncodesTo(in, t, m, p)
  <1> DEFINE n == Len(t)
             P == {m \in 1 .. n : EncodesWell(in, t, m)}
  <1>1. n \in Nat /\ DOMAIN t = 1 .. n
    BY LenProperties DEF IsTree
  <1>2. ASSUME NEW m \in 1 .. n, \A j \in m + 1 .. n : j \in P PROVE m \in P
    <2>1. m \in DOMAIN t
      BY <1>1
    <2>2. \A c \in Children(t[m]) : EncodesWell(in, t, c)
      <3>1. Children(t[m]) \subseteq m + 1 .. n
        BY <2>1, NodeFacts
      <3> QED BY <1>2, <3>1
    <2>3. t[m].kind \in {"integer", "string", "list", "dictionary"}
      BY <2>1, NodeFacts
    <2>4. ASSUME NEW p, Shown(in, t, m, p) PROVE EncodesTo(in, t, m, p)
      <3>1. CASE t[m].kind = "integer"
        BY <2>4, <3>1, IntegerEncodes
      <3>2. CASE t[m].kind = "string"
        BY <2>4, <3>2, StringEncodes
      <3>3. CASE t[m].kind = "list"
        BY <2>2, <2>4, <3>3, ListEncodes
      <3>4. CASE t[m].kind = "dictionary"
        BY <2>2, <2>4, <3>4, DictionaryEncodes
      <3> QED BY <2>3, <3>1, <3>2, <3>3, <3>4
    <2> QED BY <2>4 DEF EncodesWell
  <1>3. \A m \in 1 .. n : (\A j \in m + 1 .. n : j \in P) => m \in P
    BY <1>2
  <1> HIDE DEF P
  <1>4. \A m \in 1 .. n : m \in P
    <2> HIDE DEF n
    <2> QED BY <1>1, <1>3, CountingDown
  <1>5. \A m \in DOMAIN t : EncodesWell(in, t, m)
    BY <1>1, <1>4 DEF P
  <1> QED BY <1>5, Zenon DEF EncodesWell, Shown

-----------------------------------------------------------------------------
(* The hashed text. *)

(* What has been hashed is the text of info, where that is canonical.      *)
HashInv ==
  LET info == Get(input.torrent[1], "info")
  IN  /\ hashed \in Seq(Byte)
      /\ hashed # <<>> /\ IsCanonical(input.torrent, info) => hashed = Spell(input.torrent, info)

LEMMA HashInit ==
  ASSUME Init
  PROVE  HashInv
  <1>1. hashed = <<>>
    BY DEF Init
  <1>2. <<>> \in Seq(Byte)
    BY EmptySeq
  <1> QED BY <1>1, <1>2 DEF HashInv

LEMMA HashKept ==
  ASSUME HashInv, input' = input, hashed' = hashed
  PROVE  HashInv'
  BY Zenon DEF HashInv

LEMMA HashNext ==
  ASSUME LoadInv, HashInv, [Next]_vars
  PROVE  HashInv'
  <1>1. CASE ReadInfo
    <2> DEFINE in == input.text
               t == input.torrent
               n == Get(t[1], "info")
               p == Root[<<"info">>]
    <2>1. input' = input /\ hashed' = Encode(values, p) /\ pc = "info"
      BY <1>1, Zenon DEF ReadInfo
    <2>2. input \in Inputs /\ TorrentParsed
      BY DEF LoadInv
    <2>3. in \in Seq(Byte) /\ IsTree(t)
      BY <2>2, InputFacts
    <2>4. InfoKnown /\ values = Values(in)
      BY <2>1, <2>2, InfoIsKnown DEF TorrentParsed
    <2>5. Shown(in, t, n, p)
      BY <2>4, Zenon DEF InfoKnown
    <2> HIDE DEF in, t, n, p
    <2>6. EncodesTo(in, t, n, p)
      BY <2>3, <2>5, TreeEncodes
    <2>7. hashed' \in Seq(Byte) /\ (IsCanonical(t, n) => hashed' = Spell(t, n))
      BY <2>1, <2>4, <2>6, Zenon DEF EncodesTo
    <2> QED BY <2>1, <2>7, Zenon DEF HashInv, t, n
  <1>2. CASE ~ ReadInfo
    <2>1. CASE ParseConfig \/ RefuseConfig \/ StorageFails \/ ParseTorrent \/ RefuseInfo
      <3>1. input' = input /\ hashed' = hashed
        BY <2>1, Zenon DEF ParseConfig, RefuseConfig, StorageFails, ParseTorrent, RefuseInfo
      <3> QED BY <3>1, HashKept
    <2>2. CASE ReadFile \/ RefuseFile \/ FilesRead
      <3>1. input' = input /\ hashed' = hashed
        BY <2>2, Zenon DEF ReadFile, RefuseFile, FilesRead
      <3> QED BY <3>1, HashKept
    <2>3. CASE UNCHANGED vars
      <3>1. input' = input /\ hashed' = hashed
        BY <2>3 DEF vars
      <3> QED BY <3>1, HashKept
    <2> QED BY <1>2, <2>1, <2>2, <2>3, Zenon DEF Next
  <1> QED BY <1>1, <1>2

(* What has been hashed is a text, and the one the file has for info       *)
(* wherever that is canonical (TorrentMetadata.cpp:68).                    *)
THEOREM HashInvariant == Spec => []HashInv
  <1>1. Init => HashInv
    BY HashInit
  <1>2. LoadInv /\ HashInv /\ [Next]_vars => HashInv'
    BY HashNext
  <1> QED BY <1>1, <1>2, LoadInvariant, PTL DEF Spec

(* For every torrent: parsing a canonical info and encoding it again gives *)
(* its text back, so that the info hash is the one that peers know         *)
(* (Bencode.cpp:138-161, TorrentMetadata.cpp:68).                          *)
THEOREM InfoTextIsHashed == Spec => []HashOfFile
  <1>1. HashInv => HashOfFile
    BY Zenon DEF HashInv, HashOfFile
  <1> QED BY <1>1, HashInvariant, PTL

-----------------------------------------------------------------------------
(* The blocks of Sha1. *)

Block == {x \in Seq(Int) : Len(x) = 64}
BlocksOf(c, k) == [b \in 1 .. k |-> SubSeq(c, (b - 1) * 64 + 1, b * 64)]

(* Whole blocks of a text, put together again.                             *)
LEMMA WholeBlocks ==
  ASSUME NEW c \in Seq(Int), NEW w \in Nat, w * 64 <= Len(c)
  PROVE  BlocksOf(c, w) \in Seq(Block) /\ FlattenSeq(BlocksOf(c, w)) = SubSeq(c, 1, w * 64)
  <1> DEFINE Together(k) == /\ BlocksOf(c, k) \in Seq(Block)
                            /\ FlattenSeq(BlocksOf(c, k)) = SubSeq(c, 1, k * 64)
             P == {k \in 0 .. w : Together(k)}
  <1>1. Len(c) \in Nat
    BY LenProperties
  <1>2. Together(0)
    <2>1. BlocksOf(c, 0) = <<>>
      BY DEF BlocksOf
    <2>2. SubSeq(c, 1, 0 * 64) = <<>>
      BY SubSeqEmpty
    <2>3. <<>> \in Seq(Block) /\ <<>> \in Seq(Seq(Int)) /\ Len(<<>>) = 0
      BY EmptySeq
    <2>4. FlattenSeq(<<>>) = <<>>
      <3>1. PICK h : FlattenSteps(<<>>, h, Int) /\ FlattenSeq(<<>>) = h[Len(<<>>)]
        BY <2>3, FlattenBySteps
      <3> QED BY <2>3, <3>1, Zenon DEF FlattenSteps
    <2> QED BY <2>1, <2>2, <2>3, <2>4
  <1>3. ASSUME NEW k \in 1 .. w, Together(k - 1) PROVE Together(k)
    <2> DEFINE s == BlocksOf(c, k - 1)
               x == SubSeq(c, (k - 1) * 64 + 1, k * 64)
    <2>1. k * 64 <= Len(c) /\ k \in Nat \ {0} /\ (k - 1) * 64 + 1 \in 1 .. Len(c)
      BY <1>1
    <2>2. \A i \in (k - 1) * 64 + 1 .. k * 64 : c[i] \in Int
      <3>1. \A i \in (k - 1) * 64 + 1 .. k * 64 : i \in 1 .. Len(c)
        BY <1>1, <2>1
      <3> QED BY <3>1, ElementOfSeq
    <2>3. x \in Seq(Int) /\ Len(x) = 64
      <3>1. (k - 1) * 64 + 1 \in Int /\ k * 64 \in Int
        BY <2>1
      <3>2. x \in Seq(Int) /\ Len(x) = IF (k - 1) * 64 + 1 <= k * 64
                                       THEN k * 64 - ((k - 1) * 64 + 1) + 1 ELSE 0
        BY <2>2, <3>1, SubSeqProperties
      <3> HIDE DEF x
      <3> QED BY <2>1, <3>2
    <2>4. x \in Block
      BY <2>3 DEF Block
    <2>5. s \in Seq(Block) /\ FlattenSeq(s) = SubSeq(c, 1, (k - 1) * 64)
      BY <1>3
    <2>6. SubSeq(c, 1, (k - 1) * 64) \o x = SubSeq(c, 1, k * 64)
      <3>1. 1 \in 1 .. Len(c) + 1 /\ (k - 1) * 64 \in 1 - 1 .. Len(c)
            /\ k * 64 \in (k - 1) * 64 .. Len(c)
        BY <1>1, <2>1
      <3> QED BY <3>1, ConcatAdjacentSubSeq
    <2>7. BlocksOf(c, k) = Append(s, x)
      <3> DEFINE z == Append(s, x)
      <3>1. DOMAIN s = 1 .. k - 1 /\ \A b \in 1 .. k - 1 : s[b] = SubSeq(c, (b - 1) * 64 + 1, b * 64)
        BY Zenon DEF BlocksOf
      <3>2. Len(s) = k - 1
        BY <2>1, <2>5, <3>1, LenProperties
      <3>3. x = SubSeq(c, (k - 1) * 64 + 1, k * 64)
        OBVIOUS
      <3> HIDE DEF s, x
      <3>4. /\ z \in Seq(Block) /\ Len(z) = Len(s) + 1 /\ z[Len(s) + 1] = x
            /\ \A b \in 1 .. Len(s) : z[b] = s[b]
        BY <2>4, <2>5, AppendProperties
      <3> HIDE DEF z
      <3>5. Len(z) = k
        BY <2>1, <3>2, <3>4
      <3>6. \A b \in 1 .. k : z[b] = SubSeq(c, (b - 1) * 64 + 1, b * 64)
        <4> TAKE b \in 1 .. k
        <4>1. CASE b = k
          <5>1. k = Len(s) + 1
            BY <2>1, <3>2
          <5>2. z[k] = SubSeq(c, (k - 1) * 64 + 1, k * 64)
            BY <3>3, <3>4, <5>1, Zenon
          <5> QED BY <4>1, <5>2, Zenon
        <4>2. CASE b # k
          <5>1. b \in 1 .. k - 1
            BY <2>1, <4>2
          <5> QED BY <3>1, <3>2, <3>4, <5>1
        <4> QED BY <4>1, <4>2
      <3>7. z \in [1 .. k -> Block]
        BY <3>4, <3>5, LenProperties
      <3>8. z = [b \in 1 .. k |-> SubSeq(c, (b - 1) * 64 + 1, b * 64)]
        BY <3>6, <3>7
      <3> QED BY <3>8, Zenon DEF BlocksOf, z
    <2>8. s \in Seq(Seq(Int))
      <3>1. Block \subseteq Seq(Int)
        BY DEF Block
      <3> QED BY <2>5, <3>1, SeqMonotonic
    <2> HIDE DEF s, x
    <2>9. Append(s, x) \in Seq(Block)
      BY <2>4, <2>5, AppendProperties
    <2>10. FlattenSeq(Append(s, x)) = FlattenSeq(s) \o x
      BY <2>3, <2>8, FlattenGrows DEF FlattenedMore
    <2> QED BY <2>5, <2>6, <2>7, <2>9, <2>10
  <1>4. 0 \in P /\ \A k \in 1 .. w : k - 1 \in P => k \in P
    <2> HIDE DEF Together
    <2> QED BY <1>2, <1>3
  <1> HIDE DEF P
  <1>5. w \in P
    <2>1. \A k \in 0 .. w : k \in P
      BY <1>4, Counting
    <2> QED BY <2>1
  <1> QED BY <1>5 DEF P

LengthBytes == [k \in 1 .. 8 |-> Sha!LengthByte(k)]

LEMMA ZerosFacts ==
  ASSUME NEW m \in Nat
  PROVE  Sha!Zeros(m) \in Seq(Int) /\ Len(Sha!Zeros(m)) = m /\ DOMAIN Sha!Zeros(m) = 1 .. m
         /\ \A k \in 1 .. m : Sha!Zeros(m)[k] = -1
  <1> DEFINE z == Sha!Zeros(m)
  <1>1. DOMAIN z = 1 .. m /\ \A k \in 1 .. m : z[k] = -1
    BY Zenon DEF Sha!Zeros, Sha!Zero
  <1>2. z \in [1 .. m -> Int]
    <2>1. Sha!Zero \in Int
      BY DEF Sha!Zero
    <2> QED BY <2>1, Zenon DEF Sha!Zeros
  <1> HIDE DEF z
  <1>3. z \in Seq(Int) /\ Len(z) = m
    BY <1>1, <1>2
  <1> QED BY <1>1, <1>3 DEF z

LEMMA ZerosJoin ==
  ASSUME NEW a \in Nat, NEW b \in Nat
  PROVE  Sha!Zeros(a) \o Sha!Zeros(b) = Sha!Zeros(a + b)
  <1> DEFINE x == Sha!Zeros(a)
             y == Sha!Zeros(b)
             z == Sha!Zeros(a + b)
             w == x \o y
  <1>1. a + b \in Nat
    OBVIOUS
  <1>2. /\ x \in Seq(Int) /\ Len(x) = a /\ \A k \in 1 .. a : x[k] = -1
        /\ y \in Seq(Int) /\ Len(y) = b /\ \A k \in 1 .. b : y[k] = -1
    BY ZerosFacts
  <1>3. z \in Seq(Int) /\ Len(z) = a + b /\ \A k \in 1 .. a + b : z[k] = -1
    BY <1>1, ZerosFacts
  <1> HIDE DEF x, y, z
  <1>4. /\ w \in Seq(Int) /\ Len(w) = Len(x) + Len(y)
        /\ \A i \in 1 .. Len(x) + Len(y) : w[i] = IF i <= Len(x) THEN x[i] ELSE y[i - Len(x)]
    BY <1>2, ConcatProperties
  <1> HIDE DEF w
  <1>5. \A i \in 1 .. a + b : w[i] = -1
    <2> TAKE i \in 1 .. a + b
    <2>1. i <= a => w[i] = x[i] /\ i \in 1 .. a
      BY <1>2, <1>4
    <2>2. ~ i <= a => w[i] = y[i - a] /\ i - a \in 1 .. b
      BY <1>2, <1>4
    <2> QED BY <1>2, <2>1, <2>2
  <1>6. w = z
    BY <1>2, <1>3, <1>4, <1>5, SeqEqual
  <1> QED BY <1>6 DEF w, x, y, z

LEMMA LengthBytesFacts ==
  LengthBytes \in Seq(Int) /\ Len(LengthBytes) = 8
  <1>1. DOMAIN LengthBytes = 1 .. 8
    BY Zenon DEF LengthBytes
  <1>2. \A k \in 1 .. 8 : Sha!LengthByte(k) \in Int
    BY DEF Sha!LengthByte
  <1>3. LengthBytes \in [1 .. 8 -> Int]
    BY <1>2, Zenon DEF LengthBytes
  <1> DEFINE n == 8
  <1>4. n \in Nat /\ DOMAIN LengthBytes = 1 .. n /\ LengthBytes \in [1 .. n -> Int]
    BY <1>1, <1>3
  <1> HIDE DEF n
  <1>5. LengthBytes \in Seq(Int) /\ Len(LengthBytes) = n
    BY <1>4
  <1> QED BY <1>5 DEF n

(* The last blocks: text, marker, zeros and length, one behind the other.  *)
Rest(b, z) == ((b \o <<0>>) \o z) \o LengthBytes

LEMMA RestFacts ==
  ASSUME NEW b \in Seq(Int), NEW z \in Seq(Int)
  PROVE  /\ b \o <<0>> \in Seq(Int) /\ Len(b \o <<0>>) = Len(b) + 1
         /\ (b \o <<0>>) \o z \in Seq(Int) /\ Len((b \o <<0>>) \o z) = Len(b) + 1 + Len(z)
         /\ Rest(b, z) \in Seq(Int) /\ Len(Rest(b, z)) = Len(b) + 1 + Len(z) + 8
  <1> DEFINE m == b \o <<0>>
             y == m \o z
  <1>1. <<0>> \in Seq(Int) /\ Len(<<0>>) = 1
    OBVIOUS
  <1>2. m \in Seq(Int) /\ Len(m) = Len(b) + 1
    BY <1>1, ConcatProperties
  <1> HIDE DEF m
  <1>3. y \in Seq(Int) /\ Len(y) = Len(b) + 1 + Len(z)
    <2>1. y \in Seq(Int) /\ Len(y) = Len(m) + Len(z)
      BY <1>2, ConcatProperties, Zenon
    <2> QED BY <1>2, <2>1, Zenon
  <1> HIDE DEF y
  <1>4. y \o LengthBytes \in Seq(Int) /\ Len(y \o LengthBytes) = Len(y) + Len(LengthBytes)
    BY <1>3, LengthBytesFacts, ConcatProperties
  <1>5. Rest(b, z) = y \o LengthBytes
    BY Zenon DEF Rest, y, m
  <1>6. Len(y \o LengthBytes) = Len(b) + 1 + Len(z) + 8
    BY <1>3, <1>4, LengthBytesFacts
  <1> QED BY <1>2, <1>3, <1>4, <1>5, <1>6 DEF m, y

(* What comes before them.                                                 *)
LEMMA RestBehind ==
  ASSUME NEW s \in Seq(Int), NEW b \in Seq(Int), NEW z \in Seq(Int)
  PROVE  s \o Rest(b, z) = Rest(s \o b, z)
  <1> DEFINE m == b \o <<0>>
             y == m \o z
  <1>1. m \in Seq(Int) /\ y \in Seq(Int) /\ <<0>> \in Seq(Int) /\ LengthBytes \in Seq(Int)
    BY RestFacts, LengthBytesFacts
  <1>2. (s \o b) \o <<0>> = s \o m
    <2>1. Regrouped(s, b, <<0>>)
      BY <1>1, Regrouping
    <2> QED BY <2>1, Zenon DEF Regrouped
  <1> HIDE DEF m
  <1>3. (s \o m) \o z = s \o y
    <2>1. Regrouped(s, m, z)
      BY <1>1, Regrouping
    <2> QED BY <2>1, Zenon DEF Regrouped
  <1> HIDE DEF y
  <1>4. (s \o y) \o LengthBytes = s \o (y \o LengthBytes)
    <2>1. Regrouped(s, y, LengthBytes)
      BY <1>1, Regrouping
    <2> QED BY <2>1, Zenon DEF Regrouped
  <1> QED BY <1>2, <1>3, <1>4, Zenon DEF Rest, m, y

(* Rest in two: the zeros are those of one block and those of the next.    *)
LEMMA RestInTwo ==
  ASSUME NEW b \in Seq(Int), NEW j \in Nat, NEW k \in Nat
  PROVE  ((b \o <<0>>) \o Sha!Zeros(j)) \o (Sha!Zeros(k) \o LengthBytes) = Rest(b, Sha!Zeros(j + k))
  <1> DEFINE m == b \o <<0>>
             x == Sha!Zeros(j)
             y == Sha!Zeros(k)
             z == Sha!Zeros(j + k)
  <1>1. x \in Seq(Int) /\ y \in Seq(Int) /\ x \o y = z
    BY ZerosFacts, ZerosJoin
  <1>2. m \in Seq(Int) /\ LengthBytes \in Seq(Int)
    BY <1>1, RestFacts, LengthBytesFacts
  <1> HIDE DEF m, x, y, z
  <1>3. (m \o x) \o y = m \o z
    <2>1. Regrouped(m, x, y)
      BY <1>1, <1>2, Regrouping
    <2> QED BY <1>1, <2>1, Zenon DEF Regrouped
  <1>4. m \o x \in Seq(Int)
    BY <1>1, <1>2, ConcatProperties
  <1>5. ((m \o x) \o y) \o LengthBytes = (m \o x) \o (y \o LengthBytes)
    <2>1. Regrouped(m \o x, y, LengthBytes)
      BY <1>1, <1>2, <1>4, Regrouping
    <2> QED BY <2>1, Zenon DEF Regrouped
  <1> QED BY <1>3, <1>5, Zenon DEF Rest, m, x, y, z

LEMMA OneOrTwo ==
  /\ \A x : Front(<<x>>) = <<>> /\ Last(<<x>>) = x
  /\ \A x, y : Front(<<x, y>>) = <<x>> /\ Last(<<x, y>>) = y
  <1>1. ASSUME NEW S, NEW s \in Seq(S), NEW c \in S, NEW z, z = s \o <<c>>
        PROVE  Front(z) = s /\ Last(z) = c
    BY <1>1, AppendedLast DEF Appended
  <1>2. ASSUME NEW x PROVE Front(<<x>>) = <<>> /\ Last(<<x>>) = x
    <2>1. <<>> \in Seq({x}) /\ x \in {x}
      OBVIOUS
    <2>2. <<x>> = <<>> \o <<x>>
      OBVIOUS
    <2> QED BY <2>1, <2>2, <1>1
  <1>3. ASSUME NEW x, NEW y PROVE Front(<<x, y>>) = <<x>> /\ Last(<<x, y>>) = y
    <2>1. <<x>> \in Seq({x, y}) /\ y \in {x, y}
      OBVIOUS
    <2>2. <<x, y>> = <<x>> \o <<y>>
      <3> DEFINE z == <<x>> \o <<y>>
      <3>1. <<y>> \in Seq({x, y}) /\ Len(<<x>>) = 1 /\ Len(<<y>>) = 1 /\ <<x>>[1] = x /\ <<y>>[1] = y
        OBVIOUS
      <3>2. /\ z \in Seq({x, y}) /\ Len(z) = 1 + 1
            /\ \A i \in 1 .. 1 + 1 : z[i] = IF i <= 1 THEN <<x>>[i] ELSE <<y>>[i - 1]
        BY <2>1, <3>1, ConcatProperties
      <3> HIDE DEF z
      <3>3. z[1] = x /\ z[2] = y /\ Len(z) = 2
        BY <3>1, <3>2
      <3>4. z = <<x, y>>
        BY <3>2, <3>3
      <3> QED BY <3>4 DEF z
    <2> QED BY <2>1, <2>2, <1>1
  <1> QED BY <1>2, <1>3

(* One block more.                                                         *)
LEMMA BlockMore ==
  ASSUME NEW s \in Seq(Block), NEW x \in Block
  PROVE  /\ s \o <<x>> \in Seq(Block)
         /\ FlattenSeq(s) \in Seq(Int) /\ FlattenSeq(s \o <<x>>) = FlattenSeq(s) \o x
  <1>1. Block \subseteq Seq(Int)
    BY DEF Block
  <1>2. s \in Seq(Seq(Int)) /\ x \in Seq(Int)
    BY <1>1, SeqMonotonic
  <1>3. Append(s, x) = s \o <<x>>
    BY AppendIsConcat
  <1>4. Append(s, x) \in Seq(Block)
    BY AppendProperties
  <1>5. FlattenedMore(s, x)
    BY <1>2, FlattenGrows
  <1>6. FlattenSeq(s) \in Seq(Int)
    BY <1>2, FlattenLayout
  <1> QED BY <1>3, <1>4, <1>5, <1>6, Zenon DEF FlattenedMore

(* A final block or two.                                                   *)
Finished(sha, zeros) ==
  /\ Sha!Final(sha) \in Seq(Block)
  /\ FlattenSeq(Sha!Final(sha)) = FlattenSeq(sha.blocks) \o Rest(sha.buffer, Sha!Zeros(zeros))

FinalIs(sha, filled) ==
  Sha!Final(sha) = (sha.blocks \o Front(filled)) \o <<Last(filled) \o LengthBytes>>

LEMMA Lengthened ==
  ASSUME NEW x \in Seq(Int)
  PROVE  x \o LengthBytes \in Seq(Int) /\ Len(x \o LengthBytes) = Len(x) + Len(LengthBytes)
  BY LengthBytesFacts, ConcatProperties

LEMMA LastBlock ==
  Sha!Zeros(56) \o LengthBytes \in Block
  <1> DEFINE o == Sha!Zeros(56)
             v == o \o LengthBytes
  <1>1. o \in Seq(Int) /\ Len(o) = 56
    BY ZerosFacts
  <1> HIDE DEF o
  <1>2. v \in Seq(Int) /\ Len(v) = Len(o) + Len(LengthBytes)
    BY <1>1, Lengthened
  <1> HIDE DEF v
  <1>3. Len(v) = 64
    BY <1>1, <1>2, LengthBytesFacts
  <1>4. v \in Block
    BY <1>2, <1>3 DEF Block
  <1> QED BY <1>4, Zenon DEF v, o

LEMMA FinalForm ==
  ASSUME NEW sha
  PROVE  FinalIs(sha, Sha!Fill(Append(sha.buffer, Sha!Marker)))
  <1>1. \A t : Sha!Front(t) = Front(t) /\ Sha!Last(t) = Last(t)
    BY Zenon DEF Sha!Front, Front, Sha!Last, Last
  <1> QED BY <1>1, Zenon DEF FinalIs, Sha!Final, LengthBytes

LEMMA FinalBlocks ==
  ASSUME NEW sha, sha.buffer \in Seq(Int), sha.blocks \in Seq(Block), Len(sha.buffer) \in 0 .. 63
  PROVE  Finished(sha, IF Len(sha.buffer) < 56 THEN 55 - Len(sha.buffer) ELSE 119 - Len(sha.buffer))
  <1> DEFINE b == sha.buffer
             s == sha.blocks
             r == Len(b)
             marked == b \o <<0>>
             filled == Sha!Fill(marked)
  <1>1. r \in 0 .. 63 /\ b \in Seq(Int) /\ s \in Seq(Block)
    OBVIOUS
  <1>2. FinalIs(sha, filled)
    <2>1. 0 \in Int
      OBVIOUS
    <2>2. Append(sha.buffer, 0) = marked
      BY <2>1, AppendIsConcat
    <2>3. Sha!Marker = 0
      BY DEF Sha!Marker
    <2>4. FinalIs(sha, Sha!Fill(Append(sha.buffer, Sha!Marker)))
      BY FinalForm
    <2> QED BY <2>2, <2>3, <2>4, Zenon
  <1>3. marked \in Seq(Int) /\ Len(marked) = r + 1
    <2>1. <<>> \in Seq(Int)
      OBVIOUS
    <2> QED BY <2>1, RestFacts
  <1>4. Sha!LengthAt = 56 /\ Sha!BlockSize = 64
    BY DEF Sha!LengthAt, Sha!BlockSize
  <1>5. CASE r < 56
    <2> DEFINE z == Sha!Zeros(55 - r)
               y == Rest(b, z)
    <2>1. 55 - r \in Nat
      BY <1>1, <1>5
    <2>2. z \in Seq(Int) /\ Len(z) = 55 - r
      BY <2>1, ZerosFacts
    <2>3. y \in Block
      <3>1. y \in Seq(Int) /\ Len(y) = r + 1 + (55 - r) + 8
        <4> HIDE DEF z
        <4>1. y \in Seq(Int) /\ Len(y) = Len(b) + 1 + Len(z) + 8
          BY <1>1, <2>2, RestFacts
        <4> QED BY <2>2, <4>1
      <3> HIDE DEF y
      <3>2. Len(y) = 64
        BY <1>1, <3>1
      <3> QED BY <3>1, <3>2 DEF Block
    <2>4. filled = <<marked \o z>>
      <3> HIDE DEF marked, r
      <3>1. ~ Len(marked) > 56 /\ 56 - Len(marked) = 55 - r
        BY <1>1, <1>3, <1>5
      <3> QED BY <1>4, <3>1, Zenon DEF Sha!Fill
    <2>5. Front(filled) = <<>> /\ Last(filled) = marked \o z
      BY <2>4, OneOrTwo, Zenon
    <2>6. Sha!Final(sha) = (s \o <<>>) \o <<y>>
      BY <1>2, <2>5, Zenon DEF FinalIs, Rest
    <2> HIDE DEF y, s
    <2>7. s \o <<>> = s
      BY <1>1, ConcatEmptySeq
    <2>8. s \o <<y>> \in Seq(Block) /\ FlattenSeq(s \o <<y>>) = FlattenSeq(s) \o y
      BY <1>1, <2>3, BlockMore
    <2>9. (IF Len(sha.buffer) < 56 THEN 55 - Len(sha.buffer) ELSE 119 - Len(sha.buffer)) = 55 - r
      BY <1>5, Zenon
    <2>10. Finished(sha, 55 - r)
      BY <2>6, <2>7, <2>8, Zenon DEF Finished, s, y
    <2> QED BY <2>9, <2>10, Zenon
  <1>6. CASE ~ r < 56
    <2> DEFINE j == 63 - r
               x == marked \o Sha!Zeros(j)
               y == Sha!Zeros(56) \o LengthBytes
    <2>1. j \in Nat /\ 56 \in Nat /\ j + 56 = 119 - r /\ r + 1 + j = 64
      <3> HIDE DEF r
      <3> QED BY <1>1, <1>6
    <2>2. Sha!Zeros(j) \in Seq(Int) /\ Len(Sha!Zeros(j)) = j
          /\ Sha!Zeros(56) \in Seq(Int) /\ Len(Sha!Zeros(56)) = 56
      <3> DEFINE o == 56
      <3>1. j \in Nat /\ o \in Nat
        BY <2>1
      <3> HIDE DEF j, o
      <3>2. Sha!Zeros(j) \in Seq(Int) /\ Len(Sha!Zeros(j)) = j
            /\ Sha!Zeros(o) \in Seq(Int) /\ Len(Sha!Zeros(o)) = o
        BY <3>1, ZerosFacts, Zenon
      <3> QED BY <3>2 DEF o
    <2>3. filled = <<x, Sha!Zeros(56)>>
      <3> HIDE DEF marked, r
      <3>1. Len(marked) > 56 /\ 64 - Len(marked) = 63 - r
        BY <1>1, <1>3, <1>6
      <3> QED BY <1>4, <3>1, Zenon DEF Sha!Fill, j
    <2>4. Front(filled) = <<x>> /\ Last(filled) = Sha!Zeros(56)
      <3> DEFINE o == Sha!Zeros(56)
      <3>1. filled = <<x, o>>
        BY <2>3
      <3> HIDE DEF x, o, filled
      <3>2. Front(<<x, o>>) = <<x>> /\ Last(<<x, o>>) = o
        BY OneOrTwo
      <3>3. Front(filled) = <<x>> /\ Last(filled) = o
        BY <3>1, <3>2
      <3> QED BY <3>3 DEF o
    <2>5. Sha!Final(sha) = (s \o <<x>>) \o <<y>>
      BY <1>2, <2>4, Zenon DEF FinalIs
    <2>6. x \o y = Rest(b, Sha!Zeros(119 - r))
      <3>1. x \o y = Rest(b, Sha!Zeros(j + 56))
        <4> DEFINE o == 56
        <4>1. o \in Nat /\ j \in Nat /\ b \in Seq(Int)
          BY <1>1, <2>1
        <4> HIDE DEF j, b, o
        <4>2. (marked \o Sha!Zeros(j)) \o (Sha!Zeros(o) \o LengthBytes) = Rest(b, Sha!Zeros(j + o))
          BY <4>1, RestInTwo, Zenon
        <4> QED BY <4>2 DEF o
      <3>2. j + 56 = 119 - r
        BY <2>1
      <3> HIDE DEF x, y, j, r
      <3> QED BY <3>1, <3>2, Zenon
    <2> HIDE DEF r, marked, j
    <2>7. x \in Block
      <3>1. x \in Seq(Int) /\ Len(x) = Len(marked) + Len(Sha!Zeros(j))
        <4>1. marked \in Seq(Int) /\ Sha!Zeros(j) \in Seq(Int)
          BY <1>3, <2>2
        <4> QED BY <4>1, ConcatProperties, Zenon
      <3> HIDE DEF x
      <3>2. Len(x) = 64
        BY <1>3, <2>1, <2>2, <3>1
      <3> QED BY <3>1, <3>2 DEF Block
    <2>8. y \in Block
      BY LastBlock
    <2> DEFINE u == s \o <<x>>
    <2> HIDE DEF x, y, s
    <2>9. u \in Seq(Block) /\ FlattenSeq(s) \in Seq(Int) /\ FlattenSeq(u) = FlattenSeq(s) \o x
      BY <1>1, <2>7, BlockMore
    <2> HIDE DEF u
    <2>10. u \o <<y>> \in Seq(Block) /\ FlattenSeq(u \o <<y>>) = FlattenSeq(u) \o y
      BY <2>8, <2>9, BlockMore
    <2>11. Regrouped(FlattenSeq(s), x, y)
      <3>1. x \in Seq(Int) /\ y \in Seq(Int)
        BY <2>7, <2>8 DEF Block
      <3> QED BY <2>9, <3>1, Regrouping
    <2>12. FlattenSeq(u \o <<y>>) = FlattenSeq(s) \o (x \o y)
      BY <2>9, <2>10, <2>11, Zenon DEF Regrouped
    <2>13. (IF Len(sha.buffer) < 56 THEN 55 - Len(sha.buffer) ELSE 119 - Len(sha.buffer)) = 119 - r
      BY <1>6, Zenon DEF r
    <2>14. Finished(sha, 119 - r)
      BY <2>5, <2>6, <2>10, <2>12, Zenon DEF Finished, s, u
    <2> QED BY <2>13, <2>14, Zenon
  <1> QED BY <1>5, <1>6

(* What update leaves of a whole text.                                     *)
Buffered(sha, c) ==
  LET w == Len(c) \div 64
  IN  /\ sha.buffer = SubSeq(c, w * 64 + 1, Len(c))
      /\ sha.blocks = BlocksOf(c, w)

LEMMA UpdateOnce ==
  ASSUME NEW c \in Seq(Int)
  PROVE  Buffered(Sha!Update(Sha!Fresh, c), c)
  <1> DEFINE w == Len(c) \div 64
             s == BlocksOf(c, w)
             sha == Sha!Update(Sha!Fresh, c)
  <1>1. Len(c) \in Nat /\ w \in Nat /\ w * 64 <= Len(c)
    <2>1. Len(c) \in Nat
      BY LenProperties
    <2> QED BY <2>1
  <1>2. Sha!Fresh.buffer = <<>> /\ Sha!Fresh.blocks = <<>> /\ Sha!BlockSize = 64
    BY DEF Sha!Fresh, Sha!BlockSize
  <1>3. <<>> \o c = c
    BY ConcatEmptySeq
  <1> DEFINE all == Sha!Fresh.buffer \o c
             x == SubSeq(all, (Len(all) \div 64) * 64 + 1, Len(all))
             y == Sha!Fresh.blocks
                  \o [b \in 1 .. Len(all) \div 64 |-> SubSeq(all, (b - 1) * 64 + 1, b * 64)]
  <1>4. sha = [buffer |-> x, blocks |-> y]
    BY <1>2, Zenon DEF Sha!Update
  <1>5. all = c
    BY <1>2, <1>3
  <1>6. x = SubSeq(c, w * 64 + 1, Len(c))
    BY <1>5, Zenon
  <1>7. y = <<>> \o s
    BY <1>2, <1>5, Zenon DEF BlocksOf
  <1>8. s \in Seq(Block)
    <2> HIDE DEF w
    <2> QED BY <1>1, WholeBlocks
  <1> HIDE DEF x, y, s, sha, w
  <1>9. <<>> \o s = s
    BY <1>8, ConcatEmptySeq
  <1>10. sha.buffer = x /\ sha.blocks = y
    BY <1>4
  <1> QED BY <1>6, <1>7, <1>9, <1>10, Zenon DEF Buffered, sha, s, w

(* Whole blocks: text, marker, zeros and length, one behind the other.     *)
Padded(n) ==
  LET blocks == Sha!Digest(n)
      zeros == (Sha!LengthAt - 1 - n) % Sha!BlockSize
  IN  /\ \A k \in DOMAIN blocks : Len(blocks[k]) = Sha!BlockSize
      /\ FlattenSeq(blocks) = [k \in 1 .. n |-> k] \o <<Sha!Marker>> \o Sha!Zeros(zeros)
                              \o [k \in 1 .. 8 |-> Sha!LengthByte(k)]

LEMMA TextIsPadded ==
  ASSUME NEW n \in Nat
  PROVE  Padded(n)
  <1> DEFINE c == [k \in 1 .. n |-> k]
             sha == Sha!Update(Sha!Fresh, c)
             w == n \div 64
             r == n % 64
             z == IF r < 56 THEN 55 - r ELSE 119 - r
             blocks == Sha!Digest(n)
  <1>1. c \in Seq(Int) /\ Len(c) = n
    <2>1. DOMAIN c = 1 .. n /\ c \in [1 .. n -> Int]
      OBVIOUS
    <2> HIDE DEF c
    <2> QED BY <2>1
  <1>2. w \in Nat /\ r \in 0 .. 63 /\ n = w * 64 + r
    BY Division
  <1> HIDE DEF r
  <1>3. (55 - n) % 64 = z
    <2> DEFINE m == 55 - n
               k == IF r < 56 THEN -w ELSE -w - 1
    <2>1. m \in Int /\ k \in Int /\ z \in 0 .. 64 - 1 /\ m = k * 64 + z
      <3> HIDE DEF w
      <3> QED BY <1>2
    <2> HIDE DEF m, k, z
    <2>2. m % 64 = z
      BY <2>1, DivModUnique
    <2> QED BY <2>2 DEF m
  <1>4. sha.buffer = SubSeq(c, w * 64 + 1, n) /\ sha.blocks = BlocksOf(c, w)
    <2>1. Buffered(sha, c)
      BY <1>1, UpdateOnce
    <2> HIDE DEF sha, c
    <2> QED BY <1>1, <2>1, Zenon DEF Buffered
  <1>5. blocks = Sha!Final(sha)
    BY Zenon DEF Sha!Digest
  <1> HIDE DEF c, sha, w
  <1>6. w * 64 \in 0 .. n
    BY <1>2
  <1>7. SubSeq(c, 1, w * 64) \o sha.buffer = c
    <2>1. InTwo(c, w * 64)
      BY <1>1, <1>6, CutInTwo
    <2> QED BY <1>1, <1>4, <2>1, Zenon DEF InTwo
  <1>8. sha.buffer \in Seq(Int) /\ Len(sha.buffer) = r
    <2>1. \A i \in w * 64 + 1 .. n : i \in 1 .. Len(c)
      BY <1>1, <1>2
    <2>2. \A i \in w * 64 + 1 .. n : c[i] \in Int
      BY <1>1, <2>1, ElementOfSeq
    <2>3. w * 64 + 1 \in Int /\ n \in Int
      BY <1>2
    <2>4. /\ SubSeq(c, w * 64 + 1, n) \in Seq(Int)
          /\ Len(SubSeq(c, w * 64 + 1, n)) = IF w * 64 + 1 <= n THEN n - (w * 64 + 1) + 1 ELSE 0
      BY <2>2, <2>3, SubSeqProperties
    <2>5. (IF w * 64 + 1 <= n THEN n - (w * 64 + 1) + 1 ELSE 0) = r
      BY <1>2
    <2> QED BY <1>4, <2>4, <2>5
  <1>9. sha.blocks \in Seq(Block) /\ FlattenSeq(sha.blocks) = SubSeq(c, 1, w * 64)
    <2>1. w * 64 <= Len(c)
      BY <1>1, <1>2
    <2> QED BY <1>1, <1>2, <1>4, <2>1, WholeBlocks
  <1>10. Finished(sha, z)
    BY <1>2, <1>8, <1>9, FinalBlocks
  <1>11. z \in Nat
    BY <1>2
  <1>12. Sha!Zeros(z) \in Seq(Int)
    BY <1>11, ZerosFacts
  <1>13. SubSeq(c, 1, w * 64) \in Seq(Int)
    BY <1>1, <1>6, SubSeqType
  <1> HIDE DEF z, blocks
  <1>14. SubSeq(c, 1, w * 64) \o Rest(sha.buffer, Sha!Zeros(z)) = Rest(c, Sha!Zeros(z))
    <2> DEFINE s == SubSeq(c, 1, w * 64)
               b == sha.buffer
               y == Sha!Zeros(z)
    <2>1. s \in Seq(Int) /\ b \in Seq(Int) /\ y \in Seq(Int) /\ s \o b = c
      BY <1>7, <1>8, <1>12, <1>13
    <2> HIDE DEF s, b, y
    <2>2. s \o Rest(b, y) = Rest(s \o b, y)
      BY <2>1, RestBehind
    <2>3. s \o Rest(b, y) = Rest(c, y)
      BY <2>1, <2>2, Zenon
    <2> QED BY <2>3 DEF s, b, y
  <1>15. FlattenSeq(blocks) = Rest(c, Sha!Zeros(z))
    BY <1>5, <1>9, <1>10, <1>14, Zenon DEF Finished
  <1>16. \A k \in DOMAIN blocks : Len(blocks[k]) = 64
    <2>1. blocks \in Seq(Block)
      BY <1>5, <1>10, Zenon DEF Finished
    <2>2. \A k \in DOMAIN blocks : blocks[k] \in Block
      BY <2>1, LenProperties, ElementOfSeq
    <2> QED BY <2>2 DEF Block
  <1>17. Sha!BlockSize = 64 /\ Sha!Marker = 0 /\ (Sha!LengthAt - 1 - n) % Sha!BlockSize = z
    <2>1. Sha!BlockSize = 64 /\ Sha!Marker = 0 /\ Sha!LengthAt - 1 - n = 55 - n
      BY DEF Sha!BlockSize, Sha!Marker, Sha!LengthAt
    <2> QED BY <1>3, <2>1
  <1> QED BY <1>15, <1>16, <1>17, Zenon DEF Padded, Rest, LengthBytes, blocks, c

(* For a text of any length, processBlock gets it in whole blocks, padded  *)
(* as SHA-1 demands (Sha1.cpp:17-52).                                      *)
THEOREM HashedTextIsPadded == Spec => []HashPadded
  <1>1. HashInv => HashPadded
    <2> SUFFICES ASSUME HashInv PROVE HashPadded
      OBVIOUS
    <2>1. Len(hashed) \in Nat
      BY LenProperties DEF HashInv
    <2>2. Padded(Len(hashed))
      BY <2>1, TextIsPadded
    <2> QED BY <2>2, Zenon DEF HashPadded, Padded
  <1> QED BY <1>1, HashInvariant, PTL
=============================================================================
