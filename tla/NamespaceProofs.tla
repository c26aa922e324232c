-------------------------- MODULE NamespaceProofs --------------------------
(***************************************************************************)
(* What holds of the index of every torrent, however many files it has and *)
(* whatever they are named: all properties of Namespace.                   *)
(*                                                                         *)
(* The proofs go from the data to the state: what the operators on texts,  *)
(* paths and names do to every text, then the inductive invariants of the  *)
(* two loops, IndexInv and NamesInv, then what follows of them.            *)
(***************************************************************************)
EXTENDS Namespace, DataTheorems

-----------------------------------------------------------------------------
(* URLs *)
LEMMA HexFacts ==
  /\ \A b \in Nat : fromHex(b) \in -1 .. 15
  /\ \A d \in 0 .. 15 : HexDigit(d) \in 0 .. 255 /\ fromHex(HexDigit(d)) = d
  /\ fromHex(Slash) = -1
  BY DEF fromHex, HexDigit, Decimals, Slash

(* What urlDecode makes of the byte or the escape at a position, and where *)
(* it goes on.                                                             *)
ByteAt(text, i) ==
  IF IsEscape(text, i) THEN 16 * fromHex(text[i + 1]) + fromHex(text[i + 2])
  ELSE IF text[i] = Plus THEN Space ELSE text[i]

AfterByte(text, i) == IF IsEscape(text, i) THEN i + 3 ELSE i + 1

DecodeLoop(text, from) ==
  from = [i \in 1 .. Len(text) + 1 |->
        IF i > Len(text) THEN <<>>
        ELSE IF IsEscape(text, i)
        THEN <<16 * fromHex(text[i + 1]) + fromHex(text[i + 2])>> \o from[i + 3]
        ELSE <<IF text[i] = Plus THEN Space ELSE text[i]>> \o from[i + 1]]

(* The text from each position on, decoded.                                *)
Decodes(text, from) ==
  /\ from \in [1 .. Len(text) + 1 -> Seq(0 .. 255)]
  /\ from[Len(text) + 1] = <<>>
  /\ \A i \in 1 .. Len(text) : from[i] = <<ByteAt(text, i)>> \o from[AfterByte(text, i)]

LEMMA ByteFacts ==
  ASSUME NEW text \in Seq(0 .. 255), NEW i \in 1 .. Len(text)
  PROVE  ByteAt(text, i) \in 0 .. 255 /\ AfterByte(text, i) \in i + 1 .. Len(text) + 1
  <1>1. Len(text) \in Nat /\ text[i] \in 0 .. 255
    BY LenProperties, ElementOfSeq
  <1>2. CASE IsEscape(text, i)
    <2>1. i + 2 <= Len(text) /\ fromHex(text[i + 1]) >= 0 /\ fromHex(text[i + 2]) >= 0
      BY <1>2 DEF IsEscape
    <2>2. i + 1 \in 1 .. Len(text) /\ i + 2 \in 1 .. Len(text)
      BY <1>1, <2>1
    <2>3. text[i + 1] \in Nat /\ text[i + 2] \in Nat
      <3>1. text[i + 1] \in 0 .. 255 /\ text[i + 2] \in 0 .. 255
        BY <2>2, ElementOfSeq
      <3>2. \A x \in 0 .. 255 : x \in Nat
        OBVIOUS
      <3> QED BY <3>1, <3>2
    <2>4. fromHex(text[i + 1]) \in 0 .. 15 /\ fromHex(text[i + 2]) \in 0 .. 15
      <3>1. fromHex(text[i + 1]) \in -1 .. 15 /\ fromHex(text[i + 2]) \in -1 .. 15
        BY <2>3, HexFacts
      <3> QED BY <2>1, <3>1
    <2>5. 16 * fromHex(text[i + 1]) + fromHex(text[i + 2]) \in 0 .. 255
      <3>1. \A x, y \in 0 .. 15 : 16 * x + y \in 0 .. 255
        OBVIOUS
      <3> QED BY <2>4, <3>1
    <2> QED BY <1>1, <1>2, <2>1, <2>5 DEF ByteAt, AfterByte
  <1>3. CASE ~ IsEscape(text, i)
    BY <1>1, <1>3 DEF ByteAt, AfterByte, Space
  <1> QED BY <1>2, <1>3

LEMMA DecodeExists ==
  ASSUME NEW text \in Seq(0 .. 255)
  PROVE  \E f : DecodeLoop(text, f)
  <1> DEFINE n == Len(text)
             D == 1 .. n + 1
             V == Seq(0 .. 255)
             Base == {n + 1}
             b == [i \in Base |-> <<>>]
             after == [i \in D \ Base |-> AfterByte(text, i)]
             step == [p \in (D \ Base) \X V |-> <<ByteAt(text, p[1])>> \o p[2]]
             R == Behind(n)
  <1>1. n \in Nat
    BY LenProperties
  <1>2. \A i \in 1 .. n : ByteAt(text, i) \in 0 .. 255 /\ AfterByte(text, i) \in i + 1 .. n + 1
    BY ByteFacts
  <1> HIDE DEF n
  <1>3. IsWellFoundedOn(R, D)
    <2>1. D \subseteq Nat \ {0}
      BY <1>1
    <2>2. IsWellFoundedOn(R, Nat \ {0})
      BY <1>1, BehindWellFounded
    <2> HIDE DEF D, R
    <2> QED BY <2>1, <2>2, IsWellFoundedOnSubset
  <1>4. D \ Base = 1 .. n /\ Base \in SUBSET D
    BY <1>1
  <1>5. b \in [Base -> V]
    <2>1. <<>> \in V
      BY EmptySeq
    <2> HIDE DEF V, Base
    <2> QED BY <2>1
  <1>6. after \in [D \ Base -> D] /\ \A i \in D \ Base : after[i] = AfterByte(text, i)
          /\ after[i] \in i + 1 .. n + 1
    <2>1. \A i \in D \ Base : AfterByte(text, i) \in i + 1 .. n + 1 /\ AfterByte(text, i) \in D
      BY <1>1, <1>2, <1>4
    <2> HIDE DEF D, Base
    <2> QED BY <2>1
  <1>7. \A i \in D \ Base, v \in V : <<ByteAt(text, i)>> \o v \in V
    <2> TAKE i \in D \ Base, v \in V
    <2>1. ByteAt(text, i) \in 0 .. 255
      BY <1>2, <1>4
    <2>2. <<ByteAt(text, i)>> \in Seq(0 .. 255)
      BY <2>1
    <2> QED BY <2>2, ConcatProperties
  <1>8. /\ step \in [(D \ Base) \X V -> V]
        /\ \A i \in D \ Base, v \in V : step[<<i, v>>] = <<ByteAt(text, i)>> \o v
    <2> HIDE DEF V, D, Base
    <2> QED BY <1>7
  <1>9. \A i \in D \ Base : <<after[i], i>> \in R
    <2> TAKE i \in D \ Base
    <2>1. after[i] \in i + 1 .. n + 1 /\ i \in 1 .. n
      BY <1>4, <1>6
    <2> HIDE DEF after, D, Base
    <2> QED BY <1>1, <2>1 DEF Behind
  <1> HIDE DEF D, V, b, after, step, R
  <1>10. IsRecursion(D, R, V, Base, b, after, step)
    BY <1>3, <1>4, <1>5, <1>6, <1>8, <1>9 DEF IsRecursion
  <1> HIDE DEF Base
  <1>11. PICK f : Recursive(f, D, V, Base, b, after, step)
    BY <1>10, RecursiveFunction
  <1>12. f \in [1 .. n + 1 -> V]
    BY <1>11 DEF Recursive, D
  <1> DEFINE turn(i) ==
        IF i > n THEN <<>>
        ELSE IF IsEscape(text, i)
        THEN <<16 * fromHex(text[i + 1]) + fromHex(text[i + 2])>> \o f[i + 3]
        ELSE <<IF text[i] = Plus THEN Space ELSE text[i]>> \o f[i + 1]
  <1>13. ASSUME NEW i \in 1 .. n + 1 PROVE f[i] = turn(i)
    <2>1. f[i] = IF i \in Base THEN b[i] ELSE step[<<i, f[after[i]]>>]
      BY <1>11 DEF Recursive, D
    <2>2. CASE i = n + 1
      <3>1. i \in Base /\ b[i] = <<>> /\ i > n
        BY <1>1, <2>2 DEF Base, b
      <3> QED BY <2>1, <3>1
    <2>3. CASE i # n + 1
      <3>1. i \in D \ Base /\ i \in 1 .. n /\ i \notin Base
        BY <1>1, <1>4, <2>3
      <3>2. after[i] = AfterByte(text, i) /\ after[i] \in 1 .. n + 1
        BY <1>1, <1>6, <3>1
      <3>3. f[after[i]] \in V
        BY <1>12, <3>2
      <3>4. f[i] = <<ByteAt(text, i)>> \o f[AfterByte(text, i)]
        BY <1>8, <2>1, <3>1, <3>2, <3>3
      <3>5. ~ (i > n)
        BY <1>1, <3>1
      <3>6. CASE IsEscape(text, i)
        BY <3>4, <3>5, <3>6 DEF ByteAt, AfterByte
      <3>7. CASE ~ IsEscape(text, i)
        BY <3>4, <3>5, <3>7 DEF ByteAt, AfterByte
      <3> QED BY <3>6, <3>7
    <2> QED BY <2>2, <2>3
  <1>14. f = [i \in 1 .. n + 1 |-> turn(i)]
    <2> HIDE DEF turn
    <2> QED BY <1>12, <1>13
  <1> QED BY <1>14 DEF DecodeLoop, n

LEMMA DecodeSteps ==
  ASSUME NEW text \in Seq(0 .. 255)
  PROVE  \E from : /\ Decodes(text, from)
                   /\ urlDecode(text) = IF text = <<>> THEN <<Slash>> ELSE from[1]
  <1> DEFINE n == Len(text)
             g == CHOOSE f : DecodeLoop(text, f)
  <1>1. n \in Nat
    BY LenProperties
  <1>2. DecodeLoop(text, g)
    <2>1. \E f : DecodeLoop(text, f)
      BY DecodeExists
    <2> QED BY <2>1
  <1>3. urlDecode(text) = IF text = <<>> THEN <<Slash>> ELSE g[1]
    BY DEF urlDecode, DecodeLoop
  <1> HIDE DEF g
  <1> DEFINE turn(i) ==
        IF i > n THEN <<>>
        ELSE IF IsEscape(text, i)
        THEN <<16 * fromHex(text[i + 1]) + fromHex(text[i + 2])>> \o g[i + 3]
        ELSE <<IF text[i] = Plus THEN Space ELSE text[i]>> \o g[i + 1]
  <1>4. g = [i \in 1 .. n + 1 |-> turn(i)]
    BY <1>2 DEF DecodeLoop
  <1>5. \A i \in 1 .. n : ByteAt(text, i) \in 0 .. 255 /\ AfterByte(text, i) \in i + 1 .. n + 1
    BY ByteFacts
  <1> HIDE DEF n
  <1>6. \A i \in 1 .. n + 1 : g[i] = turn(i)
    <2> HIDE DEF turn
    <2> QED BY <1>4, Zenon
  <1>7. g[n + 1] = <<>>
    <2>1. n + 1 \in 1 .. n + 1 /\ n + 1 > n
      BY <1>1
    <2> QED BY <1>6, <2>1
  <1>8. ASSUME NEW i \in 1 .. n PROVE g[i] = <<ByteAt(text, i)>> \o g[AfterByte(text, i)]
    <2>1. i \in 1 .. n + 1 /\ ~ (i > n)
      BY <1>1
    <2>2. g[i] = turn(i)
      BY <1>6, <2>1
    <2>3. CASE IsEscape(text, i)
      BY <2>1, <2>2, <2>3 DEF ByteAt, AfterByte
    <2>4. CASE ~ IsEscape(text, i)
      BY <2>1, <2>2, <2>4 DEF ByteAt, AfterByte
    <2> QED BY <2>3, <2>4
  <1> HIDE DEF turn
  <1> DEFINE P == {m \in 0 .. n : \A i \in n + 1 - m .. n + 1 : g[i] \in Seq(0 .. 255)}
  <1>9. 0 \in P
    <2>1. <<>> \in Seq(0 .. 255)
      BY EmptySeq
    <2>2. \A i \in n + 1 - 0 .. n + 1 : i = n + 1
      BY <1>1
    <2>3. \A i \in n + 1 - 0 .. n + 1 : g[i] \in Seq(0 .. 255)
      BY <1>7, <2>1, <2>2
    <2> QED BY <1>1, <2>3
  <1>10. ASSUME NEW m \in 1 .. n, m - 1 \in P PROVE m \in P
    <2> DEFINE i == n + 1 - m
    <2>1. /\ i \in 1 .. n /\ m \in 0 .. n
          /\ \A j \in i .. n + 1 : j = i \/ j \in i + 1 .. n + 1
          /\ n + 1 - (m - 1) = i + 1
      BY <1>1
    <2>2. \A j \in i + 1 .. n + 1 : g[j] \in Seq(0 .. 255)
      <3>1. \A j \in n + 1 - (m - 1) .. n + 1 : g[j] \in Seq(0 .. 255)
        BY <1>10
      <3> QED BY <2>1, <3>1
    <2> HIDE DEF P
    <2>3. g[i] \in Seq(0 .. 255)
      <3> HIDE DEF i
      <3>1. ByteAt(text, i) \in 0 .. 255 /\ g[AfterByte(text, i)] \in Seq(0 .. 255)
        BY <1>5, <2>1, <2>2
      <3>2. <<ByteAt(text, i)>> \in Seq(0 .. 255)
        BY <3>1
      <3>3. g[i] = <<ByteAt(text, i)>> \o g[AfterByte(text, i)]
        BY <1>8, <2>1
      <3> QED BY <3>1, <3>2, <3>3, ConcatProperties
    <2>4. \A j \in i .. n + 1 : g[j] \in Seq(0 .. 255)
      BY <2>1, <2>2, <2>3
    <2> QED BY <2>1, <2>4 DEF P
  <1> HIDE DEF P
  <1>11. \A m \in 0 .. n : m \in P
    BY <1>1, <1>9, <1>10, Counting
  <1>12. \A i \in 1 .. n + 1 : g[i] \in Seq(0 .. 255)
    <2>1. n \in P /\ n + 1 - n = 1
      BY <1>1, <1>11
    <2> QED BY <2>1 DEF P
  <1>13. g \in [1 .. n + 1 -> Seq(0 .. 255)]
    <2>1. DOMAIN g = 1 .. n + 1
      <3> HIDE DEF turn
      <3> QED BY <1>4
    <2>2. g = [i \in 1 .. n + 1 |-> g[i]]
      <3> HIDE DEF turn
      <3> QED BY <1>4
    <2> QED BY <1>12, <2>2
  <1>14. Decodes(text, g)
    BY <1>7, <1>8, <1>13 DEF Decodes, n
  <1> QED BY <1>3, <1>14

(* A text and its encoding, byte by byte: at[k] bytes stand for the first  *)
(* k.                                                                      *)
CodedByte(b, x, from, to) ==
  \/ to = from + 1 /\ x[to] = b /\ b \notin {Percent, Plus}
  \/ /\ to = from + 3 /\ x[from + 1] = Percent
     /\ x[from + 2] = HexDigit(b \div 16) /\ x[from + 3] = HexDigit(b % 16)

Coded(u, x, at) ==
  /\ at \in [0 .. Len(u) -> 0 .. Len(x)]
  /\ at[0] = 0 /\ at[Len(u)] = Len(x)
  /\ \A k \in 1 .. Len(u) : CodedByte(u[k], x, at[k - 1], at[k])

LEMMA EncodingType ==
  ASSUME NEW b \in 0 .. 255
  PROVE  <<Percent, HexDigit(b \div 16), HexDigit(b % 16)>> \in Seq(0 .. 255)
  <1>1. b \div 16 \in 0 .. 15 /\ b % 16 \in 0 .. 15
    OBVIOUS
  <1>2. HexDigit(b \div 16) \in 0 .. 255 /\ HexDigit(b % 16) \in 0 .. 255 /\ Percent \in 0 .. 255
    BY <1>1, HexFacts DEF Percent
  <1> QED BY <1>2

(* What an encoder may keep of a text. *)
Keepable(u, kept) == \A k \in 1 .. Len(u) : u[k] \in kept => u[k] \notin {Percent, Plus}

LEMMA EscapingIsCoded ==
  ASSUME NEW u \in Seq(0 .. 255), NEW kept, Keepable(u, kept)
  PROVE  Escaped(u, kept) \in Seq(0 .. 255) /\ \E at : Coded(u, Escaped(u, kept), at)
  <1> DEFINE S == 0 .. 255
             n == Len(u)
             escape(k) == <<Percent, HexDigit(u[k] \div 16), HexDigit(u[k] % 16)>>
             piece(k) == IF u[k] \in kept THEN <<u[k]>> ELSE escape(k)
             pieces == [k \in DOMAIN u |-> piece(k)]
             x == FlattenSeq(pieces)
  <1>1. n \in Nat /\ DOMAIN u = 1 .. n /\ \A k \in 1 .. n : u[k] \in S
    BY LenProperties, ElementOfSeq
  <1>2. Escaped(u, kept) = x
    BY DEF Escaped
  <1>3. \A k \in 1 .. n : piece(k) \in Seq(S)
    <2> TAKE k \in 1 .. n
    <2> DEFINE b == u[k]
    <2>1. b \in 0 .. 255
      BY <1>1
    <2> HIDE DEF b
    <2>2. <<b>> \in Seq(0 .. 255)
      BY <2>1
    <2>3. <<Percent, HexDigit(b \div 16), HexDigit(b % 16)>> \in Seq(0 .. 255)
      BY <2>1, EncodingType
    <2>4. <<u[k]>> \in Seq(S) /\ escape(k) \in Seq(S)
      BY <2>2, <2>3 DEF b
    <2> QED BY <2>4
  <1> HIDE DEF n, S, piece
  <1>4. pieces \in Seq(Seq(S)) /\ Len(pieces) = n /\ \A k \in 1 .. n : pieces[k] = piece(k)
    BY <1>1, <1>3
  <1> HIDE DEF pieces
  <1>5. x \in Seq(S) /\ \E at : Layout(pieces, x, at)
    BY <1>4, FlattenLayout
  <1> HIDE DEF x
  <1>6. PICK at : Layout(pieces, x, at)
    BY <1>5
  <1>7. at \in [0 .. n -> 0 .. Len(x)] /\ at[0] = 0 /\ at[n] = Len(x)
    BY <1>4, <1>6 DEF Layout
  <1>8. ASSUME NEW k \in 1 .. n PROVE CodedByte(u[k], x, at[k - 1], at[k])
    <2>1. /\ at[k] = at[k - 1] + Len(piece(k))
          /\ \A j \in 1 .. Len(piece(k)) : x[at[k - 1] + j] = piece(k)[j]
      BY <1>4, <1>6 DEF Layout
    <2>2. CASE u[k] \in kept
      <3>1. piece(k) = <<u[k]>> /\ Len(<<u[k]>>) = 1 /\ <<u[k]>>[1] = u[k]
        BY <2>2 DEF piece
      <3>2. at[k] = at[k - 1] + 1 /\ x[at[k - 1] + 1] = u[k]
        BY <2>1, <3>1
      <3>3. u[k] \notin {Percent, Plus}
        <4>1. k \in 1 .. Len(u)
          BY DEF n
        <4> QED BY <2>2, <4>1 DEF Keepable
      <3> QED BY <3>2, <3>3 DEF CodedByte
    <2>3. CASE u[k] \notin kept
      <3> DEFINE e == escape(k)
      <3>1. piece(k) = e
        BY <2>3 DEF piece
      <3>2. Len(e) = 3 /\ e[1] = Percent /\ e[2] = HexDigit(u[k] \div 16)
              /\ e[3] = HexDigit(u[k] % 16)
        OBVIOUS
      <3> HIDE DEF e
      <3>3. /\ at[k] = at[k - 1] + 3
            /\ x[at[k - 1] + 1] = e[1] /\ x[at[k - 1] + 2] = e[2] /\ x[at[k - 1] + 3] = e[3]
        BY <2>1, <3>1, <3>2
      <3> QED BY <3>2, <3>3 DEF CodedByte
    <2> QED BY <2>2, <2>3
  <1>9. Coded(u, x, at)
    BY <1>7, <1>8 DEF Coded, n
  <1> QED BY <1>2, <1>5, <1>9 DEF S

LEMMA EncodingIsCoded ==
  ASSUME NEW u \in Seq(0 .. 255)
  PROVE  percentEncodePath(u) \in Seq(0 .. 255) /\ \E at : Coded(u, percentEncodePath(u), at)
  <1>1. \A b \in Unreserved : b \notin {Percent, Plus}
    BY DEF Unreserved, Capital, Small, Decimals, Slash, Percent, Plus
  <1>2. Keepable(u, Unreserved)
    BY <1>1 DEF Keepable
  <1> QED BY <1>2, EscapingIsCoded DEF percentEncodePath

(* A text holds another one behind its first i bytes.                      *)
Holds(text, x, i) == i + Len(x) <= Len(text) /\ \A j \in 1 .. Len(x) : text[i + j] = x[j]

RunDecoded(from, u, x, i) == from[i + 1] = u \o from[i + Len(x) + 1]
GoneToSlash(from, own, n) == from[1] = own[1] \o (<<Slash>> \o from[n + 2])

(* An encoding inside a text is decoded to what it stands for.             *)
LEMMA DecodeRun ==
  ASSUME NEW text \in Seq(0 .. 255), NEW from, Decodes(text, from),
         NEW u \in Seq(0 .. 255), NEW x \in Seq(0 .. 255), NEW at, Coded(u, x, at),
         NEW i \in Nat, Holds(text, x, i)
  PROVE  RunDecoded(from, u, x, i)
  <1> DEFINE n == Len(u)
             l == Len(x)
             m == Len(text)
             S == 0 .. 255
             Q(k) == from[i + 1] = SubSeq(u, 1, k) \o from[i + at[k] + 1]
             P == {k \in 0 .. n : Q(k)}
  <1>1. /\ n \in Nat /\ l \in Nat /\ m \in Nat /\ i + l <= m
        /\ \A j \in 1 .. l : text[i + j] = x[j]
        /\ \A k \in 1 .. n : u[k] \in S
    BY LenProperties, ElementOfSeq DEF Holds
  <1>2. /\ at \in [0 .. n -> 0 .. l] /\ at[0] = 0 /\ at[n] = l
        /\ \A k \in 1 .. n : CodedByte(u[k], x, at[k - 1], at[k])
    BY DEF Coded
  <1>3. /\ from \in [1 .. m + 1 -> Seq(S)]
        /\ \A j \in 1 .. m : from[j] = <<ByteAt(text, j)>> \o from[AfterByte(text, j)]
    BY DEF Decodes
  <1>4. \A k \in 0 .. n : SubSeq(u, 1, k) \in Seq(S)
    <2> TAKE k \in 0 .. n
    <2>1. k \in Int /\ \A j \in 1 .. k : u[j] \in S
      BY <1>1
    <2> QED BY <2>1, SubSeqProperties
  <1>5. m = Len(text) /\ n = Len(u)
    OBVIOUS
  <1> HIDE DEF n, l, m, S
  <1>6. 0 \in P
    <2>1. SubSeq(u, 1, 0) = <<>>
      BY SubSeqEmpty
    <2>2. i + 1 \in 1 .. m + 1 /\ i + at[0] + 1 = i + 1
      BY <1>1, <1>2
    <2>3. from[i + 1] \in Seq(S)
      BY <1>3, <2>2
    <2>4. <<>> \o from[i + 1] = from[i + 1]
      BY <2>3, ConcatEmptySeq
    <2>5. Q(0)
      BY <2>1, <2>2, <2>4
    <2> HIDE DEF Q
    <2> QED BY <1>1, <2>5
  <1>7. ASSUME NEW k \in 1 .. n PROVE from[i + at[k - 1] + 1] = <<u[k]>> \o from[i + at[k] + 1]
    <2> DEFINE j == i + at[k - 1] + 1
               a == at[k - 1]
               z == at[k]
    <2>1. a \in 0 .. l /\ z \in 0 .. l /\ CodedByte(u[k], x, a, z)
      <3>1. k - 1 \in 0 .. n /\ k \in 0 .. n
        BY <1>1
      <3> QED BY <1>2, <3>1
    <2>2. u[k] \in 0 .. 255
      BY <1>1 DEF S
    <2> HIDE DEF a, z
    <2>3. j = i + a + 1
      BY DEF a
    <2> HIDE DEF j
    <2>4. CASE z = a + 1 /\ x[z] = u[k] /\ u[k] \notin {Percent, Plus}
      <3>1. j \in 1 .. m /\ z \in 1 .. l /\ i + z = j
        <4>1. z = a + 1 /\ a \in 0 .. l /\ z \in 0 .. l
          BY <2>1, <2>4
        <4>2. l \in Nat /\ m \in Nat /\ i + l <= m
          BY <1>1
        <4> QED BY <2>3, <4>1, <4>2
      <3>2. text[j] = u[k]
        BY <1>1, <2>4, <3>1
      <3>3. ~ IsEscape(text, j)
        BY <2>4, <3>2 DEF IsEscape
      <3>4. ByteAt(text, j) = u[k] /\ AfterByte(text, j) = j + 1
        BY <2>4, <3>2, <3>3 DEF ByteAt, AfterByte
      <3>5. j + 1 = i + z + 1
        BY <2>1, <2>3, <2>4
      <3> QED BY <1>3, <3>1, <3>4, <3>5 DEF a, z, j
    <2>5. CASE /\ z = a + 3 /\ x[a + 1] = Percent
               /\ x[a + 2] = HexDigit(u[k] \div 16) /\ x[a + 3] = HexDigit(u[k] % 16)
      <3>1. /\ j \in 1 .. m /\ j + 2 <= m
            /\ a + 1 \in 1 .. l /\ a + 2 \in 1 .. l /\ a + 3 \in 1 .. l
            /\ i + (a + 1) = j /\ i + (a + 2) = j + 1 /\ i + (a + 3) = j + 2
        <4>1. z = a + 3 /\ a \in 0 .. l /\ z \in 0 .. l
          BY <2>1, <2>5
        <4>2. l \in Nat /\ m \in Nat /\ i + l <= m
          BY <1>1
        <4> QED BY <2>3, <4>1, <4>2
      <3> DEFINE c == u[k] \div 16
                 d == u[k] % 16
      <3>2. c \in 0 .. 15 /\ d \in 0 .. 15 /\ 16 * c + d = u[k]
        <4>1. \A b \in 0 .. 255 :
                b \div 16 \in 0 .. 15 /\ b % 16 \in 0 .. 15 /\ 16 * (b \div 16) + (b % 16) = b
          OBVIOUS
        <4> QED BY <2>2, <4>1
      <3> HIDE DEF c, d
      <3>3. x[a + 1] = Percent /\ x[a + 2] = HexDigit(c) /\ x[a + 3] = HexDigit(d)
        BY <2>5 DEF c, d
      <3>4. text[j] = Percent /\ text[j + 1] = HexDigit(c) /\ text[j + 2] = HexDigit(d)
        <4>1. /\ text[i + (a + 1)] = x[a + 1] /\ text[i + (a + 2)] = x[a + 2]
              /\ text[i + (a + 3)] = x[a + 3]
          BY <1>1, <3>1
        <4> QED BY <3>1, <3>3, <4>1
      <3>5. fromHex(text[j + 1]) = c /\ fromHex(text[j + 2]) = d
        BY <3>2, <3>4, HexFacts
      <3>6. IsEscape(text, j)
        <4>1. j + 2 <= Len(text)
          BY <1>5, <3>1
        <4>2. c >= 0 /\ d >= 0
          BY <3>2
        <4> QED BY <3>4, <3>5, <4>1, <4>2 DEF IsEscape
      <3>7. ByteAt(text, j) = u[k] /\ AfterByte(text, j) = j + 3
        BY <3>2, <3>5, <3>6 DEF ByteAt, AfterByte
      <3>8. j + 3 = i + z + 1
        BY <2>1, <2>3, <2>5
      <3> QED BY <1>3, <3>1, <3>7, <3>8 DEF a, z, j
    <2> QED BY <2>1, <2>4, <2>5 DEF CodedByte
  <1>8. ASSUME NEW k \in 1 .. n, k - 1 \in P PROVE k \in P
    <2>1. k \in 0 .. n /\ k - 1 \in 0 .. n
      BY <1>1
    <2>2. Q(k - 1)
      <3> HIDE DEF Q
      <3> QED BY <1>8
    <2>3. SubSeq(u, 1, k) = SubSeq(u, 1, k - 1) \o <<u[k]>>
      <3>1. k \in 1 .. Len(u) /\ 1 \in 1 .. Len(u)
        BY <1>1, <1>5
      <3>2. k \in 1 .. Len(u)
        BY <3>1
      <3> QED BY <3>1, <3>2, SubSeqRecursiveSecond
    <2>4. /\ SubSeq(u, 1, k - 1) \in Seq(S) /\ <<u[k]>> \in Seq(S)
          /\ from[i + at[k] + 1] \in Seq(S)
      <3>1. i + at[k] + 1 \in 1 .. m + 1
        <4>1. at[k] \in 0 .. l
          BY <1>2, <2>1
        <4> QED BY <1>1, <4>1
      <3>2. u[k] \in S
        BY <1>1
      <3> QED BY <1>3, <1>4, <2>1, <3>1, <3>2
    <2>5. from[i + 1] = SubSeq(u, 1, k - 1) \o (<<u[k]>> \o from[i + at[k] + 1])
      BY <1>7, <2>2
    <2> DEFINE s == SubSeq(u, 1, k - 1)
               t == <<u[k]>>
               v == from[i + at[k] + 1]
    <2>6. (s \o t) \o v = s \o (t \o v)
      <3>1. s \in Seq(S) /\ t \in Seq(S) /\ v \in Seq(S)
        BY <2>4
      <3> HIDE DEF s, t, v
      <3>2. Regrouped(s, t, v)
        BY <3>1, Regrouping
      <3> QED BY <3>2, Zenon DEF Regrouped
    <2>7. Q(k)
      BY <2>3, <2>5, <2>6
    <2> HIDE DEF Q
    <2> QED BY <2>1, <2>7
  <1> HIDE DEF P
  <1>9. \A k \in 0 .. n : k \in P
    BY <1>1, <1>6, <1>8, Counting
  <1>10. n \in P /\ SubSeq(u, 1, n) = u
    BY <1>1, <1>9, SubSeqFull DEF n
  <1> QED BY <1>2, <1>10 DEF P, l, RunDecoded

(* Decoding goes on behind a slash as if the text had begun there.         *)
LEMMA DecodeToSlash ==
  ASSUME NEW text \in Seq(0 .. 255), NEW from, Decodes(text, from),
         NEW b \in Seq(0 .. 255), NEW own, Decodes(b, own),
         Holds(text, b, 0), Len(b) + 1 <= Len(text), text[Len(b) + 1] = Slash
  PROVE  GoneToSlash(from, own, Len(b))
  <1> DEFINE n == Len(b)
             m == Len(text)
             S == 0 .. 255
             Q(k) == \A i \in n + 1 - k .. n + 1 : from[i] = own[i] \o from[n + 1]
             P == {k \in 0 .. n : Q(k)}
  <1>1. n \in Nat /\ m \in Nat /\ n + 1 <= m /\ text[n + 1] = Slash
          /\ \A j \in 1 .. n : text[j] = b[j]
    BY LenProperties DEF Holds
  <1>2. /\ from \in [1 .. m + 1 -> Seq(S)]
        /\ \A j \in 1 .. m : from[j] = <<ByteAt(text, j)>> \o from[AfterByte(text, j)]
    BY DEF Decodes
  <1>3. /\ own \in [1 .. n + 1 -> Seq(S)] /\ own[n + 1] = <<>>
        /\ \A j \in 1 .. n : own[j] = <<ByteAt(b, j)>> \o own[AfterByte(b, j)]
    BY DEF Decodes
  <1>4. \A i \in 1 .. n : ByteAt(b, i) \in S /\ AfterByte(b, i) \in i + 1 .. n + 1
    BY ByteFacts
  <1>5. m = Len(text) /\ n = Len(b)
    OBVIOUS
  <1> HIDE DEF n, m, S
  <1>6. ASSUME NEW i \in 1 .. n
        PROVE  ByteAt(text, i) = ByteAt(b, i) /\ AfterByte(text, i) = AfterByte(b, i)
    <2>1. text[i] = b[i] /\ i \in 1 .. m
      BY <1>1
    <2>2. IsEscape(text, i) => IsEscape(b, i)
      <3> SUFFICES ASSUME IsEscape(text, i) PROVE IsEscape(b, i)
        OBVIOUS
      <3>1. /\ text[i] = Percent /\ fromHex(text[i + 1]) >= 0 /\ fromHex(text[i + 2]) >= 0
        BY DEF IsEscape
      <3>2. fromHex(Slash) = -1
        BY HexFacts
      <3>3. i + 1 # n + 1 /\ i + 2 # n + 1
        BY <1>1, <3>1, <3>2
      <3>4. i + 2 <= n /\ i + 1 \in 1 .. n /\ i + 2 \in 1 .. n
        BY <1>1, <3>3
      <3> QED BY <1>1, <1>5, <2>1, <3>1, <3>4 DEF IsEscape
    <2>3. IsEscape(b, i) =>
            IsEscape(text, i) /\ text[i + 1] = b[i + 1] /\ text[i + 2] = b[i + 2]
      <3> SUFFICES ASSUME IsEscape(b, i)
                   PROVE  IsEscape(text, i) /\ text[i + 1] = b[i + 1] /\ text[i + 2] = b[i + 2]
        OBVIOUS
      <3>1. i + 2 <= n
        BY <1>5 DEF IsEscape
      <3>2. i + 2 <= m /\ i + 1 \in 1 .. n /\ i + 2 \in 1 .. n
        BY <1>1, <3>1
      <3>3. text[i + 1] = b[i + 1] /\ text[i + 2] = b[i + 2]
        BY <1>1, <3>2
      <3> QED BY <1>5, <2>1, <3>2, <3>3 DEF IsEscape
    <2> QED BY <2>1, <2>2, <2>3 DEF ByteAt, AfterByte
  <1>7. 0 \in P
    <2>1. \A i \in n + 1 - 0 .. n + 1 : i = n + 1
      BY <1>1
    <2>2. from[n + 1] \in Seq(S)
      <3>1. n + 1 \in 1 .. m + 1
        BY <1>1
      <3> QED BY <1>2, <3>1
    <2>3. from[n + 1] = own[n + 1] \o from[n + 1]
      BY <1>3, <2>2, ConcatEmptySeq
    <2>4. Q(0)
      BY <2>1, <2>3
    <2> HIDE DEF Q
    <2> QED BY <1>1, <2>4
  <1>8. ASSUME NEW k \in 1 .. n, k - 1 \in P PROVE k \in P
    <2> DEFINE i == n + 1 - k
    <2>1. /\ i \in 1 .. n /\ k \in 0 .. n
          /\ \A j \in i .. n + 1 : j = i \/ j \in i + 1 .. n + 1
          /\ n + 1 - (k - 1) = i + 1
      BY <1>1
    <2>2. \A j \in i + 1 .. n + 1 : from[j] = own[j] \o from[n + 1]
      <3>1. Q(k - 1)
        <4> HIDE DEF Q
        <4> QED BY <1>8
      <3> QED BY <2>1, <3>1
    <2> HIDE DEF P
    <2>3. from[i] = own[i] \o from[n + 1]
      <3> HIDE DEF i
      <3> DEFINE c == ByteAt(b, i)
                 z == AfterByte(b, i)
      <3>1. c \in S /\ z \in i + 1 .. n + 1 /\ own[i] = <<c>> \o own[z]
        BY <1>3, <1>4, <2>1
      <3>2. from[i] = <<c>> \o from[z]
        <4>1. i \in 1 .. m
          BY <1>1, <2>1
        <4> QED BY <1>2, <1>6, <2>1, <4>1
      <3> HIDE DEF c, z
      <3>3. from[z] = own[z] \o from[n + 1]
        BY <2>2, <3>1
      <3> DEFINE s == <<c>>
                 t == own[z]
                 v == from[n + 1]
      <3>4. n + 1 \in 1 .. m + 1 /\ z \in 1 .. n + 1
        BY <1>1, <2>1, <3>1
      <3>5. s \in Seq(S)
        BY <3>1
      <3>6. t \in Seq(S) /\ v \in Seq(S)
        BY <1>2, <1>3, <3>4
      <3>7. (s \o t) \o v = s \o (t \o v)
        <4> HIDE DEF s, t, v
        <4>1. Regrouped(s, t, v)
          BY <3>5, <3>6, Regrouping
        <4> QED BY <4>1, Zenon DEF Regrouped
      <3> QED BY <3>1, <3>2, <3>3, <3>7
    <2>4. Q(k)
      BY <2>1, <2>2, <2>3
    <2> HIDE DEF Q
    <2> QED BY <2>1, <2>4 DEF P
  <1> HIDE DEF P
  <1>9. \A k \in 0 .. n : k \in P
    BY <1>1, <1>7, <1>8, Counting
  <1>10. from[1] = own[1] \o from[n + 1]
    <2>1. n \in P /\ n + 1 - n = 1 /\ 1 \in 1 .. n + 1
      BY <1>1, <1>9
    <2> QED BY <2>1 DEF P
  <1>11. from[n + 1] = <<Slash>> \o from[n + 2]
    <2>1. n + 1 \in 1 .. m /\ n + 1 + 1 = n + 2
      BY <1>1
    <2>2. ~ IsEscape(text, n + 1)
      BY <1>1 DEF IsEscape, Percent, Slash
    <2>3. ByteAt(text, n + 1) = Slash /\ AfterByte(text, n + 1) = n + 1 + 1
      BY <1>1, <2>2 DEF ByteAt, AfterByte, Plus, Slash
    <2> QED BY <1>2, <2>1, <2>3
  <1> QED BY <1>10, <1>11 DEF n, GoneToSlash

(* What is encoded and decoded again is what it was.                       *)
LEMMA EscapedIsDecoded ==
  ASSUME NEW u \in Seq(0 .. 255), u # <<>>, NEW kept, Keepable(u, kept)
  PROVE  urlDecode(Escaped(u, kept)) = u
  <1> DEFINE x == Escaped(u, kept)
             n == Len(u)
  <1>1. x \in Seq(0 .. 255) /\ \E at : Coded(u, x, at)
    BY EscapingIsCoded
  <1>2. n \in Nat /\ n # 0
    BY EmptySeq, LenProperties
  <1> HIDE DEF x
  <1>3. PICK at : Coded(u, x, at)
    BY <1>1
  <1>4. PICK from : /\ Decodes(x, from)
                    /\ urlDecode(x) = IF x = <<>> THEN <<Slash>> ELSE from[1]
    BY <1>1, DecodeSteps
  <1>5. Len(x) \in Nat
    BY <1>1, LenProperties
  <1>6. Len(x) # 0
    <2>1. /\ at \in [0 .. n -> 0 .. Len(x)] /\ at[0] = 0
          /\ \A k \in 1 .. n : CodedByte(u[k], x, at[k - 1], at[k])
      BY <1>3 DEF Coded
    <2> HIDE DEF n
    <2>2. CodedByte(u[1], x, 0, at[1]) /\ at[1] \in 0 .. Len(x)
      <3>1. 1 \in 1 .. n /\ 1 \in 0 .. n /\ 1 - 1 = 0
        BY <1>2
      <3>2. CodedByte(u[1], x, at[1 - 1], at[1])
        BY <2>1, <3>1
      <3> QED BY <2>1, <3>1, <3>2
    <2>3. at[1] = 1 \/ at[1] = 3
      BY <2>2 DEF CodedByte
    <2> QED BY <1>5, <2>2, <2>3
  <1>7. x # <<>>
    BY <1>6
  <1>8. Holds(x, x, 0)
    BY <1>5 DEF Holds
  <1>9. from[0 + 1] = u \o from[0 + Len(x) + 1]
    <2>1. RunDecoded(from, u, x, 0)
      BY <1>1, <1>3, <1>4, <1>8, DecodeRun
    <2> QED BY <2>1 DEF RunDecoded
  <1>10. from[0 + Len(x) + 1] = <<>>
    <2>1. 0 + Len(x) + 1 = Len(x) + 1
      BY <1>5
    <2> QED BY <1>4, <2>1 DEF Decodes
  <1>11. u \o <<>> = u
    BY ConcatEmptySeq
  <1>12. from[1] = u
    BY <1>9, <1>10, <1>11
  <1> QED BY <1>4, <1>7, <1>12 DEF x

(* The same behind any text and a slash.                                   *)
DecodedBase(b) == IF b = <<>> THEN <<>> ELSE urlDecode(b)

LEMMA EncodedBehindSlash ==
  ASSUME NEW b \in Seq(0 .. 255), NEW u \in Seq(0 .. 255)
  PROVE  urlDecode(b \o (<<Slash>> \o percentEncodePath(u))) = DecodedBase(b) \o (<<Slash>> \o u)
  <1> DEFINE x == percentEncodePath(u)
             n == Len(b)
             y == <<Slash>> \o x
             text == b \o y
  <1>1. x \in Seq(0 .. 255) /\ \E at : Coded(u, x, at)
    BY EncodingIsCoded
  <1> HIDE DEF x
  <1>2. PICK at : Coded(u, x, at)
    BY <1>1
  <1>3. n \in Nat /\ Len(x) \in Nat
    BY <1>1, LenProperties
  <1> HIDE DEF n
  <1>4. /\ y \in Seq(0 .. 255) /\ Len(y) = 1 + Len(x)
        /\ y[1] = Slash /\ \A j \in 1 .. Len(x) : y[1 + j] = x[j]
    <2> DEFINE s == <<Slash>>
    <2>1. s \in Seq(0 .. 255) /\ Len(s) = 1 /\ s[1] = Slash
      BY DEF Slash
    <2> HIDE DEF s
    <2>2. y = s \o x
      BY DEF s
    <2> HIDE DEF y
    <2>3. y \in Seq(0 .. 255) /\ IsConcat(y, s, x)
      BY <1>1, <2>1, <2>2, Concatenation
    <2>4. \A j \in 1 .. 1 : y[j] = s[j]
      BY <2>1, <2>3 DEF IsConcat
    <2> QED BY <2>1, <2>3, <2>4 DEF IsConcat
  <1> HIDE DEF y
  <1>5. /\ text \in Seq(0 .. 255) /\ Len(text) = n + 1 + Len(x)
        /\ \A j \in 1 .. n : text[j] = b[j]
        /\ \A j \in 1 .. 1 + Len(x) : text[n + j] = y[j]
    <2>1. text = b \o y
      OBVIOUS
    <2> HIDE DEF text
    <2>2. text \in Seq(0 .. 255) /\ IsConcat(text, b, y)
      BY <1>4, <2>1, Concatenation
    <2>3. Len(text) = n + (1 + Len(x))
      BY <1>4, <2>2 DEF IsConcat, n
    <2>4. Len(text) = n + 1 + Len(x)
      BY <1>3, <2>3
    <2>5. /\ \A j \in 1 .. n : text[j] = b[j]
          /\ \A j \in 1 .. 1 + Len(x) : text[n + j] = y[j]
      BY <1>4, <2>2 DEF IsConcat, n
    <2> QED BY <2>2, <2>4, <2>5
  <1> HIDE DEF text
  <1>6. PICK from : /\ Decodes(text, from)
                    /\ urlDecode(text) = IF text = <<>> THEN <<Slash>> ELSE from[1]
    BY <1>5, DecodeSteps
  <1>7. PICK own : /\ Decodes(b, own)
                   /\ urlDecode(b) = IF b = <<>> THEN <<Slash>> ELSE own[1]
    BY DecodeSteps
  <1>8. text # <<>>
    <2>1. Len(text) # 0
      BY <1>3, <1>5
    <2> QED BY <2>1
  <1>9. DecodedBase(b) = own[1]
    <2>1. CASE b = <<>>
      <3>1. own[Len(b) + 1] = <<>> /\ Len(b) + 1 = 1
        BY <1>7, <2>1 DEF Decodes
      <3> QED BY <2>1, <3>1 DEF DecodedBase
    <2>2. CASE b # <<>>
      BY <1>7, <2>2 DEF DecodedBase
    <2> QED BY <2>1, <2>2
  <1>10. from[1] = own[1] \o (<<Slash>> \o from[n + 2])
    <2>1. Holds(text, b, 0)
      <3>1. 0 + n <= Len(text) /\ \A j \in 1 .. n : 0 + j = j
        BY <1>3, <1>5
      <3> QED BY <1>5, <3>1 DEF Holds, n
    <2>2. Len(b) + 1 <= Len(text)
      BY <1>3, <1>5 DEF n
    <2>3. text[Len(b) + 1] = Slash
      <3>1. 1 \in 1 .. 1 + Len(x)
        BY <1>3
      <3> QED BY <1>4, <1>5, <3>1 DEF n
    <2>4. GoneToSlash(from, own, Len(b))
      BY <1>5, <1>6, <1>7, <2>1, <2>2, <2>3, DecodeToSlash
    <2> QED BY <2>4 DEF n, GoneToSlash
  <1>11. from[n + 2] = u
    <2> DEFINE i == n + 1
    <2>1. i \in Nat /\ i + Len(x) <= Len(text)
      BY <1>3, <1>5
    <2>2. \A j \in 1 .. Len(x) : text[i + j] = x[j]
      <3> TAKE j \in 1 .. Len(x)
      <3>1. 1 + j \in 1 .. 1 + Len(x) /\ n + (1 + j) = i + j
        BY <1>3
      <3> HIDE DEF i
      <3> QED BY <1>4, <1>5, <3>1
    <2> HIDE DEF i
    <2>3. Holds(text, x, i)
      BY <2>1, <2>2 DEF Holds
    <2>4. RunDecoded(from, u, x, i)
      BY <1>1, <1>2, <1>5, <1>6, <2>1, <2>3, DecodeRun
    <2>5. from[i + 1] = u \o from[i + Len(x) + 1]
      BY <2>4 DEF RunDecoded
    <2>6. i + Len(x) + 1 = Len(text) + 1 /\ i + 1 = n + 2
      BY <1>3, <1>5 DEF i
    <2>7. from[Len(text) + 1] = <<>>
      BY <1>6 DEF Decodes
    <2>8. u \o <<>> = u
      BY ConcatEmptySeq
    <2> QED BY <2>5, <2>6, <2>7, <2>8
  <1>12. urlDecode(text) = from[1]
    BY <1>6, <1>8
  <1> QED BY <1>9, <1>10, <1>11, <1>12 DEF text, y, x

-----------------------------------------------------------------------------
(* Paths *)
(* The components of a text of bytes of A.                                 *)
Components(A) == Seq(A \ {Slash})

Parts(A) == Seq(Components(A)) \ {<<>>}

SplitLoop(text, upTo) ==
  upTo = [k \in 0 .. Len(text) |->
        CASE k = 0 -> <<Nameless>>
          [] k > 0 /\ text[k] = Slash -> Append(upTo[k - 1], Nameless)
          [] OTHER -> Front(upTo[k - 1]) \o <<Append(Last(upTo[k - 1]), text[k])>>]

(* One turn of that loop leaves components. *)
SplitTurn(parts, b) ==
  IF b = Slash THEN Append(parts, Nameless) ELSE Front(parts) \o <<Append(Last(parts), b)>>

(* The components of the first k bytes.                                    *)
SplitSteps(text, g, A) ==
  /\ g \in [0 .. Len(text) -> Parts(A)]
  /\ g[0] = <<Nameless>>
  /\ \A k \in 1 .. Len(text) : g[k] = SplitTurn(g[k - 1], text[k])

LEMMA NamelessType ==
  ASSUME NEW A
  PROVE  Nameless \in Components(A) /\ <<Nameless>> \in Parts(A)
  <1>1. Nameless \in Components(A)
    BY EmptySeq DEF Components, Nameless
  <1> DEFINE S == Components(A)
             c == Nameless
  <1>2. c \in S
    BY <1>1
  <1> HIDE DEF S, c
  <1>3. <<c>> \in Seq(S) /\ <<c>> # <<>>
    BY <1>2
  <1> QED BY <1>1, <1>3 DEF Parts, S, c

LEMMA SplitTurnType ==
  ASSUME NEW A, NEW parts \in Parts(A), NEW b \in A
  PROVE  SplitTurn(parts, b) \in Parts(A) /\ (b # Slash => Last(SplitTurn(parts, b)) # Nameless)
  <1> DEFINE S == Components(A)
  <1>1. parts \in Seq(S) /\ parts # <<>> /\ Nameless \in S
    BY NamelessType DEF Parts
  <1>2. CASE b = Slash
    <2>1. Append(parts, Nameless) \in Seq(S) /\ Append(parts, Nameless) # <<>>
      <3> HIDE DEF S
      <3> QED BY <1>1, AppendProperties
    <2> QED BY <1>2, <2>1 DEF SplitTurn, Parts
  <1>3. CASE b # Slash
    <2> DEFINE c == Append(Last(parts), b)
               z == Front(parts) \o <<c>>
    <2>1. Front(parts) \in Seq(S) /\ Last(parts) \in S
      BY <1>1, FrontType
    <2>2. c \in S /\ c # Nameless
      <3>1. Last(parts) \in Seq(A \ {Slash}) /\ b \in A \ {Slash}
        BY <1>3, <2>1 DEF Components
      <3>2. c \in Seq(A \ {Slash}) /\ c # <<>>
        BY <3>1, AppendProperties
      <3> QED BY <3>2 DEF Components, Nameless
    <2> HIDE DEF c, S
    <2>3. z \in Seq(S) /\ Appended(z, Front(parts), c)
      <3> DEFINE s == Front(parts)
      <3>1. s \in Seq(S) /\ z = s \o <<c>>
        BY <2>1
      <3> HIDE DEF s, z
      <3>2. z \in Seq(S) /\ Appended(z, s, c)
        BY <2>2, <3>1, AppendedLast
      <3> QED BY <3>2 DEF s
    <2>4. SplitTurn(parts, b) = z
      BY <1>3 DEF SplitTurn, c
    <2> HIDE DEF z
    <2> QED BY <2>2, <2>3, <2>4 DEF Appended, Parts, S
  <1> QED BY <1>2, <1>3

LEMMA SplitExists ==
  ASSUME NEW A, NEW text \in Seq(A)
  PROVE  \E f : SplitLoop(text, f)
  <1> DEFINE n == Len(text)
             V == Parts(A)
             step == [p \in (1 .. n) \X V |-> SplitTurn(p[2], text[p[1]])]
  <1>1. n \in Nat /\ \A k \in 1 .. n : text[k] \in A
    BY LenProperties, ElementOfSeq
  <1>2. <<Nameless>> \in V
    BY NamelessType
  <1> HIDE DEF n
  <1>3. /\ step \in [(1 .. n) \X V -> V]
        /\ \A k \in 1 .. n, q \in V : step[<<k, q>>] = SplitTurn(q, text[k])
    <2>1. \A k \in 1 .. n, q \in V : SplitTurn(q, text[k]) \in V
      BY <1>1, SplitTurnType
    <2> HIDE DEF V
    <2> QED BY <2>1
  <1> HIDE DEF step, V
  <1>4. PICK f : Loop(f, n, V, <<Nameless>>, step)
    BY <1>1, <1>2, <1>3, LoopFunction
  <1>5. f \in [0 .. n -> V] /\ f[0] = <<Nameless>>
    BY <1>4 DEF Loop
  <1>6. ASSUME NEW k \in 1 .. n PROVE f[k] = SplitTurn(f[k - 1], text[k])
    <2>1. k - 1 \in 0 .. n
      BY <1>1
    <2>2. f[k - 1] \in V
      BY <1>5, <2>1
    <2>3. f[k] = step[<<k, f[k - 1]>>]
      BY <1>4 DEF Loop
    <2> QED BY <1>3, <2>2, <2>3
  <1> DEFINE turn(k) ==
        CASE k = 0 -> <<Nameless>>
          [] k > 0 /\ text[k] = Slash -> Append(f[k - 1], Nameless)
          [] OTHER -> Front(f[k - 1]) \o <<Append(Last(f[k - 1]), text[k])>>
  <1>7. ASSUME NEW k \in 0 .. n PROVE f[k] = turn(k)
    <2>1. CASE k = 0
      BY <1>5, <2>1
    <2>2. CASE k # 0
      <3>1. k \in 1 .. n /\ k > 0
        BY <1>1, <2>2
      <3>2. f[k] = SplitTurn(f[k - 1], text[k])
        BY <1>6, <3>1
      <3> QED BY <2>2, <3>1, <3>2 DEF SplitTurn
    <2> QED BY <2>1, <2>2
  <1>8. f = [k \in 0 .. n |-> turn(k)]
    <2> HIDE DEF turn
    <2> QED BY <1>5, <1>7
  <1> QED BY <1>8 DEF SplitLoop, n

LEMMA SplitBySteps ==
  ASSUME NEW A, NEW text \in Seq(A)
  PROVE  \E g : SplitSteps(text, g, A) /\ Split(text) = g[Len(text)]
  <1> DEFINE n == Len(text)
             g == CHOOSE f : SplitLoop(text, f)
  <1>1. n \in Nat /\ \A k \in 1 .. n : text[k] \in A
    BY LenProperties, ElementOfSeq
  <1>2. SplitLoop(text, g)
    <2> HIDE DEF n
    <2>1. \E f : SplitLoop(text, f)
      BY SplitExists
    <2> QED BY <2>1
  <1>3. Split(text) = g[n]
    BY DEF Split, SplitLoop
  <1> HIDE DEF g
  <1> DEFINE turn(k) ==
        CASE k = 0 -> <<Nameless>>
          [] k > 0 /\ text[k] = Slash -> Append(g[k - 1], Nameless)
          [] OTHER -> Front(g[k - 1]) \o <<Append(Last(g[k - 1]), text[k])>>
  <1>4. g = [k \in 0 .. n |-> turn(k)]
    BY <1>2 DEF SplitLoop
  <1>5. DOMAIN g = 0 .. n /\ \A k \in 0 .. n : g[k] = turn(k)
    <2> HIDE DEF turn, n
    <2> QED BY <1>4, Zenon
  <1> HIDE DEF n
  <1>6. g[0] = <<Nameless>>
    <2>1. 0 \in 0 .. n /\ turn(0) = <<Nameless>>
      BY <1>1
    <2> HIDE DEF turn
    <2> QED BY <1>5, <2>1
  <1>7. ASSUME NEW k \in 1 .. n PROVE g[k] = SplitTurn(g[k - 1], text[k])
    <2>1. k \in 0 .. n /\ k # 0 /\ k > 0
      BY <1>1
    <2> QED BY <1>5, <2>1 DEF SplitTurn
  <1> DEFINE P == {k \in 0 .. n : g[k] \in Parts(A)}
  <1>8. 0 \in P
    BY <1>1, <1>6, NamelessType
  <1>9. ASSUME NEW k \in 1 .. n, k - 1 \in P PROVE k \in P
    <2>1. g[k - 1] \in Parts(A) /\ text[k] \in A /\ k \in 0 .. n
      BY <1>1, <1>9
    <2>2. SplitTurn(g[k - 1], text[k]) \in Parts(A)
      BY <2>1, SplitTurnType
    <2> QED BY <1>7, <2>1, <2>2
  <1> HIDE DEF P
  <1>10. \A k \in 0 .. n : k \in P
    BY <1>1, <1>8, <1>9, Counting
  <1>11. g \in [0 .. n -> Parts(A)]
    <2>1. \A k \in 0 .. n : g[k] \in Parts(A)
      BY <1>10 DEF P
    <2>2. g = [k \in 0 .. n |-> g[k]]
      <3> HIDE DEF turn
      <3> QED BY <1>4
    <2> QED BY <2>1, <2>2
  <1>12. SplitSteps(text, g, A)
    BY <1>6, <1>7, <1>11 DEF SplitSteps, n
  <1> QED BY <1>3, <1>12 DEF n

LEMMA SplitType ==
  ASSUME NEW A, NEW text \in Seq(A)
  PROVE  /\ Split(text) \in Parts(A)
         /\ text # <<>> /\ Last(text) # Slash => Last(Split(text)) # Nameless
  <1> DEFINE n == Len(text)
  <1>1. PICK g : SplitSteps(text, g, A) /\ Split(text) = g[n]
    BY SplitBySteps
  <1>2. n \in Nat /\ \A k \in 1 .. n : text[k] \in A
    BY LenProperties, ElementOfSeq
  <1>3. /\ g \in [0 .. n -> Parts(A)]
        /\ \A k \in 1 .. n : g[k] = SplitTurn(g[k - 1], text[k])
    BY <1>1 DEF SplitSteps
  <1>4. text # <<>> => n # 0
    BY EmptySeq
  <1>5. Last(text) = text[n]
    BY DEF Last
  <1> HIDE DEF n
  <1>6. Split(text) \in Parts(A)
    BY <1>1, <1>2, <1>3
  <1>7. ASSUME text # <<>>, Last(text) # Slash PROVE Last(Split(text)) # Nameless
    <2>1. n \in 1 .. n /\ n - 1 \in 0 .. n
      BY <1>2, <1>4, <1>7
    <2>2. g[n - 1] \in Parts(A) /\ text[n] \in A /\ text[n] # Slash
      BY <1>2, <1>3, <1>5, <1>7, <2>1
    <2>3. Last(SplitTurn(g[n - 1], text[n])) # Nameless
      BY <2>2, SplitTurnType
    <2> QED BY <1>1, <1>3, <2>1, <2>3
  <1> QED BY <1>6, <1>7

(* What has been read when the first i bytes have been: whole components,  *)
(* and the part of one.                                                    *)
ReadUpTo(g, i, s, c) == g[i] = s \o <<c>>

(* The bytes of a component, read one after the other.                     *)
LEMMA SplitPiece ==
  ASSUME NEW A, NEW text \in Seq(A), NEW g, SplitSteps(text, g, A),
         NEW s \in Seq(Components(A)), NEW c \in Components(A),
         NEW i \in Nat, Holds(text, c, i), ReadUpTo(g, i, s, Nameless)
  PROVE  ReadUpTo(g, i + Len(c), s, c)
  <1> DEFINE n == Len(c)
             m == Len(text)
             S == Components(A)
             Q(j) == ReadUpTo(g, i + j, s, SubSeq(c, 1, j))
             P == {j \in 0 .. n : Q(j)}
  <1>1. /\ n \in Nat /\ m \in Nat /\ i + n <= m
        /\ \A j \in 1 .. n : text[i + j] = c[j] /\ c[j] \in A \ {Slash}
    <2>1. c \in Seq(A \ {Slash})
      BY DEF Components
    <2>2. \A j \in 1 .. n : c[j] \in A \ {Slash}
      BY <2>1, ElementOfSeq
    <2> QED BY <2>1, <2>2, LenProperties DEF Holds
  <1>2. \A k \in 1 .. m : g[k] = SplitTurn(g[k - 1], text[k])
    BY DEF SplitSteps
  <1>3. ASSUME NEW j \in 1 .. n, Q(j - 1) PROVE Q(j)
    <2> DEFINE d == SubSeq(c, 1, j - 1)
               z == s \o <<d>>
    <2>1. c \in Seq(A \ {Slash}) /\ j \in 1 .. Len(c) /\ j - 1 \in 0 .. Len(c)
      BY <1>1 DEF Components
    <2>2. d \in S
      BY <2>1, SubSeqType DEF Components
    <2>3. OneMore(c, j)
      BY <2>1, SubSeqGrows
    <2>4. SubSeq(c, 1, j) = Append(d, c[j])
      BY <2>3, Zenon DEF OneMore
    <2>5. g[i + (j - 1)] = z
      BY <1>3 DEF ReadUpTo
    <2> HIDE DEF d, S
    <2>6. Appended(z, s, d)
      <3>1. s \in Seq(S)
        BY DEF S
      <3>2. z = s \o <<d>>
        OBVIOUS
      <3> HIDE DEF z
      <3> QED BY <2>2, <3>1, <3>2, AppendedLast
    <2> HIDE DEF z
    <2>7. i + j \in 1 .. m /\ i + j - 1 = i + (j - 1)
      BY <1>1
    <2>8. text[i + j] = c[j] /\ c[j] # Slash
      BY <1>1
    <2>9. g[i + j] = SplitTurn(z, c[j])
      BY <1>2, <2>5, <2>7, <2>8
    <2>10. g[i + j] = s \o <<Append(d, c[j])>>
      BY <2>6, <2>8, <2>9, Zenon DEF SplitTurn, Appended
    <2> QED BY <2>4, <2>10, Zenon DEF ReadUpTo
  <1>4. Q(0)
    <2>1. i + 0 = i /\ SubSeq(c, 1, 0) = <<>>
      BY SubSeqEmpty
    <2> HIDE DEF n, m, S
    <2> QED BY <2>1, Zenon DEF Nameless
  <1>5. c = SubSeq(c, 1, n)
    BY SubSeqFull DEF Components
  <1> HIDE DEF n, m, S, Q
  <1>6. 0 \in P
    BY <1>1, <1>4
  <1>7. ASSUME NEW j \in 1 .. n, j - 1 \in P PROVE j \in P
    BY <1>1, <1>3, <1>7
  <1> HIDE DEF P
  <1>8. \A j \in 0 .. n : j \in P
    BY <1>1, <1>6, <1>7, Counting
  <1>9. Q(n)
    BY <1>1, <1>8 DEF P
  <1> QED BY <1>5, <1>9, Zenon DEF Q, n

(* The text of a path: its components, each behind a slash.                *)
IsText(text, p, at) ==
  /\ at \in [0 .. Len(p) -> 0 .. Len(text)]
  /\ at[0] = 0 /\ at[Len(p)] = Len(text)
  /\ \A k \in 1 .. Len(p) :
       /\ at[k] = at[k - 1] + 1 + Len(p[k])
       /\ text[at[k - 1] + 1] = Slash
       /\ Holds(text, p[k], at[k - 1] + 1)

LEMMA JoinedText ==
  ASSUME NEW A, Slash \in A, NEW p \in Seq(Components(A))
  PROVE  Joined(p) \in Seq(A) /\ \E at : IsText(Joined(p), p, at)
  <1> DEFINE n == Len(p)
             piece(k) == <<Slash>> \o p[k]
             pieces == [k \in DOMAIN p |-> piece(k)]
             text == FlattenSeq(pieces)
  <1>1. n \in Nat /\ DOMAIN p = 1 .. n /\ \A k \in 1 .. n : p[k] \in Components(A)
    BY LenProperties, ElementOfSeq
  <1>2. Joined(p) = text
    BY DEF Joined
  <1> HIDE DEF n, piece
  <1>3. ASSUME NEW k \in 1 .. n
        PROVE  /\ piece(k) \in Seq(A) /\ Len(p[k]) \in Nat
               /\ Len(piece(k)) = 1 + Len(p[k]) /\ piece(k)[1] = Slash
               /\ \A j \in 1 .. Len(p[k]) : piece(k)[1 + j] = p[k][j]
    <2> DEFINE s == <<Slash>>
               c == p[k]
               z == piece(k)
    <2>1. s \in Seq(A) /\ Len(s) = 1 /\ s[1] = Slash
      OBVIOUS
    <2>2. c \in Seq(A)
      <3>1. c \in Seq(A \ {Slash}) /\ A \ {Slash} \subseteq A
        BY <1>1 DEF Components
      <3> QED BY <3>1, SeqMonotonic
    <2>3. z = s \o c
      BY DEF piece
    <2> HIDE DEF s, c, z
    <2>4. z \in Seq(A) /\ IsConcat(z, s, c)
      BY <2>1, <2>2, <2>3, Concatenation
    <2>5. \A j \in 1 .. 1 : z[j] = s[j]
      BY <2>1, <2>4 DEF IsConcat
    <2> QED BY <2>1, <2>4, <2>5 DEF IsConcat, z, c
  <1>4. pieces \in Seq(Seq(A)) /\ Len(pieces) = n /\ \A k \in 1 .. n : pieces[k] = piece(k)
    BY <1>1, <1>3
  <1> HIDE DEF pieces
  <1>5. text \in Seq(A) /\ \E at : Layout(pieces, text, at)
    BY <1>4, FlattenLayout
  <1> HIDE DEF text
  <1>6. PICK at : Layout(pieces, text, at)
    BY <1>5
  <1>7. at \in [0 .. n -> 0 .. Len(text)] /\ at[0] = 0 /\ at[n] = Len(text)
    BY <1>4, <1>6 DEF Layout
  <1>8. ASSUME NEW k \in 1 .. n
        PROVE  /\ at[k] = at[k - 1] + 1 + Len(p[k])
               /\ text[at[k - 1] + 1] = Slash
               /\ Holds(text, p[k], at[k - 1] + 1)
    <2> DEFINE i == at[k - 1]
               l == Len(p[k])
    <2>1. /\ at[k] = i + Len(piece(k))
          /\ \A j \in 1 .. Len(piece(k)) : text[i + j] = piece(k)[j]
      BY <1>4, <1>6 DEF Layout
    <2>2. i \in Nat /\ at[k] \in 0 .. Len(text) /\ Len(text) \in Nat
      <3>1. k - 1 \in 0 .. n /\ k \in 0 .. n
        BY <1>1
      <3>2. Len(text) \in Nat
        BY <1>5, LenProperties
      <3> QED BY <1>7, <3>1, <3>2
    <2>3. Len(piece(k)) = 1 + l /\ l \in Nat
      BY <1>3
    <2> HIDE DEF i, l
    <2>4. at[k] = i + 1 + l /\ i + 1 + l <= Len(text)
      <3> DEFINE e == at[k]
      <3>1. e = i + (1 + l) /\ e \in 0 .. Len(text) /\ i \in Nat /\ l \in Nat /\ Len(text) \in Nat
        BY <2>1, <2>2, <2>3
      <3> HIDE DEF e
      <3>2. e = i + 1 + l /\ i + 1 + l <= Len(text)
        BY <3>1
      <3> QED BY <3>2 DEF e
    <2>5. text[i + 1] = Slash
      <3>1. 1 \in 1 .. 1 + l
        BY <2>3
      <3> QED BY <1>3, <2>1, <2>3, <3>1
    <2>6. ASSUME NEW j \in 1 .. l PROVE text[i + 1 + j] = p[k][j]
      <3>1. 1 + j \in 1 .. 1 + l /\ i + (1 + j) = i + 1 + j
        BY <2>2, <2>3
      <3>2. text[i + (1 + j)] = piece(k)[1 + j]
        BY <2>1, <2>3, <3>1
      <3> QED BY <1>3, <3>1, <3>2 DEF l
    <2> QED BY <2>4, <2>5, <2>6 DEF Holds, i, l
  <1>9. IsText(text, p, at)
    BY <1>7, <1>8 DEF IsText, n
  <1> QED BY <1>2, <1>5, <1>9

(* Splitting the text of a path behind its first slash gives the path.     *)
LEMMA SplitJoined ==
  ASSUME NEW A, Slash \in A, NEW p \in Seq(Components(A)), p # Root
  PROVE  Split(Tail(Joined(p))) = p
  <1> DEFINE S == Components(A)
             n == Len(p)
             text == Joined(p)
             rest == Tail(text)
             m == Len(rest)
  <1>1. n \in Nat /\ n # 0 /\ \A k \in 1 .. n : p[k] \in S
    BY EmptySeq, LenProperties, ElementOfSeq DEF Root
  <1>2. text \in Seq(A) /\ \E at : IsText(text, p, at)
    BY JoinedText
  <1> HIDE DEF text
  <1>3. PICK at : IsText(text, p, at)
    BY <1>2
  <1>4. /\ at \in [0 .. n -> 0 .. Len(text)] /\ at[0] = 0 /\ at[n] = Len(text)
        /\ \A k \in 1 .. n :
             /\ at[k] = at[k - 1] + 1 + Len(p[k])
             /\ text[at[k - 1] + 1] = Slash
             /\ Holds(text, p[k], at[k - 1] + 1)
    BY <1>3 DEF IsText
  <1> HIDE DEF n, S
  <1>5. \A k \in 0 .. n : at[k] \in 0 .. Len(text)
    BY <1>4
  <1>6. ASSUME NEW k \in 1 .. n
        PROVE  /\ at[k] \in Nat \ {0} /\ at[k - 1] \in Nat /\ Len(p[k]) \in Nat
               /\ at[k] - 1 = at[k - 1] + Len(p[k])
               /\ at[k - 1] + Len(p[k]) + 1 <= Len(text)
               /\ Len(text) \in Nat
    <2> DEFINE a == at[k - 1]
               b == at[k]
               l == Len(p[k])
    <2>1. a \in 0 .. Len(text) /\ b \in 0 .. Len(text)
      <3>1. k - 1 \in 0 .. n /\ k \in 0 .. n
        BY <1>1
      <3> QED BY <1>5, <3>1
    <2>2. Len(text) \in Nat
      BY <1>2, LenProperties
    <2>3. l \in Nat
      <3>1. p[k] \in Seq(A \ {Slash})
        BY <1>1 DEF S, Components
      <3> QED BY <3>1, LenProperties
    <2>4. b = a + 1 + l
      BY <1>4
    <2> HIDE DEF a, b, l
    <2>5. b \in Nat \ {0} /\ a \in Nat /\ b - 1 = a + l /\ a + l + 1 <= Len(text)
      BY <2>1, <2>2, <2>3, <2>4
    <2> QED BY <2>2, <2>3, <2>5 DEF a, b, l
  <1>7. /\ rest \in Seq(A) /\ m \in Nat /\ m = Len(text) - 1
        /\ \A j \in 1 .. m : rest[j] = text[j + 1]
    <2>1. text # <<>>
      <3>1. Len(text) # 0
        <4>1. 1 \in 1 .. n
          BY <1>1
        <4>2. at[1 - 1] + Len(p[1]) + 1 <= Len(text) /\ at[1 - 1] \in Nat /\ Len(p[1]) \in Nat
          BY <1>6, <4>1
        <4> QED BY <4>2
      <3> QED BY <3>1
    <2>2. /\ Tail(text) \in Seq(A) /\ Len(Tail(text)) = Len(text) - 1
          /\ \A i \in 1 .. Len(Tail(text)) : Tail(text)[i] = text[i + 1]
      BY <1>2, <2>1, HeadTailProperties
    <2> QED BY <2>2, LenProperties
  <1> HIDE DEF m, rest
  <1>8. PICK g : SplitSteps(rest, g, A) /\ Split(rest) = g[m]
    BY <1>7, SplitBySteps DEF m
  <1>9. g[0] = <<Nameless>> /\ \A k \in 1 .. m : g[k] = SplitTurn(g[k - 1], rest[k])
    BY <1>8 DEF SplitSteps, m
  <1> DEFINE Q(k) == ReadUpTo(g, at[k] - 1, SubSeq(p, 1, k - 1), p[k])
             P == {k \in 0 .. n : k = 0 \/ Q(k)}
  <1>10. \A k \in 0 .. n : SubSeq(p, 1, k) \in Seq(S)
    BY SubSeqType DEF n, S
  <1>11. \A k \in 1 .. n : OneMore(p, k)
    BY SubSeqGrows DEF n
  <1>12. ASSUME NEW k \in 1 .. n, k = 1 \/ Q(k - 1)
         PROVE  ReadUpTo(g, at[k - 1], SubSeq(p, 1, k - 1), Nameless)
    <2>1. CASE k = 1
      <3>1. at[k - 1] = 0 /\ SubSeq(p, 1, k - 1) = <<>>
        <4>1. k - 1 = 0
          BY <2>1
        <4>2. SubSeq(p, 1, 0) = <<>>
          BY SubSeqEmpty
        <4> QED BY <1>4, <4>1, <4>2
      <3> DEFINE t == <<Nameless>>
      <3>2. <<>> \o t = t
        <4>1. t \in Seq({Nameless})
          OBVIOUS
        <4> HIDE DEF t
        <4> QED BY <4>1, ConcatEmptySeq
      <3>3. g[at[k - 1]] = t
        BY <1>9, <3>1
      <3> QED BY <3>1, <3>2, <3>3, Zenon DEF ReadUpTo
    <2>2. CASE k # 1
      <3> DEFINE h == k - 1
                 d == SubSeq(p, 1, h)
                 i == at[h]
      <3>1. h \in 1 .. n /\ h \in 0 .. n
        BY <1>1, <2>2
      <3> HIDE DEF h
      <3>2. i \in Nat \ {0} /\ i \in 1 .. m
        <4>1. i + Len(p[k]) + 1 <= Len(text) /\ Len(p[k]) \in Nat
          BY <1>6 DEF h
        <4>2. i \in Nat \ {0}
          BY <1>6, <3>1
        <4> HIDE DEF i
        <4> QED BY <1>7, <4>1, <4>2
      <3>3. g[i - 1] = SubSeq(p, 1, h - 1) \o <<p[h]>>
        <4>1. Q(h)
          BY <1>12, <2>2 DEF h
        <4> QED BY <4>1, Zenon DEF ReadUpTo
      <3>4. OneMore(p, h)
        BY <1>11, <3>1
      <3>5. g[i - 1] = d
        BY <3>3, <3>4, Zenon DEF OneMore
      <3>6. rest[i] = Slash
        <4>1. text[i + 1] = Slash
          BY <1>4 DEF h
        <4> HIDE DEF i
        <4> QED BY <1>7, <3>2, <4>1
      <3>7. d \in Seq(S)
        BY <1>10, <3>1
      <3>8. g[i] = Append(d, Nameless)
        <4>1. g[i] = SplitTurn(d, Slash)
          BY <1>9, <3>2, <3>5, <3>6
        <4> QED BY <4>1, Zenon DEF SplitTurn
      <3>9. Append(d, Nameless) = d \o <<Nameless>>
        <4>1. Nameless \in S
          BY NamelessType DEF S
        <4> DEFINE c == Nameless
        <4>2. c \in S
          BY <4>1
        <4> HIDE DEF c, d
        <4>3. Append(d, c) = d \o <<c>>
          BY <3>7, <4>2, AppendIsConcat
        <4> QED BY <4>3, Zenon DEF c
      <3> QED BY <3>8, <3>9, Zenon DEF ReadUpTo, h
    <2> QED BY <2>1, <2>2
  <1>13. ASSUME NEW k \in 1 .. n, k = 1 \/ Q(k - 1) PROVE Q(k)
    <2> DEFINE i == at[k - 1]
               d == SubSeq(p, 1, k - 1)
               c == p[k]
    <2>1. ReadUpTo(g, i, d, Nameless)
      BY <1>12, <1>13
    <2>2. d \in Seq(Components(A)) /\ c \in Components(A)
      <3>1. k - 1 \in 0 .. n
        BY <1>1
      <3> QED BY <1>1, <1>10, <3>1 DEF S
    <2>3. /\ i \in Nat /\ Len(c) \in Nat /\ at[k] - 1 = i + Len(c) /\ i + Len(c) + 1 <= Len(text)
          /\ Holds(text, c, i + 1)
      BY <1>4, <1>6
    <2> HIDE DEF i, d, c
    <2>4. Holds(rest, c, i)
      <3>1. i + Len(c) <= Len(rest)
        BY <1>7, <2>3 DEF m
      <3>2. ASSUME NEW j \in 1 .. Len(c) PROVE rest[i + j] = c[j]
        <4>1. i + j \in 1 .. m /\ i + j + 1 = i + 1 + j
          BY <1>7, <2>3
        <4>2. text[i + 1 + j] = c[j]
          BY <2>3 DEF Holds
        <4> QED BY <1>7, <4>1, <4>2
      <3> QED BY <3>1, <3>2 DEF Holds
    <2>5. ReadUpTo(g, i + Len(c), d, c)
      BY <1>7, <1>8, <2>1, <2>2, <2>3, <2>4, SplitPiece
    <2>6. ReadUpTo(g, at[k] - 1, d, c)
      BY <2>3, <2>5
    <2> QED BY <2>6, Zenon DEF d, c
  <1> HIDE DEF Q
  <1>14. 0 \in P
    BY <1>1
  <1>15. ASSUME NEW k \in 1 .. n, k - 1 \in P PROVE k \in P
    <2>1. k \in 0 .. n /\ (k = 1 \/ Q(k - 1))
      <3>1. k - 1 = 0 \/ Q(k - 1)
        BY <1>15
      <3> QED BY <1>1, <3>1
    <2> QED BY <1>13, <2>1
  <1> HIDE DEF P
  <1>16. \A k \in 0 .. n : k \in P
    BY <1>1, <1>14, <1>15, Counting
  <1>17. Q(n) /\ n \in 1 .. n
    BY <1>1, <1>16 DEF P
  <1>18. g[at[n] - 1] = SubSeq(p, 1, n - 1) \o <<p[n]>>
    BY <1>17, Zenon DEF Q, ReadUpTo
  <1>19. OneMore(p, n)
    BY <1>11, <1>17
  <1>20. SubSeq(p, 1, n) = p
    BY SubSeqFull DEF n
  <1>21. at[n] - 1 = m
    BY <1>4, <1>7
  <1>22. g[m] = p
    BY <1>18, <1>19, <1>20, <1>21, Zenon DEF OneMore
  <1> QED BY <1>8, <1>22 DEF rest, text

(* The components of normalized paths, and the names among them.           *)
Clean == (0 .. 255) \ {Backslash}

Component == Components(Clean)
Paths == Seq(Component)
Name == Component \ {Nameless}

(* What cutting the slashes at the end leaves.                             *)
NamedAtEnd(p) == p = Root \/ Last(p) # Nameless

(* The steps of normalizePath.                                             *)
Slashed(text) == [k \in DOMAIN text |-> IF text[k] = Backslash THEN Slash ELSE text[k]]

Start(text) == IF text # <<>> /\ Head(text) = Slash THEN 2 ELSE 1

IsNormalized(text, p) ==
  \/ p = Root /\ \A k \in 1 .. Len(text) : Slashed(text)[k] = Slash
  \/ \E end \in 1 .. Len(text) :
       /\ Slashed(text)[end] # Slash
       /\ \A k \in 1 .. Len(text) : Slashed(text)[k] # Slash => k <= end
       /\ p = Split(SubSeq(Slashed(text), Start(text), end))

LEMMA SlashedFacts ==
  ASSUME NEW text \in Texts
  PROVE  /\ Len(text) \in Nat /\ DOMAIN text = 1 .. Len(text)
         /\ Len(Slashed(text)) = Len(text)
         /\ \A k \in 1 .. Len(text) :
              /\ Slashed(text)[k] = IF text[k] = Backslash THEN Slash ELSE text[k]
              /\ Slashed(text)[k] \in Clean
  <1> DEFINE n == Len(text)
             s == Slashed(text)
  <1>1. n \in Nat /\ DOMAIN text = 1 .. n /\ \A k \in 1 .. n : text[k] \in 0 .. 255
    BY LenProperties, ElementOfSeq DEF Texts
  <1> HIDE DEF n
  <1>2. /\ Len(s) = n
        /\ \A k \in 1 .. n : s[k] = IF text[k] = Backslash THEN Slash ELSE text[k]
    BY <1>1 DEF Slashed
  <1> HIDE DEF s
  <1>3. ASSUME NEW k \in 1 .. n PROVE s[k] \in Clean
    <2>1. s[k] = Slash \/ (s[k] \in 0 .. 255 /\ s[k] # Backslash)
      BY <1>1, <1>2
    <2> QED BY <2>1 DEF Clean, Slash, Backslash
  <1> QED BY <1>1, <1>2, <1>3 DEF n, s

LEMMA NormalizeSteps ==
  ASSUME NEW text \in Texts
  PROVE  IsNormalized(text, normalizePath(text))
  <1> DEFINE n == Len(text)
             s == Slashed(text)
             I == {i \in 1 .. Len(s) : s[i] # Slash}
             end == IF I # {} THEN Max(I) ELSE 0
  <1>1. n \in Nat /\ Len(s) = n
    BY SlashedFacts
  <1>2. normalizePath(text) = IF end = 0 THEN Root ELSE Split(SubSeq(s, Start(text), end))
    BY DEF normalizePath, SelectLastInSeq, Slashed, Start
  <1> HIDE DEF s, n
  <1>3. CASE I = {}
    BY <1>1, <1>2, <1>3 DEF IsNormalized, s, n
  <1>4. CASE I # {}
    <2>1. I \subseteq 1 .. n
      BY <1>1
    <2>2. Max(I) \in I /\ \A k \in I : k <= Max(I)
      <3> HIDE DEF I
      <3> QED BY <1>1, <1>4, <2>1, LastSelected
    <2>3. end \in 1 .. n /\ s[end] # Slash /\ \A k \in 1 .. n : s[k] # Slash => k <= end
      <3>1. end = Max(I)
        BY <1>4
      <3>2. Max(I) \in 1 .. n /\ s[Max(I)] # Slash
        BY <2>1, <2>2
      <3>3. \A k \in 1 .. n : s[k] # Slash => k \in I
        BY <1>1
      <3> HIDE DEF I, end
      <3> QED BY <2>2, <3>1, <3>2, <3>3
    <2> HIDE DEF I, end
    <2>4. end # 0
      BY <1>1, <2>3
    <2> QED BY <1>2, <2>3, <2>4 DEF IsNormalized, s, n
  <1> QED BY <1>3, <1>4

LEMMA NormalizedType ==
  ASSUME NEW text \in Texts
  PROVE  normalizePath(text) \in Paths /\ NamedAtEnd(normalizePath(text))
  <1> DEFINE n == Len(text)
             s == Slashed(text)
             start == Start(text)
             p == normalizePath(text)
  <1>1. IsNormalized(text, p)
    BY NormalizeSteps
  <1>2. CASE p = Root
    BY <1>2, EmptySeq DEF Root, Paths, NamedAtEnd
  <1>3. CASE p # Root
    <2>1. PICK end \in 1 .. n : s[end] # Slash /\ p = Split(SubSeq(s, start, end))
      BY <1>1, <1>3 DEF IsNormalized
    <2>2. n \in Nat /\ Len(s) = n /\ \A k \in 1 .. n : s[k] \in Clean
      BY SlashedFacts
    <2>3. start \in 1 .. end
      <3>1. CASE text # <<>> /\ Head(text) = Slash
        <4>1. 1 \in 1 .. n
          BY <2>1, <2>2
        <4>2. text[1] = Slash
          BY <3>1
        <4>3. s[1] = Slash
          BY <4>1, <4>2, SlashedFacts DEF Slash, Backslash
        <4> HIDE DEF s, n
        <4>4. end # 1
          BY <2>1, <4>3
        <4>5. end >= 2
          BY <2>1, <2>2, <4>4
        <4> QED BY <2>1, <2>2, <3>1, <4>5 DEF Start
      <3>2. CASE ~ (text # <<>> /\ Head(text) = Slash)
        <4>1. start = 1
          BY <3>2 DEF Start
        <4> QED BY <2>1, <2>2, <4>1
      <3> QED BY <3>1, <3>2
    <2> DEFINE t == SubSeq(s, start, end)
    <2> HIDE DEF p, s, n, start
    <2>4. start \in Int /\ end \in Int /\ \A i \in start .. end : s[i] \in Clean
      BY <2>1, <2>2, <2>3
    <2>5. /\ t \in Seq(Clean)
          /\ Len(t) = IF start <= end THEN end - start + 1 ELSE 0
          /\ \A i \in 1 .. end - start + 1 : t[i] = s[start + i - 1]
      BY <2>4, SubSeqProperties
    <2>6. Len(t) = end - start + 1 /\ Len(t) \in Nat \ {0} /\ start + Len(t) - 1 = end
      BY <2>2, <2>3, <2>5
    <2> HIDE DEF t
    <2>7. t # <<>> /\ t[Len(t)] = s[end]
      <3>1. Len(t) \in 1 .. end - start + 1
        BY <2>6
      <3>2. t[Len(t)] = s[start + Len(t) - 1]
        BY <2>5, <3>1
      <3> QED BY <2>6, <3>2
    <2>8. Last(t) # Slash
      BY <2>1, <2>7 DEF Last
    <2>9. Split(t) \in Parts(Clean) /\ Last(Split(t)) # Nameless
      BY <2>5, <2>7, <2>8, SplitType
    <2> QED BY <2>1, <2>9 DEF t, p, Parts, Paths, Component, NamedAtEnd
  <1> QED BY <1>2, <1>3

(* The text of a normalized path is normalized to it.                      *)
LEMMA NormalizedText ==
  ASSUME NEW p \in Paths, NamedAtEnd(p)
  PROVE  PathText(p) \in Texts /\ normalizePath(PathText(p)) = p
  <1>1. CASE p = Root
    <2> DEFINE text == <<Slash>>
    <2>1. text \in Texts /\ Len(text) = 1 /\ text[1] = Slash
      BY DEF Texts, Slash
    <2>2. PathText(p) = text
      BY <1>1 DEF PathText
    <2> HIDE DEF text
    <2>3. \A k \in 1 .. Len(text) : Slashed(text)[k] = Slash
      BY <2>1, SlashedFacts DEF Slash, Backslash
    <2>4. IsNormalized(text, normalizePath(text))
      BY <2>1, NormalizeSteps
    <2>5. normalizePath(text) = Root
      BY <2>3, <2>4 DEF IsNormalized
    <2> QED BY <1>1, <2>1, <2>2, <2>5
  <1>2. CASE p # Root
    <2> DEFINE text == Joined(p)
               m == Len(text)
               n == Len(p)
               s == Slashed(text)
    <2>1. PathText(p) = text
      BY <1>2 DEF PathText
    <2>2. Slash \in Clean /\ p \in Seq(Components(Clean))
      BY DEF Clean, Slash, Backslash, Paths, Component
    <2>3. text \in Seq(Clean) /\ \E at : IsText(text, p, at)
      BY <2>2, JoinedText
    <2>4. Split(Tail(text)) = p
      BY <1>2, <2>2, SplitJoined
    <2> HIDE DEF text
    <2>5. text \in Texts
      <3>1. Clean \subseteq 0 .. 255
        BY DEF Clean
      <3>2. text \in Seq(Clean)
        BY <2>3
      <3>3. text \in Seq(0 .. 255)
        BY <3>1, <3>2, SeqMonotonic, Zenon
      <3> QED BY <3>3 DEF Texts
    <2>6. m \in Nat /\ DOMAIN text = 1 .. m /\ \A k \in 1 .. m : text[k] \in Clean
      BY <2>3, LenProperties, ElementOfSeq
    <2>7. s = text
      <3>1. s = [k \in DOMAIN text |-> text[k]]
        <4> HIDE DEF m
        <4> QED BY <2>6 DEF Slashed, Clean
      <3>2. text = [k \in DOMAIN text |-> text[k]]
        BY <2>3
      <3> QED BY <3>1, <3>2
    <2>8. PICK at : IsText(text, p, at)
      BY <2>3
    <2>9. n \in Nat \ {0} /\ p[n] \in Seq(Clean \ {Slash}) /\ p[n] # <<>>
      <3>1. n \in Nat /\ n # 0
        BY <1>2, EmptySeq, LenProperties DEF Root, Paths
      <3>2. n \in 1 .. n
        BY <3>1
      <3>3. p[n] \in Component
        BY <3>2, ElementOfSeq DEF Paths
      <3>4. Last(p) = p[n]
        BY DEF Last
      <3> HIDE DEF n
      <3>5. p[n] # Nameless
        BY <1>2, <3>4 DEF NamedAtEnd
      <3> QED BY <3>1, <3>3, <3>5 DEF Component, Components, Nameless
    <2>10. /\ at \in [0 .. n -> 0 .. m] /\ at[0] = 0 /\ at[n] = m
           /\ \A k \in 1 .. n : /\ at[k] = at[k - 1] + 1 + Len(p[k])
                                /\ text[at[k - 1] + 1] = Slash
                                /\ Holds(text, p[k], at[k - 1] + 1)
      BY <2>8 DEF IsText
    <2> DEFINE c == p[n]
               l == Len(c)
               a == at[n - 1]
    <2> HIDE DEF n, m, s
    <2>11. l \in Nat \ {0} /\ c[l] # Slash
      <3>1. c \in Seq(Clean \ {Slash}) /\ c # <<>>
        BY <2>9
      <3> HIDE DEF c
      <3>2. l \in Nat /\ l # 0
        BY <3>1, EmptySeq, LenProperties
      <3>3. l \in 1 .. l
        BY <3>2
      <3>4. c[l] \in Clean \ {Slash}
        BY <3>1, <3>3, ElementOfSeq
      <3> QED BY <3>2, <3>4
    <2>12. a \in Nat /\ m = a + 1 + l /\ Holds(text, c, a + 1)
      <3>1. n - 1 \in 0 .. n /\ n \in 1 .. n
        BY <2>9
      <3>2. a \in 0 .. m
        BY <2>10, <3>1
      <3>3. m = a + 1 + l /\ Holds(text, c, a + 1)
        BY <2>10, <3>1
      <3> QED BY <2>6, <3>2, <3>3
    <2> HIDE DEF c, a
    <2>13. text[m] # Slash
      <3>1. l \in 1 .. l
        BY <2>11
      <3>2. text[a + 1 + l] = c[l]
        BY <2>12, <3>1 DEF Holds
      <3> QED BY <2>11, <2>12, <3>2
    <2>14. text[1] = Slash
      <3>1. 1 \in 1 .. n /\ 1 - 1 = 0
        BY <2>9
      <3>2. text[at[0] + 1] = Slash
        BY <2>10, <3>1
      <3> QED BY <2>10, <3>2
    <2>15. m \in 1 .. m /\ text # <<>>
      <3>1. m # 0
        BY <2>11, <2>12
      <3> QED BY <2>6, <3>1 DEF m
    <2>16. Start(text) = 2
      <3>1. Head(text) = Slash
        BY <2>14, <2>15
      <3> QED BY <2>15, <3>1 DEF Start
    <2>17. IsNormalized(text, normalizePath(text))
      BY <2>5, NormalizeSteps
    <2>18. PICK end \in 1 .. m :
             /\ \A k \in 1 .. m : text[k] # Slash => k <= end
             /\ normalizePath(text) = Split(SubSeq(text, 2, end))
      BY <2>7, <2>13, <2>15, <2>16, <2>17 DEF IsNormalized, s, m
    <2>19. end = m
      <3>1. m <= end
        BY <2>13, <2>15, <2>18
      <3> QED BY <2>6, <2>18, <3>1
    <2>20. Tail(text) = SubSeq(text, 2, m)
      BY <2>3, <2>15, TailIsSubSeq DEF m
    <2> QED BY <2>1, <2>4, <2>5, <2>18, <2>19, <2>20
  <1> QED BY <1>1, <1>2

(* One component more.                                                     *)
JoinedMore(p, c) == Joined(Append(p, c)) = Joined(p) \o (<<Slash>> \o c)

LEMMA JoinedGrows ==
  ASSUME NEW A, Slash \in A, NEW p \in Seq(Components(A)), NEW c \in Components(A)
  PROVE  JoinedMore(p, c)
  <1> DEFINE n == Len(p)
             s == <<Slash>>
             q == Append(p, c)
             piece(d) == s \o d
             pieces == [k \in DOMAIN p |-> piece(p[k])]
             more == [k \in DOMAIN q |-> piece(q[k])]
             x == piece(c)
             S == Components(A)
  <1>1. /\ q \in Seq(S) /\ Len(q) = n + 1 /\ n \in Nat
        /\ q[n + 1] = c /\ \A k \in 1 .. n : q[k] = p[k]
    <2> HIDE DEF S
    <2>1. p \in Seq(S) /\ c \in S
      BY DEF S
    <2>2. q \in Seq(S) /\ Len(q) = n + 1
      BY <2>1, AppendProperties
    <2>3. q[n + 1] = c /\ \A k \in 1 .. n : q[k] = p[k]
      BY <2>1, AppendProperties
    <2> QED BY <2>1, <2>2, <2>3, LenProperties
  <1>2. Joined(p) = FlattenSeq(pieces) /\ Joined(q) = FlattenSeq(more)
    BY DEF Joined
  <1>3. DOMAIN p = 1 .. n /\ \A k \in 1 .. n : p[k] \in S
    BY LenProperties, ElementOfSeq
  <1>4. DOMAIN q = 1 .. n + 1
    BY <1>1, LenProperties
  <1> HIDE DEF q, n
  <1>5. \A d \in S : piece(d) \in Seq(A)
    <2> TAKE d \in S
    <2>1. d \in Seq(A)
      <3>1. A \ {Slash} \subseteq A
        OBVIOUS
      <3> QED BY <3>1, SeqMonotonic DEF Components
    <2>2. s \in Seq(A)
      OBVIOUS
    <2> HIDE DEF s
    <2> QED BY <2>1, <2>2, ConcatProperties
  <1> HIDE DEF s, S, piece
  <1>6. pieces \in Seq(Seq(A)) /\ Len(pieces) = n /\ \A k \in 1 .. n : pieces[k] = piece(p[k])
    BY <1>1, <1>3, <1>5
  <1>7. more \in Seq(Seq(A)) /\ Len(more) = n + 1 /\ \A k \in 1 .. n + 1 : more[k] = piece(q[k])
    <2>1. \A k \in 1 .. n + 1 : q[k] \in S
      BY <1>1, ElementOfSeq
    <2> QED BY <1>1, <1>4, <1>5, <2>1
  <1>8. x \in Seq(A)
    BY <1>5 DEF S
  <1> HIDE DEF pieces, more, x
  <1>9. more = Append(pieces, x)
    <2> DEFINE z == Append(pieces, x)
    <2>1. z \in Seq(Seq(A)) /\ Len(z) = n + 1
      BY <1>6, <1>8, AppendProperties
    <2>2. z[n + 1] = x /\ \A k \in 1 .. n : z[k] = pieces[k]
      BY <1>6, <1>8, AppendProperties
    <2> HIDE DEF z
    <2>3. ASSUME NEW k \in 1 .. n + 1 PROVE more[k] = z[k]
      <3>1. CASE k = n + 1
        BY <1>1, <1>7, <2>2, <3>1 DEF x
      <3>2. CASE k # n + 1
        <4>1. k \in 1 .. n
          BY <1>1, <3>2
        <4>2. more[k] = piece(q[k]) /\ z[k] = pieces[k] /\ pieces[k] = piece(p[k]) /\ q[k] = p[k]
          BY <1>1, <1>6, <1>7, <2>2, <4>1
        <4> QED BY <4>2, Zenon
      <3> QED BY <3>1, <3>2
    <2>4. more = z
      BY <1>7, <2>1, <2>3, SeqEqual
    <2> QED BY <2>4 DEF z
  <1>10. FlattenedMore(pieces, x)
    BY <1>6, <1>8, FlattenGrows
  <1> QED BY <1>2, <1>9, <1>10, Zenon DEF FlattenedMore, JoinedMore, q, x, piece, s

(* Joining the components of a text gives the text, behind a slash.        *)
Rejoined(p, text) == Joined(p) = <<Slash>> \o text

LEMMA JoinedSplit ==
  ASSUME NEW A, Slash \in A, NEW text \in Seq(A)
  PROVE  Rejoined(Split(text), text)
  <1> DEFINE n == Len(text)
             s == <<Slash>>
             S == Components(A)
             head(k) == SubSeq(text, 1, k)
  <1>1. PICK g : SplitSteps(text, g, A) /\ Split(text) = g[n]
    BY SplitBySteps
  <1> DEFINE Q(k) == Rejoined(g[k], head(k))
             P == {k \in 0 .. n : Q(k)}
  <1>2. n \in Nat /\ \A k \in 1 .. n : text[k] \in A
    BY LenProperties, ElementOfSeq
  <1>3. /\ g \in [0 .. n -> Parts(A)] /\ g[0] = <<Nameless>>
        /\ \A k \in 1 .. n : g[k] = SplitTurn(g[k - 1], text[k])
    BY <1>1 DEF SplitSteps
  <1>4. s \in Seq(A)
    OBVIOUS
  <1>5. \A k \in 1 .. n : OneMore(text, k)
    BY SubSeqGrows DEF n
  <1>6. \A k \in 0 .. n : head(k) \in Seq(A)
    BY SubSeqType DEF n
  <1>7. head(n) = text
    BY SubSeqFull DEF n
  <1>8. head(0) = <<>>
    BY SubSeqEmpty
  <1>9. \A k \in 1 .. n : head(k) = head(k - 1) \o <<text[k]>>
    BY <1>5, Zenon DEF OneMore
  <1>10. Nameless \in S
    BY NamelessType DEF S
  <1> HIDE DEF n, s, S, head
  <1>11. Q(0)
    <2>1. <<>> \in Seq(S)
      BY EmptySeq
    <2>2. JoinedMore(<<>>, Nameless)
      BY <1>10, <2>1, JoinedGrows DEF S
    <2>3. Append(<<>>, Nameless) = <<Nameless>>
      OBVIOUS
    <2>4. Joined(<<>>) = <<>>
      <3> DEFINE pieces == [k \in DOMAIN <<>> |-> <<Slash>> \o (<<>>)[k]]
      <3>1. pieces = <<>>
        OBVIOUS
      <3>2. pieces \in Seq(Seq(A)) /\ Len(pieces) = 0
        BY <3>1, EmptySeq
      <3>3. Joined(<<>>) = FlattenSeq(pieces)
        BY DEF Joined
      <3> HIDE DEF pieces
      <3>4. PICK h : FlattenSteps(pieces, h, A) /\ FlattenSeq(pieces) = h[0]
        BY <3>2, FlattenBySteps
      <3> QED BY <3>3, <3>4 DEF FlattenSteps
    <2> DEFINE x == s \o <<>>
    <2>5. x = s
      BY <1>4, ConcatEmptySeq
    <2>6. <<>> \o s = s
      BY <1>4, ConcatEmptySeq
    <2>7. Joined(<<Nameless>>) = <<>> \o x
      BY <2>2, <2>3, <2>4, Zenon DEF JoinedMore, s, Nameless
    <2>8. Joined(<<Nameless>>) = s \o <<>>
      BY <2>5, <2>6, <2>7, Zenon
    <2> QED BY <1>3, <1>8, <2>8, Zenon DEF Rejoined, s
  <1>12. ASSUME NEW k \in 1 .. n, Q(k - 1) PROVE Q(k)
    <2> DEFINE p == g[k - 1]
               b == text[k]
               t == <<b>>
               h == head(k - 1)
    <2>1. k - 1 \in 0 .. n /\ p \in Parts(A) /\ b \in A /\ h \in Seq(A)
      <3>1. k - 1 \in 0 .. n
        BY <1>2
      <3> QED BY <1>2, <1>3, <1>6, <3>1
    <2>2. t \in Seq(A)
      BY <2>1
    <2>3. g[k] = SplitTurn(p, b)
      BY <1>3
    <2>4. Joined(p) = s \o h
      BY <1>12, Zenon DEF Rejoined, s
    <2>5. head(k) = h \o t
      BY <1>9
    <2>6. p \in Seq(S) /\ p # <<>>
      BY <2>1 DEF Parts, S
    <2> HIDE DEF p, h, b
    <2>7. Regrouped(s, h, t)
      BY <1>4, <2>1, <2>2, Regrouping
    <2>8. CASE b = Slash
      <3>1. g[k] = Append(p, Nameless)
        BY <2>3, <2>8 DEF SplitTurn
      <3>2. JoinedMore(p, Nameless)
        BY <1>10, <2>6, JoinedGrows DEF S
      <3> DEFINE x == s \o <<>>
      <3>3. x = t
        <4>1. x = s
          BY <1>4, ConcatEmptySeq
        <4> QED BY <2>8, <4>1 DEF s
      <3>4. Joined(g[k]) = (s \o h) \o t
        BY <2>4, <3>1, <3>2, <3>3, Zenon DEF JoinedMore, s, Nameless
      <3> QED BY <2>5, <2>7, <3>4, Zenon DEF Regrouped, Rejoined, s
    <2>9. CASE b # Slash
      <3> DEFINE f == Front(p)
                 l == Last(p)
                 c == Append(l, b)
                 x == s \o l
      <3>1. f \in Seq(S) /\ l \in S
        BY <2>6, FrontType
      <3>2. g[k] = f \o <<c>>
        BY <2>3, <2>9 DEF SplitTurn
      <3>3. l \in Seq(A)
        <4>1. l \in Seq(A \ {Slash}) /\ A \ {Slash} \subseteq A
          BY <3>1 DEF S, Components
        <4> QED BY <4>1, SeqMonotonic
      <3>4. c \in S /\ c = l \o t
        <4>1. l \in Seq(A \ {Slash}) /\ b \in A \ {Slash}
          BY <2>1, <2>9, <3>1 DEF S, Components
        <4> HIDE DEF l
        <4>2. c \in Seq(A \ {Slash}) /\ c = l \o t
          BY <4>1, AppendProperties, AppendIsConcat
        <4> QED BY <4>2 DEF S, Components
      <3>5. p = f \o <<l>>
        <4>1. OneMore(p, Len(p))
          <5>1. Len(p) \in 1 .. Len(p)
            <6>1. Len(p) \in Nat /\ Len(p) # 0
              BY <2>6, EmptySeq, LenProperties
            <6> QED BY <6>1
          <5> QED BY <2>6, <5>1, SubSeqGrows
        <4>2. SubSeq(p, 1, Len(p)) = p
          BY <2>6, SubSeqFull
        <4>3. f = SubSeq(p, 1, Len(p) - 1) /\ l = p[Len(p)]
          BY DEF Front, Last
        <4> HIDE DEF f, l
        <4> QED BY <4>1, <4>2, <4>3, Zenon DEF OneMore
      <3> HIDE DEF f, l, c, t
      <3>6. Append(f, l) = p /\ Append(f, c) = g[k]
        <4>1. Append(f, l) = f \o <<l>> /\ Append(f, c) = f \o <<c>>
          BY <3>1, <3>4, AppendIsConcat
        <4> QED BY <3>2, <3>5, <4>1, Zenon
      <3>7. JoinedMore(f, l) /\ JoinedMore(f, c)
        BY <3>1, <3>4, JoinedGrows DEF S
      <3>8. Joined(f) \in Seq(A)
        BY <3>1, JoinedText DEF S
      <3>9. x \in Seq(A) /\ Regrouped(s, l, t)
        BY <1>4, <2>2, <3>3, ConcatProperties, Regrouping
      <3>10. Joined(p) = Joined(f) \o x
        BY <3>6, <3>7, Zenon DEF JoinedMore, s
      <3>11. Joined(g[k]) = Joined(f) \o (x \o t)
        BY <3>4, <3>6, <3>7, <3>9, Zenon DEF JoinedMore, Regrouped, s
      <3> HIDE DEF x
      <3>12. Regrouped(Joined(f), x, t)
        BY <2>2, <3>8, <3>9, Regrouping
      <3>13. Joined(g[k]) = (s \o h) \o t
        BY <2>4, <3>10, <3>11, <3>12, Zenon DEF Regrouped
      <3> HIDE DEF s
      <3> QED BY <2>5, <2>7, <3>13, Zenon DEF Regrouped, Rejoined, s
    <2> QED BY <2>8, <2>9
  <1> HIDE DEF Q
  <1>13. 0 \in P
    BY <1>2, <1>11
  <1>14. ASSUME NEW k \in 1 .. n, k - 1 \in P PROVE k \in P
    BY <1>2, <1>12, <1>14
  <1> HIDE DEF P
  <1>15. \A k \in 0 .. n : k \in P
    BY <1>2, <1>13, <1>14, Counting
  <1>16. Q(n)
    <2>1. n \in 0 .. n
      BY <1>2
    <2> QED BY <1>15, <2>1 DEF P
  <1> QED BY <1>1, <1>7, <1>16, Zenon DEF Q

(* A slash before a text that has none there is dropped again.             *)
LEMMA NormalizedBehindSlash ==
  ASSUME NEW text \in Texts, NEW x, x = <<Slash>> \o text,
         \A j \in 1 .. Len(text) : j = 1 => text[j] # Slash
  PROVE  normalizePath(x) = normalizePath(text)
  <1> DEFINE n == Len(text)
             s == <<Slash>>
             st == Slashed(text)
             sx == Slashed(x)
  <1>1. s \in Texts /\ Len(s) = 1 /\ s[1] = Slash
    BY DEF Texts, Slash
  <1>2. x = s \o text
    OBVIOUS
  <1> HIDE DEF s
  <1>3. x \in Texts /\ IsConcat(x, s, text)
    BY <1>1, <1>2, Concatenation DEF Texts
  <1>4. /\ n \in Nat /\ Len(st) = n /\ \A k \in 1 .. n : st[k] \in Clean
        /\ \A k \in 1 .. n : st[k] = IF text[k] = Backslash THEN Slash ELSE text[k]
    BY SlashedFacts
  <1>5. /\ Len(sx) = Len(x) /\ \A k \in 1 .. Len(x) : sx[k] \in Clean
        /\ \A k \in 1 .. Len(x) : sx[k] = IF x[k] = Backslash THEN Slash ELSE x[k]
    BY <1>3, SlashedFacts
  <1>6. IsNormalized(text, normalizePath(text)) /\ IsNormalized(x, normalizePath(x))
    BY <1>3, NormalizeSteps
  <1> HIDE DEF st, sx
  <1>7. Len(x) = n + 1 /\ x[1] = Slash /\ \A j \in 1 .. n : x[1 + j] = text[j]
    BY <1>1, <1>3 DEF IsConcat
  <1>8. sx[1] = Slash /\ \A j \in 1 .. n : sx[1 + j] = st[j] /\ 1 + j \in 1 .. Len(x)
    <2>1. 1 \in 1 .. Len(x) /\ \A j \in 1 .. n : 1 + j \in 1 .. Len(x)
      BY <1>4, <1>7
    <2>2. sx[1] = Slash
      BY <1>5, <1>7, <2>1 DEF Slash, Backslash
    <2>3. ASSUME NEW j \in 1 .. n PROVE sx[1 + j] = st[j]
      BY <1>4, <1>5, <1>7, <2>1
    <2> QED BY <2>1, <2>2, <2>3
  <1>9. Start(x) = 2
    <2>1. x # <<>>
      <3>1. Len(<<>>) = 0
        OBVIOUS
      <3> QED BY <1>4, <1>7, <3>1
    <2>2. Head(x) = Slash
      BY <1>7
    <2> QED BY <2>1, <2>2 DEF Start
  <1>10. Start(text) = 1
    <2>1. ASSUME text # <<>> PROVE Head(text) # Slash
      <3>1. n # 0
        BY <2>1, EmptySeq DEF Texts
      <3>2. 1 \in 1 .. n
        BY <1>4, <3>1
      <3> QED BY <3>2
    <2> QED BY <2>1 DEF Start
  <1>11. \A k \in 2 .. n + 1 : k - 1 \in 1 .. n /\ 1 + (k - 1) = k
    BY <1>4
  <1>12. CASE \A k \in 1 .. n : st[k] = Slash
    <2>1. ASSUME NEW k \in 1 .. n + 1 PROVE sx[k] = Slash
      <3>1. CASE k = 1
        BY <1>8, <3>1
      <3>2. CASE k # 1
        <4>1. k \in 2 .. n + 1
          BY <1>4, <3>2
        <4> QED BY <1>8, <1>11, <1>12, <4>1
      <3> QED BY <3>1, <3>2
    <2>2. normalizePath(text) = Root
      BY <1>6, <1>12 DEF IsNormalized, st, n
    <2>3. normalizePath(x) = Root
      BY <1>6, <1>7, <2>1 DEF IsNormalized, sx
    <2> QED BY <2>2, <2>3
  <1>13. CASE ~ \A k \in 1 .. n : st[k] = Slash
    <2>1. PICK end \in 1 .. n :
            /\ st[end] # Slash /\ \A k \in 1 .. n : st[k] # Slash => k <= end
            /\ normalizePath(text) = Split(SubSeq(st, 1, end))
      BY <1>6, <1>10, <1>13 DEF IsNormalized, st, n
    <2>2. 1 + end \in 1 .. n + 1 /\ sx[1 + end] # Slash
      BY <1>7, <1>8, <2>1
    <2>3. PICK last \in 1 .. n + 1 :
            /\ sx[last] # Slash /\ \A k \in 1 .. n + 1 : sx[k] # Slash => k <= last
            /\ normalizePath(x) = Split(SubSeq(sx, 2, last))
      BY <1>6, <1>7, <1>9, <2>2 DEF IsNormalized, sx
    <2>4. last = end + 1
      <3>1. 1 + end <= last
        BY <2>2, <2>3
      <3>2. last # 1
        BY <1>8, <2>3
      <3>3. last \in 2 .. n + 1
        BY <1>4, <2>3, <3>2
      <3>4. st[last - 1] # Slash
        BY <1>8, <1>11, <2>3, <3>3
      <3>5. last - 1 <= end
        BY <1>11, <2>1, <3>3, <3>4
      <3> QED BY <1>4, <3>1, <3>3, <3>5
    <2> DEFINE a == SubSeq(st, 1, end)
               b == SubSeq(sx, 2, last)
    <2>5. /\ a \in Seq(Clean) /\ Len(a) = (IF 1 <= end THEN end - 1 + 1 ELSE 0)
          /\ \A i \in 1 .. end - 1 + 1 : a[i] = st[1 + i - 1]
      <3>1. end \in Int /\ \A i \in 1 .. end : st[i] \in Clean
        BY <1>4, <2>1
      <3> QED BY <3>1, SubSeqProperties
    <2>6. /\ b \in Seq(Clean) /\ Len(b) = (IF 2 <= last THEN last - 2 + 1 ELSE 0)
          /\ \A i \in 1 .. last - 2 + 1 : b[i] = sx[2 + i - 1]
      <3>1. last \in Int /\ \A i \in 2 .. last : sx[i] \in Clean
        BY <1>4, <1>5, <1>7, <2>3
      <3> QED BY <3>1, SubSeqProperties
    <2> HIDE DEF a, b
    <2>7. Len(a) = end /\ Len(b) = end /\ end \in Nat
      BY <1>4, <2>1, <2>4, <2>5, <2>6
    <2>8. ASSUME NEW i \in 1 .. end PROVE a[i] = b[i]
      <3>1. i \in 1 .. end - 1 + 1 /\ 1 + i - 1 = i
        BY <2>7
      <3>2. i \in 1 .. last - 2 + 1 /\ 2 + i - 1 = 1 + i /\ i \in 1 .. n
        BY <1>4, <2>1, <2>4, <2>7
      <3>3. a[i] = st[i] /\ b[i] = sx[1 + i] /\ sx[1 + i] = st[i]
        BY <1>8, <2>5, <2>6, <3>1, <3>2
      <3> QED BY <3>3
    <2>9. a = b
      BY <2>5, <2>6, <2>7, <2>8, SeqEqual
    <2> QED BY <2>1, <2>3, <2>9 DEF a, b
  <1> QED BY <1>12, <1>13

DirectoryTurn(d, c) == IF c = Nameless THEN d ELSE Append(d, c)

DirectoryLoop(above, upTo) ==
  upTo = [k \in 0 .. Len(above) |->
        IF k = 0 THEN Root
        ELSE IF above[k] = Nameless THEN upTo[k - 1] ELSE Append(upTo[k - 1], above[k])]

LEMMA DirectoryTurnType ==
  ASSUME NEW d \in Seq(Name), NEW c \in Component
  PROVE  DirectoryTurn(d, c) \in Seq(Name)
  <1>1. CASE c = Nameless
    BY <1>1 DEF DirectoryTurn
  <1>2. CASE c # Nameless
    <2>1. c \in Name
      BY <1>2 DEF Name
    <2> QED BY <1>2, <2>1, AppendProperties DEF DirectoryTurn
  <1> QED BY <1>1, <1>2

LEMMA DirectoryExists ==
  ASSUME NEW above \in Paths
  PROVE  \E f : DirectoryLoop(above, f)
  <1> DEFINE n == Len(above)
             V == Seq(Name)
  <1>1. n \in Nat /\ \A k \in 1 .. n : above[k] \in Component
    BY LenProperties, ElementOfSeq DEF Paths
  <1> DEFINE step == [p \in (1 .. n) \X V |-> DirectoryTurn(p[2], above[p[1]])]
  <1>2. Root \in V
    BY EmptySeq DEF Root
  <1> HIDE DEF n
  <1>3. /\ step \in [(1 .. n) \X V -> V]
        /\ \A k \in 1 .. n, q \in V : step[<<k, q>>] = DirectoryTurn(q, above[k])
    BY <1>1, DirectoryTurnType
  <1> HIDE DEF step, V
  <1>4. PICK f : Loop(f, n, V, Root, step)
    BY <1>1, <1>2, <1>3, LoopFunction
  <1>5. f \in [0 .. n -> V] /\ f[0] = Root
    BY <1>4 DEF Loop
  <1> DEFINE turn(k) ==
        IF k = 0 THEN Root
        ELSE IF above[k] = Nameless THEN f[k - 1] ELSE Append(f[k - 1], above[k])
  <1>6. ASSUME NEW k \in 0 .. n PROVE f[k] = turn(k)
    <2>1. CASE k = 0
      BY <1>5, <2>1
    <2>2. CASE k # 0
      <3>1. k \in 1 .. n /\ k - 1 \in 0 .. n
        BY <1>1, <2>2
      <3>2. f[k - 1] \in V
        BY <1>5, <3>1
      <3>3. f[k] = step[<<k, f[k - 1]>>]
        BY <1>4, <3>1 DEF Loop
      <3>4. f[k] = DirectoryTurn(f[k - 1], above[k])
        BY <1>3, <3>1, <3>2, <3>3
      <3> QED BY <2>2, <3>4 DEF DirectoryTurn
    <2> QED BY <2>1, <2>2
  <1>7. f = [k \in 0 .. n |-> turn(k)]
    <2> HIDE DEF turn
    <2> QED BY <1>5, <1>6
  <1> QED BY <1>7 DEF DirectoryLoop, n

(* The directory of a file: named throughout, no longer than the path to   *)
(* the file, and this path itself when that is named throughout.           *)
IsDirectory(d, above) ==
  /\ d \in Seq(Name)
  /\ Len(d) <= Len(above)
  /\ (\A k \in 1 .. Len(above) : above[k] # Nameless) => d = above
  /\ above = <<Nameless>> => d = Root

LEMMA DirectoryFacts ==
  ASSUME NEW path \in Paths
  PROVE  IsDirectory(Directory(path), Front(path))
  <1> DEFINE above == Front(path)
             n == Len(above)
             g == CHOOSE f : DirectoryLoop(above, f)
  <1>1. above \in Paths
    BY FrontType DEF Paths
  <1>2. Directory(path) = g[n]
    BY DEF Directory, DirectoryLoop
  <1> HIDE DEF above
  <1>3. n \in Nat /\ \A k \in 1 .. n : above[k] \in Component
    BY <1>1, LenProperties, ElementOfSeq DEF Paths
  <1>4. DirectoryLoop(above, g)
    <2>1. \E f : DirectoryLoop(above, f)
      BY <1>1, DirectoryExists
    <2> QED BY <2>1
  <1> HIDE DEF g
  <1> DEFINE turn(k) ==
        IF k = 0 THEN Root
        ELSE IF above[k] = Nameless THEN g[k - 1] ELSE Append(g[k - 1], above[k])
  <1>5. g = [k \in 0 .. n |-> turn(k)]
    BY <1>4 DEF DirectoryLoop
  <1>6. \A k \in 0 .. n : g[k] = turn(k)
    <2> HIDE DEF turn, n
    <2> QED BY <1>5, Zenon
  <1> HIDE DEF n
  <1>7. g[0] = Root
    <2>1. 0 \in 0 .. n /\ turn(0) = Root
      BY <1>3
    <2> HIDE DEF turn
    <2> QED BY <1>6, <2>1
  <1>8. ASSUME NEW k \in 1 .. n PROVE g[k] = DirectoryTurn(g[k - 1], above[k])
    <2>1. k \in 0 .. n /\ k # 0
      BY <1>3
    <2> QED BY <1>6, <2>1 DEF DirectoryTurn
  <1> HIDE DEF turn
  <1> DEFINE NamedTo(k) == \A j \in 1 .. k : above[j] # Nameless
             Same(k) == Len(g[k]) = k /\ \A j \in 1 .. k : g[k][j] = above[j]
             P == {k \in 0 .. n : g[k] \in Seq(Name) /\ Len(g[k]) <= k /\ (NamedTo(k) => Same(k))}
  <1>9. 0 \in P
    <2>1. g[0] \in Seq(Name) /\ Len(g[0]) = 0
      BY <1>7, EmptySeq DEF Root
    <2> QED BY <1>3, <2>1
  <1>10. ASSUME NEW k \in 1 .. n, k - 1 \in P PROVE k \in P
    <2> DEFINE d == g[k - 1]
    <2>1. /\ k - 1 \in 0 .. n /\ k \in 0 .. n
          /\ d \in Seq(Name) /\ Len(d) \in Nat /\ Len(d) <= k - 1
          /\ NamedTo(k - 1) => Same(k - 1)
      BY <1>3, <1>10
    <2>2. g[k] = DirectoryTurn(d, above[k])
      BY <1>8
    <2> HIDE DEF d, P
    <2>3. CASE above[k] = Nameless
      <3>1. ~ NamedTo(k)
        BY <1>3, <2>3
      <3>2. g[k] = d
        BY <2>2, <2>3 DEF DirectoryTurn
      <3> QED BY <1>3, <2>1, <3>1, <3>2 DEF P
    <2>4. CASE above[k] # Nameless
      <3>1. above[k] \in Name
        BY <1>3, <2>4 DEF Name
      <3>2. g[k] = Append(d, above[k])
        BY <2>2, <2>4 DEF DirectoryTurn
      <3>3. /\ g[k] \in Seq(Name)
            /\ Len(g[k]) = Len(d) + 1
            /\ \A j \in 1 .. Len(d) : g[k][j] = d[j]
            /\ g[k][Len(d) + 1] = above[k]
        BY <2>1, <3>1, <3>2, AppendProperties
      <3>4. ASSUME NamedTo(k) PROVE Same(k)
        <4>1. NamedTo(k - 1)
          BY <1>3, <3>4
        <4>2. Len(d) = k - 1 /\ \A j \in 1 .. k - 1 : d[j] = above[j]
          BY <2>1, <4>1 DEF d
        <4>3. Len(g[k]) = k /\ \A j \in 1 .. k : j \in 1 .. k - 1 \/ j = k
          BY <1>3, <3>3, <4>2
        <4> QED BY <1>3, <3>3, <4>2, <4>3
      <3> QED BY <1>3, <2>1, <3>3, <3>4 DEF P
    <2> QED BY <2>3, <2>4
  <1> HIDE DEF P
  <1>11. \A k \in 0 .. n : k \in P
    BY <1>3, <1>9, <1>10, Counting
  <1>12. g[n] \in Seq(Name) /\ Len(g[n]) <= n /\ (NamedTo(n) => Same(n))
    BY <1>3, <1>11 DEF P
  <1>13. ASSUME NamedTo(n) PROVE g[n] = above
    <2>1. g[n] \in Seq(Component)
      <3>1. Name \subseteq Component
        BY DEF Name
      <3> QED BY <1>12, <3>1, SeqMonotonic
    <2>2. above \in Seq(Component) /\ Len(g[n]) = Len(above)
      BY <1>1, <1>12, <1>13 DEF Paths, n
    <2>3. \A j \in 1 .. Len(g[n]) : g[n][j] = above[j]
      BY <1>12, <1>13
    <2> QED BY <2>1, <2>2, <2>3, SeqEqual
  <1>14. ASSUME above = <<Nameless>> PROVE g[n] = Root
    <2>1. n = 1 /\ above[1] = Nameless
      BY <1>14 DEF n
    <2>2. g[1] = DirectoryTurn(g[0], Nameless)
      BY <1>8, <2>1
    <2> QED BY <1>7, <2>1, <2>2 DEF DirectoryTurn
  <1> QED BY <1>2, <1>12, <1>13, <1>14 DEF IsDirectory, n, above

-----------------------------------------------------------------------------
(* Paths in URLs *)

(* A text that begins with a slash: the path of every URL.                 *)
Slashing == {x \in Texts : x # <<>> /\ x[1] = Slash}

Slashless == Seq((0 .. 255) \ {Slash})

HostOf(hostPort) ==
  LET colon == SelectInSeq(hostPort, LAMBDA b : b = 58)
  IN  IF colon = 0 THEN hostPort ELSE SubSeq(hostPort, 1, colon - 1)

(* What is before the first slash names the host, what is from there on is *)
(* the path.                                                               *)
Parsed(url, hostPort, path) == url.host = HostOf(hostPort) /\ url.path = path

LEMMA SlashlessUrl ==
  ASSUME NEW h \in Slashless
  PROVE  Parsed(parseHttpUrl(h), h, <<Slash>>)
  <1> DEFINE I == {i \in 1 .. Len(h) : h[i] = Slash}
             slash == IF I # {} THEN Min(I) ELSE 0
  <1>1. \A i \in 1 .. Len(h) : h[i] # Slash
    BY ElementOfSeq DEF Slashless
  <1>2. slash = 0
    BY <1>1
  <1>3. slash = SelectInSeq(h, LAMBDA b : b = Slash)
    BY DEF SelectInSeq
  <1> HIDE DEF slash
  <1>4. /\ parseHttpUrl(h).host = HostOf(IF slash = 0 THEN h ELSE SubSeq(h, 1, slash - 1))
        /\ parseHttpUrl(h).path = IF slash = 0 THEN <<Slash>> ELSE SubSeq(h, slash, Len(h))
    BY <1>3, Zenon DEF parseHttpUrl, HostOf
  <1> QED BY <1>2, <1>4 DEF Parsed

LEMMA SplitUrl ==
  ASSUME NEW h \in Slashless, NEW path \in Slashing
  PROVE  Parsed(parseHttpUrl(h \o path), h, path)
  <1> DEFINE rest == h \o path
             n == Len(h)
             m == Len(rest)
             I == {i \in 1 .. m : rest[i] = Slash}
             slash == IF I # {} THEN Min(I) ELSE 0
  <1>1. h \in Texts /\ path \in Texts /\ path # <<>> /\ path[1] = Slash
    <2>1. (0 .. 255) \ {Slash} \subseteq 0 .. 255
      OBVIOUS
    <2> QED BY <2>1, SeqMonotonic DEF Slashless, Slashing, Texts
  <1>2. slash = SelectInSeq(rest, LAMBDA b : b = Slash)
    BY DEF SelectInSeq
  <1>3. /\ parseHttpUrl(rest).host = HostOf(IF slash = 0 THEN rest ELSE SubSeq(rest, 1, slash - 1))
        /\ parseHttpUrl(rest).path = IF slash = 0 THEN <<Slash>> ELSE SubSeq(rest, slash, m)
    <2> HIDE DEF slash
    <2> QED BY <1>2, Zenon DEF parseHttpUrl, HostOf
  <1>4. rest \in Texts /\ IsConcat(rest, h, path)
    BY <1>1, Concatenation DEF Texts
  <1> HIDE DEF rest
  <1>5. n \in Nat /\ m \in Nat /\ Len(path) \in Nat /\ m = n + Len(path) /\ Len(path) # 0
    BY <1>1, <1>4, EmptySeq, LenProperties DEF IsConcat, Texts
  <1>6. (\A j \in 1 .. n : rest[j] = h[j]) /\ \A j \in 1 .. Len(path) : rest[n + j] = path[j]
    BY <1>4 DEF IsConcat
  <1>7. \A j \in 1 .. n : h[j] # Slash
    BY ElementOfSeq DEF Slashless
  <1> HIDE DEF n, m
  <1>8. n + 1 \in I /\ \A j \in I : n + 1 <= j
    <2>1. 1 \in 1 .. Len(path) /\ n + 1 \in 1 .. m
      BY <1>5
    <2>2. rest[n + 1] = Slash
      BY <1>1, <1>6, <2>1
    <2>3. ASSUME NEW j \in 1 .. m, rest[j] = Slash PROVE n + 1 <= j
      <3>1. j \notin 1 .. n
        BY <1>6, <1>7, <2>3
      <3> QED BY <1>5, <3>1
    <2> QED BY <2>1, <2>2, <2>3
  <1>9. slash = n + 1
    <2>1. I \subseteq 1 .. m
      OBVIOUS
    <2> HIDE DEF I
    <2>2. Min(I) = n + 1
      BY <1>5, <1>8, <2>1, FirstSelected
    <2> QED BY <1>8, <2>2
  <1> HIDE DEF slash, I
  <1>10. SubSeq(rest, 1, slash - 1) = h
    <2>1. slash - 1 = n /\ n \in Int
      BY <1>5, <1>9
    <2>2. \A i \in 1 .. n : rest[i] \in 0 .. 255
      <3>1. \A i \in 1 .. n : i \in 1 .. m
        BY <1>5
      <3> QED BY <1>4, <3>1, ElementOfSeq DEF Texts, m
    <2> DEFINE z == SubSeq(rest, 1, n)
    <2>3. /\ z \in Texts
          /\ Len(z) = IF 1 <= n THEN n - 1 + 1 ELSE 0
          /\ \A i \in 1 .. n - 1 + 1 : z[i] = rest[1 + i - 1]
      BY <2>1, <2>2, SubSeqProperties DEF Texts
    <2> HIDE DEF z
    <2>4. Len(z) = Len(h)
      BY <1>5, <2>3 DEF n
    <2>5. \A i \in 1 .. n : i \in 1 .. n - 1 + 1 /\ 1 + i - 1 = i
      BY <1>5
    <2>6. \A i \in 1 .. Len(z) : z[i] = h[i]
      BY <1>6, <2>3, <2>4, <2>5 DEF n
    <2>7. z = h
      BY <1>1, <2>3, <2>4, <2>6, SeqEqual DEF Texts
    <2> QED BY <2>1, <2>7 DEF z
  <1>11. SubSeq(rest, slash, m) = path
    <2>1. slash \in Int /\ m \in Int /\ slash \in 1 .. m
      BY <1>5, <1>9
    <2>2. \A i \in slash .. m : rest[i] \in 0 .. 255
      <3>1. \A i \in slash .. m : i \in 1 .. m
        BY <2>1
      <3> QED BY <1>4, <3>1, ElementOfSeq DEF Texts, m
    <2> DEFINE z == SubSeq(rest, slash, m)
    <2>3. /\ z \in Texts
          /\ Len(z) = IF slash <= m THEN m - slash + 1 ELSE 0
          /\ \A i \in 1 .. m - slash + 1 : z[i] = rest[slash + i - 1]
      BY <2>1, <2>2, SubSeqProperties DEF Texts
    <2> HIDE DEF z
    <2>4. Len(z) = Len(path) /\ m - slash + 1 = Len(path)
      BY <1>5, <1>9, <2>1, <2>3
    <2>5. \A i \in 1 .. Len(path) : slash + i - 1 = n + i
      BY <1>5, <1>9
    <2>6. \A i \in 1 .. Len(z) : z[i] = path[i]
      BY <1>6, <2>3, <2>4, <2>5
    <2>7. z = path
      BY <1>1, <2>3, <2>4, <2>6, SeqEqual DEF Texts
    <2> QED BY <2>7 DEF z
  <1>12. slash # 0
    BY <1>5, <1>9
  <1> QED BY <1>3, <1>10, <1>11, <1>12 DEF Parsed, rest

LEMMA UrlSplits ==
  ASSUME NEW base \in Texts
  PROVE  base \in Slashless \/ \E h \in Slashless, path \in Slashing : base = h \o path
  <1> DEFINE m == Len(base)
             T == {i \in 1 .. m : base[i] = Slash}
  <1>1. m \in Nat /\ \A i \in 1 .. m : base[i] \in 0 .. 255
    BY LenProperties, ElementOfSeq DEF Texts
  <1>2. CASE T = {}
    <2>1. \A i \in 1 .. m : base[i] \in (0 .. 255) \ {Slash}
      BY <1>1, <1>2
    <2>2. base = [i \in 1 .. m |-> base[i]]
      BY DEF Texts
    <2>3. base \in Slashless
      <3> DEFINE B == (0 .. 255) \ {Slash}
      <3> HIDE DEF m, T, B
      <3> SUFFICES [i \in 1 .. m |-> base[i]] \in Seq(B)
        BY <2>2 DEF Slashless, B
      <3>1. \A i \in 1 .. m : base[i] \in B
        BY <2>1 DEF B
      <3> QED BY <1>1, <3>1, IsASeq
    <2> QED BY <2>3
  <1>3. CASE T # {}
    <2>1. T \subseteq Nat
      OBVIOUS
    <2>2. PICK k \in T : \A j \in T : k <= j
      BY <1>3, <2>1, LeastNatural
    <2>3. k \in 1 .. m /\ base[k] = Slash /\ \A j \in 1 .. k - 1 : base[j] # Slash
      <3>1. \A j \in 1 .. k - 1 : j \in 1 .. m /\ ~ (k <= j)
        BY <1>1, <2>2
      <3> QED BY <2>2, <3>1
    <2> DEFINE h == SubSeq(base, 1, k - 1)
               path == SubSeq(base, k, m)
    <2>4. h \in Slashless
      <3>1. k - 1 \in Int /\ \A j \in 1 .. k - 1 : base[j] \in (0 .. 255) \ {Slash}
        BY <1>1, <2>3
      <3> QED BY <3>1, SubSeqProperties DEF Slashless
    <2>5. path \in Slashing
      <3>1. k \in Int /\ m \in Int /\ \A j \in k .. m : base[j] \in 0 .. 255
        BY <1>1, <2>3
      <3>2. /\ path \in Texts
            /\ Len(path) = IF k <= m THEN m - k + 1 ELSE 0
            /\ \A i \in 1 .. m - k + 1 : path[i] = base[k + i - 1]
        BY <3>1, SubSeqProperties DEF Texts
      <3> HIDE DEF path, m
      <3>3. Len(path) # 0 /\ 1 \in 1 .. m - k + 1 /\ k + 1 - 1 = k
        BY <1>1, <2>3, <3>2
      <3>4. path # <<>> /\ path[1] = Slash
        BY <2>3, <3>2, <3>3
      <3> QED BY <3>2, <3>4 DEF Slashing
    <2>6. base = h \o path
      <3> DEFINE j == k - 1
      <3>1. j \in 0 .. m /\ j + 1 = k
        BY <1>1, <2>3
      <3> HIDE DEF j
      <3>2. InTwo(base, j)
        BY <3>1, CutInTwo DEF Texts
      <3> QED BY <3>1, <3>2, Zenon DEF InTwo, j
    <2> QED BY <2>4, <2>5, <2>6
  <1> QED BY <1>2, <1>3

LEMMA JoinedBegins ==
  ASSUME NEW p \in Seq(Components(0 .. 255)), p # Root
  PROVE  Joined(p) \in Slashing
  <1> DEFINE x == Joined(p)
             n == Len(p)
  <1>1. Slash \in 0 .. 255
    BY DEF Slash
  <1>2. x \in Texts /\ \E at : IsText(x, p, at)
    BY <1>1, JoinedText DEF Texts
  <1> HIDE DEF x
  <1>3. PICK at : IsText(x, p, at)
    BY <1>2
  <1>4. 1 \in 1 .. n
    <2>1. n \in Nat /\ n # 0
      BY EmptySeq, LenProperties DEF Root
    <2> QED BY <2>1
  <1>5. /\ at \in [0 .. n -> 0 .. Len(x)] /\ at[0] = 0
        /\ \A k \in 1 .. n : x[at[k - 1] + 1] = Slash /\ Holds(x, p[k], at[k - 1] + 1)
    BY <1>3 DEF IsText
  <1> HIDE DEF n
  <1>6. x[1] = Slash /\ Holds(x, p[1], 1)
    <2>1. 1 - 1 = 0 /\ 0 + 1 = 1
      OBVIOUS
    <2> QED BY <1>4, <1>5, <2>1
  <1>7. x # <<>>
    <2>1. 1 + Len(p[1]) <= Len(x)
      BY <1>6 DEF Holds
    <2>2. Len(p[1]) \in Nat
      <3>1. p[1] \in Components(0 .. 255)
        BY <1>4, ElementOfSeq DEF n
      <3> QED BY <3>1, LenProperties DEF Components
    <2>3. Len(<<>>) = 0
      OBVIOUS
    <2> QED BY <2>1, <2>2, <2>3
  <1> QED BY <1>2, <1>6, <1>7 DEF Slashing, x

LEMMA BytePaths ==
  Paths \subseteq Seq(Components(0 .. 255))
  <1>1. Clean \ {Slash} \subseteq (0 .. 255) \ {Slash}
    BY DEF Clean
  <1>2. Component \subseteq Components(0 .. 255)
    BY <1>1, SeqMonotonic DEF Component, Components
  <1> QED BY <1>2, SeqMonotonic DEF Paths

LEMMA BeginsWithSlash ==
  ASSUME NEW p \in Paths
  PROVE  PathText(p) \in Slashing
  <1>1. CASE p = Root
    <2> DEFINE y == <<Slash>>
    <2>1. y \in Texts /\ y # <<>> /\ y[1] = Slash
      BY DEF Texts, Slash
    <2> QED BY <1>1, <2>1 DEF Slashing, PathText
  <1>2. CASE p # Root
    BY <1>2, BytePaths, JoinedBegins DEF PathText
  <1> QED BY <1>1, <1>2

(* Such a text is a slash and what is behind it.                           *)
BehindSlash(x, u) == u \in Texts /\ x = <<Slash>> \o u

LEMMA SlashAndTail ==
  ASSUME NEW x \in Slashing
  PROVE  BehindSlash(x, Tail(x))
  <1> DEFINE s == <<Slash>>
             u == Tail(x)
  <1>1. x \in Texts /\ x # <<>> /\ x[1] = Slash
    BY DEF Slashing
  <1>2. u \in Texts
    BY <1>1, HeadTailProperties DEF Texts
  <1>3. Len(x) \in Nat /\ Len(x) # 0
    BY <1>1, EmptySeq, LenProperties DEF Texts
  <1>4. InTwo(x, 1)
    <2>1. 1 \in 0 .. Len(x)
      BY <1>3
    <2> QED BY <1>1, <2>1, CutInTwo DEF Texts
  <1>5. SubSeq(x, 1, 1) = s
    <2>1. 1 \in 1 .. Len(x) /\ 1 - 1 = 0
      BY <1>3
    <2>2. OneMore(x, 1)
      BY <1>1, <2>1, SubSeqGrows DEF Texts
    <2>3. SubSeq(x, 1, 0) = <<>>
      BY SubSeqEmpty
    <2>4. SubSeq(x, 1, 1) = <<>> \o s
      BY <1>1, <2>1, <2>2, <2>3, Zenon DEF OneMore
    <2>5. s \in Texts
      BY DEF Texts, Slash
    <2> HIDE DEF s
    <2>6. <<>> \o s = s
      BY <2>5, ConcatEmptySeq DEF Texts
    <2> QED BY <2>4, <2>6
  <1>6. SubSeq(x, 1 + 1, Len(x)) = u
    <2>1. Tail(x) = SubSeq(x, 2, Len(x))
      BY <1>1, TailIsSubSeq DEF Texts
    <2> QED BY <2>1
  <1> HIDE DEF s, u
  <1>7. x = s \o u
    BY <1>4, <1>5, <1>6, Zenon DEF InTwo
  <1> QED BY <1>2, <1>7, Zenon DEF BehindSlash, s, u

(* The URL of a file: below what the seed has, the path behind a slash.    *)
Below(path) == IF Last(path) = Slash THEN Front(path) ELSE path

LEMMA SlashStays ==
  ASSUME NEW x \in Slashing, NEW t \in Texts
  PROVE  x \o t \in Slashing
  <1> DEFINE z == x \o t
  <1>1. x \in Texts /\ x # <<>> /\ x[1] = Slash
    BY DEF Slashing
  <1>2. z \in Texts /\ IsConcat(z, x, t)
    BY <1>1, Concatenation DEF Texts
  <1>3. Len(x) \in Nat /\ Len(x) # 0
    BY <1>1, EmptySeq, LenProperties DEF Texts
  <1> HIDE DEF z
  <1>4. z[1] = Slash /\ Len(z) # 0
    BY <1>1, <1>2, <1>3 DEF IsConcat
  <1>5. z # <<>>
    BY <1>4
  <1> QED BY <1>2, <1>4, <1>5 DEF Slashing, z

EndsWith(text, b) == Last(text) = b

LEMMA SameEnd ==
  ASSUME NEW s \in Texts, NEW t \in Texts, t # <<>>
  PROVE  EndsWith(s \o t, Last(t))
  <1> DEFINE z == s \o t
  <1>1. z \in Texts /\ IsConcat(z, s, t)
    BY Concatenation DEF Texts
  <1>2. Len(t) \in Nat /\ Len(t) # 0 /\ Len(s) \in Nat
    BY EmptySeq, LenProperties DEF Texts
  <1> HIDE DEF z
  <1>3. z[Len(z)] = t[Len(t)]
    <2>1. Len(t) \in 1 .. Len(t)
      BY <1>2
    <2> QED BY <1>1, <2>1 DEF IsConcat
  <1>4. Last(z) = Last(t)
    BY <1>3 DEF Last
  <1> QED BY <1>4 DEF EndsWith, z

Completed(text) == text = Front(text) \o <<Last(text)>>

LEMMA FrontAndLast ==
  ASSUME NEW text \in Texts, text # <<>>
  PROVE  Completed(text)
  <1> DEFINE n == Len(text)
  <1>1. n \in Nat /\ n # 0
    BY EmptySeq, LenProperties DEF Texts
  <1>2. n \in 1 .. n
    BY <1>1
  <1>3. OneMore(text, n)
    BY <1>2, SubSeqGrows DEF Texts
  <1>4. SubSeq(text, 1, n) = text
    BY SubSeqFull DEF Texts
  <1>5. Front(text) = SubSeq(text, 1, n - 1) /\ Last(text) = text[n]
    BY DEF Front, Last
  <1> HIDE DEF n
  <1> QED BY <1>3, <1>4, <1>5, Zenon DEF OneMore, Completed

LEMMA FileUrl ==
  ASSUME NEW base \in Texts, base # <<>>, NEW x \in Slashing
  PROVE  \E h \in Slashless, own \in Slashing :
           /\ Parsed(parseHttpUrl(base), h, own)
           /\ Below(own) \in Texts
           /\ Parsed(parseHttpUrl(buildFileUrl(base, x)), h,
                     Below(own) \o (<<Slash>> \o percentEncodePath(Tail(x))))
  <1> DEFINE u == Tail(x)
             code == percentEncodePath(u)
             s == <<Slash>>
             tail == s \o code
  <1>1. x \in Texts /\ x # <<>> /\ x[1] = Slash
    BY DEF Slashing
  <1>2. u \in Texts /\ WithoutLeading(Slash, x) = u
    BY <1>1, HeadTailProperties DEF Texts, WithoutLeading
  <1> HIDE DEF u
  <1>3. code \in Texts
    BY <1>2, EncodingIsCoded DEF Texts
  <1> HIDE DEF code
  <1>4. s \in Texts /\ Len(s) = 1 /\ s[1] = Slash /\ s # <<>>
    BY DEF Texts, Slash
  <1>5. buildFileUrl(base, x) = (base \o (IF Last(base) = Slash THEN <<>> ELSE s)) \o code
    BY <1>2 DEF buildFileUrl, code
  <1> HIDE DEF s
  <1>6. tail \in Slashing
    <2>1. s \in Slashing
      BY <1>4 DEF Slashing
    <2> QED BY <1>3, <2>1, SlashStays
  <1>7. CASE base \in Slashless
    <2>1. Parsed(parseHttpUrl(base), base, s)
      BY <1>7, SlashlessUrl DEF s
    <2>2. Last(base) # Slash
      <3>1. Len(base) \in Nat /\ Len(base) # 0
        BY EmptySeq, LenProperties DEF Texts
      <3>2. Len(base) \in 1 .. Len(base)
        BY <3>1
      <3>3. base[Len(base)] \in (0 .. 255) \ {Slash}
        BY <1>7, <3>2, ElementOfSeq DEF Slashless
      <3> QED BY <3>3 DEF Last
    <2>3. Regrouped(base, s, code)
      BY <1>3, <1>4, Regrouping DEF Texts
    <2>4. buildFileUrl(base, x) = base \o tail
      BY <1>5, <2>2, <2>3, Zenon DEF Regrouped
    <2>5. Parsed(parseHttpUrl(base \o tail), base, tail)
      <3> HIDE DEF tail
      <3> QED BY <1>6, <1>7, SplitUrl
    <2>6. Below(s) = <<>>
      <3>1. Last(s) = Slash
        BY <1>4 DEF Last
      <3>2. Front(s) \in Texts /\ Len(Front(s)) = Len(s) - 1
        <4> HIDE DEF tail
        <4> QED BY <1>4, FrontType DEF Texts
      <3>3. Front(s) = <<>>
        <4>1. Len(Front(s)) = 0
          BY <1>4, <3>2
        <4> QED BY <3>2, <4>1, EmptySeq DEF Texts
      <3> QED BY <3>1, <3>3 DEF Below
    <2>7. tail \in Texts
      BY <1>6 DEF Slashing
    <2>8. <<>> \o tail = tail
      <3> HIDE DEF tail
      <3> QED BY <2>7, ConcatEmptySeq DEF Texts
    <2>9. Parsed(parseHttpUrl(buildFileUrl(base, x)), base, Below(s) \o tail)
      BY <2>4, <2>5, <2>6, <2>8, Zenon
    <2>10. s \in Slashing /\ Below(s) \in Texts
      BY <1>4, <2>6, EmptySeq DEF Slashing, Texts
    <2> HIDE DEF tail
    <2> QED BY <1>7, <2>1, <2>9, <2>10 DEF tail, s, code, u
  <1>8. CASE base \notin Slashless
    <2>1. PICK h \in Slashless, own \in Slashing : base = h \o own
      BY <1>8, UrlSplits
    <2>2. h \in Texts /\ own \in Texts /\ own # <<>>
      <3>1. (0 .. 255) \ {Slash} \subseteq 0 .. 255
        OBVIOUS
      <3> QED BY <3>1, SeqMonotonic DEF Slashless, Slashing, Texts
    <2>3. Parsed(parseHttpUrl(base), h, own)
      BY <2>1, SplitUrl
    <2>4. Last(base) = Last(own)
      BY <2>1, <2>2, SameEnd, Zenon DEF EndsWith
    <2>5. Below(own) \in Texts
      BY <2>2, FrontType DEF Below, Texts
    <2>6. tail \in Texts
      BY <1>6 DEF Slashing
    <2>7. buildFileUrl(base, x) = h \o (Below(own) \o tail) /\ Below(own) \o tail \in Slashing
      <3>1. CASE Last(own) = Slash
        <4> DEFINE b == Front(own)
        <4>1. Below(own) = b
          BY <3>1 DEF Below
        <4>2. own = b \o s
          <5>1. Completed(own)
            BY <2>2, FrontAndLast
          <5> QED BY <3>1, <5>1, Zenon DEF Completed, s
        <4>3. b \in Texts
          BY <2>5, <4>1
        <4> HIDE DEF b, tail
        <4>4. base \o <<>> = base
          BY ConcatEmptySeq DEF Texts
        <4>5. buildFileUrl(base, x) = base \o code
          BY <1>5, <2>4, <3>1, <4>4, Zenon
        <4>6. Regrouped(h, own, code) /\ Regrouped(b, s, code)
          BY <1>3, <1>4, <2>2, <4>3, Regrouping DEF Texts
        <4>7. own \o code = b \o tail
          BY <4>2, <4>6, Zenon DEF Regrouped, tail
        <4>8. base \o code = h \o (own \o code)
          BY <2>1, <4>6, Zenon DEF Regrouped
        <4>9. own \o code \in Slashing
          BY <1>3, SlashStays
        <4> QED BY <4>1, <4>5, <4>7, <4>8, <4>9, Zenon
      <3>2. CASE Last(own) # Slash
        <4>1. Below(own) = own
          BY <3>2 DEF Below
        <4>2. buildFileUrl(base, x) = (base \o s) \o code
          BY <1>5, <2>4, <3>2, Zenon
        <4>3. Regrouped(base, s, code)
          BY <1>3, <1>4, Regrouping DEF Texts
        <4>4. (base \o s) \o code = base \o tail
          BY <4>3, Zenon DEF Regrouped
        <4> HIDE DEF tail
        <4>5. Regrouped(h, own, tail)
          BY <2>2, <2>6, Regrouping DEF Texts
        <4>6. base \o tail = h \o (own \o tail)
          BY <2>1, <4>5, Zenon DEF Regrouped
        <4>7. own \o tail \in Slashing
          BY <2>6, SlashStays
        <4> QED BY <4>1, <4>2, <4>4, <4>6, <4>7, Zenon
      <3> QED BY <3>1, <3>2
    <2> DEFINE z == Below(own) \o tail
    <2>8. Parsed(parseHttpUrl(buildFileUrl(base, x)), h, z)
      <3>1. buildFileUrl(base, x) = h \o z /\ z \in Slashing
        BY <2>7
      <3> HIDE DEF z
      <3> QED BY <3>1, SplitUrl
    <2> HIDE DEF tail
    <2> QED BY <2>3, <2>5, <2>8 DEF tail, s, code, u
  <1> QED BY <1>7, <1>8

-----------------------------------------------------------------------------
(* Names for Windows *)

Bytes == 0 .. 255

(* A name that Windows takes as it is has no backslash, nor is it empty.   *)
LEMMA SafeName ==
  ASSUME NEW c \in Texts, Sanitized(c) = c
  PROVE  c # <<>> /\ c \in Seq(Bytes \ {Backslash})
  <1> DEFINE n == Len(c)
             refused == 0 .. 31 \cup {60, 62, 58, 34, 47, 92, 124, 63, 42}
             safe == [k \in DOMAIN c |-> IF c[k] \in refused THEN 95 ELSE c[k]]
  <1>1. Sanitized(c) = CASE c = <<>> -> <<95>>
                         [] c # <<>> /\ Last(safe) \in {32, 46} -> Append(Front(safe), 95)
                         [] OTHER -> safe
    BY DEF Sanitized
  <1>2. c # <<>>
    <2>1. c = <<>> => Sanitized(c) = <<95>>
      BY DEF Sanitized
    <2>2. <<95>> # <<>>
      OBVIOUS
    <2> QED BY <2>1, <2>2
  <1>3. n \in Nat /\ n # 0 /\ DOMAIN c = 1 .. n /\ \A k \in 1 .. n : c[k] \in Bytes
    BY <1>2, EmptySeq, LenProperties, ElementOfSeq DEF Texts, Bytes
  <1>4. Sanitized(c) = IF Last(safe) \in {32, 46} THEN Append(Front(safe), 95) ELSE safe
    BY <1>1, <1>2
  <1>5. \A b \in Bytes : b \in Nat
    BY DEF Bytes
  <1>6. Backslash \in refused
    BY DEF Backslash
  <1> HIDE DEF refused, n
  <1>7. /\ safe \in Seq(Nat) /\ Len(safe) = n
        /\ \A k \in 1 .. n : safe[k] = IF c[k] \in refused THEN 95 ELSE c[k]
    BY <1>3, <1>5
  <1> HIDE DEF safe
  <1>8. Last(safe) \notin {32, 46}
    <2> SUFFICES ASSUME Last(safe) \in {32, 46} PROVE FALSE
      OBVIOUS
    <2> DEFINE f == Front(safe)
               z == Append(f, 95)
    <2>1. safe # <<>>
      <3>1. Len(<<>>) = 0
        OBVIOUS
      <3> QED BY <1>3, <1>7, <3>1
    <2>2. f \in Seq(Nat) /\ Len(f) = n - 1
      BY <1>7, <2>1, FrontType
    <2>3. z = c
      BY <1>4
    <2> HIDE DEF f
    <2>4. z[Len(f) + 1] = 95
      BY <2>2, AppendProperties
    <2> HIDE DEF z
    <2>5. Len(f) + 1 = n /\ n \in 1 .. n
      BY <1>3, <2>2
    <2>6. c[n] = 95
      BY <2>3, <2>4, <2>5
    <2>7. safe[n] = 95
      BY <1>7, <2>5, <2>6
    <2> QED BY <1>7, <2>7 DEF Last
  <1>9. safe = c
    BY <1>4, <1>8
  <1>10. \A k \in 1 .. n : c[k] # Backslash
    <2>1. Backslash # 95
      BY DEF Backslash
    <2> QED BY <1>6, <1>7, <1>9, <2>1
  <1>11. c \in Seq(Bytes \ {Backslash})
    <2> DEFINE B == Bytes \ {Backslash}
    <2>1. \A k \in 1 .. n : c[k] \in B
      BY <1>3, <1>10
    <2>2. c = [k \in 1 .. n |-> c[k]]
      BY <1>3 DEF Texts
    <2> HIDE DEF B
    <2>3. [k \in 1 .. n |-> c[k]] \in Seq(B)
      BY <1>3, <2>1, IsASeq
    <2> QED BY <2>2, <2>3 DEF B
  <1> QED BY <1>2, <1>11

(* The names that a path with no empty component is registered under.      *)
VirtualsOf(text, parts) ==
  /\ Tokens(text) = parts
  /\ DOMAIN Virtuals(text) = 1 .. Len(parts)
  /\ \A n \in 1 .. Len(parts) :
       /\ Tokens(Virtuals(text)[n]) = SubSeq(parts, 1, n)
       /\ <<Slash>> \o Virtuals(text)[n] = Joined(SubSeq(parts, 1, n))

LEMMA TokensDomain ==
  ASSUME NEW text \in Texts
  PROVE  /\ Len(Tokens(text)) \in Nat
         /\ DOMAIN Tokens(text) = 1 .. Len(Tokens(text))
         /\ DOMAIN Virtuals(text) = 1 .. Len(Tokens(text))
  <1> DEFINE parts == Split(text)
             tokens == Tokens(text)
  <1>1. parts \in Seq(Components(Bytes))
    BY SplitType DEF Parts, Texts, Bytes
  <1>2. tokens = IF Last(parts) = Nameless THEN Front(parts) ELSE parts
    BY DEF Tokens
  <1>3. DOMAIN Virtuals(text) = DOMAIN tokens
    BY DEF Virtuals
  <1> HIDE DEF parts, tokens
  <1>4. tokens \in Seq(Components(Bytes))
    BY <1>1, <1>2, FrontType
  <1>5. Len(tokens) \in Nat /\ DOMAIN tokens = 1 .. Len(tokens)
    BY <1>4, LenProperties
  <1> QED BY <1>3, <1>5 DEF tokens

(* The first components of a path with no empty one.                       *)
LEMMA PrefixParts ==
  ASSUME NEW p \in Seq(Components(Bytes)), \A k \in 1 .. Len(p) : p[k] # Nameless,
         NEW n \in 1 .. Len(p)
  PROVE  LET s == SubSeq(p, 1, n)
         IN  /\ s \in Seq(Components(Bytes)) /\ s # Root /\ Len(s) = n
             /\ \A k \in 1 .. n : s[k] = p[k]
             /\ Last(s) # Nameless
  <1> DEFINE s == SubSeq(p, 1, n)
  <1>1. Len(p) \in Nat /\ n \in Int /\ \A k \in 1 .. n : p[k] \in Components(Bytes)
    BY LenProperties, ElementOfSeq
  <1>2. /\ s \in Seq(Components(Bytes))
        /\ Len(s) = IF 1 <= n THEN n - 1 + 1 ELSE 0
        /\ \A k \in 1 .. n - 1 + 1 : s[k] = p[1 + k - 1]
    BY <1>1, SubSeqProperties
  <1> HIDE DEF s
  <1>3. Len(s) = n /\ \A k \in 1 .. n : s[k] = p[k]
    <2>1. \A k \in 1 .. n : k \in 1 .. n - 1 + 1 /\ 1 + k - 1 = k
      BY <1>1
    <2> QED BY <1>1, <1>2, <2>1
  <1>4. Last(s) # Nameless
    <2>1. n \in 1 .. n /\ n \in 1 .. Len(p)
      BY <1>1
    <2> QED BY <1>3, <2>1 DEF Last
  <1>5. s # Root
    <2>1. Len(<<>>) = 0
      OBVIOUS
    <2> QED BY <1>3, <2>1 DEF Root
  <1> QED BY <1>2, <1>3, <1>4, <1>5 DEF s

LEMMA VirtualFacts ==
  ASSUME NEW text \in Texts, NEW parts, parts = Split(text),
         \A k \in 1 .. Len(parts) : parts[k] # Nameless
  PROVE  VirtualsOf(text, parts) /\ parts \in Seq(Components(Bytes)) /\ Len(parts) \in Nat \ {0}
  <1> DEFINE m == Len(parts)
  <1>1. parts \in Seq(Components(Bytes)) /\ parts # <<>>
    BY SplitType DEF Parts, Texts, Bytes
  <1>2. m \in Nat /\ m # 0 /\ DOMAIN parts = 1 .. m
    BY <1>1, EmptySeq, LenProperties
  <1>3. Last(parts) # Nameless
    <2>1. m \in 1 .. m
      BY <1>2
    <2> QED BY <2>1 DEF Last
  <1>4. Tokens(text) = parts
    BY <1>3 DEF Tokens
  <1>5. DOMAIN Virtuals(text) = 1 .. m /\ \A n \in 1 .. m : Virtuals(text)[n] = VirtualAt(parts, n)
    BY <1>2, <1>4 DEF Virtuals
  <1>6. SelectInSeq(parts, LAMBDA c : c # Nameless) = 1
    <2> DEFINE I == {i \in 1 .. m : parts[i] # Nameless}
    <2>1. SelectInSeq(parts, LAMBDA c : c # Nameless) = IF I # {} THEN Min(I) ELSE 0
      BY DEF SelectInSeq
    <2>2. I \subseteq 1 .. m /\ 1 \in I /\ \A j \in I : 1 <= j
      BY <1>2
    <2> HIDE DEF I, m
    <2>3. Min(I) = 1
      BY <1>2, <2>2, FirstSelected
    <2> QED BY <2>1, <2>2, <2>3
  <1>7. ASSUME NEW n \in 1 .. m
        PROVE  /\ Tokens(Virtuals(text)[n]) = SubSeq(parts, 1, n)
               /\ <<Slash>> \o Virtuals(text)[n] = Joined(SubSeq(parts, 1, n))
    <2> DEFINE s == SubSeq(parts, 1, n)
               v == Virtuals(text)[n]
               x == Joined(s)
    <2>1. s \in Seq(Components(Bytes)) /\ s # Root /\ Last(s) # Nameless
      BY <1>1, PrefixParts
    <2>2. v = Tail(x)
      <3> DEFINE first == SelectInSeq(parts, LAMBDA c : c # Nameless)
      <3>1. v = IF first \in 1 .. n THEN Tail(Joined(SubSeq(parts, first, n))) ELSE <<>>
        BY <1>5, Zenon DEF VirtualAt
      <3>2. first = 1 /\ 1 \in 1 .. n
        BY <1>2, <1>6
      <3> HIDE DEF first, v
      <3> QED BY <3>1, <3>2
    <2> HIDE DEF v, s
    <2>3. x \in Slashing
      BY <2>1, JoinedBegins DEF Bytes
    <2>4. BehindSlash(x, v)
      BY <2>2, <2>3, SlashAndTail
    <2>5. Split(v) = s
      <3>1. Slash \in Bytes
        BY DEF Bytes, Slash
      <3> QED BY <2>1, <2>2, <3>1, SplitJoined
    <2>6. Tokens(v) = s
      BY <2>1, <2>5 DEF Tokens
    <2> HIDE DEF x
    <2>7. <<Slash>> \o v = x
      BY <2>4, Zenon DEF BehindSlash
    <2> QED BY <2>6, <2>7, Zenon DEF x, s, v
  <1> HIDE DEF m
  <1> QED BY <1>1, <1>2, <1>4, <1>5, <1>7, Zenon DEF VirtualsOf, m

(* A text whose first component has a name does not begin with a slash.    *)
LEMMA NamedBegin ==
  ASSUME NEW text \in Texts, \A k \in 1 .. Len(Split(text)) : Split(text)[k] # Nameless
  PROVE  \A j \in 1 .. Len(text) : j = 1 => text[j] # Slash
  <1> DEFINE p == Split(text)
             s == <<Slash>>
             x == s \o text
             n == Len(p)
  <1>1. Slash \in Bytes /\ p \in Seq(Components(Bytes)) /\ p # <<>>
    BY SplitType DEF Parts, Texts, Bytes, Slash
  <1>2. 1 \in 1 .. n /\ p[1] # Nameless
    <2>1. n \in Nat /\ n # 0
      BY <1>1, EmptySeq, LenProperties
    <2>2. 1 \in 1 .. n
      BY <2>1
    <2> QED BY <2>2
  <1>3. Joined(p) = x
    BY <1>1, JoinedSplit, Zenon DEF Rejoined, Texts, Bytes
  <1> HIDE DEF p
  <1>4. PICK at : IsText(x, p, at)
    <2>1. \E at : IsText(Joined(p), p, at)
      BY <1>1, JoinedText
    <2> QED BY <1>3, <2>1
  <1>5. s \in Texts /\ Len(s) = 1
    BY DEF Texts, Slash
  <1> HIDE DEF s
  <1>6. IsConcat(x, s, text)
    BY <1>5, Concatenation DEF Texts
  <1> HIDE DEF x
  <1>7. at[0] = 0 /\ \A k \in 1 .. n : Holds(x, p[k], at[k - 1] + 1)
    BY <1>4 DEF IsText
  <1> HIDE DEF n
  <1>8. Holds(x, p[1], 1)
    <2>1. 1 - 1 = 0 /\ 0 + 1 = 1
      OBVIOUS
    <2> QED BY <1>2, <1>7, <2>1
  <1> DEFINE c == p[1]
  <1>9. c \in Seq(Bytes \ {Slash}) /\ c # <<>>
    <2>1. c \in Components(Bytes)
      BY <1>1, <1>2, ElementOfSeq DEF n
    <2> QED BY <1>2, <2>1 DEF Components, Nameless
  <1>10. x[1 + 1] = c[1] /\ c[1] # Slash
    <2> HIDE DEF c
    <2>1. Len(c) \in Nat /\ Len(c) # 0
      BY <1>9, EmptySeq, LenProperties
    <2>2. 1 \in 1 .. Len(c)
      BY <2>1
    <2>3. c[1] \in Bytes \ {Slash}
      BY <1>9, <2>2, ElementOfSeq
    <2>4. Holds(x, c, 1)
      BY <1>8 DEF c
    <2> QED BY <2>2, <2>3, <2>4 DEF Holds
  <1>11. ASSUME NEW j \in 1 .. Len(text), j = 1 PROVE text[j] # Slash
    <2>1. x[1 + 1] = text[1]
      BY <1>5, <1>6, <1>11 DEF IsConcat
    <2> QED BY <1>10, <1>11, <2>1
  <1> QED BY <1>11

(* What Windows knows the first n components of a path by.                 *)
MadeForWindows(parts, n) == [k \in 1 .. n |-> Sanitized(parts[k])]

MadeAscii(parts, n) == [k \in 1 .. n |-> AsciiSafe(parts[k])]

PrefixKeys(text, parts, n) ==
  /\ Keys(Virtuals(text)[n]) = {MadeForWindows(parts, n), MadeAscii(parts, n)}
  /\ n = Len(parts) => /\ ProjectedKey(text) = MadeForWindows(parts, n)
                       /\ AsciiKey(text) = MadeAscii(parts, n)
  /\ <<Slash>> \o Virtuals(text)[n] = Joined(SubSeq(parts, 1, n))

LEMMA KeysOfParts ==
  ASSUME NEW text \in Texts, NEW parts, parts = Split(text),
         \A k \in 1 .. Len(parts) : parts[k] # Nameless,
         NEW n \in 1 .. Len(parts)
  PROVE  PrefixKeys(text, parts, n)
  <1> DEFINE v == Virtuals(text)[n]
             s == SubSeq(parts, 1, n)
  <1>1. VirtualsOf(text, parts) /\ parts \in Seq(Components(Bytes)) /\ Len(parts) \in Nat \ {0}
    BY VirtualFacts
  <1>2. Tokens(v) = s /\ Tokens(text) = parts /\ <<Slash>> \o v = Joined(s)
    BY <1>1, Zenon DEF VirtualsOf
  <1>3. s \in Seq(Components(Bytes)) /\ Len(s) = n /\ \A k \in 1 .. n : s[k] = parts[k]
    BY <1>1, PrefixParts
  <1> HIDE DEF v, s
  <1>4. DOMAIN s = 1 .. n /\ DOMAIN parts = 1 .. Len(parts)
    BY <1>1, <1>3, LenProperties
  <1>5. ProjectedKey(v) = [k \in 1 .. n |-> Sanitized(s[k])]
          /\ AsciiKey(v) = [k \in 1 .. n |-> AsciiSafe(s[k])]
    BY <1>2, <1>4, Zenon DEF ProjectedKey, AsciiKey
  <1>6. ProjectedKey(text) = [k \in 1 .. Len(parts) |-> Sanitized(parts[k])]
          /\ AsciiKey(text) = [k \in 1 .. Len(parts) |-> AsciiSafe(parts[k])]
    BY <1>2, <1>4, Zenon DEF ProjectedKey, AsciiKey
  <1>7. ProjectedKey(v) = MadeForWindows(parts, n) /\ AsciiKey(v) = MadeAscii(parts, n)
    BY <1>3, <1>5 DEF MadeForWindows, MadeAscii
  <1>8. Keys(v) = {MadeForWindows(parts, n), MadeAscii(parts, n)}
    BY <1>7, Zenon DEF Keys
  <1>9. n = Len(parts) => /\ ProjectedKey(text) = MadeForWindows(parts, n)
                         /\ AsciiKey(text) = MadeAscii(parts, n)
    BY <1>6, Zenon DEF MadeForWindows, MadeAscii
  <1> QED BY <1>2, <1>8, <1>9, Zenon DEF PrefixKeys, v, s

-----------------------------------------------------------------------------
(* The index *)

Entry == [path : Paths, isDirectory : BOOLEAN, index : Int]

(* The files that buildIndex has dealt with. *)
Done == {i \in 1 .. Len(files) : phase # "index" \/ i < next}

DirectoriesOf(i) == Prefixes(Directory(PathOf(i)))
OnceIn(list, e) == \E j \in DOMAIN list : \A k \in DOMAIN list : list[k] = e <=> k = j

IndexType ==
  /\ files \in Seq(Texts)
  /\ next \in Nat \ {0}
  /\ phase \in {"index", "project", "ready"}
  /\ Root \in seen /\ seen \subseteq Seq(Name)
  /\ \A q \in DOMAIN children : children[q] \in Seq(Entry)

(* The directories met are those above the files dealt with, each once in  *)
(* the list of its parent; lists hold nothing else but these files.        *)
Listings ==
  /\ \A d \in seen \ {Root} : \E i \in Done : d \in DirectoriesOf(i)
  /\ \A i \in Done : DirectoriesOf(i) \subseteq seen
  /\ \A d \in seen \ {Root} : OnceIn(ListAt(Parent(d)), DirEntry(d))
  /\ \A i \in Done : FileEntry(i) \in ToSet(ListAt(Parent(PathOf(i))))
  /\ \A q \in DOMAIN children : \A k \in DOMAIN children[q] :
       \/ \E d \in seen : children[q][k] = DirEntry(d)
       \/ \E i \in Done : children[q][k] = FileEntry(i)

(* Of a well-formed torrent, entries_ holds just these.                    *)
Entries ==
  WellFormed =>
    /\ DOMAIN entries = seen \cup {PathOf(i) : i \in Done}
    /\ \A d \in seen : entries[d] = DirEntry(d)
    /\ \A i \in Done : entries[PathOf(i)] = FileEntry(i)

IndexInv == IndexType /\ Listings /\ Entries

LEMMA PathOfType ==
  ASSUME IndexType, NEW i \in 1 .. Len(files)
  PROVE  PathOf(i) \in Paths
  <1>1. files[i] \in Texts
    BY ElementOfSeq DEF IndexType
  <1> QED BY <1>1, NormalizedType DEF PathOf

(* A directory above a file, other than the root. *)
IsAbove(d, path) ==
  /\ d \in Seq(Name)
  /\ Parent(d) # Parent(path)
  /\ d = SubSeq(Directory(path), 1, Len(Parent(d)) + 1)

LEMMA PrefixFacts ==
  ASSUME NEW path \in Paths, NEW d \in Prefixes(Directory(path))
  PROVE  d \in Seq(Name) /\ (d # Root => IsAbove(d, path))
  <1> DEFINE above == Directory(path)
  <1>1. IsDirectory(above, Front(path))
    BY DirectoryFacts
  <1>2. PICK l \in 0 .. Len(above) : d = SubSeq(above, 1, l)
    BY DEF Prefixes
  <1> HIDE DEF above
  <1>3. above \in Seq(Name) /\ Len(above) \in Nat /\ \A k \in 1 .. Len(above) : above[k] \in Name
    BY <1>1, LenProperties, ElementOfSeq DEF IsDirectory
  <1>4. l \in Int /\ \A k \in 1 .. l : above[k] \in Name
    BY <1>3
  <1>5. /\ d \in Seq(Name)
        /\ Len(d) = IF 1 <= l THEN l - 1 + 1 ELSE 0
    BY <1>2, <1>4, SubSeqProperties
  <1>6. ASSUME d # Root PROVE IsAbove(d, path)
    <2>1. l >= 1 /\ Len(d) = l
      <3>1. l = 0 => d = <<>>
        BY <1>2, SubSeqEmpty
      <3> QED BY <1>3, <1>5, <1>6, <3>1 DEF Root
    <2>2. /\ Len(Front(d)) = l - 1
          /\ \A k \in 1 .. Len(d) - 1 : Front(d)[k] = d[k]
      BY <1>5, <1>6, <2>1, FrontType DEF Root
    <2>3. Front(d) # <<Nameless>>
      <3> SUFFICES ASSUME Front(d) = <<Nameless>> PROVE FALSE
        OBVIOUS
      <3>1. Len(<<Nameless>>) = 1 /\ <<Nameless>>[1] = Nameless
        OBVIOUS
      <3>2. Len(Front(d)) = 1 /\ Front(d)[1] = Nameless
        BY <3>1
      <3>3. 1 \in 1 .. Len(d) - 1 /\ 1 \in 1 .. Len(d)
        BY <2>1, <2>2, <3>2
      <3>4. d[1] = Nameless /\ d[1] \in Name
        BY <1>5, <2>2, <3>2, <3>3, ElementOfSeq
      <3> QED BY <3>4 DEF Name
    <2>4. Parent(d) = Front(d)
      BY <2>3 DEF Parent
    <2>5. Parent(d) # Parent(path)
      <3>1. Front(path) # <<Nameless>>
        <4> SUFFICES ASSUME Front(path) = <<Nameless>> PROVE FALSE
          OBVIOUS
        <4>1. above = <<>>
          BY <1>1 DEF IsDirectory, Root
        <4>2. Len(above) = 0
          BY <4>1
        <4> QED BY <2>1, <4>2
      <3>2. Parent(path) = Front(path)
        BY <3>1 DEF Parent
      <3>3. Len(above) <= Len(Front(path)) /\ Len(Front(path)) \in Nat
        BY <1>1, FrontType, LenProperties DEF IsDirectory, Paths
      <3>4. Len(Parent(d)) < Len(Parent(path))
        BY <1>3, <2>1, <2>2, <2>4, <3>2, <3>3
      <3>5. Len(Parent(d)) = l - 1
        BY <2>2, <2>4
      <3> QED BY <1>3, <3>2, <3>3, <3>4, <3>5
    <2>6. Len(Parent(d)) + 1 = l
      BY <2>1, <2>2, <2>4
    <2>7. d = SubSeq(above, 1, Len(Parent(d)) + 1)
      BY <1>2, <2>6
    <2> QED BY <1>5, <2>5, <2>7 DEF IsAbove, above
  <1> QED BY <1>5, <1>6

LEMMA AppendOnce ==
  ASSUME NEW S, NEW list \in Seq(S), NEW x \in S, NEW e
  PROVE  /\ OnceIn(list, e) /\ x # e => OnceIn(Append(list, x), e)
         /\ (\A k \in DOMAIN list : list[k] # e) /\ x = e => OnceIn(Append(list, x), e)
         /\ ToSet(list) \cup {x} \subseteq ToSet(Append(list, x))
         /\ \A k \in DOMAIN Append(list, x) : Append(list, x)[k] \in ToSet(list) \cup {x}
  <1> DEFINE n == Len(list)
             longer == Append(list, x)
  <1>1. n \in Nat /\ DOMAIN list = 1 .. n
    BY LenProperties
  <1>2. DOMAIN longer = 1 .. n + 1 /\ longer[n + 1] = x /\ \A k \in 1 .. n : longer[k] = list[k]
    <2>1. longer \in Seq(S) /\ Len(longer) = n + 1
      BY AppendProperties
    <2>2. DOMAIN longer = 1 .. Len(longer)
      BY <2>1, LenProperties
    <2>3. longer[n + 1] = x /\ \A k \in 1 .. n : longer[k] = list[k]
      BY AppendProperties
    <2> QED BY <2>1, <2>2, <2>3
  <1> HIDE DEF n, longer
  <1>3. \A k \in 1 .. n + 1 : k \in 1 .. n \/ k = n + 1
    BY <1>1
  <1>4. \A k \in 1 .. n : k \in 1 .. n + 1 /\ k # n + 1
    BY <1>1
  <1>5. n + 1 \in 1 .. n + 1
    BY <1>1
  <1>6. ASSUME OnceIn(list, e), x # e PROVE OnceIn(longer, e)
    BY <1>1, <1>2, <1>3, <1>4, <1>6 DEF OnceIn
  <1>7. ASSUME \A k \in DOMAIN list : list[k] # e, x = e PROVE OnceIn(longer, e)
    BY <1>1, <1>2, <1>3, <1>5, <1>7 DEF OnceIn
  <1>8. ToSet(list) \cup {x} \subseteq ToSet(longer)
    BY <1>1, <1>2, <1>4, <1>5 DEF ToSet
  <1>9. \A k \in DOMAIN longer : longer[k] \in ToSet(list) \cup {x}
    BY <1>1, <1>2, <1>3 DEF ToSet
  <1> QED BY <1>6, <1>7, <1>8, <1>9 DEF longer

(* The lists that a turn of the loop adds to, and what it adds to each.    *)
Parents(path) == {Parent(d) : d \in NewDirectories(path)} \cup {Parent(path)}

AddedTo(q, path) ==
  IF q = Parent(path) THEN FileEntry(next)
  ELSE DirEntry(SubSeq(Directory(path), 1, Len(q) + 1))

LongerList(q, path) == Append(ListAt(q), AddedTo(q, path))

LEMMA AddedFacts ==
  ASSUME IndexType, next <= Len(files), NEW path, path = PathOf(next)
  PROVE  /\ path \in Paths
         /\ AddedTo(Parent(path), path) = FileEntry(next)
         /\ FileEntry(next) \in Entry
         /\ \A d \in NewDirectories(path) :
              /\ d \in Seq(Name) /\ DirEntry(d) \in Entry
              /\ Parent(d) # Parent(path)
              /\ AddedTo(Parent(d), path) = DirEntry(d)
  <1>1. next \in 1 .. Len(files) /\ next \in Int
    BY DEF IndexType
  <1>2. path \in Paths
    BY <1>1, PathOfType
  <1>3. FileEntry(next) \in Entry
    BY <1>1, <1>2 DEF FileEntry, Entry
  <1>4. ASSUME NEW d \in NewDirectories(path)
        PROVE  /\ d \in Seq(Name) /\ DirEntry(d) \in Entry
               /\ Parent(d) # Parent(path)
               /\ AddedTo(Parent(d), path) = DirEntry(d)
    <2>1. d \in Prefixes(Directory(path)) /\ d # Root
      BY DEF NewDirectories, IndexType
    <2>2. IsAbove(d, path)
      BY <1>2, <2>1, PrefixFacts
    <2>3. d \in Paths
      <3>1. Name \subseteq Component
        BY DEF Name
      <3> QED BY <2>2, <3>1, SeqMonotonic DEF IsAbove, Paths
    <2>4. DirEntry(d) \in Entry
      BY <2>3 DEF DirEntry, Entry
    <2>5. Parent(d) # Parent(path) /\ d = SubSeq(Directory(path), 1, Len(Parent(d)) + 1)
      BY <2>2 DEF IsAbove
    <2>6. AddedTo(Parent(d), path) = DirEntry(d)
      BY <2>5 DEF AddedTo
    <2> QED BY <2>2, <2>4, <2>5, <2>6 DEF IsAbove
  <1> QED BY <1>2, <1>3, <1>4 DEF AddedTo

(* Every list after the turn. *)
LEMMA ListStep ==
  ASSUME IndexType, BuildIndex
  PROVE  LET path == PathOf(next)
         IN  /\ DOMAIN children' = Parents(path) \cup DOMAIN children
             /\ \A q \in DOMAIN children' :
                  children'[q] = IF q \in Parents(path) THEN LongerList(q, path) ELSE children[q]
             /\ \A q : ListAt(q)' = IF q \in Parents(path) THEN LongerList(q, path) ELSE ListAt(q)
             /\ \A q : ListAt(q) \in Seq(Entry)
             /\ \A q \in Parents(path) : AddedTo(q, path) \in Entry
  <1> DEFINE path == PathOf(next)
             new == [q \in Parents(path) |-> LongerList(q, path)]
  <1>1. next <= Len(files) /\ children' = Assigned(new, children)
    BY DEF BuildIndex, Listed, Parents, AddedTo, LongerList
  <1>2. /\ DOMAIN children' = Parents(path) \cup DOMAIN children
        /\ \A q \in DOMAIN children' :
             children'[q] = IF q \in Parents(path) THEN LongerList(q, path) ELSE children[q]
    <2> HIDE DEF path
    <2> QED BY <1>1 DEF Assigned
  <1>3. \A q : ListAt(q)' = IF q \in Parents(path) THEN LongerList(q, path) ELSE ListAt(q)
    <2> HIDE DEF path, new
    <2> TAKE q
    <2>1. ListAt(q)' = IF q \in DOMAIN children' THEN children'[q] ELSE <<>>
      BY DEF ListAt
    <2>2. CASE q \in Parents(path)
      BY <1>2, <2>1, <2>2
    <2>3. CASE q \notin Parents(path)
      BY <1>2, <2>1, <2>3 DEF ListAt
    <2> QED BY <2>2, <2>3
  <1>4. \A q : ListAt(q) \in Seq(Entry)
    BY EmptySeq DEF ListAt, IndexType
  <1>5. \A q \in Parents(path) : AddedTo(q, path) \in Entry
    <2> HIDE DEF new
    <2>1. path = PathOf(next)
      OBVIOUS
    <2> HIDE DEF path
    <2> QED BY <1>1, <2>1, AddedFacts DEF Parents
  <1> QED BY <1>2, <1>3, <1>4, <1>5

(* As long as the torrent stays, so do the names of its files.             *)
SameFiles ==
  /\ \A i : PathOf(i)' = PathOf(i)
  /\ \A i : FileEntry(i)' = FileEntry(i)
  /\ \A i : DirectoriesOf(i)' = DirectoriesOf(i)
  /\ WellFormed' = WellFormed

LEMMA FilesStay ==
  ASSUME files' = files
  PROVE  SameFiles
  <1>1. \A i : PathOf(i)' = PathOf(i)
    BY DEF PathOf
  <1>2. \A i : FileEntry(i)' = FileEntry(i)
    BY <1>1 DEF FileEntry
  <1>3. \A i : DirectoriesOf(i)' = DirectoriesOf(i)
    BY <1>1 DEF DirectoriesOf
  <1>4. WellFormed' = WellFormed
    BY <1>1 DEF WellFormed
  <1> QED BY <1>1, <1>2, <1>3, <1>4 DEF SameFiles

LEMMA DoneStep ==
  ASSUME IndexType, BuildIndex
  PROVE  /\ files' = files
         /\ next \in 1 .. Len(files)
         /\ Done' = Done \cup {next}
         /\ seen' = seen \cup NewDirectories(PathOf(next))
         /\ seen' = seen \cup DirectoriesOf(next)
  <1>1. /\ files' = files /\ phase' = phase /\ phase = "index"
        /\ next' = next + 1 /\ next <= Len(files)
        /\ seen' = seen \cup NewDirectories(PathOf(next))
    BY DEF BuildIndex
  <1>2. next \in 1 .. Len(files)
    BY <1>1 DEF IndexType
  <1>3. \A i \in 1 .. Len(files) : i < next + 1 <=> i < next \/ i = next
    BY <1>2
  <1>4. Done' = Done \cup {next}
    BY <1>1, <1>2, <1>3 DEF Done
  <1>5. seen' = seen \cup DirectoriesOf(next)
    BY <1>1 DEF NewDirectories, DirectoriesOf
  <1> QED BY <1>1, <1>2, <1>4, <1>5

LEMMA TypeStep ==
  ASSUME IndexType, BuildIndex
  PROVE  IndexType'
  <1> DEFINE path == PathOf(next)
  <1>1. files' = files /\ next' = next + 1 /\ phase' = phase
    BY DEF BuildIndex
  <1>2. seen' = seen \cup NewDirectories(path) /\ next <= Len(files)
    BY DoneStep, Zenon DEF BuildIndex
  <1>3. NewDirectories(path) \subseteq Seq(Name)
    <2>1. path = PathOf(next)
      OBVIOUS
    <2> HIDE DEF path
    <2> QED BY <1>2, <2>1, AddedFacts
  <1>4. \A q \in DOMAIN children' : children'[q] \in Seq(Entry)
    <2> SUFFICES ASSUME NEW q \in DOMAIN children' PROVE children'[q] \in Seq(Entry)
      OBVIOUS
    <2>1. CASE q \in Parents(path)
      <3>1. children'[q] = LongerList(q, path)
        BY <2>1, ListStep
      <3>2. ListAt(q) \in Seq(Entry) /\ AddedTo(q, path) \in Entry
        BY <2>1, ListStep
      <3> QED BY <3>1, <3>2, AppendProperties DEF LongerList
    <2>2. CASE q \notin Parents(path)
      <3>1. children'[q] = children[q] /\ q \in DOMAIN children
        BY <2>2, ListStep
      <3> QED BY <3>1 DEF IndexType
    <2> QED BY <2>1, <2>2
  <1> HIDE DEF path
  <1> QED BY <1>1, <1>2, <1>3, <1>4 DEF IndexType

LEMMA ListingsStep ==
  ASSUME IndexType, Listings, BuildIndex
  PROVE  Listings'
  <1> DEFINE path == PathOf(next)
             new == NewDirectories(path)
  <1>1. /\ files' = files /\ next \in 1 .. Len(files) /\ Done' = Done \cup {next}
        /\ seen' = seen \cup new /\ seen' = seen \cup DirectoriesOf(next)
    BY DoneStep
  <1>2. SameFiles
    BY <1>1, FilesStay
  <1>3. /\ path \in Paths
        /\ AddedTo(Parent(path), path) = FileEntry(next)
        /\ FileEntry(next) \in Entry
        /\ \A d \in new :
             /\ d \in Seq(Name) /\ DirEntry(d) \in Entry
             /\ Parent(d) # Parent(path)
             /\ AddedTo(Parent(d), path) = DirEntry(d)
    <2>1. next <= Len(files)
      BY <1>1
    <2>2. path = PathOf(next)
      OBVIOUS
    <2> HIDE DEF path
    <2> QED BY <2>1, <2>2, AddedFacts
  <1>4. /\ \A q \in DOMAIN children' :
             children'[q] = IF q \in Parents(path) THEN LongerList(q, path) ELSE children[q]
        /\ DOMAIN children' = Parents(path) \cup DOMAIN children
    BY ListStep
  <1>5. /\ \A q : ListAt(q)' = IF q \in Parents(path) THEN LongerList(q, path) ELSE ListAt(q)
        /\ \A q : ListAt(q) \in Seq(Entry)
        /\ \A q \in Parents(path) : AddedTo(q, path) \in Entry
    BY ListStep
  <1>6. Parents(path) = {Parent(d) : d \in new} \cup {Parent(path)}
    BY DEF Parents
  <1>7. new \cap seen = {} /\ new \subseteq DirectoriesOf(next)
    BY DEF NewDirectories, DirectoriesOf
  <1> HIDE DEF path, new
  <1>8. \A d : DirEntry(d).isDirectory /\ DirEntry(d).path = d /\ DirEntry(d)' = DirEntry(d)
          /\ Parent(d)' = Parent(d)
    BY DEF DirEntry
  <1>9. \A i : ~ FileEntry(i).isDirectory
    BY DEF FileEntry
  <1>10. \A q, e : e \in ToSet(ListAt(q)) =>
            (\E d \in seen : e = DirEntry(d)) \/ (\E i \in Done : e = FileEntry(i))
    <2> SUFFICES ASSUME NEW q, NEW e, e \in ToSet(ListAt(q))
                 PROVE  (\E d \in seen : e = DirEntry(d)) \/ (\E i \in Done : e = FileEntry(i))
      OBVIOUS
    <2>1. PICK k \in DOMAIN ListAt(q) : e = ListAt(q)[k]
      BY DEF ToSet
    <2>2. q \in DOMAIN children
      <3>1. DOMAIN <<>> = {}
        OBVIOUS
      <3> QED BY <2>1, <3>1 DEF ListAt
    <2> QED BY <2>1, <2>2 DEF Listings, ListAt
  <1>11. (\A d \in seen \ {Root} : \E i \in Done : d \in DirectoriesOf(i))'
    BY <1>1, <1>2 DEF Listings, SameFiles
  <1>12. (\A i \in Done : DirectoriesOf(i) \subseteq seen)'
    BY <1>1, <1>2 DEF Listings, SameFiles
  <1>13. ASSUME NEW d \in seen' \ {Root}
         PROVE  OnceIn(ListAt(Parent(d))', DirEntry(d))
    <2> DEFINE q == Parent(d)
               list == ListAt(q)
    <2>1. list \in Seq(Entry)
      BY <1>5
    <2>2. CASE d \in seen
      <3>1. OnceIn(list, DirEntry(d))
        BY <2>2 DEF Listings
      <3>2. CASE q \in Parents(path)
        <4>1. AddedTo(q, path) # DirEntry(d)
          BY <1>3, <1>6, <1>7, <1>8, <1>9, <2>2, <3>2
        <4>2. AddedTo(q, path) \in Entry /\ ListAt(q)' = Append(list, AddedTo(q, path))
          BY <1>5, <3>2 DEF LongerList
        <4> HIDE DEF list, q
        <4>3. OnceIn(Append(list, AddedTo(q, path)), DirEntry(d))
          BY <2>1, <3>1, <4>1, <4>2, AppendOnce
        <4> QED BY <4>2, <4>3 DEF q
      <3>3. CASE q \notin Parents(path)
        BY <1>5, <3>1, <3>3
      <3> QED BY <3>2, <3>3
    <2>3. CASE d \notin seen
      <3>1. d \in new
        BY <1>1, <2>3
      <3>2. q \in Parents(path) /\ AddedTo(q, path) = DirEntry(d) /\ DirEntry(d) \in Entry
        BY <1>3, <1>6, <3>1
      <3>3. DirEntry(d) \notin ToSet(list)
        BY <1>8, <1>9, <1>10, <2>3
      <3>4. \A k \in DOMAIN list : list[k] # DirEntry(d)
        BY <3>3 DEF ToSet
      <3>5. ListAt(q)' = Append(list, DirEntry(d))
        BY <1>5, <3>2 DEF LongerList
      <3> HIDE DEF list, q
      <3>6. OnceIn(Append(list, DirEntry(d)), DirEntry(d))
        BY <2>1, <3>2, <3>4, AppendOnce
      <3> QED BY <3>5, <3>6 DEF q
    <2> QED BY <2>2, <2>3
  <1>14. ASSUME NEW i \in Done', NEW q, q = Parent(PathOf(i))
         PROVE  FileEntry(i) \in ToSet(ListAt(q)')
    <2> DEFINE list == ListAt(q)
    <2>1. list \in Seq(Entry)
      BY <1>5
    <2>2. CASE q \in Parents(path)
      <3>1. AddedTo(q, path) \in Entry /\ ListAt(q)' = Append(list, AddedTo(q, path))
        BY <1>5, <2>2 DEF LongerList
      <3>2. i = next => AddedTo(q, path) = FileEntry(i)
        BY <1>3, <1>14 DEF path
      <3>3. i # next => FileEntry(i) \in ToSet(list)
        BY <1>1, <1>14 DEF Listings
      <3> HIDE DEF list
      <3>4. ToSet(list) \cup {AddedTo(q, path)} \subseteq ToSet(Append(list, AddedTo(q, path)))
        BY <2>1, <3>1, AppendOnce
      <3> QED BY <3>1, <3>2, <3>3, <3>4
    <2>3. CASE q \notin Parents(path)
      <3>1. i # next
        BY <1>6, <1>14, <2>3 DEF path
      <3>2. FileEntry(i) \in ToSet(list)
        BY <1>1, <1>14, <3>1 DEF Listings
      <3> QED BY <1>5, <2>3, <3>2
    <2> QED BY <2>2, <2>3
  <1>15. ASSUME NEW q \in DOMAIN children', NEW k \in DOMAIN children'[q]
         PROVE  (\E d \in seen' : children'[q][k] = DirEntry(d)) \/ (\E i \in Done' : children'[q][k] = FileEntry(i))
    <2>1. CASE q \in Parents(path)
      <3> DEFINE list == ListAt(q)
                 x == AddedTo(q, path)
      <3>1. children'[q] = Append(list, x) /\ list \in Seq(Entry) /\ x \in Entry
        BY <1>4, <1>5, <2>1 DEF LongerList
      <3>2. x = FileEntry(next) \/ \E d \in new : x = DirEntry(d)
        BY <1>3, <1>6, <2>1
      <3>3. \A e \in ToSet(list) : (\E d \in seen : e = DirEntry(d)) \/ (\E i \in Done : e = FileEntry(i))
        BY <1>10
      <3> HIDE DEF list, x
      <3>4. children'[q][k] \in ToSet(list) \cup {x}
        BY <3>1, AppendOnce
      <3> QED BY <1>1, <3>2, <3>3, <3>4
    <2>2. CASE q \notin Parents(path)
      <3>1. q \in DOMAIN children /\ children'[q] = children[q]
        BY <1>4, <2>2
      <3> QED BY <1>1, <3>1 DEF Listings
    <2> QED BY <2>1, <2>2
  <1>16. (\A d \in seen \ {Root} : OnceIn(ListAt(Parent(d)), DirEntry(d)))'
    BY <1>8, <1>13
  <1>17. (\A i \in Done : FileEntry(i) \in ToSet(ListAt(Parent(PathOf(i)))))'
    BY <1>2, <1>14 DEF SameFiles
  <1>18. (\A q \in DOMAIN children : \A k \in DOMAIN children[q] :
           \/ \E d \in seen : children[q][k] = DirEntry(d)
           \/ \E i \in Done : children[q][k] = FileEntry(i))'
    BY <1>2, <1>8, <1>15 DEF SameFiles
  <1> QED BY <1>11, <1>12, <1>16, <1>17, <1>18 DEF Listings

(* In a well-formed torrent no file is a directory. *)
LEMMA FilesAreNoDirectories ==
  ASSUME IndexType, Listings, WellFormed, NEW i \in 1 .. Len(files)
  PROVE  /\ \A j \in 1 .. Len(files) : PathOf(i) \notin DirectoriesOf(j)
         /\ PathOf(i) \notin seen
  <1>1. \A j, k \in 1 .. Len(files) : ~ IsPrefix(PathOf(j), Directory(PathOf(k)))
    <2>1. DOMAIN files = 1 .. Len(files)
      BY LenProperties DEF IndexType
    <2> QED BY <2>1 DEF WellFormed
  <1>2. \A j \in 1 .. Len(files) : PathOf(i) \notin DirectoriesOf(j)
    <2> SUFFICES ASSUME NEW j \in 1 .. Len(files), PathOf(i) \in DirectoriesOf(j) PROVE FALSE
      OBVIOUS
    <2> DEFINE above == Directory(PathOf(j))
               p == PathOf(i)
    <2>1. above \in Seq(Name)
      BY PathOfType, DirectoryFacts DEF IsDirectory
    <2>2. PICK l \in 0 .. Len(above) : p = SubSeq(above, 1, l)
      BY DEF DirectoriesOf, Prefixes
    <2>3. ~ IsPrefix(p, above)
      BY <1>1
    <2> HIDE DEF above, p
    <2>4. Len(above) \in Nat /\ l \in Int /\ \A k \in 1 .. l : above[k] \in Name
      BY <2>1, LenProperties, ElementOfSeq
    <2>5. /\ p \in Seq(Name)
          /\ Len(p) = IF 1 <= l THEN l - 1 + 1 ELSE 0
      BY <2>2, <2>4, SubSeqProperties
    <2>6. Len(p) = l
      BY <2>4, <2>5
    <2>7. SubSeq(p, 1, Len(p)) = p
      BY <2>5, SubSeqFull
    <2> QED BY <2>2, <2>3, <2>4, <2>6, <2>7 DEF IsPrefix
  <1>3. PathOf(i) # Root
    <2> SUFFICES ASSUME PathOf(i) = Root PROVE FALSE
      OBVIOUS
    <2> DEFINE above == Directory(Root)
    <2>1. above \in Seq(Name) /\ Len(above) \in Nat
      BY PathOfType, DirectoryFacts, LenProperties DEF IsDirectory
    <2>2. ~ IsPrefix(Root, above)
      BY <1>1
    <2> HIDE DEF above
    <2>3. SubSeq(Root, 1, 0) = <<>> /\ SubSeq(above, 1, 0) = <<>>
      BY SubSeqEmpty
    <2>4. Len(Root) = 0
      BY DEF Root
    <2> QED BY <2>1, <2>2, <2>3, <2>4 DEF IsPrefix
  <1>4. PathOf(i) \notin seen
    <2>1. Done \subseteq 1 .. Len(files)
      BY DEF Done
    <2> QED BY <1>2, <1>3, <2>1 DEF Listings
  <1> QED BY <1>2, <1>4

LEMMA EntriesStep ==
  ASSUME IndexType, Listings, Entries, BuildIndex
  PROVE  Entries'
  <1> DEFINE path == PathOf(next)
             new == NewDirectories(path)
             file == [p \in {path} |-> FileEntry(next)]
             directories == [d \in new |-> DirEntry(d)]
             here == Assigned(file, entries)
  <1>1. /\ files' = files /\ next \in 1 .. Len(files) /\ Done' = Done \cup {next}
        /\ seen' = seen \cup new
    BY DoneStep
  <1>2. SameFiles
    BY <1>1, FilesStay
  <1> SUFFICES ASSUME WellFormed
               PROVE  (/\ DOMAIN entries = seen \cup {PathOf(i) : i \in Done}
                       /\ \A d \in seen : entries[d] = DirEntry(d)
                       /\ \A i \in Done : entries[PathOf(i)] = FileEntry(i))'
    BY <1>2 DEF SameFiles, Entries
  <1>3. entries' = Assigned(directories, here)
    BY DEF BuildIndex
  <1>4. /\ DOMAIN entries = seen \cup {PathOf(i) : i \in Done}
        /\ \A d \in seen : entries[d] = DirEntry(d)
        /\ \A i \in Done : entries[PathOf(i)] = FileEntry(i)
    BY DEF Entries
  <1>5. Done \subseteq 1 .. Len(files) /\ next \notin Done
    <2>1. phase = "index"
      BY DEF BuildIndex
    <2> QED BY <1>1, <2>1 DEF Done
  <1>6. \A i \in Done' : PathOf(i) \notin seen \cup new
    <2>1. new \subseteq DirectoriesOf(next)
      BY DEF NewDirectories, DirectoriesOf
    <2>2. \A i \in 1 .. Len(files) : PathOf(i) \notin DirectoriesOf(next) /\ PathOf(i) \notin seen
      BY <1>1, FilesAreNoDirectories
    <2> HIDE DEF new
    <2> QED BY <1>1, <1>5, <2>1, <2>2
  <1>7. \A i \in Done : PathOf(i) # path
    <2>1. DOMAIN files = 1 .. Len(files)
      BY LenProperties DEF IndexType
    <2> QED BY <1>1, <1>5, <2>1 DEF WellFormed
  <1>8. new \cap seen = {}
    BY DEF NewDirectories
  <1>9. path = PathOf(next) /\ DOMAIN directories = new /\ DOMAIN file = {path}
    OBVIOUS
  <1>10. file[path] = FileEntry(next) /\ \A d \in new : directories[d] = DirEntry(d)
    OBVIOUS
  <1> HIDE DEF path, new, file, directories
  <1>11. /\ DOMAIN here = {path} \cup DOMAIN entries
         /\ here[path] = FileEntry(next)
         /\ \A p \in DOMAIN entries : p # path => here[p] = entries[p]
    BY <1>9, <1>10 DEF Assigned
  <1> HIDE DEF here
  <1>12. /\ DOMAIN entries' = new \cup {path} \cup DOMAIN entries
         /\ \A d \in new : entries'[d] = DirEntry(d)
         /\ \A p \in DOMAIN here : p \notin new => entries'[p] = here[p]
    BY <1>3, <1>9, <1>10, <1>11 DEF Assigned
  <1>13. DOMAIN entries' = seen' \cup {PathOf(i) : i \in Done'}
    BY <1>1, <1>4, <1>9, <1>12
  <1>14. \A d \in seen' : entries'[d] = DirEntry(d)
    <2>1. path \notin seen
      BY <1>1, <1>6, <1>9
    <2> QED BY <1>1, <1>4, <1>8, <1>11, <1>12, <2>1
  <1>15. \A i \in Done' : entries'[PathOf(i)] = FileEntry(i)
    BY <1>1, <1>4, <1>6, <1>7, <1>9, <1>11, <1>12
  <1>16. \A d : DirEntry(d)' = DirEntry(d)
    BY DEF DirEntry
  <1> QED BY <1>2, <1>13, <1>14, <1>15, <1>16 DEF SameFiles

LEMMA IndexInit ==
  Init => IndexInv
  <1> SUFFICES ASSUME Init PROVE IndexInv
    OBVIOUS
  <1>1. files \in Seq(Texts)
    BY NamespaceAssumption DEF Init
  <1>2. DOMAIN children = {Root} /\ children[Root] = <<>> /\ seen = {Root}
    BY DEF Init
  <1>3. DOMAIN entries = {Root} /\ entries[Root] = DirEntry(Root)
    BY DEF Init
  <1>4. next = 1 /\ phase = "index"
    BY DEF Init
  <1>5. Done = {}
    BY <1>1, <1>4, LenProperties DEF Done
  <1>6. Root \in Seq(Name) /\ <<>> \in Seq(Entry)
    BY EmptySeq DEF Root
  <1>7. IndexType
    BY <1>1, <1>2, <1>4, <1>6 DEF IndexType
  <1>8. Listings
    <2>1. DOMAIN children[Root] = {}
      BY <1>2
    <2> QED BY <1>2, <1>5, <2>1 DEF Listings
  <1>9. Entries
    BY <1>2, <1>3, <1>5 DEF Entries
  <1> QED BY <1>7, <1>8, <1>9 DEF IndexInv

LEMMA IndexStays ==
  ASSUME IndexInv, UNCHANGED <<files, entries, children, seen>>, Done' = Done,
         next' \in Nat \ {0}, phase' \in {"index", "project", "ready"}
  PROVE  IndexInv'
  <1>1. SameFiles
    BY FilesStay
  <1>2. \A d : DirEntry(d)' = DirEntry(d)
    BY DEF DirEntry
  <1>3. \A q : ListAt(q)' = ListAt(q)
    BY DEF ListAt
  <1>4. IndexType'
    BY DEF IndexInv, IndexType
  <1>5. Listings'
    BY <1>1, <1>2, <1>3 DEF IndexInv, Listings, SameFiles
  <1>6. Entries'
    BY <1>1, <1>2 DEF IndexInv, Entries, SameFiles
  <1> QED BY <1>4, <1>5, <1>6 DEF IndexInv

LEMMA IndexStep ==
  IndexInv /\ [Next]_vars => IndexInv'
  <1> SUFFICES ASSUME IndexInv, [Next]_vars PROVE IndexInv'
    OBVIOUS
  <1>1. next \in Nat \ {0} /\ Len(files) \in Nat /\ phase \in {"index", "project", "ready"}
    BY LenProperties DEF IndexInv, IndexType
  <1>2. CASE BuildIndex
    BY <1>2, TypeStep, ListingsStep, EntriesStep DEF IndexInv
  <1>3. CASE RegisterProjectedPath
    <2>1. /\ UNCHANGED <<files, entries, children, seen>>
          /\ phase' = phase /\ phase = "project" /\ next' = next + 1
      BY <1>3 DEF RegisterProjectedPath
    <2>2. Done' = Done
      BY <2>1 DEF Done
    <2>3. next' \in Nat \ {0}
      BY <1>1, <2>1
    <2> QED BY <1>1, <2>1, <2>2, <2>3, IndexStays
  <1>4. CASE NextPhase
    <2>1. /\ UNCHANGED <<files, entries, children, seen>>
          /\ next > Len(files)
          /\ phase' = (IF phase = "index" THEN "project" ELSE "ready")
          /\ next' = (IF phase = "index" THEN 1 ELSE next)
      BY <1>4 DEF NextPhase
    <2>2. Done = 1 .. Len(files) /\ Done' = 1 .. Len(files)
      BY <1>1, <2>1 DEF Done
    <2>3. next' \in Nat \ {0} /\ phase' \in {"index", "project", "ready"}
      BY <1>1, <2>1
    <2> QED BY <2>1, <2>2, <2>3, IndexStays
  <1>5. CASE UNCHANGED vars
    <2>1. UNCHANGED <<files, entries, children, seen, next, phase>>
      BY <1>5 DEF vars
    <2>2. Done' = Done
      BY <2>1 DEF Done
    <2> QED BY <1>1, <2>1, <2>2, IndexStays
  <1> QED BY <1>2, <1>3, <1>4, <1>5 DEF Next

THEOREM IndexHolds == Spec => []IndexInv
  BY IndexInit, IndexStep, PTL DEF Spec

-----------------------------------------------------------------------------
(* The names in projectedToVirtual_ *)

(* What registerProjectedPath adds for a prefix of a path.                 *)
Registers(v) == [key \in Keys(v) |-> <<Slash>> \o v]

Maps(U, R) == UNION {[D -> R] : D \in SUBSET U}

LEMMA AssignedType ==
  ASSUME NEW U, NEW R, NEW new \in Maps(U, R), NEW map \in Maps(U, R)
  PROVE  Assigned(new, map) \in Maps(U, R)
  <1>1. PICK D \in SUBSET U : new \in [D -> R]
    BY DEF Maps
  <1>2. PICK E \in SUBSET U : map \in [E -> R]
    BY DEF Maps
  <1> DEFINE z == [k \in D \cup E |-> IF k \in D THEN new[k] ELSE map[k]]
  <1>3. z \in [D \cup E -> R]
    BY <1>1, <1>2
  <1>4. DOMAIN new = D /\ DOMAIN map = E
    BY <1>1, <1>2
  <1>5. Assigned(new, map) = z
    BY <1>4, Zenon DEF Assigned
  <1>6. D \cup E \in SUBSET U
    OBVIOUS
  <1> HIDE DEF z
  <1> QED BY <1>3, <1>5, <1>6, Zenon DEF Maps

FillLoop(virtuals, map, S, iter) ==
  iter = [s \in SUBSET S |->
            IF s = {} THEN map
            ELSE Assigned(iter[s \ {Max(s)}], Registers(virtuals[Max(s)]))]

LEMMA FillExists ==
  ASSUME NEW n \in Nat, NEW virtuals, NEW map, map = [k \in DOMAIN map |-> map[k]]
  PROVE  \E iter : FillLoop(virtuals, map, 1 .. n, iter)
  <1> DEFINE S == 1 .. n
             U == DOMAIN map \cup UNION {Keys(virtuals[k]) : k \in S}
             R == {map[k] : k \in DOMAIN map} \cup {<<Slash>> \o virtuals[k] : k \in S}
             V == Maps(U, R)
             pick == [s \in SUBSET S |-> Max(s)]
             turn(s, m) == Assigned(m, Registers(virtuals[Max(s)]))
             step == [p \in ((SUBSET S) \ {{}}) \X V |-> turn(p[1], p[2])]
  <1>1. IsFiniteSet(S)
    BY FS_Interval
  <1>2. \A s \in (SUBSET S) \ {{}} : Max(s) \in s
    BY LastSelected
  <1>3. map \in V
    <2>1. map \in [DOMAIN map -> R]
      <3> DEFINE B == DOMAIN map
      <3>1. \A k \in B : map[k] \in R
        OBVIOUS
      <3>2. map = [k \in B |-> map[k]]
        OBVIOUS
      <3> HIDE DEF B, R
      <3>3. [k \in B |-> map[k]] \in [B -> R]
        BY <3>1
      <3> QED BY <3>2, <3>3, Zenon DEF B
    <2>2. DOMAIN map \in SUBSET U
      OBVIOUS
    <2> HIDE DEF U, R
    <2> QED BY <2>1, <2>2, Zenon DEF Maps
  <1>4. \A k \in S : Registers(virtuals[k]) \in V
    <2> TAKE k \in S
    <2> DEFINE B == Keys(virtuals[k])
               x == <<Slash>> \o virtuals[k]
    <2>1. B \in SUBSET U /\ x \in R
      OBVIOUS
    <2>2. Registers(virtuals[k]) = [key \in B |-> x]
      BY DEF Registers
    <2> HIDE DEF B, x, U, R
    <2>3. [key \in B |-> x] \in [B -> R]
      BY <2>1
    <2> QED BY <2>1, <2>2, <2>3, Zenon DEF Maps
  <1> HIDE DEF V
  <1>5. \A s \in (SUBSET S) \ {{}}, m \in V : turn(s, m) \in V
    <2> TAKE s \in (SUBSET S) \ {{}}, m \in V
    <2>1. Max(s) \in S
      BY <1>2
    <2>2. Registers(virtuals[Max(s)]) \in V
      BY <1>4, <2>1
    <2> QED BY <2>2, AssignedType DEF V
  <1> HIDE DEF turn, S
  <1>6. step \in [((SUBSET S) \ {{}}) \X V -> V]
    BY <1>5
  <1>7. \A s \in (SUBSET S) \ {{}}, m \in V : step[<<s, m>>] = turn(s, m)
    OBVIOUS
  <1>8. \A s \in (SUBSET S) \ {{}} : pick[s] = Max(s) /\ pick[s] \in s
    BY <1>2
  <1> HIDE DEF pick, step
  <1>9. PICK f : SubsetRecursive(f, S, V, map, pick, step)
    <2>1. IsSubsetRecursion(S, V, map, pick, step)
      BY <1>1, <1>3, <1>6, <1>8 DEF IsSubsetRecursion
    <2> QED BY <2>1, SubsetRecursion
  <1> DEFINE g == [s \in SUBSET S |-> IF s = {} THEN map ELSE turn(s, f[s \ {Max(s)}])]
  <1>10. f \in [SUBSET S -> V] /\ f[{}] = map
    BY <1>9 DEF SubsetRecursive
  <1>11. \A s \in SUBSET S : f[s] = g[s]
    <2> TAKE s \in SUBSET S
    <2>1. CASE s = {}
      BY <1>10, <2>1
    <2>2. CASE s # {}
      <3>1. f[s] = step[<<s, f[s \ {pick[s]}]>>] /\ pick[s] = Max(s)
        BY <1>8, <1>9, <2>2 DEF SubsetRecursive
      <3>2. f[s \ {Max(s)}] \in V
        <4>1. s \ {Max(s)} \in SUBSET S
          OBVIOUS
        <4> HIDE DEF g
        <4> QED BY <1>10, <4>1
      <3> QED BY <1>7, <2>2, <3>1, <3>2
    <2> QED BY <2>1, <2>2
  <1>12. f = [s \in SUBSET S |-> f[s]] /\ g = [s \in SUBSET S |-> g[s]]
    BY <1>10
  <1> HIDE DEF g
  <1>13. f = g
    BY <1>11, <1>12, Zenon
  <1> QED BY <1>13, Zenon DEF g, turn, FillLoop, S

(* The keys after a file: those before keep their meaning, and each new    *)
(* one means a prefix that has it for a key.                               *)
Filled(z, map, virtuals, s) ==
  /\ DOMAIN z = DOMAIN map \cup UNION {Keys(virtuals[k]) : k \in s}
  /\ \A key \in DOMAIN map : z[key] = map[key]
  /\ \A key \in DOMAIN z : key \in DOMAIN map \/
       \E k \in s : key \in Keys(virtuals[k]) /\ z[key] = <<Slash>> \o virtuals[k]

IsFill(z, map, virtuals) ==
  z = FoldLeft(LAMBDA m, v : Assigned(m, [key \in Keys(v) |-> <<Slash>> \o v]), map, virtuals)

LEMMA FillFacts ==
  ASSUME NEW n \in Nat, NEW virtuals, DOMAIN virtuals = 1 .. n,
         NEW map, map = [k \in DOMAIN map |-> map[k]],
         NEW z, IsFill(z, map, virtuals)
  PROVE  z = [k \in DOMAIN z |-> z[k]] /\ Filled(z, map, virtuals, 1 .. n)
  <1> DEFINE S == DOMAIN virtuals
             iter == CHOOSE f : FillLoop(virtuals, map, S, f)
  <1>1. z = iter[S]
    BY DEF IsFill, FoldLeft, MapThenFoldSet, FillLoop, Registers
  <1>2. S = 1 .. n
    OBVIOUS
  <1>3. FillLoop(virtuals, map, S, iter)
    <2>1. \E f : FillLoop(virtuals, map, S, f)
      BY <1>2, FillExists
    <2> QED BY <2>1
  <1>4. IsFiniteSet(S)
    <2>1. IsFiniteSet(1 .. n)
      BY FS_Interval
    <2> HIDE DEF S
    <2> QED BY <1>2, <2>1
  <1>5. \A s \in (SUBSET S) \ {{}} : Max(s) \in s
    BY <1>2, LastSelected
  <1> HIDE DEF S, iter
  <1>6. iter[{}] = map
    BY <1>3 DEF FillLoop
  <1>7. \A s \in (SUBSET S) \ {{}} :
          iter[s] = Assigned(iter[s \ {Max(s)}], Registers(virtuals[Max(s)]))
    <2> DEFINE turn(s) == Assigned(iter[s \ {Max(s)}], Registers(virtuals[Max(s)]))
    <2>1. iter = [s \in SUBSET S |-> IF s = {} THEN map ELSE turn(s)]
      BY <1>3, Zenon DEF FillLoop
    <2> HIDE DEF turn
    <2>2. \A s \in (SUBSET S) \ {{}} : iter[s] = turn(s)
      BY <2>1
    <2> QED BY <2>2 DEF turn
  <1> DEFINE Good(s) == iter[s] = [k \in DOMAIN iter[s] |-> iter[s][k]] /\ Filled(iter[s], map, virtuals, s)
             F == {s \in SUBSET S : ~ Good(s)}
  <1>8. Good({})
    BY <1>6 DEF Filled
  <1>9. ASSUME NEW s \in (SUBSET S) \ {{}}, Good(s \ {Max(s)}) PROVE Good(s)
    <2> DEFINE m == Max(s)
               old == iter[s \ {m}]
               v == virtuals[m]
               new == Registers(v)
               y == iter[s]
    <2>1. m \in s
      BY <1>5
    <2>2. y = Assigned(old, new)
      BY <1>7
    <2>3. Filled(old, map, virtuals, s \ {m})
      BY <1>9
    <2>4. DOMAIN new = Keys(v) /\ \A key \in Keys(v) : new[key] = <<Slash>> \o v
      BY DEF Registers
    <2> HIDE DEF m, old, new, y
    <2>5. /\ DOMAIN y = DOMAIN old \cup Keys(v)
          /\ \A key \in DOMAIN old : y[key] = old[key]
          /\ \A key \in Keys(v) : key \notin DOMAIN old => y[key] = <<Slash>> \o v
          /\ y = [k \in DOMAIN y |-> y[k]]
      <3> DEFINE at(k) == IF k \in DOMAIN old THEN old[k] ELSE new[k]
      <3>1. y = [k \in DOMAIN old \cup Keys(v) |-> at(k)]
        BY <2>2, <2>4, Zenon DEF Assigned
      <3> HIDE DEF at
      <3>2. DOMAIN y = DOMAIN old \cup Keys(v) /\ y = [k \in DOMAIN y |-> y[k]]
        BY <3>1
      <3>3. \A k \in DOMAIN old \cup Keys(v) : y[k] = at(k)
        BY <3>1
      <3> QED BY <2>4, <3>2, <3>3, Zenon DEF at
    <2>6. DOMAIN y = DOMAIN map \cup UNION {Keys(virtuals[k]) : k \in s}
      <3>1. DOMAIN old = DOMAIN map \cup UNION {Keys(virtuals[k]) : k \in s \ {m}}
        BY <2>3 DEF Filled
      <3>2. UNION {Keys(virtuals[k]) : k \in s} = Keys(v) \cup UNION {Keys(virtuals[k]) : k \in s \ {m}}
        <4> DEFINE K(k) == Keys(virtuals[k])
        <4>1. Keys(v) = K(m)
          OBVIOUS
        <4> HIDE DEF K, v
        <4>2. UNION {K(k) : k \in s} = K(m) \cup UNION {K(k) : k \in s \ {m}}
          BY <2>1
        <4> QED BY <4>1, <4>2 DEF K
      <3> QED BY <2>5, <3>1, <3>2
    <2>7. \A key \in DOMAIN map : y[key] = map[key]
      BY <2>3, <2>5 DEF Filled
    <2>8. ASSUME NEW key \in DOMAIN y, key \notin DOMAIN map
          PROVE  \E k \in s : key \in Keys(virtuals[k]) /\ y[key] = <<Slash>> \o virtuals[k]
      <3>1. CASE key \in DOMAIN old
        <4>1. PICK k \in s \ {m} : key \in Keys(virtuals[k]) /\ old[key] = <<Slash>> \o virtuals[k]
          BY <2>3, <2>8, <3>1 DEF Filled
        <4> QED BY <2>5, <3>1, <4>1, Zenon
      <3>2. CASE key \notin DOMAIN old
        BY <2>1, <2>5, <3>2, Zenon
      <3> QED BY <3>1, <3>2
    <2>9. Filled(y, map, virtuals, s)
      BY <2>6, <2>7, <2>8, Zenon DEF Filled
    <2> QED BY <2>5, <2>9 DEF y
  <1> HIDE DEF Good
  <1>10. F = {}
    <2> SUFFICES ASSUME F # {} PROVE FALSE
      OBVIOUS
    <2>1. PICK t \in F : \A u \in F : ~ (u \subseteq t /\ u # t)
      <3>1. IsFiniteSet(S) /\ F \subseteq SUBSET S /\ F # {}
        BY <1>4
      <3> HIDE DEF F
      <3> QED BY <3>1, MinimalSet
    <2>2. t # {}
      BY <1>8
    <2>3. Max(t) \in t
      BY <1>5, <2>2
    <2>4. t \ {Max(t)} \notin F
      BY <2>1, <2>3
    <2> QED BY <1>9, <2>1, <2>2, <2>4
  <1>11. Good(S)
    BY <1>10
  <1> QED BY <1>1, <1>11, <1>2, Zenon DEF Good

(* The files that mount() has dealt with. *)
Registered ==
  {i \in 1 .. Len(files) : phase = "ready" \/ (phase = "project" /\ i < next)}

(* A key of projectedToVirtual_ means a prefix of a file's path. *)
Means(map, key, i) ==
  \E n \in DOMAIN Virtuals(files[i]) :
    /\ key \in Keys(Virtuals(files[i])[n])
    /\ map[key] = <<Slash>> \o Virtuals(files[i])[n]

(* The names there: the root, and those of all prefixes of the paths of    *)
(* these files; each but the root means such a prefix.                     *)
ProjectedNames ==
  /\ projected = [key \in DOMAIN projected |-> projected[key]]
  /\ Root \in DOMAIN projected /\ projected[Root] = <<Slash>>
  /\ \A i \in Registered : \A n \in DOMAIN Virtuals(files[i]) :
       Keys(Virtuals(files[i])[n]) \subseteq DOMAIN projected
  /\ \A key \in DOMAIN projected : key = Root \/ \E i \in Registered : Means(projected, key, i)

(* A name of a file means this file or one listed before it.               *)
FirstMeanings ==
  \A i \in Registered : \A n \in DOMAIN Virtuals(files[i]) :
    \A key \in Keys(Virtuals(files[i])[n]) :
      key = Root \/ \E j \in Registered : j <= i /\ Means(projected, key, j)

Projections == ProjectedNames /\ FirstMeanings

NamesInv == IndexInv /\ Projections

LEMMA ProjectionsInit ==
  ASSUME Init
  PROVE  Projections
  <1>1. Registered = {}
    BY DEF Init, Registered
  <1>2. DOMAIN projected = {Root} /\ projected[Root] = <<Slash>>
        /\ projected = [key \in DOMAIN projected |-> projected[key]]
    BY DEF Init
  <1> QED BY <1>1, <1>2 DEF Projections, ProjectedNames, FirstMeanings

LEMMA ProjectionsStay ==
  ASSUME Projections, files' = files, projected' = projected, Registered' = Registered
  PROVE  Projections'
  <1>1. \A key, i : Means(projected, key, i)' = Means(projected, key, i)
    BY Zenon DEF Means
  <1>2. ProjectedNames'
    BY <1>1, Zenon DEF Projections, ProjectedNames
  <1>3. ASSUME NEW i \in Registered', NEW n \in DOMAIN Virtuals(files'[i]),
               NEW key \in Keys(Virtuals(files'[i])[n]), key # Root
        PROVE  \E j \in Registered' : j <= i /\ Means(projected, key, j)'
    <2>1. i \in Registered /\ n \in DOMAIN Virtuals(files[i]) /\ key \in Keys(Virtuals(files[i])[n])
      BY <1>3
    <2>2. PICK j \in Registered : j <= i /\ Means(projected, key, j)
      BY <1>3, <2>1, Zenon DEF Projections, FirstMeanings
    <2>3. j \in Registered' /\ Means(projected, key, j)'
      BY <1>1, <2>2
    <2> QED BY <2>2, <2>3, Zenon
  <1>4. FirstMeanings'
    BY <1>3, Zenon DEF FirstMeanings
  <1> QED BY <1>2, <1>4 DEF Projections

LEMMA ProjectionsRegister ==
  ASSUME IndexType, Projections, RegisterProjectedPath
  PROVE  Projections'
  <1> DEFINE virtuals == Virtuals(files[next])
             n == Len(Tokens(files[next]))
  <1>1. /\ files' = files /\ phase' = phase /\ phase = "project" /\ next' = next + 1
        /\ next \in 1 .. Len(files) /\ next \in Nat
    <2>1. /\ UNCHANGED <<files, phase, entries, children, seen>>
          /\ phase = "project" /\ next' = next + 1 /\ next <= Len(files)
      BY Zenon DEF RegisterProjectedPath
    <2>2. Len(files) \in Nat /\ next \in Nat \ {0}
      BY LenProperties DEF IndexType
    <2> QED BY <2>1, <2>2
  <1>2. IsFill(projected', projected, virtuals)
    BY Zenon DEF RegisterProjectedPath, IsFill
  <1>3. files[next] \in Texts
    BY <1>1, ElementOfSeq DEF IndexType
  <1>4. n \in Nat /\ DOMAIN virtuals = 1 .. n
    BY <1>3, TokensDomain
  <1>5. Registered' = Registered \cup {next} /\ next \notin Registered
    <2>1. Len(files) \in Nat
      BY LenProperties DEF IndexType
    <2>2. \A i \in 1 .. Len(files) : i < next + 1 <=> i < next \/ i = next
      BY <1>1
    <2> QED BY <1>1, <2>1, <2>2 DEF Registered
  <1>6. virtuals = Virtuals(files'[next])
    BY <1>1
  <1>7. projected = [k \in DOMAIN projected |-> projected[k]]
    BY DEF Projections, ProjectedNames
  <1> HIDE DEF virtuals, n
  <1>8. projected' = [k \in DOMAIN projected' |-> projected'[k]]
          /\ Filled(projected', projected, virtuals, 1 .. n)
    BY <1>2, <1>4, <1>7, FillFacts
  <1>9. /\ DOMAIN projected' = DOMAIN projected \cup UNION {Keys(virtuals[k]) : k \in 1 .. n}
        /\ \A key \in DOMAIN projected : projected'[key] = projected[key]
        /\ \A key \in DOMAIN projected' : key \in DOMAIN projected \/
             \E k \in 1 .. n : key \in Keys(virtuals[k]) /\ projected'[key] = <<Slash>> \o virtuals[k]
    BY <1>8, Zenon DEF Filled
  <1>10. Root \in DOMAIN projected' /\ projected'[Root] = <<Slash>>
    BY <1>9 DEF Projections, ProjectedNames
  <1>11. ASSUME NEW i \in Registered', NEW k \in DOMAIN Virtuals(files[i])
         PROVE  Keys(Virtuals(files[i])[k]) \subseteq DOMAIN projected'
    <2>1. CASE i \in Registered
      <3>1. Keys(Virtuals(files[i])[k]) \subseteq DOMAIN projected
        BY <1>11, <2>1 DEF Projections, ProjectedNames
      <3> QED BY <1>9, <3>1
    <2>2. CASE i = next
      <3>1. k \in 1 .. n /\ Virtuals(files[i])[k] = virtuals[k]
        BY <1>4, <1>11, <2>2 DEF virtuals
      <3> DEFINE K(j) == Keys(virtuals[j])
      <3>2. K(k) \subseteq UNION {K(j) : j \in 1 .. n}
        <4> HIDE DEF K
        <4> QED BY <3>1
      <3> QED BY <1>9, <3>1, <3>2
    <2> QED BY <1>5, <1>11, <2>1, <2>2
  <1>12. \A key \in DOMAIN projected : \A i : Means(projected, key, i) => Means(projected', key, i)
    BY <1>9, Zenon DEF Means
  <1>13. ASSUME NEW key \in DOMAIN projected', key # Root
         PROVE  \/ key \in DOMAIN projected /\ \E i \in Registered : Means(projected', key, i)
                \/ key \notin DOMAIN projected /\ Means(projected', key, next)
    <2>1. CASE key \in DOMAIN projected
      <3>1. \E i \in Registered : Means(projected, key, i)
        BY <1>13, <2>1, Zenon DEF Projections, ProjectedNames
      <3> QED BY <1>12, <2>1, <3>1, Zenon
    <2>2. CASE key \notin DOMAIN projected
      <3>1. PICK k \in 1 .. n : key \in Keys(virtuals[k])
              /\ projected'[key] = <<Slash>> \o virtuals[k]
        BY <1>9, <1>13, <2>2, Zenon
      <3>2. k \in DOMAIN Virtuals(files[next])
        BY <1>4 DEF virtuals
      <3>3. Means(projected', key, next)
        BY <3>1, <3>2, Zenon DEF Means, virtuals
      <3> QED BY <2>2, <3>3
    <2> QED BY <2>1, <2>2
  <1>14. \A j \in Registered : j \in Registered' /\ j <= next
    <2>1. \A j \in Registered : j <= next
      BY <1>1 DEF Registered
    <2> QED BY <1>5, <2>1
  <1>15. next \in Registered' /\ next <= next
    BY <1>1, <1>5
  <1>16. \A key \in DOMAIN projected' :
           key = Root \/ \E i \in Registered' : Means(projected', key, i)
    BY <1>13, <1>14, <1>15, Zenon
  <1>17. ASSUME NEW i \in Registered', NEW k \in DOMAIN Virtuals(files[i]),
                NEW key \in Keys(Virtuals(files[i])[k]), key # Root
         PROVE  \E j \in Registered' : j <= i /\ Means(projected', key, j)
    <2>1. CASE i \in Registered
      <3>1. PICK j \in Registered : j <= i /\ Means(projected, key, j)
        BY <1>17, <2>1, Zenon DEF Projections, FirstMeanings
      <3>2. key \in DOMAIN projected
        <4>1. Keys(Virtuals(files[i])[k]) \subseteq DOMAIN projected
          BY <1>17, <2>1, Zenon DEF Projections, ProjectedNames
        <4> QED BY <1>17, <4>1
      <3> QED BY <1>12, <1>14, <3>1, <3>2, Zenon
    <2>2. CASE i = next
      <3>1. key \in DOMAIN projected'
        <4>1. Keys(Virtuals(files[i])[k]) \subseteq DOMAIN projected'
          BY <1>11, <1>17
        <4> QED BY <1>17, <4>1
      <3> QED BY <1>13, <1>14, <1>15, <1>17, <2>2, <3>1, Zenon
    <2> QED BY <1>5, <1>17, <2>1, <2>2
  <1>18. \A map, key, i : (Means(map, key, i))' = Means(map', key, i)
    BY <1>1, Zenon DEF Means
  <1>19. ProjectedNames'
    BY <1>1, <1>8, <1>10, <1>11, <1>16, <1>18, Zenon DEF ProjectedNames
  <1>20. FirstMeanings'
    BY <1>1, <1>17, <1>18, Zenon DEF FirstMeanings
  <1> QED BY <1>19, <1>20 DEF Projections

LEMMA NamesStep ==
  NamesInv /\ [Next]_vars => NamesInv'
  <1> SUFFICES ASSUME NamesInv, [Next]_vars PROVE NamesInv'
    OBVIOUS
  <1>1. IndexInv /\ IndexType /\ Projections
    BY DEF NamesInv, IndexInv
  <1>2. IndexInv'
    BY <1>1, IndexStep
  <1>3. CASE BuildIndex
    <2>1. files' = files /\ projected' = projected /\ phase = "index" /\ phase' = phase
      BY <1>3 DEF BuildIndex
    <2>2. Registered' = Registered
      BY <2>1 DEF Registered
    <2> QED BY <1>1, <1>2, <2>1, <2>2, ProjectionsStay DEF NamesInv
  <1>4. CASE RegisterProjectedPath
    BY <1>1, <1>2, <1>4, ProjectionsRegister DEF NamesInv
  <1>5. CASE NextPhase
    <2>1. /\ files' = files /\ projected' = projected
          /\ phase # "ready" /\ next > Len(files)
          /\ phase' = (IF phase = "index" THEN "project" ELSE "ready")
          /\ next' = (IF phase = "index" THEN 1 ELSE next)
      BY <1>5 DEF NextPhase
    <2>2. phase \in {"index", "project", "ready"} /\ next \in Nat /\ Len(files) \in Nat
      BY <1>1, LenProperties DEF IndexType
    <2>3. Registered' = Registered
      BY <2>1, <2>2 DEF Registered
    <2> QED BY <1>1, <1>2, <2>1, <2>3, ProjectionsStay DEF NamesInv
  <1>6. CASE UNCHANGED vars
    <2>1. UNCHANGED <<files, projected, phase, next>>
      BY <1>6 DEF vars
    <2>2. Registered' = Registered
      BY <2>1 DEF Registered
    <2> QED BY <1>1, <1>2, <2>1, <2>2, ProjectionsStay DEF NamesInv
  <1> QED BY <1>3, <1>4, <1>5, <1>6 DEF Next

THEOREM NamesHold == Spec => []NamesInv
  <1>1. Init => NamesInv
    BY IndexInit, ProjectionsInit DEF NamesInv
  <1> QED BY <1>1, NamesStep, PTL DEF Spec

-----------------------------------------------------------------------------
(* What follows of them *)

(* What follows of it *)
LEMMA IndexIsComplete ==
  ASSUME IndexInv
  PROVE  TreeComplete
  <1> SUFFICES ASSUME Named, NEW i \in 1 .. Len(files), phase # "index" \/ i < next
               PROVE  LET p == PathOf(i)
                      IN  /\ FileEntry(i) \in ToSet(ListAt(Parent(p)))
                          /\ \A k \in 1 .. Len(p) - 1 :
                               LET dir == SubSeq(p, 1, k)
                               IN  Cardinality({j \in DOMAIN ListAt(Parent(dir)) :
                                      ListAt(Parent(dir))[j] = DirEntry(dir)}) = 1
    BY DEF TreeComplete, ListDirectory
  <1> DEFINE p == PathOf(i)
             above == Directory(p)
  <1>1. IndexType /\ Listings
    BY DEF IndexInv
  <1>2. i \in Done
    BY DEF Done
  <1>3. FileEntry(i) \in ToSet(ListAt(Parent(p)))
    BY <1>1, <1>2 DEF Listings
  <1>4. p \in Paths /\ \A k \in 1 .. Len(p) : p[k] # Nameless
    <2>1. p \in Paths
      BY <1>1, PathOfType
    <2>2. i \in DOMAIN files
      BY <1>1, LenProperties DEF IndexType
    <2>3. Nameless \notin ToSet(p)
      BY <2>2 DEF Named
    <2> HIDE DEF p
    <2>4. DOMAIN p = 1 .. Len(p)
      BY <2>1, LenProperties DEF Paths
    <2> QED BY <2>1, <2>3, <2>4 DEF ToSet
  <1>5. Prefixes(above) \subseteq seen
    BY <1>1, <1>2 DEF Listings, DirectoriesOf
  <1> HIDE DEF p
  <1>6. Len(p) \in Nat
    BY <1>4, LenProperties DEF Paths
  <1>7. ASSUME NEW k \in 1 .. Len(p) - 1
        PROVE  SubSeq(p, 1, k) \in seen \ {Root}
    <2>1. p # <<>>
      <3>1. Len(<<>>) = 0
        OBVIOUS
      <3> QED BY <1>6, <3>1
    <2>2. /\ Front(p) \in Paths
          /\ Len(Front(p)) = Len(p) - 1
          /\ \A j \in 1 .. Len(p) - 1 : Front(p)[j] = p[j]
      BY <1>4, <2>1, FrontType DEF Paths
    <2>3. above = Front(p)
      <3>1. \A j \in 1 .. Len(Front(p)) : Front(p)[j] # Nameless
        BY <1>4, <1>6, <2>2
      <3> QED BY <1>4, <3>1, DirectoryFacts DEF IsDirectory
    <2> HIDE DEF above
    <2> DEFINE dir == SubSeq(p, 1, k)
               head == SubSeq(above, 1, k)
    <2>4. k \in Int /\ (\A j \in 1 .. k : p[j] \in Component) /\ \A j \in 1 .. k : above[j] = p[j]
      <3>1. \A j \in 1 .. Len(p) : p[j] \in Component
        BY <1>4, ElementOfSeq DEF Paths
      <3> QED BY <1>6, <2>2, <2>3, <3>1
    <2>5. /\ dir \in Seq(Component) /\ Len(dir) = (IF 1 <= k THEN k - 1 + 1 ELSE 0)
          /\ \A j \in 1 .. k - 1 + 1 : dir[j] = p[1 + j - 1]
      BY <2>4, SubSeqProperties
    <2>6. /\ head \in Seq(Component) /\ Len(head) = (IF 1 <= k THEN k - 1 + 1 ELSE 0)
          /\ \A j \in 1 .. k - 1 + 1 : head[j] = above[1 + j - 1]
      BY <2>4, SubSeqProperties
    <2> HIDE DEF dir, head
    <2>7. Len(dir) = k /\ Len(head) = k /\ \A j \in 1 .. k : dir[j] = head[j]
      BY <1>6, <2>4, <2>5, <2>6
    <2>8. dir = head
      BY <2>5, <2>6, <2>7, SeqEqual
    <2>9. head \in Prefixes(above)
      <3>1. k \in 0 .. Len(above)
        BY <1>6, <2>2, <2>3
      <3> QED BY <3>1 DEF Prefixes, head
    <2>10. dir # Root
      <3>1. Len(<<>>) = 0
        OBVIOUS
      <3> QED BY <1>6, <2>7, <3>1 DEF Root
    <2> QED BY <1>5, <2>8, <2>9, <2>10 DEF dir
  <1>8. ASSUME NEW k \in 1 .. Len(p) - 1
        PROVE  LET dir == SubSeq(p, 1, k)
               IN  Cardinality({j \in DOMAIN ListAt(Parent(dir)) :
                                  ListAt(Parent(dir))[j] = DirEntry(dir)}) = 1
    <2> DEFINE dir == SubSeq(p, 1, k)
               list == ListAt(Parent(dir))
               places == {j \in DOMAIN list : list[j] = DirEntry(dir)}
    <2>1. OnceIn(list, DirEntry(dir))
      BY <1>1, <1>7 DEF Listings
    <2>2. PICK j \in DOMAIN list : \A m \in DOMAIN list : list[m] = DirEntry(dir) <=> m = j
      BY <2>1 DEF OnceIn
    <2>3. places = {j}
      BY <2>2
    <2>4. Cardinality({j}) = 1
      BY FS_Singleton
    <2> QED BY <2>3, <2>4
  <1> QED BY <1>3, <1>8 DEF p

LEMMA IndexesAgree ==
  ASSUME IndexInv
  PROVE  LookupAgrees
  <1> SUFFICES ASSUME WellFormed
               PROVE  /\ \A e \in ListedEntries : LookupPath(e.path) = e
                      /\ \A q \in DOMAIN entries \ {Root} : entries[q] \in ToSet(ListAt(Parent(q)))
    BY DEF LookupAgrees, ListDirectory
  <1>1. Listings
    BY DEF IndexInv
  <1>2. /\ DOMAIN entries = seen \cup {PathOf(i) : i \in Done}
        /\ \A d \in seen : entries[d] = DirEntry(d)
        /\ \A i \in Done : entries[PathOf(i)] = FileEntry(i)
    BY DEF IndexInv, Entries
  <1>3. ASSUME NEW e \in ListedEntries PROVE LookupPath(e.path) = e
    <2>1. PICK q \in DOMAIN children : \E k \in DOMAIN children[q] : e = children[q][k]
      BY DEF ListedEntries, ToSet
    <2>2. CASE \E d \in seen : e = DirEntry(d)
      <3>1. PICK d \in seen : e = DirEntry(d)
        BY <2>2
      <3>2. e.path = d
        BY <3>1 DEF DirEntry
      <3> QED BY <1>2, <3>1, <3>2 DEF LookupPath
    <2>3. CASE \E i \in Done : e = FileEntry(i)
      <3>1. PICK i \in Done : e = FileEntry(i)
        BY <2>3
      <3>2. e.path = PathOf(i)
        BY <3>1 DEF FileEntry
      <3> QED BY <1>2, <3>1, <3>2 DEF LookupPath
    <2> QED BY <1>1, <2>1, <2>2, <2>3 DEF Listings
  <1>4. ASSUME NEW q \in DOMAIN entries \ {Root} PROVE entries[q] \in ToSet(ListAt(Parent(q)))
    <2>1. CASE q \in seen
      <3>1. entries[q] = DirEntry(q) /\ OnceIn(ListAt(Parent(q)), DirEntry(q))
        BY <1>1, <1>2, <2>1 DEF Listings
      <3> QED BY <3>1 DEF OnceIn, ToSet
    <2>2. CASE q \notin seen
      <3>1. PICK i \in Done : q = PathOf(i)
        BY <1>2, <2>2
      <3>2. FileEntry(i) \in ToSet(ListAt(Parent(PathOf(i))))
        BY <1>1 DEF Listings
      <3> QED BY <1>2, <3>1, <3>2
    <2> QED BY <2>1, <2>2
  <1> QED BY <1>3, <1>4

(* Each entry that a listing shows is that of a directory met or of a file,*)
(* its path normalized, and found under it.                                *)
LEMMA ShownEntries ==
  ASSUME IndexInv, WellFormed, NEW q \in DOMAIN entries, NEW e \in Answered(entries[q], "1")
  PROVE  e.path \in Paths /\ NamedAtEnd(e.path) /\ LookupPath(e.path) = e
  <1>1. IndexType /\ Listings
    BY DEF IndexInv
  <1>2. /\ DOMAIN entries = seen \cup {PathOf(i) : i \in Done}
        /\ \A d \in seen : entries[d] = DirEntry(d)
        /\ \A i \in Done : entries[PathOf(i)] = FileEntry(i)
    BY DEF IndexInv, Entries
  <1>3. (\E d \in seen : e = DirEntry(d)) \/ \E i \in Done : e = FileEntry(i)
    <2>1. CASE e = entries[q]
      BY <1>2, <2>1
    <2>2. CASE e \in ToSet(ListAt(entries[q].path))
      <3> DEFINE at == entries[q].path
      <3>1. PICK k \in DOMAIN ListAt(at) : e = ListAt(at)[k]
        BY <2>2 DEF ToSet
      <3>2. at \in DOMAIN children
        <4>1. DOMAIN <<>> = {}
          OBVIOUS
        <4> QED BY <3>1, <4>1 DEF ListAt
      <3> HIDE DEF at
      <3> QED BY <1>1, <3>1, <3>2 DEF Listings, ListAt
    <2> QED BY <2>1, <2>2 DEF Answered, ListDirectory
  <1>4. CASE \E d \in seen : e = DirEntry(d)
    <2>1. PICK d \in seen : e = DirEntry(d)
      BY <1>4
    <2>2. e.path = d /\ d \in Seq(Name)
      BY <1>1, <2>1 DEF DirEntry, IndexType
    <2>3. d \in Paths
      <3>1. Name \subseteq Component
        BY DEF Name
      <3> QED BY <2>2, <3>1, SeqMonotonic DEF Paths
    <2>4. NamedAtEnd(d)
      <3> SUFFICES ASSUME d # <<>> PROVE Last(d) # Nameless
        BY DEF NamedAtEnd, Root
      <3>1. Last(d) \in Name
        BY <2>2, FrontType
      <3> QED BY <3>1 DEF Name
    <2>5. LookupPath(d) = e
      BY <1>2, <2>1 DEF LookupPath
    <2> QED BY <2>2, <2>3, <2>4, <2>5
  <1>5. CASE \E i \in Done : e = FileEntry(i)
    <2>1. PICK i \in Done : e = FileEntry(i)
      BY <1>5
    <2>2. e.path = PathOf(i)
      BY <2>1 DEF FileEntry
    <2>3. files[i] \in Texts
      <3>1. i \in 1 .. Len(files)
        BY DEF Done
      <3> QED BY <1>1, <3>1, ElementOfSeq DEF IndexType
    <2>4. PathOf(i) \in Paths /\ NamedAtEnd(PathOf(i))
      BY <2>3, NormalizedType DEF PathOf
    <2>5. LookupPath(PathOf(i)) = e
      BY <1>2, <2>1 DEF LookupPath
    <2> QED BY <2>2, <2>4, <2>5
  <1> QED BY <1>3, <1>4, <1>5

(* A byte of the text of a path is a slash or one of a component.          *)
LEMMA JoinedBytes ==
  ASSUME NEW p \in Seq(Components(0 .. 255)), NEW odd, Slash \notin odd,
         \A k \in 1 .. Len(p) : \A j \in 1 .. Len(p[k]) : p[k][j] \notin odd
  PROVE  \A j \in 1 .. Len(Joined(p)) : Joined(p)[j] \notin odd
  <1> DEFINE x == Joined(p)
             n == Len(p)
  <1>1. Slash \in 0 .. 255
    BY DEF Slash
  <1>2. x \in Seq(0 .. 255) /\ \E at : IsText(x, p, at)
    BY <1>1, JoinedText
  <1> HIDE DEF x
  <1>3. PICK at : IsText(x, p, at)
    BY <1>2
  <1>4. n \in Nat /\ Len(x) \in Nat /\ \A k \in 1 .. n : Len(p[k]) \in Nat
    <2>1. \A k \in 1 .. n : p[k] \in Seq((0 .. 255) \ {Slash})
      BY ElementOfSeq DEF Components
    <2> QED BY <1>2, <2>1, LenProperties
  <1>5. /\ at \in [0 .. n -> 0 .. Len(x)] /\ at[0] = 0 /\ at[n] = Len(x)
        /\ \A k \in 1 .. n :
             /\ at[k] = at[k - 1] + 1 + Len(p[k])
             /\ x[at[k - 1] + 1] = Slash
             /\ \A j \in 1 .. Len(p[k]) : x[at[k - 1] + 1 + j] = p[k][j]
    BY <1>3 DEF IsText, Holds
  <1>6. \A k \in 1 .. n : \A j \in 1 .. Len(p[k]) : p[k][j] \notin odd
    OBVIOUS
  <1> HIDE DEF n
  <1> DEFINE Q(k) == \A j \in 1 .. at[k] : x[j] \notin odd
             P == {k \in 0 .. n : Q(k)}
  <1>7. 0 \in P
    BY <1>4, <1>5
  <1>8. ASSUME NEW k \in 1 .. n, k - 1 \in P PROVE k \in P
    <2> DEFINE a == at[k - 1]
               l == Len(p[k])
    <2>1. a \in 0 .. Len(x) /\ at[k] = a + 1 + l /\ l \in Nat /\ k \in 0 .. n
      <3>1. k - 1 \in 0 .. n /\ k \in 0 .. n
        BY <1>4
      <3> QED BY <1>4, <1>5, <3>1
    <2>2. \A j \in 1 .. a : x[j] \notin odd
      BY <1>8
    <2>3. x[a + 1] = Slash /\ \A j \in 1 .. l : x[a + 1 + j] = p[k][j]
      BY <1>5
    <2> HIDE DEF P, a, l
    <2>4. ASSUME NEW j \in 1 .. at[k] PROVE x[j] \notin odd
      <3>1. CASE j <= a
        BY <2>1, <2>2, <2>4, <3>1
      <3>2. CASE j = a + 1
        BY <2>3, <3>2
      <3>3. CASE j > a + 1
        <4> DEFINE i == j - (a + 1)
        <4>1. i \in 1 .. l /\ a + 1 + i = j
          BY <1>4, <2>1, <2>4, <3>3
        <4> HIDE DEF i
        <4>2. x[j] = p[k][i] /\ p[k][i] \notin odd
          BY <1>6, <2>3, <4>1 DEF l
        <4> QED BY <4>2
      <3> QED BY <1>4, <2>1, <3>1, <3>2, <3>3
    <2> QED BY <2>1, <2>4 DEF P
  <1> HIDE DEF P
  <1>9. \A k \in 0 .. n : k \in P
    BY <1>4, <1>7, <1>8, Counting
  <1>10. Q(n)
    BY <1>4, <1>9 DEF P
  <1> QED BY <1>5, <1>10 DEF x

(* A path that means itself in a URI is asked for as it is, apart from     *)
(* escapes that are undone.                                                *)
LEMMA AskedAsListed ==
  ASSUME NEW p \in Paths, NamedAtEnd(p), MeansItself(p)
  PROVE  urlDecode(ClientTarget(PathText(p))) = PathText(p)
  <1> DEFINE x == PathText(p)
             n == Len(x)
             odd == {Percent, Plus, Fragment}
  <1>1. x \in Slashing
    BY BeginsWithSlash
  <1>2. x \in Seq(0 .. 255) /\ x # <<>>
    BY <1>1 DEF Slashing, Texts
  <1>3. n \in Nat /\ DOMAIN x = 1 .. n
    BY <1>2, LenProperties
  <1>4. \A k \in 1 .. n : x[k] \notin odd
    <2>1. Slash \notin odd
      BY DEF Slash, Percent, Plus, Fragment
    <2>2. \A k \in 1 .. Len(p) : \A j \in 1 .. Len(p[k]) : p[k][j] \notin odd
      <3> TAKE k \in 1 .. Len(p)
      <3>1. p[k] \in Component /\ DOMAIN p = 1 .. Len(p)
        BY ElementOfSeq, LenProperties DEF Paths
      <3>2. DOMAIN p[k] = 1 .. Len(p[k])
        BY <3>1, LenProperties DEF Component, Components
      <3>3. \A b \in ToSet(p[k]) : b \notin odd
        BY <3>1 DEF MeansItself
      <3> HIDE DEF odd
      <3> QED BY <3>2, <3>3 DEF ToSet
    <2>3. p \in Seq(Components(0 .. 255))
      BY BytePaths
    <2> HIDE DEF odd
    <2>4. CASE p = Root
      <3>1. x = <<Slash>>
        BY <2>4 DEF PathText
      <3> HIDE DEF x
      <3>2. \A k \in 1 .. n : x[k] = Slash
        BY <3>1
      <3> QED BY <2>1, <3>2
    <2>5. CASE p # Root
      <3>1. x = Joined(p)
        BY <2>5 DEF PathText
      <3>2. \A j \in 1 .. Len(Joined(p)) : Joined(p)[j] \notin odd
        BY <2>1, <2>2, <2>3, JoinedBytes
      <3> HIDE DEF x
      <3> QED BY <3>1, <3>2
    <2> QED BY <2>4, <2>5
  <1> HIDE DEF x
  <1>5. SelectInSeq(x, LAMBDA b : b = Fragment) = 0
    <2> DEFINE I == {i \in 1 .. n : x[i] = Fragment}
    <2>1. SelectInSeq(x, LAMBDA b : b = Fragment) = IF I # {} THEN Min(I) ELSE 0
      BY DEF SelectInSeq
    <2>2. I = {}
      BY <1>4
    <2> QED BY <2>1, <2>2
  <1>6. ClientTarget(x) = Escaped(x, UriBytes)
    <2> DEFINE fragment == SelectInSeq(x, LAMBDA b : b = Fragment)
    <2>1. ClientTarget(x) =
            Escaped(IF fragment = 0 THEN x ELSE SubSeq(x, 1, fragment - 1), UriBytes)
      BY DEF ClientTarget
    <2>2. fragment = 0
      BY <1>5
    <2> HIDE DEF fragment
    <2> QED BY <2>1, <2>2
  <1>7. Keepable(x, UriBytes)
    BY <1>4 DEF Keepable
  <1> QED BY <1>2, <1>6, <1>7, EscapedIsDecoded DEF x

LEMMA HrefsLeadBack ==
  ASSUME IndexInv
  PROVE  ListedHrefsResolve
  <1> SUFFICES ASSUME WellFormed, NEW q \in DOMAIN entries, NEW e \in Answered(entries[q], "1"),
                      MeansItself(e.path)
               PROVE  Lookup(urlDecode(ClientTarget(WebDavHref(e)))) = e
    BY DEF ListedHrefsResolve
  <1> DEFINE p == e.path
             x == PathText(p)
  <1>1. p \in Paths /\ NamedAtEnd(p) /\ LookupPath(p) = e
    BY ShownEntries
  <1>2. WebDavHref(e) = x
    BY DEF WebDavHref
  <1>3. MeansItself(p)
    OBVIOUS
  <1> HIDE DEF p
  <1>4. normalizePath(x) = p
    BY <1>1, NormalizedText
  <1>5. urlDecode(ClientTarget(x)) = x
    BY <1>1, <1>3, AskedAsListed
  <1> QED BY <1>1, <1>2, <1>4, <1>5 DEF Lookup

LEMMA FilesAskedFor ==
  ASSUME IndexType
  PROVE  SeedAskedForFile
  <1> SUFFICES ASSUME NEW i \in DOMAIN files, NEW base \in BaseUrls
               PROVE  LET asked == parseHttpUrl(buildFileUrl(base, PathText(PathOf(i))))
                          own == parseHttpUrl(base)
                          below == IF Last(own.path) = Slash THEN Front(own.path) ELSE own.path
                      IN  /\ asked.host = own.host
                          /\ urlDecode(asked.path) =
                               (IF below = <<>> THEN <<>> ELSE urlDecode(below)) \o PathText(PathOf(i))
    BY DEF SeedAskedForFile
  <1> DEFINE x == PathText(PathOf(i))
             u == Tail(x)
             s == <<Slash>>
             asked == parseHttpUrl(buildFileUrl(base, x))
             own == parseHttpUrl(base)
  <1>1. base \in Texts /\ base # <<>>
    BY NamespaceAssumption
  <1>2. x \in Slashing
    <2>1. i \in 1 .. Len(files)
      BY LenProperties DEF IndexType
    <2>2. PathOf(i) \in Paths
      BY <2>1, PathOfType
    <2> QED BY <2>2, BeginsWithSlash
  <1> HIDE DEF x
  <1>3. u \in Texts /\ x = s \o u
    BY <1>2, SlashAndTail, Zenon DEF BehindSlash
  <1>4. PICK h \in Slashless, path \in Slashing :
           /\ Parsed(own, h, path)
           /\ Below(path) \in Texts
           /\ Parsed(asked, h, Below(path) \o (s \o percentEncodePath(u)))
    BY <1>1, <1>2, FileUrl
  <1> DEFINE b == Below(path)
  <1>5. asked.host = own.host /\ own.path = path
        /\ asked.path = b \o (s \o percentEncodePath(u))
    BY <1>4, Zenon DEF Parsed
  <1>6. urlDecode(asked.path) = DecodedBase(b) \o (s \o u)
    <2>1. b \in Seq(0 .. 255) /\ u \in Seq(0 .. 255)
      BY <1>3, <1>4 DEF Texts
    <2> HIDE DEF b, u, asked
    <2> QED BY <1>5, <2>1, EncodedBehindSlash
  <1> HIDE DEF u, asked, own, s
  <1>7. urlDecode(asked.path) = DecodedBase(b) \o x
    BY <1>3, <1>6, Zenon
  <1>8. b = IF Last(own.path) = Slash THEN Front(own.path) ELSE own.path
    BY <1>5, Zenon DEF Below
  <1>9. DecodedBase(b) = IF b = <<>> THEN <<>> ELSE urlDecode(b)
    BY DEF DecodedBase
  <1> HIDE DEF b
  <1>10. LET below == IF Last(own.path) = Slash THEN Front(own.path) ELSE own.path
         IN  /\ asked.host = own.host
             /\ urlDecode(asked.path) = (IF below = <<>> THEN <<>> ELSE urlDecode(below)) \o x
    BY <1>5, <1>7, <1>8, <1>9, Zenon
  <1> QED BY <1>10, Zenon DEF asked, own, x

(* A file none of whose components is empty: its text is that of its       *)
(* parts, and normalized behind a slash as it is alone.                    *)
NamedFile(i, parts) ==
  /\ parts = Split(files[i]) /\ files[i] \in Texts
  /\ parts \in Seq(Components(Bytes)) /\ Len(parts) \in Nat \ {0}
  /\ \A k \in 1 .. Len(parts) : parts[k] \in Texts /\ parts[k] # Nameless
  /\ Joined(parts) = <<Slash>> \o files[i]
  /\ PathOf(i) = normalizePath(<<Slash>> \o files[i])

LEMMA NamedFiles ==
  ASSUME IndexType, NEW i \in 1 .. Len(files), Nameless \notin ToSet(Split(files[i]))
  PROVE  NamedFile(i, Split(files[i]))
  <1> DEFINE text == files[i]
             p == Split(text)
             x == <<Slash>> \o text
  <1>1. text \in Texts
    BY ElementOfSeq DEF IndexType
  <1> HIDE DEF text
  <1>2. Slash \in Bytes /\ p \in Seq(Components(Bytes)) /\ p # <<>>
    BY <1>1, SplitType DEF Parts, Texts, Bytes, Slash
  <1>3. Len(p) \in Nat \ {0} /\ DOMAIN p = 1 .. Len(p)
          /\ \A k \in 1 .. Len(p) : p[k] \in Components(Bytes)
    <2> HIDE DEF p
    <2>1. Len(p) \in Nat /\ DOMAIN p = 1 .. Len(p) /\ Len(p) # 0
      BY <1>2, EmptySeq, LenProperties
    <2>2. \A k \in 1 .. Len(p) : p[k] \in Components(Bytes)
      BY <1>2, ElementOfSeq
    <2> QED BY <2>1, <2>2
  <1>4. \A k \in 1 .. Len(p) : p[k] # Nameless
    <2>1. Nameless \notin ToSet(p)
      BY DEF text
    <2> HIDE DEF p
    <2> QED BY <1>3, <2>1 DEF ToSet
  <1>5. \A k \in 1 .. Len(p) : p[k] \in Texts
    <2>1. Bytes \ {Slash} \subseteq Bytes
      OBVIOUS
    <2>2. Components(Bytes) \subseteq Texts
      BY <2>1, SeqMonotonic DEF Components, Texts, Bytes
    <2> HIDE DEF p
    <2> QED BY <1>3, <2>2
  <1>6. Joined(p) = x
    BY <1>1, <1>2, JoinedSplit, Zenon DEF Rejoined, Texts, Bytes
  <1>7. normalizePath(x) = normalizePath(text)
    <2>1. \A j \in 1 .. Len(text) : j = 1 => text[j] # Slash
      BY <1>1, <1>4, NamedBegin
    <2> HIDE DEF x
    <2> QED BY <1>1, <2>1, NormalizedBehindSlash DEF x
  <1>8. PathOf(i) = normalizePath(text)
    BY DEF PathOf, text
  <1> HIDE DEF p, x
  <1> QED BY <1>1, <1>2, <1>3, <1>4, <1>5, <1>6, <1>7, <1>8, Zenon DEF NamedFile, p, x, text

LEMMA FirstNamesLeadBack ==
  ASSUME NamesInv
  PROVE  FirstNamesResolve
  <1> SUFFICES ASSUME phase = "ready", WellFormed, Named, NEW i \in DOMAIN files,
                      NEW key \in {ProjectedKey(files[i]), AsciiKey(files[i])},
                      ~ TakenBefore(key, i)
               PROVE  LookupProjected(key) = FileEntry(i)
    BY DEF FirstNamesResolve
  <1>1. IndexType /\ Entries /\ Projections
    BY DEF NamesInv, IndexInv
  <1>2. DOMAIN files = 1 .. Len(files) /\ Registered = 1 .. Len(files) /\ Done = 1 .. Len(files)
    BY <1>1, LenProperties DEF IndexType, Registered, Done
  <1>3. \A j \in 1 .. Len(files) : NamedFile(j, Split(files[j]))
    <2> TAKE j \in 1 .. Len(files)
    <2>1. Nameless \notin ToSet(Split(files[j]))
      BY <1>2 DEF Named
    <2> QED BY <1>1, <2>1, NamedFiles
  <1> DEFINE p == Split(files[i])
             n == Len(p)
  <1>4. NamedFile(i, p)
    BY <1>2, <1>3
  <1>5. n \in Nat \ {0} /\ n \in 1 .. n
    <2>1. n \in Nat \ {0}
      BY <1>4 DEF NamedFile
    <2> QED BY <2>1
  <1>6. \A m \in 1 .. n : PrefixKeys(files[i], p, m)
    BY <1>4, KeysOfParts DEF NamedFile
  <1>7. key \in {MadeForWindows(p, n), MadeAscii(p, n)} /\ key \in Keys(Virtuals(files[i])[n])
    BY <1>5, <1>6 DEF PrefixKeys
  <1>8. DOMAIN Virtuals(files[i]) = 1 .. n
    <2>1. VirtualsOf(files[i], p)
      BY <1>4, VirtualFacts DEF NamedFile
    <2> QED BY <2>1 DEF VirtualsOf
  <1> HIDE DEF p, n
  <1>9. DOMAIN key = 1 .. n
    BY <1>7 DEF MadeForWindows, MadeAscii
  <1>10. key # Root
    <2>1. DOMAIN Root = {}
      BY DEF Root
    <2> QED BY <1>5, <1>9, <2>1
  <1>11. key \in DOMAIN projected
    BY <1>1, <1>2, <1>5, <1>7, <1>8 DEF Projections, ProjectedNames
  <1>12. PICK j \in 1 .. Len(files) : j <= i /\ \E m \in DOMAIN Virtuals(files[j]) :
           /\ key \in Keys(Virtuals(files[j])[m])
           /\ projected[key] = <<Slash>> \o Virtuals(files[j])[m]
    <2>1. i \in Registered /\ n \in DOMAIN Virtuals(files[i])
            /\ key \in Keys(Virtuals(files[i])[n]) /\ key # Root
      BY <1>2, <1>5, <1>7, <1>8, <1>10
    <2> QED BY <1>1, <1>2, <2>1, Zenon DEF Projections, FirstMeanings, Means
  <1>13. PICK m \in DOMAIN Virtuals(files[j]) :
           /\ key \in Keys(Virtuals(files[j])[m])
           /\ projected[key] = <<Slash>> \o Virtuals(files[j])[m]
    BY <1>12, Zenon
  <1>14. j = i
    <2> SUFFICES ASSUME j # i PROVE FALSE
      OBVIOUS
    <2>1. j \in 1 .. i - 1
      <3>1. i \in 1 .. Len(files) /\ Len(files) \in Nat
        BY <1>1, <1>2, LenProperties DEF IndexType
      <3> QED BY <1>12, <3>1
    <2>2. Virtuals(files[j])[m] \in ToSet(Virtuals(files[j]))
      BY <1>13, Zenon DEF ToSet
    <2> QED BY <1>13, <2>1, <2>2, Zenon DEF TakenBefore
  <1>15. m = n
    <2>1. m \in 1 .. n
      BY <1>8, <1>13, <1>14
    <2>2. key \in {MadeForWindows(p, m), MadeAscii(p, m)}
      BY <1>6, <1>13, <1>14, <2>1, Zenon DEF PrefixKeys
    <2>3. DOMAIN key = 1 .. m
      BY <2>2 DEF MadeForWindows, MadeAscii
    <2>4. n \in 1 .. m
      BY <1>5, <1>9, <2>3
    <2> QED BY <1>5, <2>1, <2>4
  <1>16. projected[key] = <<Slash>> \o files[i]
    <2>1. <<Slash>> \o Virtuals(files[i])[n] = Joined(SubSeq(p, 1, n))
      BY <1>5, <1>6, Zenon DEF PrefixKeys
    <2>2. Joined(p) = <<Slash>> \o files[i]
      BY <1>4, Zenon DEF NamedFile
    <2>3. SubSeq(p, 1, n) = p
      BY <1>4, SubSeqFull DEF NamedFile, n
    <2> QED BY <1>13, <1>14, <1>15, <2>1, <2>2, <2>3, Zenon
  <1>17. Lookup(projected[key]) = LookupPath(PathOf(i))
    <2>1. PathOf(i) = normalizePath(<<Slash>> \o files[i])
      BY <1>4, Zenon DEF NamedFile
    <2> QED BY <1>16, <2>1, Zenon DEF Lookup
  <1>18. LookupPath(PathOf(i)) = FileEntry(i)
    BY <1>1, <1>2 DEF Entries, LookupPath
  <1> QED BY <1>11, <1>17, <1>18 DEF LookupProjected

(* The path of a file all of whose components Windows takes as they are.   *)
SafeFile(i, parts) ==
  /\ NamedFile(i, parts)
  /\ PathOf(i) = parts /\ parts \in Paths
  /\ \A k \in 1 .. Len(parts) : Sanitized(parts[k]) = parts[k]

LEMMA SafeFiles ==
  ASSUME IndexType, SafeNames, NEW i \in 1 .. Len(files)
  PROVE  SafeFile(i, Split(files[i]))
  <1> DEFINE text == files[i]
             p == Split(text)
  <1>1. text \in Texts
    BY ElementOfSeq DEF IndexType
  <1>2. \A c \in ToSet(p) : Sanitized(c) = c
    <2>1. i \in DOMAIN files
      BY LenProperties DEF IndexType
    <2> DEFINE used == UNION {ToSet(Split(files[j])) : j \in DOMAIN files}
    <2>2. ToSet(p) \subseteq used
      BY <2>1
    <2>3. \A c \in used : Sanitized(c) = c
      BY DEF SafeNames
    <2> HIDE DEF used, p
    <2> QED BY <2>2, <2>3
  <1> HIDE DEF text
  <1>3. p \in Seq(Components(Bytes)) /\ p # <<>>
    BY <1>1, SplitType DEF Parts, Texts, Bytes
  <1>4. Components(Bytes) \subseteq Texts
    <2>1. Bytes \ {Slash} \subseteq Bytes
      OBVIOUS
    <2> QED BY <2>1, SeqMonotonic DEF Components, Texts, Bytes
  <1>5. Nameless \notin ToSet(p)
    <2>1. Nameless \in Texts
      BY EmptySeq DEF Nameless, Texts
    <2> HIDE DEF p
    <2> QED BY <1>2, <2>1, SafeName DEF Nameless
  <1>6. NamedFile(i, p)
    BY <1>5, NamedFiles DEF text
  <1> HIDE DEF p
  <1>7. DOMAIN p = 1 .. Len(p) /\ \A k \in 1 .. Len(p) : p[k] \in Components(Bytes)
    BY <1>3, LenProperties, ElementOfSeq
  <1>8. \A k \in 1 .. Len(p) : Sanitized(p[k]) = p[k]
    BY <1>2, <1>7 DEF ToSet
  <1>9. p \in Paths
    <2>1. \A k \in 1 .. Len(p) : p[k] \in Component
      <3> TAKE k \in 1 .. Len(p)
      <3> DEFINE c == p[k]
      <3>1. c \in Seq(Bytes \ {Slash}) /\ c \in Texts /\ Sanitized(c) = c
        BY <1>4, <1>7, <1>8 DEF Components
      <3> HIDE DEF c
      <3>2. c \in Seq(Bytes \ {Backslash})
        BY <3>1, SafeName
      <3>3. \A j \in 1 .. Len(c) : c[j] \in Clean \ {Slash}
        BY <3>1, <3>2, ElementOfSeq DEF Clean, Bytes
      <3> DEFINE B == Clean \ {Slash}
      <3>4. Len(c) \in Nat /\ c = [j \in 1 .. Len(c) |-> c[j]]
        BY <3>1, LenProperties DEF Texts
      <3>5. \A j \in 1 .. Len(c) : c[j] \in B
        BY <3>3
      <3> HIDE DEF B
      <3>6. [j \in 1 .. Len(c) |-> c[j]] \in Seq(B)
        BY <3>4, <3>5, IsASeq
      <3>7. c \in Seq(B)
        BY <3>4, <3>6
      <3> QED BY <3>7 DEF c, B, Component, Components
    <2>2. Len(p) \in Nat /\ p = [k \in 1 .. Len(p) |-> p[k]]
      BY <1>3, LenProperties
    <2>3. [k \in 1 .. Len(p) |-> p[k]] \in Seq(Component)
      BY <2>1, <2>2, IsASeq
    <2> QED BY <2>2, <2>3 DEF Paths
  <1>10. PathOf(i) = p
    <2>1. p # Root /\ Last(p) # Nameless
      <3>1. p # Root
        BY <1>3 DEF Root
      <3>2. Len(p) \in 1 .. Len(p) /\ \A k \in 1 .. Len(p) : p[k] # Nameless
        BY <1>6 DEF NamedFile
      <3> QED BY <3>1, <3>2 DEF Last
    <2>2. normalizePath(Joined(p)) = p
      BY <1>9, <2>1, NormalizedText DEF NamedAtEnd, PathText
    <2>3. PathOf(i) = normalizePath(<<Slash>> \o files[i]) /\ Joined(p) = <<Slash>> \o files[i]
      BY <1>6, Zenon DEF NamedFile
    <2> QED BY <2>2, <2>3, Zenon
  <1> QED BY <1>6, <1>8, <1>9, <1>10 DEF SafeFile, p, text

(* What a listing shows is the root or begins the path of a file.          *)
PrefixOf(q, parts) == \E n \in 1 .. Len(parts) : q = SubSeq(parts, 1, n)

LEMMA ShownPrefixes ==
  ASSUME IndexInv, SafeNames, NEW e \in ListedEntries
  PROVE  e = DirEntry(Root) \/ \E i \in 1 .. Len(files) : PrefixOf(e.path, Split(files[i]))
  <1>1. IndexType /\ Listings
    BY DEF IndexInv
  <1>2. PICK q \in DOMAIN children : \E k \in DOMAIN children[q] : e = children[q][k]
    BY DEF ListedEntries, ToSet
  <1>3. CASE \E d \in seen : e = DirEntry(d)
    <2>1. PICK d \in seen : e = DirEntry(d)
      BY <1>3
    <2>2. CASE d = Root
      BY <2>1, <2>2
    <2>3. CASE d # Root
      <3>1. PICK i \in Done : d \in DirectoriesOf(i)
        BY <1>1, <2>3 DEF Listings
      <3> DEFINE p == Split(files[i])
      <3>2. i \in 1 .. Len(files)
        BY <3>1 DEF Done
      <3>3. SafeFile(i, p)
        BY <1>1, <3>2, SafeFiles
      <3> HIDE DEF p
      <3>4. /\ PathOf(i) = p /\ p \in Paths /\ Len(p) \in Nat \ {0}
            /\ \A k \in 1 .. Len(p) : p[k] # Nameless
        BY <3>3 DEF SafeFile, NamedFile
      <3>5. /\ Len(Front(p)) = Len(p) - 1
            /\ \A k \in 1 .. Len(p) - 1 : Front(p)[k] = p[k]
        <4>1. p # <<>>
          BY <3>4, EmptySeq DEF Paths
        <4> QED BY <3>4, <4>1, FrontType DEF Paths
      <3>6. Directory(p) = Front(p)
        <4>1. \A k \in 1 .. Len(Front(p)) : Front(p)[k] # Nameless
          BY <3>4, <3>5
        <4> QED BY <3>4, <4>1, DirectoryFacts DEF IsDirectory
      <3>7. PICK l \in 0 .. Len(Front(p)) : d = SubSeq(Front(p), 1, l)
        BY <3>1, <3>4, <3>6 DEF DirectoriesOf, Prefixes
      <3>8. l \in 1 .. Len(p) /\ l \in 1 .. Len(p) - 1
        <4>1. l # 0
          <5>1. SubSeq(Front(p), 1, 0) = <<>>
            BY SubSeqEmpty
          <5> QED BY <2>3, <3>7, <5>1 DEF Root
        <4> QED BY <3>4, <3>5, <3>7, <4>1
      <3>9. d = SubSeq(p, 1, l)
        <4> DEFINE f == Front(p)
        <4>1. \A k \in 1 .. l : f[k] = p[k] /\ p[k] \in Component
          <5>1. \A k \in 1 .. l : k \in 1 .. Len(p) /\ k \in 1 .. Len(p) - 1
            BY <3>4, <3>8
          <5> QED BY <3>4, <3>5, <5>1, ElementOfSeq DEF Paths
        <4> HIDE DEF f
        <4> DEFINE a == SubSeq(f, 1, l)
                   b == SubSeq(p, 1, l)
        <4>2. /\ a \in Seq(Component) /\ Len(a) = (IF 1 <= l THEN l - 1 + 1 ELSE 0)
              /\ \A k \in 1 .. l - 1 + 1 : a[k] = f[1 + k - 1]
          BY <4>1, SubSeqProperties
        <4>3. /\ b \in Seq(Component) /\ Len(b) = (IF 1 <= l THEN l - 1 + 1 ELSE 0)
              /\ \A k \in 1 .. l - 1 + 1 : b[k] = p[1 + k - 1]
          BY <4>1, SubSeqProperties
        <4> HIDE DEF a, b
        <4>4. Len(a) = l /\ Len(b) = l
          BY <3>8, <4>2, <4>3
        <4>5. \A k \in 1 .. l : a[k] = b[k]
          <5>1. \A k \in 1 .. l : k \in 1 .. l - 1 + 1 /\ 1 + k - 1 = k
            BY <3>8
          <5> QED BY <4>1, <4>2, <4>3, <5>1
        <4>6. a = b
          BY <4>2, <4>3, <4>4, <4>5, SeqEqual
        <4> QED BY <3>7, <4>6 DEF a, b, f
      <3>10. e.path = d
        BY <2>1 DEF DirEntry
      <3> QED BY <3>2, <3>8, <3>9, <3>10 DEF PrefixOf, p
    <2> QED BY <2>2, <2>3
  <1>4. CASE \E i \in Done : e = FileEntry(i)
    <2>1. PICK i \in Done : e = FileEntry(i)
      BY <1>4
    <2> DEFINE p == Split(files[i])
    <2>2. i \in 1 .. Len(files)
      BY <2>1 DEF Done
    <2>3. SafeFile(i, p)
      BY <1>1, <2>2, SafeFiles
    <2> HIDE DEF p
    <2>4. PathOf(i) = p /\ p \in Paths /\ Len(p) \in Nat \ {0}
      BY <2>3 DEF SafeFile, NamedFile
    <2>5. Len(p) \in 1 .. Len(p) /\ SubSeq(p, 1, Len(p)) = p
      BY <2>4, SubSeqFull DEF Paths
    <2>6. e.path = p
      BY <2>1, <2>4 DEF FileEntry
    <2> QED BY <2>2, <2>5, <2>6 DEF PrefixOf, p
  <1> QED BY <1>1, <1>2, <1>3, <1>4 DEF Listings

LEMMA SafeNamesLeadBack ==
  ASSUME NamesInv
  PROVE  SafeNamesResolve
  <1> SUFFICES ASSUME phase = "ready", WellFormed, SafeNames, NEW e \in ListedEntries
               PROVE  LookupProjected(e.path) = e
    BY DEF SafeNamesResolve, ListedNamesResolve
  <1>1. IndexInv /\ IndexType /\ Listings /\ Projections
    BY DEF NamesInv, IndexInv
  <1>2. DOMAIN files = 1 .. Len(files) /\ Registered = 1 .. Len(files)
    BY <1>1, LenProperties DEF IndexType, Registered
  <1>3. LookupPath(e.path) = e
    BY <1>1, IndexesAgree DEF LookupAgrees
  <1>4. CASE e = DirEntry(Root)
    <2>1. e.path = Root
      BY <1>4 DEF DirEntry
    <2>2. Root \in DOMAIN projected /\ projected[Root] = PathText(Root)
      BY <1>1 DEF Projections, ProjectedNames, PathText
    <2>3. normalizePath(PathText(Root)) = Root
      <3>1. Root \in Paths
        BY EmptySeq DEF Root, Paths
      <3> QED BY <3>1, NormalizedText DEF NamedAtEnd
    <2> QED BY <1>3, <2>1, <2>2, <2>3 DEF LookupProjected, Lookup
  <1>5. ASSUME NEW i \in 1 .. Len(files), PrefixOf(e.path, Split(files[i]))
        PROVE  LookupProjected(e.path) = e
    <2> DEFINE p == Split(files[i])
               key == e.path
    <2>1. SafeFile(i, p)
      BY <1>1, SafeFiles
    <2>2. PICK n \in 1 .. Len(p) : key = SubSeq(p, 1, n)
      BY <1>5 DEF PrefixOf
    <2> HIDE DEF p, key
    <2>3. NamedFile(i, p) /\ p \in Paths /\ \A k \in 1 .. Len(p) : Sanitized(p[k]) = p[k]
      BY <2>1 DEF SafeFile
    <2>4. /\ p \in Seq(Components(Bytes)) /\ Len(p) \in Nat
          /\ \A k \in 1 .. Len(p) : p[k] # Nameless
          /\ p = Split(files[i]) /\ files[i] \in Texts
      BY <2>3 DEF NamedFile
    <2>5. /\ key \in Seq(Components(Bytes)) /\ Len(key) = n /\ key # Root
          /\ \A k \in 1 .. n : key[k] = p[k]
          /\ Last(key) # Nameless
      BY <2>2, <2>4, PrefixParts
    <2>6. key = MadeForWindows(p, n)
      <3>1. \A k \in 1 .. n : key[k] = Sanitized(p[k])
        <4>1. \A k \in 1 .. n : k \in 1 .. Len(p)
          BY <2>4
        <4> QED BY <2>3, <2>5, <4>1
      <3>2. key = [k \in 1 .. n |-> key[k]]
        BY <2>5
      <3> QED BY <3>1, <3>2 DEF MadeForWindows
    <2>7. key \in DOMAIN projected
      <3>1. PrefixKeys(files[i], p, n)
        BY <2>4, KeysOfParts
      <3>2. n \in DOMAIN Virtuals(files[i])
        <4>1. VirtualsOf(files[i], p)
          BY <2>4, VirtualFacts
        <4> QED BY <4>1 DEF VirtualsOf
      <3>3. key \in Keys(Virtuals(files[i])[n])
        BY <2>6, <3>1 DEF PrefixKeys
      <3> QED BY <1>1, <1>2, <3>2, <3>3 DEF Projections, ProjectedNames
    <2>8. PICK j \in 1 .. Len(files) : \E m \in DOMAIN Virtuals(files[j]) :
            /\ key \in Keys(Virtuals(files[j])[m])
            /\ projected[key] = <<Slash>> \o Virtuals(files[j])[m]
      BY <1>1, <1>2, <2>5, <2>7, Zenon DEF Projections, ProjectedNames, Means
    <2> DEFINE q == Split(files[j])
    <2>9. SafeFile(j, q)
      BY <1>1, SafeFiles
    <2> HIDE DEF q
    <2>10. NamedFile(j, q) /\ \A k \in 1 .. Len(q) : Sanitized(q[k]) = q[k]
      BY <2>9 DEF SafeFile
    <2>11. /\ q \in Seq(Components(Bytes)) /\ Len(q) \in Nat
           /\ \A k \in 1 .. Len(q) : q[k] # Nameless
           /\ q = Split(files[j]) /\ files[j] \in Texts
      BY <2>10 DEF NamedFile
    <2>12. PICK m \in 1 .. Len(q) :
             /\ key \in Keys(Virtuals(files[j])[m])
             /\ projected[key] = <<Slash>> \o Virtuals(files[j])[m]
      <3>1. VirtualsOf(files[j], q)
        BY <2>11, VirtualFacts
      <3>2. DOMAIN Virtuals(files[j]) = 1 .. Len(q)
        BY <3>1 DEF VirtualsOf
      <3> QED BY <2>8, <3>2, Zenon
    <2>13. PrefixKeys(files[j], q, m)
      BY <2>11, KeysOfParts
    <2>14. key = MadeForWindows(q, m)
      <3> SUFFICES ASSUME key = MadeAscii(q, m) PROVE FALSE
        BY <2>12, <2>13 DEF PrefixKeys
      <3>1. 1 \in 1 .. n /\ 1 \in 1 .. m /\ 1 \in DOMAIN p /\ 1 \in DOMAIN q
        <4>1. DOMAIN p = 1 .. Len(p) /\ DOMAIN q = 1 .. Len(q)
          BY <2>4, <2>11, LenProperties
        <4> QED BY <2>4, <2>11, <4>1
      <3>2. key[1] = p[1] /\ key[1] = AsciiSafe(q[1])
        BY <2>5, <3>1 DEF MadeAscii
      <3> DEFINE used == UNION {ToSet(Split(files[k])) : k \in DOMAIN files}
      <3>3. p[1] \in used /\ q[1] \in used
        <4>1. p[1] \in ToSet(p) /\ q[1] \in ToSet(q)
          BY <3>1 DEF ToSet
        <4>2. ToSet(p) \subseteq used /\ ToSet(q) \subseteq used
          BY <1>2, <2>4, <2>11
        <4> QED BY <4>1, <4>2
      <3>4. \A c \in used : \A b \in used : AsciiSafe(b) # c
        BY DEF SafeNames
      <3> HIDE DEF used
      <3> QED BY <3>2, <3>3, <3>4
    <2>15. key = SubSeq(q, 1, m)
      <3> DEFINE s == SubSeq(q, 1, m)
      <3>1. s \in Seq(Components(Bytes)) /\ Len(s) = m /\ \A k \in 1 .. m : s[k] = q[k]
        BY <2>11, PrefixParts
      <3> HIDE DEF s
      <3>2. s = [k \in 1 .. m |-> s[k]]
        BY <3>1
      <3>3. \A k \in 1 .. m : s[k] = Sanitized(q[k])
        <4>1. \A k \in 1 .. m : k \in 1 .. Len(q)
          BY <2>11
        <4> QED BY <2>10, <3>1, <4>1
      <3>4. s = MadeForWindows(q, m)
        BY <3>2, <3>3 DEF MadeForWindows
      <3> QED BY <2>14, <3>4 DEF s
    <2>16. projected[key] = PathText(key)
      <3>1. <<Slash>> \o Virtuals(files[j])[m] = Joined(SubSeq(q, 1, m))
        BY <2>13, Zenon DEF PrefixKeys
      <3> QED BY <2>5, <2>12, <2>15, <3>1, Zenon DEF PathText
    <2>17. key \in Paths
      <3>1. n \in Int /\ \A k \in 1 .. n : p[k] \in Component
        <4>1. \A k \in 1 .. n : k \in 1 .. Len(p)
          BY <2>4
        <4> QED BY <2>3, <2>4, <4>1, ElementOfSeq DEF Paths
      <3> QED BY <2>2, <3>1, SubSeqProperties DEF Paths
    <2>18. normalizePath(PathText(key)) = key
      BY <2>5, <2>17, NormalizedText DEF NamedAtEnd
    <2>19. LookupProjected(key) = LookupPath(key)
      BY <2>7, <2>16, <2>18, Zenon DEF LookupProjected, Lookup
    <2> QED BY <1>3, <2>19 DEF key
  <1> QED BY <1>1, <1>4, <1>5, ShownPrefixes

(* From the root every file can be reached, in every torrent whose paths   *)
(* have no empty component, through directories that buildIndex has each   *)
(* listed exactly once (TorrentSession.cpp:164-202).                       *)
THEOREM EveryFileIsReached == Spec => []TreeComplete
  <1>1. IndexInv => TreeComplete
    BY IndexIsComplete
  <1> QED BY <1>1, IndexHolds, PTL

(* Of every well-formed torrent, a lookup finds what a listing shows, and  *)
(* every entry but the root is in the list of its parent                   *)
(* (TorrentSession.cpp:58-74).                                             *)
THEOREM ListingsMatchLookups == Spec => []LookupAgrees
  <1>1. IndexInv => LookupAgrees
    BY IndexesAgree
  <1> QED BY <1>1, IndexHolds, PTL

(* Of every well-formed torrent, each file is found under the name Windows *)
(* gives it and under its ASCII name, whatever characters it has, unless a *)
(* file listed before it has that name (VirtualDrive.cpp:104-179,          *)
(* 358-383).                                                               *)
THEOREM FirstNamesLead == Spec => []FirstNamesResolve
  <1>1. NamesInv => FirstNamesResolve
    BY FirstNamesLeadBack
  <1> QED BY <1>1, NamesHold, PTL

(* Names that are fit for Windows as they are lead back to the entry they  *)
(* were listed for (VirtualDrive.cpp:358-391, 533-535).                    *)
THEOREM SafeNamesLead == Spec => []SafeNamesResolve
  <1>1. NamesInv => SafeNamesResolve
    BY SafeNamesLeadBack
  <1> QED BY <1>1, NamesHold, PTL

(* Every entry that PROPFIND answers is found by a client that takes its   *)
(* href for a URI, if its path has no percent, plus or number sign and no  *)
(* segment that a client leaves out (WebDavServer.cpp:98-133, 306-343).    *)
THEOREM HrefsLead == Spec => []ListedHrefsResolve
  <1>1. IndexInv => ListedHrefsResolve
    BY HrefsLeadBack
  <1> QED BY <1>1, IndexHolds, PTL

(* Every web seed is asked for the file and no other, whatever characters  *)
(* its name and the seed's own path have (WebSeedClient.cpp:34-72,         *)
(* 147-163).                                                               *)
THEOREM SeedsAreAskedForFiles == Spec => []SeedAskedForFile
  <1>1. IndexInv => SeedAskedForFile
    BY FilesAskedFor DEF IndexInv
  <1> QED BY <1>1, IndexHolds, PTL
=============================================================================
