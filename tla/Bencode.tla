------------------------------- MODULE Bencode -------------------------------
(***************************************************************************)
(* BencodeParser and encodeBencode.  The input is a sequence of bytes and  *)
(* a byte is a string of one character - except that each key of a torrent *)
(* ("info", "pieces", ...) stands for one byte of its own.                 *)
(*                                                                         *)
(* A value is known by the position at which it begins: lists and          *)
(* dictionaries hold the positions of what is in them, and all values of   *)
(* an input make one table.  A parser that throws returns Failed.          *)
(*                                                                         *)
(* Lengths of strings are numbers well below the size of a word, so that   *)
(* pos_ + length does not wrap.                                            *)
(***************************************************************************)
EXTENDS Integers, SequencesExt

CONSTANTS
  ByteOrder,  \* all bytes, in the order of their values
  Word        \* the number of values of a 64-bit word

Byte == ToSet(ByteOrder)
Digits == <<"0", "1", "2", "3", "4", "5", "6", "7", "8", "9">>

ASSUME BencodeAssumption ==
  /\ Word \in Nat \ {0}
  /\ ByteOrder \in Seq(Byte)
  /\ ToSet(Digits) \cup {"-", ":", "d", "e", "i", "l"} \subseteq Byte

IndexIn(s, e) == SelectInSeq(s, LAMBDA x : x = e)

Integer(n) == [kind |-> "integer", integer |-> n]
Text(s) == [kind |-> "string", string |-> s]
List(items) == [kind |-> "list", list |-> items]
Dictionary(d) == [kind |-> "dictionary", dictionary |-> d]

-----------------------------------------------------------------------------
(* std::from_chars on a whole token: of an unsigned and a signed type. *)

IsNumber(t) == t # <<>> /\ ToSet(t) \subseteq ToSet(Digits)
DigitOf(c) == CHOOSE d \in 0 .. 9 : Digits[d + 1] = c
NumberOf(t) ==
  LET upTo[n \in 0 .. Len(t)] == IF n = 0 THEN 0 ELSE 10 * upTo[n - 1] + DigitOf(t[n])
  IN  upTo[Len(t)]

IsNegative(t) == t # <<>> /\ Head(t) = "-"
IntegerOf(t) == IF IsNegative(t) THEN -NumberOf(Tail(t)) ELSE NumberOf(t)
IsInteger(t) ==
  /\ IsNumber(IF IsNegative(t) THEN Tail(t) ELSE t)
  /\ -Word <= 2 * IntegerOf(t) /\ 2 * IntegerOf(t) < Word

-----------------------------------------------------------------------------
(* BencodeParser: each returns a value and the position behind it. *)

Failed == [ok |-> FALSE]
Parsed(value, pos) == [ok |-> TRUE, value |-> value, pos |-> pos]

(* while (!eof() && peek() != c) ++pos_ *)
SkipTo(c, in, i) == CHOOSE j \in i .. Len(in) + 1 :
  /\ j > Len(in) \/ in[j] = c
  /\ \A k \in i .. j - 1 : in[k] # c

ParseInteger(in, i) ==
  LET stop == SkipTo("e", in, i + 1)
      token == SubSeq(in, i + 1, stop - 1)
  IN  IF stop <= Len(in) /\ IsInteger(token)
      THEN Parsed(Integer(IntegerOf(token)), stop + 1)
      ELSE Failed

ParseString(in, i) ==
  LET colon == SkipTo(":", in, i)
      token == SubSeq(in, i, colon - 1)
      last == colon + NumberOf(token)
  IN  IF colon <= Len(in) /\ IsNumber(token) /\ last <= Len(in)
      THEN Parsed(Text(SubSeq(in, colon + 1, last)), last + 1)
      ELSE Failed

(* The others call each other: parse[i]["value"] is what parseValue        *)
(* returns at i, parse[i]["list"] and parse[i]["dictionary"] what the      *)
(* loops of parseList and parseDictionary still read when they are at i.   *)

ParseValue(in, parse, i) ==
  IF i > Len(in) THEN Failed
  ELSE CASE in[i] = "i" -> ParseInteger(in, i)
         [] in[i] = "l" -> parse[i + 1]["list"]
         [] in[i] = "d" -> parse[i + 1]["dictionary"]
         [] in[i] \in ToSet(Digits) -> ParseString(in, i)
         [] OTHER -> Failed

ParseList(in, parse, i) ==
  LET item == ParseValue(in, parse, i)
      rest == parse[item.pos]["list"]
  IN  IF i > Len(in) THEN Failed
      ELSE IF in[i] = "e" THEN Parsed(List(<<>>), i + 1)
      ELSE IF item.ok /\ rest.ok THEN Parsed(List(<<i>> \o rest.value.list), rest.pos)
      ELSE Failed

(* emplace keeps the first value of a key. *)
ParsePair(key, rest) ==
  LET k == key.value.string
      dict == rest.value.dictionary
  IN  Parsed(Dictionary([l \in {k} \cup DOMAIN dict |-> IF l = k THEN key.pos ELSE dict[l]]),
             rest.pos)

ParseDictionary(in, parse, i) ==
  LET key == ParseString(in, i)
      value == parse[key.pos]["value"]
      rest == parse[value.pos]["dictionary"]
  IN  IF i > Len(in) THEN Failed
      ELSE IF in[i] = "e" THEN Parsed(Dictionary(<<>>), i + 1)
      ELSE IF key.ok /\ value.ok /\ rest.ok THEN ParsePair(key, rest)
      ELSE Failed

(* What parseValue returns at each position of the input. *)
Values(in) ==
  LET parse[i \in 1 .. Len(in) + 1] ==
        [form \in {"value", "list", "dictionary"} |->
           CASE form = "value" -> ParseValue(in, parse, i)
             [] form = "list" -> ParseList(in, parse, i)
             [] form = "dictionary" -> ParseDictionary(in, parse, i)]
  IN  [i \in 1 .. Len(in) + 1 |-> parse[i]["value"]]

IsParsedInPart(in, values) ==  \* faulty variant: bytes behind it are let pass
  values[1].ok

(* BencodeParser::parse: one value and nothing behind it. *)
IsParsed(in, values) == values[1].ok /\ values[1].pos > Len(in)

-----------------------------------------------------------------------------
(* encodeBencode; a std::map is in the order of its keys. *)

Decimal(n) ==
  LET decimal[k \in Nat] ==
        IF k < 10 THEN <<Digits[k + 1]>>
        ELSE decimal[k \div 10] \o <<Digits[(k % 10) + 1]>>
  IN  IF n < 0 THEN <<"-">> \o decimal[-n] ELSE decimal[n]

EncodeString(s) == Decimal(Len(s)) \o <<":">> \o s

LexLess(s, t) == \E k \in 1 .. Len(t) :
  /\ k <= Len(s) + 1
  /\ SubSeq(s, 1, k - 1) = SubSeq(t, 1, k - 1)
  /\ k <= Len(s) => IndexIn(ByteOrder, s[k]) < IndexIn(ByteOrder, t[k])

KeysDescending(dict) ==  \* faulty variant: compared the wrong way round
  CHOOSE s \in SetToSeqs(DOMAIN dict) : \A j, k \in DOMAIN s : j < k => LexLess(s[k], s[j])

SortedKeys(dict) ==
  CHOOSE s \in SetToSeqs(DOMAIN dict) : \A j, k \in DOMAIN s : j < k => LexLess(s[j], s[k])

(* The text of the value at i of the table. *)
Encode(values, i) ==
  LET encode[j \in {k \in DOMAIN values : values[k].ok}] ==
        LET v == values[j].value
            keys == SortedKeys(v.dictionary)
            pair(key) == EncodeString(key) \o encode[v.dictionary[key]]
        IN  CASE v.kind = "integer" -> <<"i">> \o Decimal(v.integer) \o <<"e">>
              [] v.kind = "string" -> EncodeString(v.string)
              [] v.kind = "list" ->
                   <<"l">> \o FlattenSeq([k \in DOMAIN v.list |-> encode[v.list[k]]]) \o <<"e">>
              [] v.kind = "dictionary" ->
                   <<"d">> \o FlattenSeq([k \in DOMAIN keys |-> pair(keys[k])]) \o <<"e">>
  IN  encode[i]
=============================================================================
