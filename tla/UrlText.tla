------------------------------- MODULE UrlText -------------------------------
(***************************************************************************)
(* Paths as text: how the web seed client writes a path into a URL and how *)
(* the WebDAV server reads one out of a request.  A text is a sequence of  *)
(* bytes.                                                                  *)
(***************************************************************************)
EXTENDS Integers, SequencesExt

Slash == 47
Backslash == 92
Percent == 37
Plus == 43
Space == 32

Capital == 65 .. 90
Small == 97 .. 122
Decimals == 48 .. 57

WithoutLeading(b, text) == IF text # <<>> /\ Head(text) = b THEN Tail(text) ELSE text

-----------------------------------------------------------------------------
(* WebSeedClient *)

Unreserved == Capital \cup Small \cup Decimals \cup {Slash, 45, 95, 46, 126}

HexDigit(n) == IF n < 10 THEN 48 + n ELSE 55 + n

Escaped(text, kept) ==
  FlattenSeq([k \in DOMAIN text |->
    IF text[k] \in kept THEN <<text[k]>>
    ELSE <<Percent, HexDigit(text[k] \div 16), HexDigit(text[k] % 16)>>])

percentEncodePath(text) == Escaped(text, Unreserved)

buildFileUrlUnencoded(base, path) ==  \* faulty variant: the path as it is
  base \o (IF Last(base) = Slash THEN <<>> ELSE <<Slash>>) \o WithoutLeading(Slash, path)

(* The base URL is configured, and not empty. *)
buildFileUrl(base, path) ==
  base \o (IF Last(base) = Slash THEN <<>> ELSE <<Slash>>)
       \o percentEncodePath(WithoutLeading(Slash, path))

(* Of what follows "http://": the host, up to a port, and the path. *)
parseHttpUrl(rest) ==
  LET slash == SelectInSeq(rest, LAMBDA b : b = Slash)
      hostPort == IF slash = 0 THEN rest ELSE SubSeq(rest, 1, slash - 1)
      colon == SelectInSeq(hostPort, LAMBDA b : b = 58)
  IN  [host |-> IF colon = 0 THEN hostPort ELSE SubSeq(hostPort, 1, colon - 1),
       path |-> IF slash = 0 THEN <<Slash>> ELSE SubSeq(rest, slash, Len(rest))]

-----------------------------------------------------------------------------
(* WebDavServer *)

fromHex(b) ==
  CASE b \in Decimals -> b - 48
    [] b \in 97 .. 102 -> b - 87
    [] b \in 65 .. 70 -> b - 55
    [] OTHER -> -1

IsEscapeInside(text, i) ==  \* faulty variant: one at the very end is missed
  /\ text[i] = Percent
  /\ i + 2 < Len(text)
  /\ fromHex(text[i + 1]) >= 0 /\ fromHex(text[i + 2]) >= 0

IsEscape(text, i) ==
  /\ text[i] = Percent
  /\ i + 2 <= Len(text)
  /\ fromHex(text[i + 1]) >= 0 /\ fromHex(text[i + 2]) >= 0

urlDecode(text) ==
  LET from[i \in 1 .. Len(text) + 1] ==
        IF i > Len(text) THEN <<>>
        ELSE IF IsEscape(text, i)
        THEN <<16 * fromHex(text[i + 1]) + fromHex(text[i + 2])>> \o from[i + 3]
        ELSE <<IF text[i] = Plus THEN Space ELSE text[i]>> \o from[i + 1]
  IN  IF text = <<>> THEN <<Slash>> ELSE from[1]

-----------------------------------------------------------------------------
(* A WebDAV client, which takes an href for a URI: it keeps what may be in *)
(* one, percent signs and plus signs too, escapes what may not, and asks   *)
(* for what is before a fragment.                                          *)

Fragment == 35
UriBytes == 33 .. 126 \ {34, 60, 62, 92, 94, 96, 123, 124, 125}

ClientTarget(href) ==
  LET fragment == SelectInSeq(href, LAMBDA b : b = Fragment)
  IN  Escaped(IF fragment = 0 THEN href ELSE SubSeq(href, 1, fragment - 1), UriBytes)
=============================================================================
