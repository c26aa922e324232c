------------------------------- MODULE MCLoad -------------------------------
(* Load on single-file and multi-file torrents, each also with a key       *)
(* missing, doubled, moved or of another kind, whole, cut anywhere or with *)
(* a byte behind its end; and on all command lines.                        *)
EXTENDS Load

CONSTANTS MaxName, MaxGigabytes

MCByteOrder ==
  <<"-", "/", "0", "1", "2", "3", "4", "5", "6", "7", "8", "9", ":", "a", "announce", "b", "d",
    "e", "files", "i", "info", "l", "length", "name", "path", "piece length", "pieces">>

Number(n) == Num(Decimal(n))
Letters(n) == Str([k \in 1 .. n |-> "a"])
Others == {Number(7), Num(<<"0", "5">>), Num(<<"-">>), Num(<<"9">>),
           Str(<<>>), Lst(<<Number(1)>>), Dct(<<>>)}

Single(nameLength) ==
  <<<<"length", Number(5)>>, <<"name", Letters(nameLength)>>,
    <<"piece length", Number(2)>>, <<"pieces", Letters(6)>>>>

File(length, parts) == Dct(<<<<"length", Number(length)>>, <<"path", Lst(parts)>>>>)
Many(files) ==
  <<<<"files", Lst(files)>>, <<"name", Str(<<"b">>)>>,
    <<"piece length", Number(2)>>, <<"pieces", Letters(3)>>>>

(* What can be wrong with a dictionary, or only look wrong. *)
Variants(pairs) ==
  {pairs}
  \cup {RemoveAt(pairs, k) : k \in DOMAIN pairs}
  \cup {ReplaceAt(pairs, k, <<pairs[k][1], other>>) : k \in DOMAIN pairs, other \in Others}
  \cup {pairs \o <<<<pairs[k][1], Number(1)>>>> : k \in DOMAIN pairs}
  \cup {Append(RemoveAt(pairs, k), pairs[k]) : k \in DOMAIN pairs}

(* The table of a tree, with the numbers from n on for its nodes. *)
RECURSIVE Table(_, _)
Table(tree, n) ==
  LET below(subtrees) ==  \* the tables of subtrees, one behind the other
        FoldLeft(LAMBDA laid, s : LET at == n + 1 + Len(laid.nodes)
                                  IN  [ids |-> Append(laid.ids, at),
                                       nodes |-> laid.nodes \o Table(s, at)],
                 [ids |-> <<>>, nodes |-> <<>>], subtrees)
  IN  CASE tree.kind = "list" ->
             LET laid == below(tree.items) IN <<Lst(laid.ids)>> \o laid.nodes
        [] tree.kind = "dictionary" ->
             LET laid == below([k \in DOMAIN tree.pairs |-> tree.pairs[k][2]])
                 pairs == [k \in DOMAIN tree.pairs |-> <<tree.pairs[k][1], laid.ids[k]>>]
             IN  <<Dct(pairs)>> \o laid.nodes
        [] OTHER -> <<tree>>

Torrent(info) == Dct(<<<<"announce", Str(<<"a", "/">>)>>, <<"info", info>>>>)

a == Str(<<"a">>)
b == Str(<<"b">>)
TwoFiles == Many(<<File(3, <<a>>), File(4, <<a, b>>)>>)
FileLists ==
  UNION {[1 .. n -> {File(7, <<a>>), File(0, <<>>), File(3, <<Str(<<>>), b>>), File(-1, <<b>>)}] :
           n \in 0 .. 3}
BadFiles == {Dct(pairs) : pairs \in Variants(File(3, <<a, b>>).pairs)} \cup {Number(7)}

CutTorrents ==
  {Torrent(Dct(Single(2))), Torrent(Dct(TwoFiles))}
WholeTorrents ==
  {Torrent(Dct(pairs)) : pairs \in Variants(Single(1)) \cup Variants(TwoFiles)}
  \cup {Dct(pairs) : pairs \in Variants(Torrent(Dct(TwoFiles)).pairs)}
  \cup {Torrent(Dct(Many(<<f, File(1, <<b>>)>>))) : f \in BadFiles}
  \cup {Torrent(Dct(Many(files))) : files \in FileLists}
  \cup {Torrent(Dct(Single(n))) : n \in 1 .. MaxName}
  \cup {Number(7), Lst(<<>>)}

Whole(torrent) == Spell(Table(torrent, 1), 1)
Texts(torrent) ==
  LET text == Whole(torrent)
  IN  {SubSeq(text, 1, k) : k \in 0 .. Len(text)} \cup {Append(text, c) : c \in {"e", "0"}}

CommandLine(argc, exists, letter, gigabytes, torrent, text) ==
  [argc |-> argc, exists |-> exists, letter |-> letter, gigabytes |-> gigabytes,
   torrent |-> Table(torrent, 1), text |-> text]

MCInputs ==
  {CommandLine(5, TRUE, TRUE, 1, t, Whole(t)) : t \in WholeTorrents}
  \cup UNION {{CommandLine(5, TRUE, TRUE, 1, t, text) : text \in Texts(t)} : t \in CutTorrents}
  \cup {CommandLine(argc, exists, letter, gb, t, Whole(t)) :
          argc \in {4, 5}, exists \in BOOLEAN, letter \in BOOLEAN,
          gb \in -MaxGigabytes .. MaxGigabytes \cup {NotANumber}, t \in CutTorrents}
=============================================================================
