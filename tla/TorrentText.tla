----------------------------- MODULE TorrentText -----------------------------
(***************************************************************************)
(* What a torrent file says, apart from how the program reads it: a tree   *)
(* as its author wrote it down - integers with their spelling,             *)
(* dictionaries as lists of pairs in any order, with keys that may come    *)
(* twice - and the text of such a tree.                                    *)
(*                                                                         *)
(* A tree is a table of nodes.  Its root is the first; lists and           *)
(* dictionaries name the nodes below them by their numbers, which are      *)
(* larger than their own.                                                  *)
(***************************************************************************)
EXTENDS Bencode

Num(spelling) == [kind |-> "integer", spelling |-> spelling]
Str(bytes) == [kind |-> "string", bytes |-> bytes]
Lst(items) == [kind |-> "list", items |-> items]
Dct(pairs) == [kind |-> "dictionary", pairs |-> pairs]

Nodes ==
  [kind : {"integer"}, spelling : Seq(Byte \ {"e"})]
    \cup [kind : {"string"}, bytes : Seq(Byte)]
    \cup [kind : {"list"}, items : Seq(Nat)]
    \cup [kind : {"dictionary"}, pairs : Seq(Byte \X Nat)]

Children(node) ==
  CASE node.kind = "list" -> ToSet(node.items)
    [] node.kind = "dictionary" -> {node.pairs[k][2] : k \in DOMAIN node.pairs}
    [] OTHER -> {}

IsTree(t) ==
  /\ t \in Seq(Nodes) /\ t # <<>>
  /\ \A n \in DOMAIN t : Children(t[n]) \subseteq n + 1 .. Len(t)

(* The text of the tree below n. *)
Spell(t, n) ==
  LET spell[m \in DOMAIN t] ==
        LET pair(p) == EncodeString(<<p[1]>>) \o spell[p[2]]
        IN  CASE t[m].kind = "integer" -> <<"i">> \o t[m].spelling \o <<"e">>
              [] t[m].kind = "string" -> EncodeString(t[m].bytes)
              [] t[m].kind = "list" ->
                   <<"l">> \o FlattenSeq([k \in DOMAIN t[m].items |-> spell[t[m].items[k]]])
                     \o <<"e">>
              [] t[m].kind = "dictionary" ->
                   <<"d">> \o FlattenSeq([k \in DOMAIN t[m].pairs |-> pair(t[m].pairs[k])])
                     \o <<"e">>
  IN  spell[n]

(* The first value a dictionary gives for a key, if any. *)
Has(node, key) == \E k \in DOMAIN node.pairs : node.pairs[k][1] = key
Get(node, key) == node.pairs[SelectInSeq(node.pairs, LAMBDA pair : pair[1] = key)][2]

HasKind(t, node, key, kind) == Has(node, key) /\ t[Get(node, key)].kind = kind

(* The one spelling bencode allows for a value: integers without leading   *)
(* zeros, keys in strictly ascending order.                                *)
IsCanonical(t, n) ==
  LET canonical[m \in DOMAIN t] ==
        /\ \A c \in Children(t[m]) : canonical[c]
        /\ t[m].kind = "integer" => t[m].spelling = Decimal(IntegerOf(t[m].spelling))
        /\ t[m].kind = "dictionary" =>
             \A j, k \in DOMAIN t[m].pairs :
               j < k => IndexIn(ByteOrder, t[m].pairs[j][1]) < IndexIn(ByteOrder, t[m].pairs[k][1])
  IN  canonical[n]

IntegersFit(t, n) ==
  LET fit[m \in DOMAIN t] ==
        /\ \A c \in Children(t[m]) : fit[c]
        /\ t[m].kind = "integer" => IsInteger(t[m].spelling)
  IN  fit[n]

(* A torrent the program has a use for. *)
IsFile(t, node) ==
  /\ node.kind = "dictionary"
  /\ HasKind(t, node, "length", "integer")
  /\ HasKind(t, node, "path", "list")
  /\ \A part \in ToSet(t[Get(node, "path")].items) : t[part].kind = "string"

IsInfo(t, node) ==
  /\ node.kind = "dictionary"
  /\ HasKind(t, node, "name", "string")
  /\ HasKind(t, node, "piece length", "integer")
  /\ HasKind(t, node, "pieces", "string")
  /\ IF Has(node, "files")
     THEN /\ t[Get(node, "files")].kind = "list"
          /\ \A f \in ToSet(t[Get(node, "files")].items) : IsFile(t, t[f])
     ELSE HasKind(t, node, "length", "integer")

IsTorrent(t) ==
  /\ IntegersFit(t, 1)
  /\ t[1].kind = "dictionary"
  /\ Has(t[1], "info")
  /\ IsInfo(t, t[Get(t[1], "info")])

(* The length of each file, in the order of the torrent. *)
LengthIn(t, node) == IntegerOf(t[Get(node, "length")].spelling)
LengthsOf(t, info) ==
  IF Has(info, "files")
  THEN LET fs == t[Get(info, "files")].items IN [k \in DOMAIN fs |-> LengthIn(t, t[fs[k]])]
  ELSE <<LengthIn(t, info)>>
=============================================================================
