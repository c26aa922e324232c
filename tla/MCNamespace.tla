---------------------------- MODULE MCNamespace ----------------------------
(* Namespace on all torrents of up to two files, and with fewer names up   *)
(* to three, in a directory r, with paths of up to two more components.    *)
EXTENDS Namespace

r == <<114>>
a == <<97>>
quote == <<34>>            \* two names that Windows refuses:
star == <<42>>             \* both become an underscore
back == <<97, 92, 98>>     \* a backslash between a and b
escape == <<37, 52, 49>>   \* "%41"
odd == <<97, 43, 32, 46>>  \* "a+ ."

FewNames == {a, quote, back}
Names == FewNames \cup {star, escape, odd, Nameless}

PathsOf(names) ==
  {Tail(Joined(<<r, x>>)) : x \in names} \cup {Tail(Joined(<<r, x, y>>)) : x, y \in names}

MCTorrents ==
  {<<x>> : x \in Names} \cup {<<Tail(Joined(<<Nameless, x, y>>))>> : x, y \in Names}
  \cup UNION {[1 .. n -> PathsOf(Names)] : n \in 1 .. 2}
  \cup [1 .. 3 -> PathsOf(FewNames)]

(* "r", "r/", "r/a", "r:8/a/", "r/%41" *)
MCBaseUrls ==
  {r, <<114, 47>>, <<114, 47, 97>>, <<114, 58, 56, 47, 97, 47>>, <<114, 47>> \o escape}
=============================================================================
