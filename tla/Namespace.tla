----------------------------- MODULE Namespace -----------------------------
(***************************************************************************)
(* The virtual namespace: how TorrentSession::buildIndex turns the files   *)
(* of a torrent into a tree, how the ProjFS provider indexes the same      *)
(* files under the names Windows knows them by, and how the WebDAV server  *)
(* and the web seed client put them into URLs.                             *)
(*                                                                         *)
(* A text is a sequence of bytes of ASCII.  A normalized path is given by  *)
(* its components: "/" is <<>>, "/a//b" is <<"a", "", "b">>.               *)
(***************************************************************************)
EXTENDS UrlText

CONSTANTS
  Torrents,   \* the torrents to index: each a sequence of relativePaths
  BaseUrls,   \* the web seeds to ask, without "http://"
  NoEntry     \* std::nullopt

Texts == Seq(0 .. 255)

ASSUME NamespaceAssumption ==
  /\ Torrents \subseteq Seq(Texts)
  /\ BaseUrls \subseteq Texts \ {<<>>}

VARIABLES
  files,      \* metadata_.files(): their relative paths
  next,       \* the file the loop of the current phase is at
  phase,      \* "index", "project" or "ready"
  entries,    \* entries_, on the paths that have one
  children,   \* children_, on the paths that have some
  seen,       \* seenDirectories
  projected   \* projectedToVirtual_, on the keys it has

vars == <<files, next, phase, entries, children, seen, projected>>

-----------------------------------------------------------------------------
(* Paths *)

Root == <<>>
Nameless == <<>>  \* an empty component

(* The components of a text and the text of components. *)
Split(text) ==
  LET upTo[k \in 0 .. Len(text)] ==
        CASE k = 0 -> <<Nameless>>
          [] k > 0 /\ text[k] = Slash -> Append(upTo[k - 1], Nameless)
          [] OTHER -> Front(upTo[k - 1]) \o <<Append(Last(upTo[k - 1]), text[k])>>
  IN  upTo[Len(text)]

Joined(p) == FlattenSeq([k \in DOMAIN p |-> <<Slash>> \o p[k]])
PathText(p) == IF p = Root THEN <<Slash>> ELSE Joined(p)

normalizePath(text) ==
  LET slashed == [k \in DOMAIN text |-> IF text[k] = Backslash THEN Slash ELSE text[k]]
      end == SelectLastInSeq(slashed, LAMBDA b : b # Slash)
      start == IF text # <<>> /\ Head(text) = Slash THEN 2 ELSE 1
  IN  IF end = 0 THEN Root ELSE Split(SubSeq(slashed, start, end))

(* parentPathOf: up to the last slash, but "/" for what is below it and    *)
(* for what begins with two of them.                                       *)
Parent(p) == IF Front(p) = <<Nameless>> THEN Root ELSE Front(p)

PathOf(i) == normalizePath(files[i])
FileEntry(i) == [path |-> PathOf(i), isDirectory |-> FALSE, index |-> i]
DirEntry(p) == [path |-> p, isDirectory |-> TRUE, index |-> -1]

ListAt(q) == IF q \in DOMAIN children THEN children[q] ELSE <<>>

(* A map after assignments to some keys, new ones among them. *)
Assigned(new, map) ==
  [k \in DOMAIN new \cup DOMAIN map |-> IF k \in DOMAIN new THEN new[k] ELSE map[k]]

-----------------------------------------------------------------------------
(* Names for Windows *)

Sanitized(name) ==
  LET refused == 0 .. 31 \cup {60, 62, 58, 34, 47, 92, 124, 63, 42}
      safe == [k \in DOMAIN name |-> IF name[k] \in refused THEN 95 ELSE name[k]]
  IN  CASE name = <<>> -> <<95>>
        [] name # <<>> /\ Last(safe) \in {32, 46} -> Append(Front(safe), 95)
        [] OTHER -> safe

(* The hash of a name, of 32 bits in two halves: each byte goes into the   *)
(* low one by XOR, then both are multiplied by 16777619 = 256 * 2^16 + 403. *)
Xor(b, c) ==
  MapThenSumSet(LAMBDA j : IF (b \div 2^j) % 2 # (c \div 2^j) % 2 THEN 2^j ELSE 0, 0 .. 7)

Hash(name) ==
  LET times(hi, lo) ==
        [hi |-> (hi * 403 + (lo * 403) \div 65536 + lo * 256) % 65536, lo |-> (lo * 403) % 65536]
      upTo[k \in 0 .. Len(name)] ==
        IF k = 0 THEN [hi |-> 33052, lo |-> 40389]  \* 2166136261
        ELSE LET h == upTo[k - 1]
             IN  times(h.hi, (h.lo - (h.lo % 256)) + Xor(h.lo % 256, name[k]))
  IN  upTo[Len(name)]

(* What swprintf_s writes of it: eight digits.                             *)
HashOf(name) ==
  LET digits(n) == [k \in 1 .. 4 |-> HexDigit((n \div 16^(4 - k)) % 16)]
  IN  <<95>> \o digits(Hash(name).hi) \o digits(Hash(name).lo)

AsciiSafe(name) ==
  LET kept == Capital \cup Small \cup Decimals \cup {32, 46, 45, 95, 40, 41, 91, 93}
      ascii == [k \in DOMAIN name |-> IF name[k] \in kept THEN name[k] ELSE 95]
  IN  Sanitized((IF name = <<>> THEN <<102, 105, 108, 101>> ELSE ascii) \o HashOf(name))

(* The loops over tokens: no token after a slash at the end. *)
Tokens(text) ==
  LET parts == Split(text) IN IF Last(parts) = Nameless THEN Front(parts) ELSE parts

ProjectedKey(text) == [k \in DOMAIN Tokens(text) |-> Sanitized(Tokens(text)[k])]
AsciiKey(text) == [k \in DOMAIN Tokens(text) |-> AsciiSafe(Tokens(text)[k])]

(* currentVirtual at each turn: no slash while it is empty. *)
VirtualAt(parts, n) ==
  LET first == SelectInSeq(parts, LAMBDA c : c # Nameless)
  IN  IF first \in 1 .. n THEN Tail(Joined(SubSeq(parts, first, n))) ELSE <<>>

VirtualsWhole(text) ==  \* faulty variant: no directories
  <<VirtualAt(Tokens(text), Len(Tokens(text)))>>

Virtuals(text) == [n \in DOMAIN Tokens(text) |-> VirtualAt(Tokens(text), n)]

-----------------------------------------------------------------------------
Init ==
  /\ files \in Torrents
  /\ next = 1
  /\ phase = "index"
  /\ entries = [p \in {Root} |-> DirEntry(p)]
  /\ children = [p \in {Root} |-> <<>>]
  /\ seen = {Root}
  /\ projected = [p \in {Root} |-> <<Slash>>]

(* The loop of buildIndex for one file: its entry, an entry for each       *)
(* directory above it not met before, and each of these in the list of its *)
(* parent.  Empty components count for the file and not for directories.   *)
Directory(path) ==
  LET above == Front(path)
      upTo[k \in 0 .. Len(above)] ==
        IF k = 0 THEN Root
        ELSE IF above[k] = Nameless THEN upTo[k - 1] ELSE Append(upTo[k - 1], above[k])
  IN  upTo[Len(above)]

NewDirectoriesNearest(path) ==  \* faulty variant: only the nearest directory
  {Directory(path)} \ seen

NewDirectories(path) == Prefixes(Directory(path)) \ seen

ListedFileOnly(path) ==  \* faulty variant: new directories are not listed
  Assigned([q \in {Parent(path)} |-> Append(ListAt(q), FileEntry(next))], children)

Listed(path) ==
  LET parents == {Parent(d) : d \in NewDirectories(path)} \cup {Parent(path)}
      added(q) == IF q = Parent(path) THEN FileEntry(next)
                  ELSE DirEntry(SubSeq(Directory(path), 1, Len(q) + 1))
  IN  Assigned([q \in parents |-> Append(ListAt(q), added(q))], children)

BuildIndex ==
  /\ phase = "index"
  /\ next <= Len(files)
  /\ LET path == PathOf(next)
         new == NewDirectories(path)
         here == Assigned([p \in {path} |-> FileEntry(next)], entries)
     IN  /\ entries' = Assigned([d \in new |-> DirEntry(d)], here)
         /\ children' = Listed(path)
         /\ seen' = seen \cup new
  /\ next' = next + 1
  /\ UNCHANGED <<files, phase, projected>>

(* registerProjectedPath: every prefix of the path under its Windows name  *)
(* and its ASCII name; a key that is there already keeps its meaning.      *)
Keys(virtual) == {ProjectedKey(virtual), AsciiKey(virtual)}

RegisterProjectedPathAnew ==  \* faulty variant: the last path takes a key
  /\ phase = "project"
  /\ next <= Len(files)
  /\ projected' = FoldLeft(LAMBDA m, v : Assigned([key \in Keys(v) |-> <<Slash>> \o v], m),
                           projected, Virtuals(files[next]))
  /\ next' = next + 1
  /\ UNCHANGED <<files, phase, entries, children, seen>>

RegisterProjectedPath ==
  /\ phase = "project"
  /\ next <= Len(files)
  /\ projected' = FoldLeft(LAMBDA m, v : Assigned(m, [key \in Keys(v) |-> <<Slash>> \o v]),
                           projected, Virtuals(files[next]))
  /\ next' = next + 1
  /\ UNCHANGED <<files, phase, entries, children, seen>>

(* start() has returned, and mount() goes on to its own index; then the    *)
(* callbacks and the requests may come.                                    *)
NextPhase ==
  /\ phase # "ready"
  /\ next > Len(files)
  /\ phase' = IF phase = "index" THEN "project" ELSE "ready"
  /\ next' = IF phase = "index" THEN 1 ELSE next
  /\ UNCHANGED <<files, entries, children, seen, projected>>

Next == BuildIndex \/ RegisterProjectedPath \/ NextPhase

Spec == Init /\ [][Next]_vars

-----------------------------------------------------------------------------
(* Queries *)

LookupPath(q) == IF q \in DOMAIN entries THEN entries[q] ELSE NoEntry

Lookup(text) == LookupPath(normalizePath(text))

LookupProjected(key) == IF key \in DOMAIN projected THEN Lookup(projected[key]) ELSE NoEntry

ListDirectory(q) == ListAt(q)

(* What PROPFIND answers for an entry, and the text it names it by. *)
WebDavHref(e) == PathText(e.path)
Answered(e, depth) ==
  {e} \cup (IF e.isDirectory /\ depth # "0" THEN ToSet(ListDirectory(e.path)) ELSE {})

ListedEntries == UNION {ToSet(children[q]) : q \in DOMAIN children}

-----------------------------------------------------------------------------
(* Properties *)

(* No file twice, and no file where another one needs a directory. *)
WellFormed ==
  \A i, j \in DOMAIN files :
    /\ i # j => PathOf(i) # PathOf(j)
    /\ ~IsPrefix(PathOf(i), Directory(PathOf(j)))

(* No component is empty. *)
Named == \A i \in DOMAIN files : Nameless \notin ToSet(Split(files[i])) \cup ToSet(PathOf(i))

(* Names that need no change for Windows and collide with no ASCII name.   *)
SafeNames ==
  LET used == UNION {ToSet(Split(files[i])) : i \in DOMAIN files}
  IN  \A c \in used : Sanitized(c) = c /\ \A b \in used : AsciiSafe(b) # c

(* From the root every file can be reached, through directories that are   *)
(* each listed exactly once - even for a torrent that names a path twice   *)
(* or takes a file for a directory (TorrentSession.cpp:164-202).           *)
TreeComplete ==
  Named => \A i \in 1 .. Len(files) : (phase # "index" \/ i < next) =>
    LET p == PathOf(i)
    IN  /\ FileEntry(i) \in ToSet(ListDirectory(Parent(p)))
        /\ \A k \in 1 .. Len(p) - 1 :
             LET dir == SubSeq(p, 1, k)
             IN  Cardinality({j \in DOMAIN ListDirectory(Parent(dir)) :
                                ListDirectory(Parent(dir))[j] = DirEntry(dir)}) = 1

(* What a listing shows is what a lookup of the shown path finds, so the   *)
(* two indexes of a well-formed torrent agree (TorrentSession.cpp:58-74).  *)
LookupAgrees ==
  WellFormed =>
    /\ \A e \in ListedEntries : LookupPath(e.path) = e
    /\ \A q \in DOMAIN entries \ {Root} : entries[q] \in ToSet(ListDirectory(Parent(q)))

(* Windows opens what it was shown: a name of a listing leads back to the  *)
(* entry it was listed for ...                                             *)
ListedNamesResolve == \A e \in ListedEntries : LookupProjected(e.path) = e

(* ... when the names are fit for Windows as they are (VirtualDrive.cpp:   *)
(* 358-391, 533-535).                                                      *)
SafeNamesResolve == phase = "ready" /\ WellFormed /\ SafeNames => ListedNamesResolve

(* Whatever characters it has, each file is found under the name Windows   *)
(* gives it and under its ASCII name, unless a file listed before it, or a *)
(* directory above that one, has the same (VirtualDrive.cpp:104-179,       *)
(* 358-383).                                                               *)
TakenBefore(key, i) == \E j \in 1 .. i - 1 : \E v \in ToSet(Virtuals(files[j])) : key \in Keys(v)

FirstNamesResolve ==
  phase = "ready" /\ WellFormed /\ Named =>
    \A i \in DOMAIN files : \A key \in {ProjectedKey(files[i]), AsciiKey(files[i])} :
      TakenBefore(key, i) \/ LookupProjected(key) = FileEntry(i)

(* A WebDAV client that takes the hrefs of PROPFIND for URIs finds each    *)
(* entry it was answered, unless its path has a percent sign, a plus sign  *)
(* or a number sign, which stand for something else in a URI, or segments  *)
(* that a client leaves out (WebDavServer.cpp:98-133, 306-343).            *)
MeansItself(p) ==
  \A k \in DOMAIN p : /\ p[k] \notin {Nameless, <<46>>, <<46, 46>>}
                      /\ \A b \in ToSet(p[k]) : b \notin {Percent, Plus, Fragment}

ListedHrefsResolve ==
  phase = "ready" /\ WellFormed =>
    \A q \in DOMAIN entries : \A e \in Answered(entries[q], "1") :
      MeansItself(e.path) => Lookup(urlDecode(ClientTarget(WebDavHref(e)))) = e

(* Whatever characters its name has, the web seed is asked for the file    *)
(* and no other: a server that decodes the path of the URL finds the       *)
(* file's path below its own (WebSeedClient.cpp:34-72, 147-163).           *)
SeedAskedForFile ==
  phase = "ready" =>
    \A i \in DOMAIN files, base \in BaseUrls :
      LET asked == parseHttpUrl(buildFileUrl(base, PathText(PathOf(i))))
          own == parseHttpUrl(base)
          below == IF Last(own.path) = Slash THEN Front(own.path) ELSE own.path
      IN  /\ asked.host = own.host
          /\ urlDecode(asked.path) =
               (IF below = <<>> THEN <<>> ELSE urlDecode(below)) \o PathText(PathOf(i))
=============================================================================
