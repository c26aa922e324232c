# VirtualTorrentFS in TLA+

VirtualTorrentFS shows the files of a torrent as a Windows drive. It parses the
torrent, builds a read-only tree, mounts it through ProjFS - or, failing that,
through a built-in WebDAV server, or as a tree of sparse files - and fetches a
file from an HTTP mirror ("web seed") when somebody reads it. This directory
holds TLA+ models of it, the TLC configurations that check them and proofs for
TLAPS. Paths below are those of the repository, `src/src/*.cpp` and
`src/include/*.hpp`.

## 1. Inventory

| Component | State it keeps | Operations | Talks to |
|---|---|---|---|
| `App::run` | owns session and drive | builds both, mounts, frees both | TorrentSession, VirtualDrive |
| `TorrentSession` (namespace) | `entries_`, `children_` | `buildIndex`, `lookup`, `listDirectory` | TorrentMetadata |
| `TorrentSession` (reads) | `webSeedInFlight_`, payload directory | `beginStreaming`/`queueRead`, `tryReadFileRange`, `isHydrating`, `ensureWebSeedDownload` | CacheManager, WebSeedClient, TorrentEngine |
| `WebSeedClient` | none; a `.part` file per download | `downloadFile`, on a detached thread | the seed, the payload directory |
| `CacheManager` | `entries_`, `tick_` | `touch`, `evictIfNeeded` | the payload directory |
| `TorrentEngine` | `peers_`, `peerConnection_`, `requests_` | `requestFileData`, `pumpOnce` | PeerConnection, DhtClient, TrackerClient |
| `VirtualDrive` (mount) | `namespaceHandle_`, the drive letter, `webDavMapped_` | `mount`, the three fallbacks, the destructor | ProjFS, WebDavServer |
| `VirtualDrive` (callbacks) | `enumerations_`, `projectedToVirtual_` | `startDirEnum`, `getDirEnum`, `endDirEnum`, `getPlaceholderInfo`, `getFileData` | ProjFS threads, TorrentSession |
| `WebDavServer` | `running_`, `listenSocket_`, `thread_`, `session_` | `start`, `stop`, `serverLoop` | WebDAV clients, TorrentSession |
| `TorrentMetadata`, `Bencode`, `Sha1` | none after loading | parse, encode, digest | - |
| `PeerConnection`, `PeerProtocol`, `TrackerClient`, `DhtClient`, `PortMapper` | a socket at most | message building, connecting | peers, trackers |
| `Config` | none | `parse` | - |

Threads: the main thread, up to eight ProjFS pool threads, the WebDAV server
thread, and one detached thread per download. They share the session (its
claim set under `webSeedMutex_`, the cache bookkeeping and the engine under
mutexes of their own) and, under no lock at all, the payload directory.

What is hard here, and what correct means:

* *Hydration.* Looking for the payload, claiming the download, running it,
  publishing it and releasing the claim are separate steps of several threads,
  each may fail, and the process may end between any two. Right means: one
  owner per claim, no claim left behind, no foreign, partial or changing bytes
  under a reader's eyes, every read answered - and where the code cannot give
  that (a seed that cuts bodies, a full disk, two paths that open one file), a
  statement of what it does give.
* *Cache bookkeeping.* Touch and eviction are separate lock sections; the
  order of eviction hangs on ticks and an unstable sort. Right means: what is
  kept is the longest run of recently used files that fits.
* *Engine queue.* Each read pushes one request and pumps once; pumps fail, and
  connections break between two bytes. Right means: the peer is asked for what
  was pushed, in order, within files, and reads just that off the wire.
* *Mount and teardown.* Three ways to a drive, each half-failing; a server
  thread that may be anywhere when it is stopped; hard links to payloads that
  earlier starts left; downloads that nobody joins. Right means: nothing is
  served from a session that is gone, nothing that serves is left running, no
  payload is lost.
* *Enumeration.* ProjFS cuts a listing into buffers, restarts it, and mixes
  several. Right means: each scan gets a sorted listing, every entry once.
* *Names.* A tree made of any file list, a second index under Windows names,
  and URLs on either side. Right means: they agree, what is listed can be
  opened, and the seed is asked for the file that is meant.
* *Loading.* A recursive parser, a dozen checks, an encoder whose output is
  hashed in the place of the file's bytes. Right means: torrents and nothing
  else are loaded, the hash is the one peers know, the files tile the torrent.
* *WebDAV requests.* Range arithmetic on unsigned numbers, a promised length
  before the data is there. Right means: the right bytes, no more and no less.

`PROJECT.json` lists these as hazards, each at its line.

## 2. Modules

| Module | Models | State and actions |
|---|---|---|
| `LruBudget` | abstract cache bookkeeping | tracked keys and their order of use; touch, shrink, forget |
| `CacheManager` | `CacheManager.cpp`, and the threads that call it | `entries_` with ticks and sizes, `tick_`; one action per lock section; totals modulo the word |
| `PayloadStore` | abstract payload cache | per path: the body that can be read; per file: whether a fetch is under way; a body appears at once |
| `Hydration` | `TorrentSession.cpp:76-162`, `WebSeedClient.cpp:165-252`, the polling loops of `VirtualDrive.cpp` and `WebDavServer.cpp` | `disk` (path to row of chunks), `inFlight`, program counters of readers and download threads; one action per lock section or file-system call. Uses `LruBudget` for `queueRead`'s calls of the cache |
| `PeerWire` | `PeerProtocol.cpp:43-79`, `PeerConnection.cpp:114-135` | none: messages to bytes and back |
| `TorrentEngine` | `TorrentEngine.cpp`, `clampStreamWindow`, the file offsets of `TorrentMetadata` | queue, connection, mutex, bytes on the wire; connecting happens with the mutex held |
| `Mount` | `App::run`, `WindowsProjFsProvider::mount` and its destructor, the sparse tree (`VirtualDrive.cpp:196-241, 393-440`), `WebDavServer::start/stop` and the accept loop | where the main and the server thread are, what the drive letter stands for, callbacks and detached downloads running; links, placeholders and payloads on disk, which outlive a start |
| `DirEnum` | `startDirEnum`, `getDirEnum`, `endDirEnum` | `enumerations_`, and what ProjFS asked for and received under each id |
| `UrlText` | `WebSeedClient.cpp:34-72, 147-163`, `WebDavServer.cpp:85-114` | none: paths to URLs and back |
| `Namespace` | `buildIndex`, `lookup`, `listDirectory`, the projected name index, what PROPFIND lists | `entries_`, `children_`, `projectedToVirtual_`; one action per file of each loop |
| `WebDavRequest` | one request of `serverLoop` from `recv` to `closeSocket` | method, target, Range, position, bytes sent and promised |
| `Bencode` | `Bencode.cpp` | none: parser and encoder, as recursive functions; a value is known by the position it begins at, and all values of an input are one table |
| `TorrentText` | abstract: what a torrent file says | none: trees as an author writes them (tables of nodes), their text, and which of them are torrents |
| `Sha1` | `Sha1.cpp:17-68`, but for `processBlock` | none: the blocks a text is cut and padded into |
| `Load` | `main`, `Config::parse`, `TorrentSession::start`, `TorrentMetadata::loadFromFile` | the stage, the cache size, the table of the file's values (`values`), what has been read; one action per stage, one per file of the list |
| `MC...` | - | finite instances for TLC |
| `DataTheorems` | - | lemmas on what the models compute with: sums over sets, recursive functions, sequences, sorted sets, remainders |
| `...Proofs` | - | theorems, see section 5 |

Abstractions: in `Hydration` a file's content is a row of chunks, each known by
the file with whose body it came, or a hole that nobody has written; in
`DirEnum` and `WebDavRequest` names and numbers are values of small sets. Where
text is what matters it is there byte by byte - `UrlText` and `Namespace` (ASCII),
`Bencode` and `Load` (a byte is a string of one character, and each key of a
torrent stands for one byte), `PeerWire` (bytes of eight values, so that a small
number has more than one). XML, HTTP wording and logging are left out. Operators that are commented as a faulty variant are
plausible mistakes; each property is known to fail when one of them takes the
place of the definition it stands before.

### How actions correspond to the code

*Hydration.* A reader is a call of `getPlaceholderInfo` (`info`), `getFileData`
(`data`) or the body loop of the WebDAV server (`dav`). `Touch`,
`EvictIfNeeded`, `EnsureCheck`, `Claim` and `Spawn` are the steps of `queueRead`;
`TryRead`, `OpenPayload` and `Read` those of `tryReadFileRange`, which calls
`ensureWebSeedDownload` too (`inTry`); `IsHydrating` decides whether a poll that
read nothing goes on. A download is `Connect`, `OpenTemp`, `RecvHeader`,
`RecvBody`, `RecvEnd`, then `Discard`, or `Publish` with its second attempt
`Unlink`, `Republish`, and at last `Release`. File operations follow Windows
sharing rules, because the mount exists only there: an open file can be
neither removed nor replaced, but opened and written once more.
Paths are constants: `FileName`, `PartName` and `EvictName` say which file the
payload path, the `.part` path and the path of an eviction open. Several virtual
paths may open one file (`TorrentSession.cpp:76-87` leaves that to the file
system), and then they have the `.part` file in common; claims are still made on
virtual paths, so two downloads may write it, each from where its own stream
stands (`Written`). A body has any number of chunks up to `MaxBody`, unless
`SeedSendsWhole`. With `DiskFills`, a write or the closing of the stream may fail:
the stream is then `bad`, drops what follows, and the download goes on to
`publish` all the same. `FlakyFs` adds failures of the other file-system calls,
opening included, for any reason.
`Restart` is the end of the process at any point and its next start on the
same directory: only `disk` survives.

*Mount.* `main` runs through `mount()` and then the destructor, as `App::run`
does as soon as `mount()` returns. `WebDavServer::stop` is three actions
(`StopRunning`, `CloseListenSocket`, `JoinServer`), so that the server thread can
be anywhere between them. ProjFS callbacks are counted; `PrjStopVirtualizing`
returns when there is none. `CancelConnection` may leave the WebDAV mapping
(`refused`), since the result of `WNetCancelConnection2W` is ignored. A request or a
callback may start a download (`StartDownload`); it is detached, so that
`FreeSession` waits for none.

*DirEnum.* `GetDirEnum` is the whole callback, which runs under one mutex: it
makes the list anew on a restart or when it is empty, and hands out entries
until the buffer is full, a name is refused or the list ends. `std::sort` is not
stable, so names that compare equal may come in any order. ProjFS is the
environment: it repeats directory and expression until it restarts, and stops
after a failure. (The specification is called `EnumSpec`, because one module
holds the proofs about both parts of the drive.)

The sparse tree is made file by file: `TakeFile` removes what is there, or fails
to; `CreateHardLink` and `ProtectLink`, or `CreateAlways` and `SetEndOfFile`, are the
file-system calls, each of which may fail. A link and its payload are one file:
they share content and read-only attribute. `Restart` is the next start, after
the program ended or was killed; the tree, the payloads and possibly the drive
letter remain. `exposed` remembers links whose attribute was not set.

*Namespace.* `normalizePath`, `Sanitized` (`sanitizeWindowsComponent`), `AsciiSafe`
(`asciiFallbackComponent`), `percentEncodePath`, `urlDecode` and so on work on bytes
as the code does. A normalized path is kept as its list of components, empty
ones included: the file's own path keeps them, the directories made for it do
not. An index entry is overwritten by the last path that has its key, as
`operator[]` does; a Windows name is kept by the first, as `emplace` does. The hash
in an ASCII name is the code's own, FNV-1a in 32 bits (`Hash` has it in two halves
of 16, within TLC's integers) and is written in ordinary digits, so that nothing
but the code keeps ASCII and other names apart. `ClientTarget` is what a WebDAV
client makes of an href: it takes it for a URI, as RFC 3986 says.

*Load.* `ParseConfig` or `RefuseConfig` is `Config::parse`; `ParseTorrent`, `ReadInfo` and
one `ReadFile` per entry are `loadFromFile`. Each exception goes to `refused`.
`ParseTorrent` parses the whole text and goes on if there is one value with
nothing behind it (`IsParsed`) that is a dictionary with an `info` (`RootFine`). Where
the code has a tree of values, `values` has what `parseValue` returns at each
position of the text; lists and dictionaries hold positions.
Integers keep the width of a word (`Word` values).

*CacheManager.* `EvictIfNeeded` is one action and has no loop: with unique ticks
there is one order to go through (`Ordered`), and what the loop has erased when it
breaks are the keys before which the total was still over the budget (`Evicted`).

*TorrentEngine.* `RequestBlock` puts the encoded messages on the wire, all of them or
as many bytes as one of `Cuts`; in that case the connection is broken for good.

*WebDavRequest.* A poll has any outcome that `tryReadFileRange` and
`isHydrating` can have; that they have it for a reason is Hydration's subject.
Numbers of a Range header come from a set that holds the largest 64-bit number,
which is what `stoull` makes of "-1".

## 3. Runs

| Run | Question | Instance |
|---|---|---|
| `Hydration` | claims, stable payloads, refinement of `PayloadStore`, and both liveness properties | 2 readers, 1 download slot, 1 file of 1 chunk, 2 polls; cut bodies, full disk, flaky file system, restarts |
| `SharedPaths` | whole payloads of the right file | 1 reader, 2 downloads, 3 files of 1 and 2 chunks, two of them with one payload path; whole bodies, restarts |
| `CacheManager` | unique ticks, budget kept, refinement of `LruBudget` | 2 threads, keys of 1, 2 and 4 with a budget of 3, 7 ticks |
| `TorrentEngine` | queue accounting, order, blocks within files, a wire that can be read | 2 threads, 2 files of 7 and 70 bytes that share a piece, 6 reads at their ends, 3 pushes, messages cut at 3 places |
| `Mount` | sessions outlive requests, nothing left serving, a whole sparse tree, payloads kept, teardown ends | 2 files to materialize and to download, 2 callbacks at a time, any number of starts |
| `DirEnum` | sorted, complete listings | 2 enumerations, 3 directories (with ties, with a refused name, empty), buffers of 1 and 2 |
| `Namespace` | complete tree, indexes and URLs that agree | every torrent of up to 2 files with paths of up to 3 components over 7 names, and of 3 files over 3 names; 5 base URLs, one of them with an escape |
| `Load` | what is loaded, the hashed text, its padding, offsets, cache size | two torrents with every key missing, doubled, moved or replaced, cut at every byte; lists of up to 3 files; names of 1 to 70 bytes; all command lines; words of 16 values |
| `WebDavRequest` | ranges, lengths, an end to each request | 5 methods, files of 0, 1 and 5 bytes, 6 numbers, chunks of 2, 2 polls |
| `TruncatedPayload`, `DiskBudget`, `MountDrive` | violations, see section 4 | |

Why these bounds are enough for what they ask:

* Two readers are what a race for a claim takes, and a third only repeats the
  part of one of them; more download slots than files are never used, because a
  file has one owner. Two polls give one that fails and goes on and one that
  fails for good. A single chunk tells an empty payload from a whole one; the
  run with two chunks has downloads that break off in the middle, bodies that
  two downloads mix, holes, and WebDAV reads that go from one chunk to the next.
  Two spellings of one path take two downloads at a time, and a third file with
  a path of its own shows what is mixed and what is not.
* Three keys with a budget of 3 have every case of eviction: nothing, one, two,
  all (one key alone exceeds the budget). Seven ticks are two uses of each key
  and one more.
* A piece of 9 bytes with files of 7 and 70 bytes has blocks that begin before a
  piece's end and a piece that belongs to both files; piece numbers, offsets and
  lengths reach past one byte of eight values, so that byte order shows. The
  cuts lie in the length of a message, between two messages and in a payload.
* Two files are what it takes for the tree to be half made; three starts - one
  that leaves a link, one that cannot remove it, one after it was killed - are
  what it takes to reach a payload, and starts are not bounded.
* Three files are what it takes for one to be a directory of another while a
  third shares either; names cover a plain one, two that become the same name
  under Windows, one that splits at a backslash, one that looks like an escape,
  one with a plus and a dot at its end, and the empty one.
* Names of up to 70 bytes take the hashed text past the borders at 56 and 64
  bytes of a block. Words of 16 values let sums of four lengths and sizes of
  nine gigabytes overflow.
* The Range numbers lie before, at and behind the ends of each file.

Fairness. `Hydration` and `Mount` assume that threads keep running (weak fairness
of each thread's steps), nothing else of the code. Of the environment they
assume what the code has no timeout for: the seed ends its body, a WebDAV
client that connected sends or closes, ProjFS callbacks return. Without these the
claim, the join and the teardown wait for ever - a property of the code, not of
the model (`recv` without a timeout, `WebSeedClient.cpp:208`,
`WebDavServer.cpp:265`). New readers, new clients and restarts are never assumed.

The runs check deadlock, except `TorrentEngine`, whose bound on pushes stops it,
and `Load` and `Namespace`, which are done when everything is read.

## 4. Where code and documentation part

Each of the first three has a run whose counterexample is the evidence.

* `TruncatedPayload`: any end of the connection after the header counts as
  success (`WebSeedClient.cpp:211`); a body that was cut short becomes the payload
  and stays it.
* `DiskBudget`: keys begin with '/', so `payloadRoot() / key`
  (`CacheManager.cpp:38`) leaves the cache directory; eviction forgets a file and
  does not remove it.
* `MountDrive`: `App::run` returns when `mount()` does, which stops ProjFS again
  and leaves the drive letter mapped to a root nobody serves. The WebDAV
  fallback, said to remain available, is stopped the same way.

More show in the models without a run of their own:

* The results of `out.write` and `out.close` are not looked at
  (`WebSeedClient.cpp:226-235`): a whole body that does not fit on the disk becomes a
  short payload and stays it. `PayloadComplete` fails with `DiskFills`, from a seed
  that sends whole bodies too.
* Virtual paths that are one path to Windows - letter case, doubled slashes, a
  dot at the end of a component - have one payload (`TorrentSession.cpp:76-87`),
  and a read of the one file brings the other's bytes. As an invariant of
  `SharedPaths`, `Hydration!PayloadOwn` fails.
* A poll that read nothing from a short payload asks `isHydrating` after a second
  download has published the rest and released its claim
  (`VirtualDrive.cpp:580-589`); the read fails as offline with its bytes there. As a
  property of an instance with cut bodies, two readers and a file of two
  chunks, `Hydration!NoEarlyOffline` fails. It takes the short payload: without one,
  `ReadWaits` holds, which section 5 has as a theorem.
* Listings carry the torrent's own names (`VirtualDrive.cpp:535`), lookups know
  only the sanitized and the ASCII ones (`VirtualDrive.cpp:368-369`), though
  `README.md:104` says that the index lets callbacks resolve the same file. As an
  invariant, `Namespace!ListedNamesResolve` fails; `SafeNamesResolve` states it for
  names that Windows takes as they are. `FirstNamesResolve` says what is left for
  all others: the sanitized and the ASCII name of a file open it, unless a file
  before it in the torrent, or a directory above that one, has the same name -
  `emplace` keeps the first. An ASCII name can be another file's sanitized
  name only where the two differ in their first component or hashes collide;
  the files of a torrent all begin with its name (`TorrentMetadata.cpp:80`).
* `webDavHref` (`WebDavServer.cpp:116-121`) leaves the path as it is, while requests
  are decoded, plus signs too (`WebDavServer.cpp:98-114`). A client that takes the
  href for a URI keeps '%' and '+' and cuts at '#', so files with these in their
  path are listed and not found; `ListedHrefsResolve` is about the others
  (`MeansItself`).
* The result of `WNetCancelConnection2W` is ignored (`VirtualDrive.cpp:315`): if
  Windows refuses, the letter stays with a server that is gone. Downloads are
  detached (`TorrentSession.cpp:157-161`) and may outlive the session they use.
* A file below an empty path component is listed in a directory that no other
  directory lists (`TorrentSession.cpp:183, 200`), hence `Named` in `TreeComplete`.
* "-1" gigabytes are refused, but only because they wrap to too large a number; a
  number whose negative wraps below the limit is taken (`Config.cpp:34`).
* Where a link was left without the read-only attribute and cannot be removed
  by a later start, `CREATE_ALWAYS` empties the payload; `PayloadKept` says that
  this is the only way.
* A reader that looked for the payload before it was published and claims after
  the release downloads the file a second time (`TorrentSession.cpp:146-157`;
  `EnsureCheck`, then a whole download by somebody else, then `Claim`).
* A torrent that holds both `x` and `x.part` has the download of one overwrite
  the payload of the other (`WebSeedClient.cpp:192`). `PayloadBelongs` is
  therefore checked and proved under `NoTempClash`.
* Any method but OPTIONS, PROPFIND and HEAD reads a file
  (`WebDavServer.cpp:386`), though `Allow` names four methods.

## 5. Proofs

Checked with TLAPS for all values of the constants, under the assumptions the
modules name: `SizeAssumption`, `AttemptsAssumption`, `NoneAssumption`,
`PartAssumption` (only files with one payload path have one `.part` path), `EnumAssumption`
(finite listings, a buffer has room for one entry at least), `CacheAssumption`,
`WebDavAssumption`, `MountAssumption`, `WireAssumption` and `EngineAssumption` (finitely many
files with indexes of their own, positive limits, a piece length that is not 0
in 32 bits), `NamespaceAssumption`,
`BencodeAssumption` (the bytes have an order, and digits and marks are among
them) and `LoadAssumption` (the input is any command line with any tree of
integers, strings, lists and dictionaries whatever, and a file that holds the
text of that tree, a part of it from its beginning, or the text with bytes
behind it; a gigabyte and a hash have bytes). `None` and
`Open` are assumed to be different from the values they stand beside, nothing more.

* `HydrationProofs`: `TypeCorrect`, `ClaimsOwned`, `PayloadsBelong`,
  `OpenPayloadsStable`, `HydrationImplementsStore`. `TypeOK` and `InFlightOwned` are
  inductive only together with the fact that a thread in a given step has a
  request or a file (`TypeInv`, `ClaimInv`). `PayloadsBelong` needs in addition what
  the `.part` files hold: chunks of the files that share them, and without a
  hole where nobody shares, because a claim has one owner, who truncates the
  file and writes its chunks in order (`DiskInv`). The last three need
  `NoTempClash`, that no file is named like another plus `.part`, stated as a
  hypothesis; nothing is assumed about seed, disk or spellings. The refinement
  maps each step of a reader or a download to one step of `PayloadStore` or to a
  stutter; it needs `EvictsElsewhere` too, that evictions remove nothing in the
  payload directory (`CacheManager.cpp:38`).
* `HydrationProofs` also has `PayloadsComplete` and `ReadsWait`: what is in the cache
  at a path of one file is that whole file, and no read of it is refused before
  its polls are spent. Both take `SeedSendsWhole` and `~DiskFills` as hypotheses,
  besides `NoTempClash`: section 4 says what happens without them. `WholeInv` adds to
  `DiskInv` that a body about to be published is whole - it was received by this
  very download into a file it truncated itself - and that a poll that
  read nothing is past the end or about a file that shares its path.
* `CacheManagerProofs`: `TicksStayUnique`, with the type invariant; `BudgetIsKept`,
  for any sizes, even when their sum wraps; and `EvictionIsLru`, the refinement of
  `LruBudget`, under the hypothesis `TotalFits` that all files together take less than
  2^64 bytes (a total that wraps keeps the budget only in the code's own
  arithmetic). Unique ticks make the order one and well defined (`OrderExists`);
  the keys evicted are a prefix of it, the totals before each of its keys only
  fall, and so what is left is the longest run of recent keys that fits.
* `TorrentEngineProofs`: `QueueStaysAccounted`, `AskedAsPushed`, `BlocksStayInFile` and
  `WireAlwaysDecodes`, for any number of threads. The first two rest on who holds
  the mutex (`Safe`). `BlocksStayInFile` needs `PieceIndexFits`, that 32 bits count
  the pieces, because `BlockOf` casts the piece index (`TorrentEngine.cpp:89-95`);
  `BlockInFile` itself is about torrents whose piece length fits into 32 bits, for
  the same reason. The model assumes `MaxBlock < Word32` likewise. `WireAlwaysDecodes` needs to know
  every byte on the wire (`WireHoldsAsked`): 22 for each request, of which the
  last may lack some after a break; decoding them is an induction along the
  stream, with the four digits of a length put back together (`FourDigits`).
* `NamespaceProofs`: all six properties, for every torrent, of any number of files
  with any names (`NamespaceAssumption` says that texts are sequences of bytes and
  no base URL is empty). `IndexInv` says what each list of `children_` and, in a
  well-formed torrent, `entries_` hold when the loop is at a given file; from it
  follow `EveryFileIsReached` and `ListingsMatchLookups`. `NamesInv` adds that
  `projectedToVirtual_` holds all names of the files dealt with and nothing else
  (`ProjectedNames`), and that a key of a file means a path of that file or of one
  before it (`FirstMeanings`), because `emplace` never takes a key away.
  `FirstNamesLead` follows from the second, whatever the hash is; `SafeNamesLead`
  from both, since a safe name is its own sanitized name and nobody's ASCII name,
  so that whoever has the key brings the same path. `HrefsLead` and
  `SeedsAreAskedForFiles` rest on one lemma about what a client and the program
  escape, that `urlDecode` undoes it (`EscapedIsDecoded`). The first adds that a path
  which means itself is escaped as it stands (`AskedAsListed`), the second that
  `parseHttpUrl` finds in what `buildFileUrl` made the host and port of the base and
  the rest as a path. The module follows this order: URLs, paths, names, the
  index, the names in the index.
* `VirtualDriveProofs`, of `DirEnum`: `ScansInOrder` and `ScansComplete`. The invariant ties
  what ProjFS holds to the state of the enumeration: it is exactly the part of
  the list before `nextIndex`, and the list is a sorting of what was asked for.
* `WebDavRequestProofs`: `RangesHonoured` and `PromisesKept`. The lemma
  `RangeOfHeader` says what `parseRangeHeader` returns; the invariant carries
  `position = start + sent`, which lies within the range, from step to step.
* `VirtualDriveProofs`, of `Mount`: `RequestsServed`, `ServingStopped`, `PayloadsKept`,
  `SparseTreeIsLast`. None of the four is inductive. The first two need to
  know at which places of the main thread a projection, a callback, a server
  thread, an open socket and a WebDAV drive can exist (`UseInv`): the order of
  the destructor is what makes these intervals nest. `PayloadsKept` needs that
  every link without the read-only attribute is exposed, or is the one whose
  attribute is about to be set (`DiskInv`); a kill at that point moves it
  from the one to the other. `SparseTreeIsLast` needs the loop's invariant,
  that all before `next` is made (`TreeInv`), and that a server that has a
  session is running when `tryMountNative` is tried. TLC finds the three to hold
  on the instance of the `Mount` run.
* `LoadProofs`: all five properties, for every torrent, every text and every word
  size. The module goes from the parser to the properties:
  - What a recursion over positions or nodes computes exists and is one
    (`ParseExists`, `SpellExists`, `EncodeExists`), because each call of the parser
    gets behind where it stood and each node is named by a smaller one.
  - `TreeIsRead`: where the text of a node is spelled, the parser reads that node,
    and ends just behind it - if its integers fit a word; else, or where the text
    breaks off before the node ends, it fails. The induction is on the nodes
    from the last to the first; inside one node it goes along the pieces of a
    list or dictionary from the last to the first (`LoopsEnd`, `LoopsCut`).
    `TextIsRead` says what this means for a file: only the whole text is parsed.
  - `LoadInv` is the inductive invariant: `values` is the table of the text, the
    stage tells how far the torrent has been found right, and the files
    read so far are those whose entries have left `queue`, at the sums of the
    lengths before them modulo the word. `ExactlyTorrentsAreLoaded` and
    `CacheSizeIsKept` follow from it.
  - `FilesTileTheTorrent` adds that running sums cut the torrent into intervals of
    which each byte lies in exactly one (`StepsTile`).
  - `InfoTextIsHashed` needs that encoding gives back what was parsed
    (`TreeEncodes`). The step that is not obvious is a dictionary: the ascending
    sequence of its keys is one only (`OrderIsOne`), so in a canonical text it is the
    sequence of the pairs, and no pair is lost to `emplace`. `HashInv` is the
    property and the type of `hashed`, inductive relative to `LoadInv`.
  - `HashedTextIsPadded` follows `update` and `finalDigest` for a text of any length: the
    blocks handed on are whole (`FinalBlocks`), and one or two more are needed for
    what is left (`OneOrTwo`).

`DataTheorems` has the lemmas these proofs share. Induction with a predicate as
parameter is not available to the provers, so every induction is made on a set:
a number or a subset that is a least counterexample (`LeastNatural`, `MinimalSet`),
or the set of numbers for which something holds (`Counting`). Functions that are
defined by recursion are shown to exist by the same means (`RecursiveFunction`,
`SubsetRecursion`, `LoopFunction`), which is what gives meaning to a sum over a set
(`MapThenSumSet`), a flattened sequence or a loop that returns a value. This is why
the modules proved about write recursion as functions.

The prover takes `Len(f)` to be a number for any `f` whatever. No proof uses that
for something that is not a sequence: all of them were also checked with that
fact confined to sequences.

Only model-checked: liveness (`ClaimReleased`, `ReadAnswered`, `TeardownEnds`,
`RequestEnds`), which is out of TLAPS's reach as is ENABLED. Every invariant, every
action property and every refinement that a run checks and that holds is also a
theorem; `ReadWaits` is one without a run.

## 6. Not modelled

* SHA-1's compression function: bit arithmetic that a model checker cannot
  explore to any purpose.
* `TrackerClient`: never reached, because the peers are filled with DHT
  bootstrap nodes first (`TorrentEngine.cpp:68-74`). `DhtClient` and `PortMapper`
  build packets that are thrown away. `performHandshake` and the handshake of
  `PeerProtocol`, `TorrentEngine::stop`, `nextRequest` and `verifyPiece` have no
  caller.
* The provider for other systems: a message without state.
* Letter case, text beyond ASCII, string lengths near 2^64 in a torrent
  (`Bencode.cpp:90`).
* What a detached download does with a session that was destroyed: undefined
  behaviour at the very end of the process (`TorrentSession.cpp:157`). `Mount` shows
  that it may come to that.
* Which spellings Windows takes for one path: `Hydration` takes any relation there
  may be.

## 7. Plan

Done, in this order: `LruBudget`, `PayloadStore`, `Hydration` and its proofs,
`CacheManager`, `TorrentEngine`, `Mount`, `DirEnum`, `Namespace`,
`WebDavRequest`; then `Bencode`, `Sha1`, `TorrentText` and `Load`, the sparse tree and
the starts in `Mount`, `UrlText` with `Namespace` on bytes, `PeerWire`; then the proofs
about `Mount`, `DataTheorems`, and the proofs that were missing of `Hydration`,
`CacheManager`, `TorrentEngine` and `Namespace`; last `LoadProofs`, for which `Bencode`
and `TorrentText` were written anew with recursive functions.

Open: nothing that is safety. Liveness waits for a prover that knows ENABLED.
