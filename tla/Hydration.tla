----------------------------- MODULE Hydration -----------------------------
(***************************************************************************)
(* On-demand hydration: the threads that read files through TorrentSession *)
(* (ProjFS callbacks and the WebDAV server loop), the detached threads     *)
(* that download a whole file from the web seed, the set that keeps two    *)
(* downloads of one file apart, and the payload directory they share.      *)
(*                                                                         *)
(* One action per lock section or file-system call; between two of them    *)
(* any other thread may run.  A file's content is a row of chunks, each    *)
(* known by the file whose body it came with.  Windows sharing rules apply *)
(* to open files (the mount exists only there): a file that somebody has   *)
(* open can be neither replaced nor removed, but it can be opened and      *)
(* written once more.                                                      *)
(***************************************************************************)
EXTENDS Integers

CONSTANTS
  Files,           \* virtual paths of the torrent's files
  Size,            \* Size[f]: chunks in f
  FileName,        \* FileName[f]: the file that opening f's payload path opens
  PartName,        \* PartName[f]: the one that the path with ".part" appended opens
  EvictName,       \* EvictName[f]: the one that evicting f removes
  Readers,         \* threads that read: ProjFS pool threads, the WebDAV loop
  Workers,         \* slots for detached download threads
  MaxBytes,        \* configured cache size
  MaxAttempts,     \* polls of one read before it gives up (1200 in the code)
  MaxBody,         \* chunks of the longest body a seed sends
  WebSeedEnabled,  \* VTFS_WEB_SEED_BASE_URL is set
  SeedSendsWhole,  \* each body is the whole file and no more, and never cut
  DiskFills,       \* writing or closing a file may fail
  FlakyFs,         \* other file-system calls may fail, too, for no reason seen here
  None,            \* no file, no request, the part of a file behind its end
  Hole             \* zero bytes where nobody has written

Path == UNION {{FileName[f], PartName[f], EvictName[f]} : f \in Files}
Chunk == Files \cup {None, Hole}
Content == [1 .. MaxBody -> Chunk]
Request ==
  [op : {"info", "data", "dav"}, file : Files, off : Nat, last : Nat,
   tries : 0 .. MaxAttempts, inTry : BOOLEAN]

ASSUME SizeAssumption == MaxBody \in Nat /\ Size \in [Files -> 0 .. MaxBody]
ASSUME AttemptsAssumption == MaxAttempts \in Nat \ {0}
ASSUME NoneAssumption == /\ None \notin Content
                         /\ None \notin Request
                         /\ None \notin Files \cup {Hole}

(* Several virtual paths may open one file - slashes are doubled, letters  *)
(* differ in case, dots stand at the end of a component or two are one -   *)
(* and only those have a .part file in common.                             *)
ASSUME PartAssumption ==
  \A f, g \in Files : PartName[f] = PartName[g] => FileName[f] = FileName[g]

(* No file of the torrent is called like another one plus ".part". *)
NoTempClash == \A f, g \in Files : PartName[f] # FileName[g]

(* What an eviction removes is not in the payload directory. *)
EvictsElsewhere == \A f, g \in Files : EvictName[f] # FileName[g]

(* No other file of the torrent has f's payload path. *)
OwnPath(f) == \A g \in Files : FileName[g] = FileName[f] => g = f

VARIABLES
  disk,      \* disk[p]: the content of the file p, or None
  inFlight,  \* webSeedInFlight_
  tracked,   \* CacheManager's bookkeeping, as in LruBudget
  older,
  rpc,       \* where each reader is
  req,       \* its request: kind, file, next chunk, last chunk, polls, "in tryReadFileRange"
  wpc,       \* where each download thread is
  wfile,     \* the file it downloads
  wgot       \* chunks of the body that have come

cacheVars == <<tracked, older>>
readerVars == <<rpc, req>>
workerVars == <<wpc, wfile, wgot>>
vars == <<disk, inFlight, tracked, older, rpc, req, wpc, wfile, wgot>>

Cache == INSTANCE LruBudget WITH Keys <- Files, SizeOf <- Size

-----------------------------------------------------------------------------
(* Paths.  payloadPathFor strips the slash a virtual path begins with and  *)
(* appends the rest to the payload directory.  CacheManager appends the    *)
(* path as it is, which yields one from the root of the volume.            *)

PayloadPath(f) == FileName[f]
(* Faulty variant: the download is written to its destination directly.    *)
PartPathIsPayload(f) == PayloadPath(f)

(* Faulty variant: one .part file for all downloads.                       *)
PartPathShared(f) == PartName[CHOOSE g \in Files : TRUE]

PartPath(f) == PartName[f]
EvictPath(f) == EvictName[f]

Present(f) == disk[PayloadPath(f)] # None

OpenByReader(p) == \E r \in Readers : rpc[r] = "read" /\ p = PayloadPath(req[r].file)

OpenByWorker(p) == \E w \in Workers : wpc[w] \in {"header", "body", "bad"} /\ p = PartPath(wfile[w])

Open(p) == OpenByReader(p) \/ OpenByWorker(p)

(* The file p has a chunk at offset off, counted from 0. *)
Reaches(p, off) == disk[p] # None /\ disk[p][off + 1] # None

-----------------------------------------------------------------------------
(* Readers *)

Requests ==
  {q \in [op : {"info", "data", "dav"}, file : Files,
          off : UNION {0 .. Size[f] : f \in Files}, last : UNION {0 .. Size[f] : f \in Files},
          tries : {0}, inTry : {FALSE}] :
     CASE q.op = "info" -> q.off = 0 /\ q.last = 0
       [] q.op = "data" -> q.off <= Size[q.file] /\ q.last = q.off
       [] q.op = "dav" -> \/ q.off <= q.last /\ q.last < Size[q.file]
                          \/ q.off = 0 /\ q.last = 0 /\ Size[q.file] = 0}

Goto(r, pc, q) ==
  /\ rpc' = [rpc EXCEPT ![r] = pc]
  /\ req' = [req EXCEPT ![r] = IF pc = "idle" THEN None ELSE q]

(* Where the caller of queueRead goes on: the placeholder is answered, a   *)
(* read enters its polling loop, goes round it again or is out of polls.   *)
AfterQueueOffByOne(q) ==  \* faulty variant: one poll too many
  IF q.op = "info" \/ q.tries > MaxAttempts THEN "idle" ELSE "exists"

AfterQueue(q) ==
  IF q.op = "info" \/ q.tries = MaxAttempts THEN "idle" ELSE "exists"

(* beginStreaming clamps to zero past the end and queueRead then returns.  *)
BeginStreaming(q) == IF q.off < Size[q.file] THEN "touch" ELSE AfterQueue(q)

(* A poll brought nothing: ProjFS sleeps and polls again, WebDAV queues    *)
(* the read once more before it does.                                      *)
AttemptFailsUncounted(r) ==  \* faulty variant: the poll is not counted
  LET q == [req[r] EXCEPT !.inTry = FALSE]
  IN  Goto(r, IF q.op = "dav" THEN BeginStreaming(q) ELSE AfterQueue(q), q)

AttemptFails(r) ==
  LET q == [req[r] EXCEPT !.tries = @ + 1, !.inTry = FALSE]
  IN  Goto(r, IF q.op = "dav" THEN BeginStreaming(q) ELSE AfterQueue(q), q)

(* ensureWebSeedDownload returns to queueRead or to tryReadFileRange. *)
EnsureReturns(r) ==
  IF req[r].inTry THEN AttemptFails(r) ELSE Goto(r, AfterQueue(req[r]), req[r])

Start(r) ==
  /\ rpc[r] = "idle"
  /\ \E q \in Requests : Goto(r, BeginStreaming(q), q)
  /\ UNCHANGED <<disk, inFlight, cacheVars, workerVars>>

Touch(r) ==
  /\ rpc[r] = "touch"
  /\ Cache!TouchKey(req[r].file)
  /\ Goto(r, "evict", req[r])
  /\ UNCHANGED <<disk, inFlight, workerVars>>

(* Dropping a key also removes a file, the one EvictPath names, unless it  *)
(* is open or the removal fails.                                           *)
EvictIfNeeded(r) ==
  /\ rpc[r] = "evict"
  /\ Cache!Shrink
  /\ LET evicted == {EvictPath(k) : k \in tracked \ tracked'}
     IN  \E gone \in SUBSET evicted :
           /\ \A p \in gone : ~Open(p)
           /\ FlakyFs \/ \A p \in evicted \ gone : Open(p)
           /\ disk' = [p \in Path |-> IF p \in gone THEN None ELSE disk[p]]
  /\ Goto(r, "check", req[r])
  /\ UNCHANGED <<inFlight, workerVars>>

(* ensureWebSeedDownload, up to its early returns; no lock is held. *)
EnsureCheck(r) ==
  /\ rpc[r] = "check"
  /\ IF WebSeedEnabled /\ ~Present(req[r].file)
       THEN Goto(r, "claim", req[r])
       ELSE EnsureReturns(r)
  /\ UNCHANGED <<disk, inFlight, cacheVars, workerVars>>

(* The insertion under webSeedMutex_. *)
ClaimUnchecked(r) ==  \* faulty variant: the result of insert is ignored
  /\ rpc[r] = "claim"
  /\ inFlight' = inFlight \cup {req[r].file}
  /\ Goto(r, "spawn", req[r])
  /\ UNCHANGED <<disk, cacheVars, workerVars>>

Claim(r) ==
  /\ rpc[r] = "claim"
  /\ IF req[r].file \in inFlight
       THEN EnsureReturns(r) /\ UNCHANGED inFlight
       ELSE /\ inFlight' = inFlight \cup {req[r].file}
            /\ Goto(r, "spawn", req[r])
  /\ UNCHANGED <<disk, cacheVars, workerVars>>

(* std::thread(...).detach(), with the lock released. *)
Spawn(r) ==
  /\ rpc[r] = "spawn"
  /\ \E w \in Workers :
       /\ wpc[w] = "none"
       /\ wpc' = [wpc EXCEPT ![w] = "connect"]
       /\ wfile' = [wfile EXCEPT ![w] = req[r].file]
  /\ EnsureReturns(r)
  /\ UNCHANGED <<disk, inFlight, cacheVars, wgot>>

(* getFileData finds no memory for its buffer before it polls. *)
NoBuffer(r) ==
  /\ rpc[r] = "exists"
  /\ req[r].op = "data" /\ req[r].tries = 0
  /\ Goto(r, "idle", req[r])
  /\ UNCHANGED <<disk, inFlight, cacheVars, workerVars>>

(* tryReadFileRange, up to its call of exists(). *)
TryReadEmpty(r) ==  \* faulty variant: a missing payload is an empty read
  /\ rpc[r] = "exists"
  /\ Goto(r, IF req[r].off < Size[req[r].file] /\ Present(req[r].file)
               THEN "open" ELSE "hydrating", req[r])
  /\ UNCHANGED <<disk, inFlight, cacheVars, workerVars>>

TryRead(r) ==
  LET q == req[r]
  IN  /\ rpc[r] = "exists"
      /\ \/ /\ q.off >= Size[q.file]
            /\ Goto(r, "hydrating", q)
         \/ /\ q.off < Size[q.file]
            /\ Present(q.file)
            /\ Goto(r, "open", q)
         \/ /\ q.off < Size[q.file]
            /\ ~Present(q.file)
            /\ Goto(r, "check", [q EXCEPT !.inTry = TRUE])
      /\ UNCHANGED <<disk, inFlight, cacheVars, workerVars>>

(* The stream is opened; the file may be gone since the check. *)
OpenPayload(r) ==
  /\ rpc[r] = "open"
  /\ \/ Present(req[r].file) /\ Goto(r, "read", req[r])
     \/ (~Present(req[r].file) \/ FlakyFs) /\ AttemptFails(r)
  /\ UNCHANGED <<disk, inFlight, cacheVars, workerVars>>

(* seekg, read and close.  A chunk that is there is handed over: that ends *)
(* a ProjFS read; the WebDAV loop goes on to the next chunk, up to the     *)
(* last one or until its client has gone.                                  *)
Read(r) ==
  LET q == req[r]
      done == q.op = "data" \/ q.off >= q.last
  IN  /\ rpc[r] = "read"
      /\ \/ /\ ~Reaches(PayloadPath(q.file), q.off)
            /\ Goto(r, "hydrating", q)
         \/ /\ Reaches(PayloadPath(q.file), q.off)
            /\ \/ Goto(r, "idle", q)
               \/ ~done /\ Goto(r, "exists", [q EXCEPT !.off = @ + 1, !.tries = 0])
      /\ UNCHANGED <<disk, inFlight, cacheVars, workerVars>>

(* A poll that read nothing goes on only while a download is in flight. *)
IsHydrating(r) ==
  /\ rpc[r] = "hydrating"
  /\ IF req[r].file \in inFlight THEN AttemptFails(r) ELSE Goto(r, "idle", req[r])
  /\ UNCHANGED <<disk, inFlight, cacheVars, workerVars>>

ReaderStep(r) ==
  \/ Touch(r) \/ EvictIfNeeded(r) \/ EnsureCheck(r) \/ Claim(r) \/ Spawn(r)
  \/ NoBuffer(r) \/ TryRead(r) \/ OpenPayload(r) \/ Read(r) \/ IsHydrating(r)

-----------------------------------------------------------------------------
(* Download threads: WebSeedClient::downloadFile and the lambda around it. *)

WorkerGoto(w, pcs) == \E pc \in pcs : wpc' = [wpc EXCEPT ![w] = pc]

(* URL, socket, request: each may fail before a file is touched. *)
Connect(w) ==
  /\ wpc[w] = "connect"
  /\ WorkerGoto(w, {"create", "release"})
  /\ UNCHANGED <<disk, inFlight, cacheVars, readerVars, wfile, wgot>>

NoData == [k \in 1 .. MaxBody |-> None]

(* Opening the .part file truncates what is there, be it of an earlier run *)
(* or of a download that has the file open, too.                           *)
OpenTemp(w) ==
  /\ wpc[w] = "create"
  /\ \/ /\ WorkerGoto(w, {"header"})
        /\ disk' = [disk EXCEPT ![PartPath(wfile[w])] = NoData]
     \/ WorkerGoto(w, {"release"}) /\ UNCHANGED disk
  /\ UNCHANGED <<inFlight, cacheVars, readerVars, wfile, wgot>>

(* Status 200, or another status or no complete header at all. *)
RecvHeaderUnchecked(w) ==  \* faulty variant: an error page is published
  /\ wpc[w] = "header"
  /\ WorkerGoto(w, {"body", "publish"})
  /\ UNCHANGED <<disk, inFlight, cacheVars, readerVars, wfile, wgot>>

RecvHeader(w) ==
  /\ wpc[w] = "header"
  /\ WorkerGoto(w, {"body", "discard"})
  /\ UNCHANGED <<disk, inFlight, cacheVars, readerVars, wfile, wgot>>

(* Chunk n of f's body is written where its own stream stands. *)
Written(c, n, f) ==
  [k \in 1 .. MaxBody |-> IF k = n THEN f
                         ELSE IF k < n /\ c[k] = None THEN Hole
                         ELSE c[k]]

(* The next chunk comes and is written.  Nobody looks whether that worked; *)
(* once it has not, the stream is bad and drops the chunks that follow.    *)
(* What is lost when the stream is closed counts as not written here.      *)
RecvBody(w) ==
  LET n == wgot[w] + 1
      p == PartPath(wfile[w])
  IN  /\ wpc[w] \in {"body", "bad"}
      /\ n <= IF SeedSendsWhole THEN Size[wfile[w]] ELSE MaxBody
      /\ wgot' = [wgot EXCEPT ![w] = n]
      /\ \/ /\ wpc[w] = "body"
            /\ disk' = [disk EXCEPT ![p] = Written(@, n, wfile[w])]
            /\ UNCHANGED wpc
         \/ /\ wpc[w] = "bad" \/ DiskFills
            /\ WorkerGoto(w, {"bad"})
            /\ UNCHANGED disk
      /\ UNCHANGED <<inFlight, cacheVars, readerVars, wfile>>

(* recv returned 0 or an error: after the header that counts as success,   *)
(* however much of the body has come, and wherever it went.                *)
RecvEnd(w) ==
  /\ wpc[w] \in {"body", "bad"}
  /\ SeedSendsWhole => wgot[w] = Size[wfile[w]]
  /\ WorkerGoto(w, {"publish"})
  /\ wgot' = [wgot EXCEPT ![w] = 0]
  /\ UNCHANGED <<disk, inFlight, cacheVars, readerVars, wfile>>

(* remove(p, ec): it fails while p is open or when the file system does. *)
RemoveQuietly(p) ==
  \/ ~Open(p) /\ disk' = [disk EXCEPT ![p] = None]
  \/ (Open(p) \/ FlakyFs) /\ UNCHANGED disk

DiscardPayload(w) ==  \* faulty variant: the destination is removed instead
  /\ wpc[w] = "discard"
  /\ RemoveQuietly(PayloadPath(wfile[w]))
  /\ WorkerGoto(w, {"release"})
  /\ UNCHANGED <<inFlight, cacheVars, readerVars, wfile, wgot>>

Discard(w) ==
  /\ wpc[w] = "discard"
  /\ RemoveQuietly(PartPath(wfile[w]))
  /\ WorkerGoto(w, {"release"})
  /\ UNCHANGED <<inFlight, cacheVars, readerVars, wfile, wgot>>

(* rename(temp, destination, ec) *)
CanRename(w) ==
  /\ disk[PartPath(wfile[w])] # None
  /\ ~Open(PartPath(wfile[w]))
  /\ ~Open(PayloadPath(wfile[w]))

RenameTemp(w, otherwise) ==
  \/ /\ CanRename(w)
     /\ disk' = [disk EXCEPT ![PayloadPath(wfile[w])] = disk[PartPath(wfile[w])],
                             ![PartPath(wfile[w])] = None]
     /\ WorkerGoto(w, {"release"})
  \/ /\ ~CanRename(w) \/ FlakyFs
     /\ WorkerGoto(w, {otherwise})
     /\ UNCHANGED disk

Publish(w) ==
  /\ wpc[w] = "publish"
  /\ RenameTemp(w, "unlink")
  /\ UNCHANGED <<inFlight, cacheVars, readerVars, wfile, wgot>>

Unlink(w) ==
  /\ wpc[w] = "unlink"
  /\ RemoveQuietly(PayloadPath(wfile[w]))
  /\ WorkerGoto(w, {"republish"})
  /\ UNCHANGED <<inFlight, cacheVars, readerVars, wfile, wgot>>

Republish(w) ==
  /\ wpc[w] = "republish"
  /\ RenameTemp(w, "release")
  /\ UNCHANGED <<inFlight, cacheVars, readerVars, wfile, wgot>>

ReleaseForgotten(w) ==  \* faulty variant: the claim is never erased
  /\ wpc[w] = "release"
  /\ WorkerGoto(w, {"none"})
  /\ wfile' = [wfile EXCEPT ![w] = None]
  /\ UNCHANGED <<disk, inFlight, cacheVars, readerVars, wgot>>

(* The end of the lambda: the claim is dropped under the lock. *)
Release(w) ==
  /\ wpc[w] = "release"
  /\ inFlight' = inFlight \ {wfile[w]}
  /\ WorkerGoto(w, {"none"})
  /\ wfile' = [wfile EXCEPT ![w] = None]
  /\ UNCHANGED <<disk, cacheVars, readerVars, wgot>>

WorkerStep(w) ==
  \/ Connect(w) \/ OpenTemp(w) \/ RecvHeader(w) \/ RecvBody(w) \/ RecvEnd(w)
  \/ Discard(w) \/ Publish(w) \/ Unlink(w) \/ Republish(w) \/ Release(w)

-----------------------------------------------------------------------------
(* The process ends at any point - it is closed, or an exception leaves a  *)
(* detached thread - and is started again on the same cache directory.     *)
Restart ==
  /\ inFlight' = {}
  /\ Cache!Forget
  /\ rpc' = [r \in Readers |-> "idle"]
  /\ req' = [r \in Readers |-> None]
  /\ wpc' = [w \in Workers |-> "none"]
  /\ wfile' = [w \in Workers |-> None]
  /\ wgot' = [w \in Workers |-> 0]
  /\ UNCHANGED disk

Init ==
  /\ disk = [p \in Path |-> None]
  /\ inFlight = {}
  /\ Cache!Init
  /\ rpc = [r \in Readers |-> "idle"]
  /\ req = [r \in Readers |-> None]
  /\ wpc = [w \in Workers |-> "none"]
  /\ wfile = [w \in Workers |-> None]
  /\ wgot = [w \in Workers |-> 0]

Next ==
  \/ \E r \in Readers : Start(r) \/ ReaderStep(r)
  \/ \E w \in Workers : WorkerStep(w)
  \/ Restart

Spec == Init /\ [][Next]_vars

(* Threads keep running; clients need not ask, the process need not end.   *)
Fairness ==
  /\ \A r \in Readers : WF_vars(ReaderStep(r))
  /\ \A w \in Workers : WF_vars(WorkerStep(w))

FairSpec == Spec /\ Fairness
-----------------------------------------------------------------------------
(* Properties *)

ReaderPcs == {"idle", "touch", "evict", "check", "claim", "spawn",
              "exists", "open", "read", "hydrating"}

WorkerPcs == {"none", "connect", "create", "header", "body", "bad", "discard",
              "publish", "unlink", "republish", "release"}

SharedTypes ==
  /\ disk \in [Path -> Content \cup {None}]
  /\ inFlight \subseteq Files
  /\ tracked \subseteq Files
  /\ older \subseteq Files \X Files

ReaderTypes ==
  /\ rpc \in [Readers -> ReaderPcs]
  /\ req \in [Readers -> Request \cup {None}]
  /\ \A r \in Readers : rpc[r] = "idle" <=> req[r] = None

WorkerTypes ==
  /\ wpc \in [Workers -> WorkerPcs]
  /\ wfile \in [Workers -> Files \cup {None}]
  /\ wgot \in [Workers -> 0 .. MaxBody]
  /\ \A w \in Workers : wpc[w] = "none" <=> wfile[w] = None

(* Every variable keeps to its range, the polls of a read stay within      *)
(* their bound, and a thread has a request or a file exactly while it has  *)
(* work (TorrentSession.cpp:89-162, VirtualDrive.cpp:579).                 *)
TypeOK == SharedTypes /\ ReaderTypes /\ WorkerTypes

(* The threads that hold the claim on f: a reader between the insertion    *)
(* and the start of the thread, or the download thread.                    *)
ClaimedBy(r, f) == rpc[r] = "spawn" /\ req[r].file = f
DownloadedBy(w, f) == wpc[w] # "none" /\ wfile[w] = f

(* webSeedInFlight_ names exactly the files somebody is responsible for    *)
(* (TorrentSession.cpp:151-161): no claim is lost, none is left behind ... *)
NoLostClaim ==
  \A f \in Files :
    f \in inFlight <=> \/ \E r \in Readers : ClaimedBy(r, f)
                       \/ \E w \in Workers : DownloadedBy(w, f)

(* ... and nobody shares one.  A claim is made on a virtual path: two      *)
(* threads write one .part file only for files that have it in common.     *)
OneOwner ==
  \A f \in Files :
    /\ \A r, s \in Readers : ClaimedBy(r, f) /\ ClaimedBy(s, f) => r = s
    /\ \A v, w \in Workers : DownloadedBy(v, f) /\ DownloadedBy(w, f) => v = w
    /\ \A r \in Readers, w \in Workers : ~(ClaimedBy(r, f) /\ DownloadedBy(w, f))

(* Claims and their holders match one to one, through races of readers,    *)
(* failed downloads and restarts.                                          *)
InFlightOwned == NoLostClaim /\ OneOwner

Sharing(f) == {g \in Files : FileName[g] = FileName[f]}

(* Bodies of the files whose payload is p: their chunks, in any mixture    *)
(* and with holes if they are several.                                     *)
BodiesAt(p) ==
  {c \in Content :
     \A f \in Files : FileName[f] = p =>
       \A k \in 1 .. MaxBody :
         c[k] \in Sharing(f) \cup {None} \/ (c[k] = Hole /\ ~OwnPath(f))}

(* What a reader finds at f's payload path came with the bodies of f and   *)
(* of the files that share this path, with no part of another one and,     *)
(* where f has the path for itself, with nothing between its chunks        *)
(* (TorrentSession.cpp:76-87, WebSeedClient.cpp:191-248).                  *)
PayloadBelongs ==
  \A f \in Files : Present(f) => disk[PayloadPath(f)] \in BodiesAt(PayloadPath(f))

(* A payload does not change under a reader that has it open               *)
(* (TorrentSession.cpp:106-113): the download of the same file works on    *)
(* the .part file, and replacing fails while the payload is open.          *)
StableWhileOpen ==
  [][\A r \in Readers :
       rpc[r] = "read" => disk'[PayloadPath(req[r].file)] = disk[PayloadPath(req[r].file)]]_vars

WholeBody(f) == [k \in 1 .. MaxBody |-> IF k <= Size[f] THEN f ELSE None]

(* A payload in the cache is the whole file, after crashes, failed         *)
(* downloads and left-over .part files too - if the seed sends whole       *)
(* bodies, the disk takes what is written, and no other file has the same  *)
(* payload path (WebSeedClient.cpp:192-248).                               *)
PayloadComplete ==
  \A f \in Files : OwnPath(f) /\ Present(f) => disk[PayloadPath(f)] = WholeBody(f)

(* A read of bytes the file has goes on until it gets them or all its      *)
(* polls are spent, whatever other readers, downloads and evictions do     *)
(* between its looks at the payload and at webSeedInFlight_ - under the    *)
(* same conditions (VirtualDrive.cpp:579-591, WebDavServer.cpp:389-411).   *)
(* A client that goes and a buffer that is not had end it as well.         *)
ReadWaits ==
  [][\A r \in Readers :
       ReaderStep(r) /\ rpc'[r] = "idle" =>
         \/ req[r].op = "info" \/ rpc[r] = "read" \/ NoBuffer(r)
         \/ req[r].off >= Size[req[r].file] \/ ~OwnPath(req[r].file)
         \/ req[r].tries + 1 >= MaxAttempts]_vars

(* Every download ends in the claim's release, whatever fails on the way   *)
(* (WebSeedClient.cpp:165-249, TorrentSession.cpp:157-160).                *)
ClaimReleased == \A f \in Files : f \in inFlight ~> f \notin inFlight

(* Every read is answered: the polling loops of VirtualDrive.cpp:579-591   *)
(* and WebDavServer.cpp:389-411 end.                                       *)
ReadAnswered == \A r \in Readers : rpc[r] # "idle" ~> rpc[r] = "idle"

(* Hydration as PayloadStore promises it. *)
storeBar == [p \in {PayloadPath(f) : f \in Files} |-> disk[p]]

phaseBar ==
  [f \in Files |->
     IF f \notin inFlight THEN "idle"
     ELSE IF \E w \in Workers : wpc[w] = "release" /\ wfile[w] = f THEN "settled"
     ELSE "fetching"]

Store == INSTANCE PayloadStore
           WITH Slot <- [f \in Files |-> PayloadPath(f)],
                Bodies <- [p \in {PayloadPath(f) : f \in Files} |-> BodiesAt(p)],
                Missing <- None, store <- storeBar, phase <- phaseBar

(* The downloads, with all their failures and restarts, implement the      *)
(* store that gets each body in one step (WebSeedClient.cpp:165-249).      *)
ImplementsStore == Store!Spec

-----------------------------------------------------------------------------
(* What the documentation says and the code does not keep to. *)

(* With no request and no download going on, the payloads on disk fit the  *)
(* cache size (CacheManager.cpp:36-38).                                    *)
DiskWithinBudget ==
  (inFlight = {} /\ \A r \in Readers : rpc[r] = "idle")
    => Cache!TotalOf({f \in Files : Present(f)}) <= MaxBytes

(* What is at f's payload path is f's (TorrentSession.cpp:76-87).          *)
PayloadOwn ==
  \A f \in Files : Present(f) => \A k \in 1 .. MaxBody : disk[PayloadPath(f)][k] \in {f, None}

(* A poll is given up because nothing is in flight only when there is      *)
(* nothing to read: the payload does not reach the offset at that moment   *)
(* (VirtualDrive.cpp:580-589, WebDavServer.cpp:394-400).                   *)
NoEarlyOffline ==
  [][\A r \in Readers :
       IsHydrating(r) /\ req[r].file \notin inFlight /\ req[r].off < Size[req[r].file] =>
         ~Reaches(PayloadPath(req[r].file), req[r].off)]_vars
=============================================================================
