-------------------------- MODULE HydrationProofs --------------------------
(***************************************************************************)
(* Theorems about Hydration, for every set of files, sizes, readers and    *)
(* download threads.                                                       *)
(***************************************************************************)
EXTENDS Hydration, TLAPS

(* Where a failed attempt is still going to be counted. *)
Polling(r) ==
  \/ rpc[r] \in {"exists", "open", "read", "hydrating"}
  \/ rpc[r] \in {"check", "claim", "spawn"} /\ req[r].inTry

(* The strengthening TypeOK needs: while an attempt is under way a poll is *)
(* left, and queueRead is entered outside tryReadFileRange only.           *)
PollsLeft ==
  \A r \in Readers :
    /\ Polling(r) => req[r].tries < MaxAttempts
    /\ rpc[r] \in {"touch", "evict"} => ~req[r].inTry

(* What is open is there. *)
OpenThere ==
  /\ \A r \in Readers : rpc[r] = "read" => Present(req[r].file)
  /\ \A w \in Workers : wpc[w] \in {"header", "body", "bad"} => disk[PartPath(wfile[w])] # None

TypeInv == TypeOK /\ PollsLeft /\ OpenThere

-----------------------------------------------------------------------------
(* Moving a reader *)

(* A reader may go where a typed request takes it with a poll left.        *)
Allowed(pc, q) ==
  /\ pc \in ReaderPcs
  /\ pc # "idle" => /\ q \in Request
                    /\ pc \in {"exists", "open", "read", "hydrating"} => q.tries < MaxAttempts
                    /\ pc \in {"check", "claim", "spawn"} /\ q.inTry => q.tries < MaxAttempts
                    /\ pc \in {"touch", "evict"} => ~q.inTry

LEMMA GotoKeeps ==
  ASSUME ReaderTypes, PollsLeft, NEW r \in Readers, NEW pc, NEW q,
         Allowed(pc, q), Goto(r, pc, q)
  PROVE  ReaderTypes' /\ PollsLeft'
  <1>1. /\ rpc' = [rpc EXCEPT ![r] = pc]
        /\ req' = [req EXCEPT ![r] = IF pc = "idle" THEN None ELSE q]
    BY DEF Goto
  <1>2. ReaderTypes'
    BY <1>1, NoneAssumption DEF ReaderTypes, Allowed
  <1>3. PollsLeft'
    <2> SUFFICES ASSUME NEW s \in Readers
                 PROVE  /\ Polling(s)' => req'[s].tries < MaxAttempts
                        /\ rpc'[s] \in {"touch", "evict"} => ~req'[s].inTry
      BY DEF PollsLeft
    <2>1. CASE s = r
      BY <1>1, <2>1 DEF ReaderTypes, Allowed, Polling
    <2>2. CASE s # r
      BY <1>1, <2>2 DEF ReaderTypes, PollsLeft, Polling
    <2> QED BY <2>1, <2>2
  <1> QED BY <1>2, <1>3

(* The caller of queueRead goes on without touching the request. *)
LEMMA AfterQueueAllowed ==
  ASSUME NEW q \in Request, ~q.inTry
  PROVE  Allowed(AfterQueue(q), q)
  BY AttemptsAssumption DEF AfterQueue, Allowed, ReaderPcs, Request

LEMMA BeginStreamingAllowed ==
  ASSUME NEW q \in Request, ~q.inTry
  PROVE  Allowed(BeginStreaming(q), q)
  BY AfterQueueAllowed DEF BeginStreaming, Allowed, ReaderPcs

(* The request after a failed attempt. *)
LEMMA PollCounted ==
  ASSUME NEW p \in Request, p.tries < MaxAttempts
  PROVE  LET q == [p EXCEPT !.tries = @ + 1, !.inTry = FALSE]
         IN  q \in Request /\ ~q.inTry
  <1>1. [p EXCEPT !.tries = @ + 1] \in Request
    BY AttemptsAssumption DEF Request
  <1>2. [[p EXCEPT !.tries = @ + 1] EXCEPT !.inTry = FALSE] \in Request
    BY <1>1 DEF Request
  <1>3. [p EXCEPT !.tries = @ + 1, !.inTry = FALSE]
          = [[p EXCEPT !.tries = @ + 1] EXCEPT !.inTry = FALSE]
    BY DEF Request
  <1>4. ~[p EXCEPT !.tries = @ + 1, !.inTry = FALSE].inTry
    BY DEF Request
  <1> QED BY <1>2, <1>3, <1>4

LEMMA AttemptFailsKeeps ==
  ASSUME ReaderTypes, PollsLeft, NEW r \in Readers, Polling(r), AttemptFails(r)
  PROVE  ReaderTypes' /\ PollsLeft'
  <1> DEFINE q == [req[r] EXCEPT !.tries = @ + 1, !.inTry = FALSE]
  <1>1. req[r] \in Request /\ req[r].tries < MaxAttempts
    BY DEF ReaderTypes, PollsLeft, Polling
  <1>2. q \in Request /\ ~q.inTry
    BY <1>1, PollCounted
  <1>3. PICK pc : pc \in {BeginStreaming(q), AfterQueue(q)} /\ Goto(r, pc, q)
    BY Zenon DEF AttemptFails
  <1>4. Allowed(pc, q)
    BY <1>2, <1>3, AfterQueueAllowed, BeginStreamingAllowed
  <1> QED BY <1>3, <1>4, GotoKeeps

LEMMA EnsureReturnsKeeps ==
  ASSUME ReaderTypes, PollsLeft, NEW r \in Readers,
         rpc[r] \in {"check", "claim", "spawn"}, EnsureReturns(r)
  PROVE  ReaderTypes' /\ PollsLeft'
  <1>1. CASE req[r].inTry
    BY <1>1, AttemptFailsKeeps DEF EnsureReturns, Polling
  <1>2. CASE ~req[r].inTry
    <2>1. req[r] \in Request
      BY DEF ReaderTypes
    <2> QED BY <1>2, <2>1, AfterQueueAllowed, GotoKeeps DEF EnsureReturns
  <1> QED BY <1>1, <1>2

LEMMA RequestsTyped ==
  ASSUME NEW q \in Requests
  PROVE  q \in Request /\ ~q.inTry
  <1>1. UNION {0 .. Size[f] : f \in Files} \subseteq Nat
    BY SizeAssumption
  <1>2. q \in [op : {"info", "data", "dav"}, file : Files,
               off : UNION {0 .. Size[f] : f \in Files},
               last : UNION {0 .. Size[f] : f \in Files},
               tries : {0}, inTry : {FALSE}]
    BY DEF Requests
  <1>3. ASSUME NEW O, O \subseteq Nat,
               q \in [op : {"info", "data", "dav"}, file : Files, off : O, last : O,
                     tries : {0}, inTry : {FALSE}]
        PROVE  q \in Request /\ ~q.inTry
    <2>1. q = [op |-> q.op, file |-> q.file, off |-> q.off, last |-> q.last,
               tries |-> q.tries, inTry |-> q.inTry]
      BY <1>3
    <2>2. /\ q.op \in {"info", "data", "dav"} /\ q.file \in Files
          /\ q.off \in Nat /\ q.last \in Nat /\ q.tries = 0 /\ q.inTry = FALSE
      BY <1>3
    <2>3. 0 \in 0 .. MaxAttempts
      BY AttemptsAssumption
    <2> QED BY <2>1, <2>2, <2>3 DEF Request
  <1> QED BY <1>1, <1>2, <1>3

(* The request of the WebDAV loop for its next chunk. *)
LEMMA NextChunk ==
  ASSUME NEW p \in Request
  PROVE  LET q == [p EXCEPT !.off = @ + 1, !.tries = 0]
         IN  q \in Request /\ q.tries < MaxAttempts
  <1>1. [p EXCEPT !.off = @ + 1] \in Request
    BY DEF Request
  <1>2. ASSUME NEW o \in Request PROVE [o EXCEPT !.tries = 0] \in Request
    BY AttemptsAssumption DEF Request
  <1>3. [[p EXCEPT !.off = @ + 1] EXCEPT !.tries = 0] \in Request
    BY <1>1, <1>2
  <1>4. [p EXCEPT !.off = @ + 1, !.tries = 0]
          = [[p EXCEPT !.off = @ + 1] EXCEPT !.tries = 0]
    BY DEF Request
  <1>5. [p EXCEPT !.off = @ + 1, !.tries = 0].tries = 0
    BY DEF Request
  <1> QED BY <1>3, <1>4, <1>5, AttemptsAssumption

(* Where EnsureReturns and the other calls of Goto can lead. *)
LEMMA EnsureReturnsMoves ==
  ASSUME NEW r \in Readers, EnsureReturns(r) \/ AttemptFails(r)
  PROVE  \E pc \in {"idle", "touch", "exists"} : \E q : Goto(r, pc, q)
  BY Zenon DEF EnsureReturns, AttemptFails, BeginStreaming, AfterQueue

-----------------------------------------------------------------------------
(* What a step does to the disk *)

LEMMA PathsTyped ==
  ASSUME NEW f \in Files
  PROVE  PayloadPath(f) \in Path /\ PartPath(f) \in Path /\ EvictPath(f) \in Path
  BY DEF PayloadPath, PartPath, EvictPath, Path

(* A reader removes at most what an eviction names and nobody has open.    *)
LEMMA ReaderDisk ==
  ASSUME NEW r \in Readers, Start(r) \/ ReaderStep(r), SharedTypes
  PROVE  /\ disk' \in [Path -> Content \cup {None}]
         /\ \A p \in Path : disk'[p] # disk[p] =>
               disk'[p] = None /\ ~Open(p) /\ \E k \in Files : p = EvictPath(k)
  <1>1. CASE EvictIfNeeded(r)
    <2>1. PICK gone \in SUBSET {EvictPath(k) : k \in tracked \ tracked'} :
            /\ \A p \in gone : ~Open(p)
            /\ disk' = [p \in Path |-> IF p \in gone THEN None ELSE disk[p]]
      BY <1>1 DEF EvictIfNeeded
    <2>2. \A p \in gone : \E k \in Files : p = EvictPath(k)
      BY DEF SharedTypes
    <2> QED BY <2>1, <2>2 DEF SharedTypes
  <1>2. CASE ~EvictIfNeeded(r)
    <2>1. UNCHANGED disk
      BY <1>2 DEF Start, ReaderStep, Touch, EnsureCheck, Claim, Spawn, NoBuffer, TryRead,
         OpenPayload, Read, IsHydrating
    <2> QED BY <2>1 DEF SharedTypes
  <1> QED BY <1>1, <1>2

LEMMA WrittenTyped ==
  ASSUME NEW c \in Content, NEW n, NEW f \in Files
  PROVE  Written(c, n, f) \in Content
  BY DEF Written, Content, Chunk

LEMMA WorkerBusy ==
  ASSUME NEW w \in Workers, WorkerStep(w), WorkerTypes
  PROVE  wpc[w] # "none" /\ wfile[w] \in Files
  <1>1. wpc[w] # "none"
    BY DEF WorkerStep, Connect, OpenTemp, RecvHeader, RecvBody, RecvEnd, Discard,
           Publish, Unlink, Republish, Release
  <1> QED BY <1>1 DEF WorkerTypes

(* A worker writes to its .part file, and replaces or removes what nobody  *)
(* has open.                                                               *)
LEMMA WorkerDisk ==
  ASSUME NEW w \in Workers, WorkerStep(w), SharedTypes, WorkerTypes, OpenThere
  PROVE  /\ disk' \in [Path -> Content \cup {None}]
         /\ \A p \in Path : disk'[p] # disk[p] =>
               \/ p = PartPath(wfile[w]) /\ disk'[p] # None
               \/ p \in {PartPath(wfile[w]), PayloadPath(wfile[w])} /\ ~Open(p)
  <1> DEFINE f == wfile[w]
             part == PartPath(f)
  <1>1. f \in Files /\ part \in Path /\ PayloadPath(f) \in Path
    BY WorkerBusy, PathsTyped
  <1>2. disk \in [Path -> Content \cup {None}]
    BY DEF SharedTypes
  <1>3. CASE UNCHANGED disk
    BY <1>2, <1>3
  <1>4. ASSUME NEW c \in Content, disk' = [disk EXCEPT ![part] = c]
        PROVE  /\ disk' \in [Path -> Content \cup {None}]
               /\ \A p \in Path : disk'[p] # disk[p] => p = part /\ disk'[p] # None
    BY <1>1, <1>2, <1>4, NoneAssumption
  <1>5. CASE OpenTemp(w) /\ ~UNCHANGED disk
    <2>1. NoData \in Content
      BY DEF NoData, Content, Chunk
    <2> QED BY <1>4, <1>5, <2>1 DEF OpenTemp
  <1>6. CASE RecvBody(w) /\ ~UNCHANGED disk
    <2>1. wpc[w] = "body" /\ disk' = [disk EXCEPT ![part] = Written(@, wgot[w] + 1, f)]
      BY <1>6 DEF RecvBody
    <2>2. disk[part] \in Content
      BY <1>1, <1>2, <2>1 DEF OpenThere
    <2>3. Written(disk[part], wgot[w] + 1, f) \in Content
      BY <1>1, <2>2, WrittenTyped
    <2>4. disk' = [disk EXCEPT ![part] = Written(disk[part], wgot[w] + 1, f)]
      BY <2>1
    <2> QED BY <1>4, <2>3, <2>4
  <1>7. CASE (Discard(w) \/ Unlink(w)) /\ ~UNCHANGED disk
    BY <1>1, <1>2, <1>7 DEF Discard, Unlink, RemoveQuietly
  <1>8. CASE (Publish(w) \/ Republish(w)) /\ ~UNCHANGED disk
    BY <1>1, <1>2, <1>8 DEF Publish, Republish, RenameTemp, CanRename
  <1> QED BY <1>3, <1>5, <1>6, <1>7, <1>8
      DEF WorkerStep, Connect, RecvHeader, RecvEnd, Release

-----------------------------------------------------------------------------
(* The type invariant, step by step *)

LEMMA ReaderTypeStep ==
  ASSUME TypeInv, NEW r \in Readers, Start(r) \/ ReaderStep(r)
  PROVE  TypeOK' /\ PollsLeft'
  <1> USE DEF TypeInv, TypeOK
  <1>0. ASSUME rpc[r] # "idle" PROVE req[r] \in Request
    BY <1>0 DEF ReaderTypes
  <1>1. CASE Start(r)
    <2>1. PICK q \in Requests : Goto(r, BeginStreaming(q), q)
      BY <1>1 DEF Start
    <2>2. Allowed(BeginStreaming(q), q)
      BY RequestsTyped, BeginStreamingAllowed
    <2>3. SharedTypes' /\ WorkerTypes'
      BY <1>1 DEF Start, SharedTypes, WorkerTypes, cacheVars, workerVars
    <2> QED BY <2>1, <2>2, <2>3, GotoKeeps
  <1>2. CASE Touch(r)
    <2>1. req[r] \in Request /\ ~req[r].inTry
      BY <1>0, <1>2 DEF Touch, PollsLeft
    <2>2. Allowed("evict", req[r]) /\ req[r].file \in Files
      BY <2>1 DEF Allowed, ReaderPcs, Request
    <2>3. Goto(r, "evict", req[r])
      BY <1>2 DEF Touch
    <2>4. SharedTypes'
      BY <1>2, <2>2 DEF Touch, Cache!TouchKey, SharedTypes
    <2>5. WorkerTypes'
      BY <1>2 DEF Touch, WorkerTypes, workerVars
    <2> QED BY <2>2, <2>3, <2>4, <2>5, GotoKeeps
  <1>3. CASE EvictIfNeeded(r)
    <2>1. req[r] \in Request /\ ~req[r].inTry
      BY <1>0, <1>3 DEF EvictIfNeeded, PollsLeft
    <2>2. Allowed("check", req[r])
      BY <2>1 DEF Allowed, ReaderPcs
    <2>3. Goto(r, "check", req[r])
      BY <1>3 DEF EvictIfNeeded
    <2>4. SharedTypes'
      BY <1>3, ReaderDisk DEF EvictIfNeeded, Cache!Shrink, Cache!Survivors, SharedTypes
    <2>5. WorkerTypes'
      BY <1>3 DEF EvictIfNeeded, WorkerTypes, workerVars
    <2> QED BY <2>2, <2>3, <2>4, <2>5, GotoKeeps
  <1>4. CASE EnsureCheck(r)
    <2>1. SharedTypes' /\ WorkerTypes'
      BY <1>4 DEF EnsureCheck, SharedTypes, WorkerTypes, cacheVars, workerVars
    <2>2. CASE EnsureReturns(r)
      BY <1>4, <2>1, <2>2, EnsureReturnsKeeps DEF EnsureCheck
    <2>3. CASE Goto(r, "claim", req[r])
      <3>1. Allowed("claim", req[r])
        BY <1>0, <1>4 DEF EnsureCheck, Allowed, ReaderPcs, PollsLeft, Polling
      <3> QED BY <2>1, <2>3, <3>1, GotoKeeps
    <2> QED BY <1>4, <2>2, <2>3 DEF EnsureCheck
  <1>5. CASE Claim(r)
    <2>1. req[r] \in Request /\ req[r].file \in Files
      BY <1>0, <1>5 DEF Claim, Request
    <2>2. SharedTypes' /\ WorkerTypes'
      BY <1>5, <2>1 DEF Claim, SharedTypes, WorkerTypes, cacheVars, workerVars
    <2>3. CASE EnsureReturns(r)
      BY <1>5, <2>2, <2>3, EnsureReturnsKeeps DEF Claim
    <2>4. CASE Goto(r, "spawn", req[r])
      <3>1. Allowed("spawn", req[r])
        BY <1>5, <2>1 DEF Claim, Allowed, ReaderPcs, PollsLeft, Polling
      <3> QED BY <2>2, <2>4, <3>1, GotoKeeps
    <2> QED BY <1>5, <2>3, <2>4 DEF Claim
  <1>6. CASE Spawn(r)
    <2>1. req[r].file \in Files
      BY <1>0, <1>6 DEF Spawn, Request
    <2>2. SharedTypes'
      BY <1>6 DEF Spawn, SharedTypes, cacheVars
    <2>3. WorkerTypes'
      BY <1>6, <2>1, NoneAssumption DEF Spawn, WorkerTypes, WorkerPcs
    <2> QED BY <1>6, <2>2, <2>3, EnsureReturnsKeeps DEF Spawn
  <1>7. CASE TryRead(r)
    <2>1. SharedTypes' /\ WorkerTypes'
      BY <1>7 DEF TryRead, SharedTypes, WorkerTypes, cacheVars, workerVars
    <2>2. req[r] \in Request /\ req[r].tries < MaxAttempts
      BY <1>0, <1>7 DEF TryRead, PollsLeft, Polling
    <2>3. PICK pc, q : /\ Goto(r, pc, q)
                       /\ \/ pc \in {"hydrating", "open"} /\ q = req[r]
                          \/ pc = "check" /\ q = [req[r] EXCEPT !.inTry = TRUE]
      BY <1>7, Zenon DEF TryRead
    <2>4. q \in Request /\ q.tries < MaxAttempts
      BY <2>2, <2>3 DEF Request
    <2>5. Allowed(pc, q)
      BY <2>3, <2>4 DEF Allowed, ReaderPcs
    <2> QED BY <2>1, <2>3, <2>5, GotoKeeps
  <1>8. CASE OpenPayload(r)
    <2>1. SharedTypes' /\ WorkerTypes'
      BY <1>8 DEF OpenPayload, SharedTypes, WorkerTypes, cacheVars, workerVars
    <2>2. req[r] \in Request /\ Polling(r)
      BY <1>0, <1>8 DEF OpenPayload, Polling
    <2>3. Allowed("read", req[r])
      BY <2>2 DEF Allowed, ReaderPcs, PollsLeft
    <2> QED BY <1>8, <2>1, <2>2, <2>3, GotoKeeps, AttemptFailsKeeps DEF OpenPayload
  <1>9. CASE Read(r)
    <2>1. SharedTypes' /\ WorkerTypes'
      BY <1>9 DEF Read, SharedTypes, WorkerTypes, cacheVars, workerVars
    <2>2. req[r] \in Request /\ req[r].tries < MaxAttempts
      BY <1>0, <1>9 DEF Read, PollsLeft, Polling
    <2>3. PICK pc, q : /\ Goto(r, pc, q)
                       /\ \/ pc \in {"hydrating", "idle"} /\ q = req[r]
                          \/ pc = "exists" /\ q = [req[r] EXCEPT !.off = @ + 1, !.tries = 0]
      BY <1>9, Zenon DEF Read
    <2>4. q \in Request /\ q.tries < MaxAttempts
      BY <2>2, <2>3, NextChunk
    <2>5. Allowed(pc, q)
      BY <2>3, <2>4 DEF Allowed, ReaderPcs
    <2> QED BY <2>1, <2>3, <2>5, GotoKeeps
  <1>10. CASE IsHydrating(r)
    <2>1. SharedTypes' /\ WorkerTypes'
      BY <1>10 DEF IsHydrating, SharedTypes, WorkerTypes, cacheVars, workerVars
    <2>2. Polling(r)
      BY <1>10 DEF IsHydrating, Polling
    <2>3. Allowed("idle", req[r])
      BY DEF Allowed, ReaderPcs
    <2> QED BY <1>10, <2>1, <2>2, <2>3, GotoKeeps, AttemptFailsKeeps DEF IsHydrating
  <1>11. CASE NoBuffer(r)
    <2>1. SharedTypes' /\ WorkerTypes'
      BY <1>11 DEF NoBuffer, SharedTypes, WorkerTypes, cacheVars, workerVars
    <2>2. Allowed("idle", req[r])
      BY DEF Allowed, ReaderPcs
    <2> QED BY <1>11, <2>1, <2>2, GotoKeeps DEF NoBuffer
  <1> QED BY <1>1, <1>2, <1>3, <1>4, <1>5, <1>6, <1>7, <1>8, <1>9, <1>10, <1>11 DEF ReaderStep

LEMMA ReaderOpenStep ==
  ASSUME TypeInv, NEW r \in Readers, Start(r) \/ ReaderStep(r)
  PROVE  OpenThere'
  <1> USE DEF TypeInv, TypeOK
  <1>1. \A p \in Path : Open(p) /\ disk[p] # None => disk'[p] # None
    BY ReaderDisk
  <1>2. ASSUME NEW s \in Readers, rpc'[s] = "read"
        PROVE  disk'[PayloadPath(req'[s].file)] # None
    <2>1. CASE rpc[s] = "read" /\ req'[s] = req[s]
      <3>1. req[s].file \in Files
        BY <2>1 DEF ReaderTypes, Request
      <3>2. Open(PayloadPath(req[s].file)) /\ disk[PayloadPath(req[s].file)] # None
        BY <2>1 DEF Open, OpenByReader, OpenThere, Present
      <3> QED BY <1>1, <2>1, <3>1, <3>2, PathsTyped
    <2>2. CASE OpenPayload(r) /\ s = r /\ Goto(r, "read", req[r]) /\ Present(req[r].file)
      <3>1. req'[s] = req[r] /\ UNCHANGED disk
        BY <2>2 DEF OpenPayload, Goto, ReaderTypes
      <3> QED BY <2>2, <3>1 DEF Present, PayloadPath
    <2>3. \A pc, q : Goto(r, pc, q) /\ ~(s = r /\ pc = "read") => s # r /\ rpc'[s] = rpc[s] /\ req'[s] = req[s]
      BY <1>2 DEF Goto, ReaderTypes
    <2>4. ASSUME NEW pc, NEW q, pc # "read", Goto(r, pc, q) PROVE rpc[s] = "read" /\ req'[s] = req[s]
      BY <1>2, <2>3, <2>4
    <2>5. ASSUME EnsureReturns(r) \/ AttemptFails(r) PROVE rpc[s] = "read" /\ req'[s] = req[s]
      BY <2>4, <2>5, EnsureReturnsMoves
    <2>6. ASSUME ~OpenPayload(r) PROVE rpc[s] = "read" /\ req'[s] = req[s]
      <3>1. CASE Start(r)
        <4>1. \E q : \E pc \in {"idle", "touch", "exists"} : Goto(r, pc, q)
          BY <3>1, Zenon DEF Start, BeginStreaming, AfterQueue
        <4> QED BY <2>4, <4>1
      <3>2. CASE ~Start(r)
        <4>1. \/ \E pc \in {"evict", "check", "claim", "spawn", "idle", "open", "hydrating", "exists"} :
                   \E q : Goto(r, pc, q)
              \/ EnsureReturns(r) \/ AttemptFails(r)
          BY <2>6, <3>2, Zenon DEF ReaderStep, Touch, EvictIfNeeded, EnsureCheck, Claim, Spawn,
             NoBuffer, TryRead, Read, IsHydrating
        <4> QED BY <2>4, <2>5, <4>1
      <3> QED BY <3>1, <3>2
    <2>7. ASSUME OpenPayload(r), ~(s = r /\ Goto(r, "read", req[r]) /\ Present(req[r].file))
          PROVE  rpc[s] = "read" /\ req'[s] = req[s]
      BY <1>2, <2>3, <2>5, <2>7 DEF OpenPayload
    <2> QED BY <2>1, <2>2, <2>6, <2>7
  <1>3. ASSUME NEW w \in Workers, wpc'[w] \in {"header", "body", "bad"}
        PROVE  disk'[PartPath(wfile'[w])] # None
    <2>1. wpc'[w] = wpc[w] /\ wfile'[w] = wfile[w]
      BY <1>3 DEF Start, ReaderStep, Touch, EvictIfNeeded, EnsureCheck, Claim, Spawn, NoBuffer,
         TryRead, OpenPayload, Read, IsHydrating, workerVars, WorkerTypes
    <2>2. wfile[w] \in Files
      BY <1>3, <2>1 DEF WorkerTypes
    <2>3. Open(PartPath(wfile[w])) /\ disk[PartPath(wfile[w])] # None
      BY <1>3, <2>1 DEF Open, OpenByWorker, OpenThere
    <2> QED BY <1>1, <2>1, <2>2, <2>3, PathsTyped
  <1> QED BY <1>2, <1>3 DEF OpenThere, Present, PayloadPath, PartPath

LEMMA WorkerTypeStep ==
  ASSUME TypeInv, NEW w \in Workers, WorkerStep(w)
  PROVE  TypeInv'
  <1> USE DEF TypeInv, TypeOK
  <1>1. wpc[w] # "none" /\ wfile[w] \in Files
    BY WorkerBusy
  <1>2. UNCHANGED <<rpc, req, tracked, older>>
    BY DEF WorkerStep, Connect, OpenTemp, RecvHeader, RecvBody, RecvEnd, Discard,
           Publish, Unlink, Republish, Release, readerVars, cacheVars
  <1>3. ReaderTypes' /\ PollsLeft'
    BY <1>2 DEF ReaderTypes, PollsLeft, Polling
  <1>4. WorkerTypes'
    <2>1. CASE Release(w)
      BY <2>1, NoneAssumption DEF Release, WorkerGoto, WorkerTypes, WorkerPcs
    <2>2. CASE ~Release(w)
      <3>1. PICK pc \in WorkerPcs \ {"none"} : wpc' = [wpc EXCEPT ![w] = pc]
        BY <2>2, <1>1 DEF WorkerStep, Connect, OpenTemp, RecvHeader, RecvBody, RecvEnd,
           Discard, Publish, Unlink, Republish, RenameTemp, WorkerGoto, WorkerPcs, WorkerTypes
      <3>2. UNCHANGED wfile
        BY <2>2 DEF WorkerStep, Connect, OpenTemp, RecvHeader, RecvBody, RecvEnd, Discard,
           Publish, Unlink, Republish
      <3>3. wgot' \in [Workers -> 0 .. MaxBody]
        <4>1. CASE RecvBody(w)
          <5>1. wgot[w] + 1 \in 0 .. MaxBody
            BY <1>1, <4>1, SizeAssumption DEF RecvBody, WorkerTypes
          <5> QED BY <4>1, <5>1 DEF RecvBody, WorkerTypes
        <4>2. CASE RecvEnd(w)
          <5>1. 0 \in 0 .. MaxBody
            BY SizeAssumption
          <5> QED BY <4>2, <5>1 DEF RecvEnd, WorkerTypes
        <4>3. CASE ~RecvBody(w) /\ ~RecvEnd(w)
          BY <2>2, <4>3 DEF WorkerStep, Connect, OpenTemp, RecvHeader, Discard,
             Publish, Unlink, Republish, WorkerTypes
        <4> QED BY <4>1, <4>2, <4>3
      <3> QED BY <1>1, <3>1, <3>2, <3>3 DEF WorkerTypes
    <2> QED BY <2>1, <2>2
  <1>5. inFlight' \subseteq Files
    BY DEF WorkerStep, Connect, OpenTemp, RecvHeader, RecvBody, RecvEnd, Discard,
           Publish, Unlink, Republish, Release, SharedTypes
  <1>6. SharedTypes'
    BY <1>2, <1>5, WorkerDisk DEF SharedTypes
  <1>7. \A p \in Path : Open(p) /\ disk[p] # None => disk'[p] # None
    BY WorkerDisk
  <1>8. ASSUME NEW r \in Readers, rpc[r] = "read" PROVE Present(req[r].file)'
    <2>1. req[r].file \in Files
      BY <1>8 DEF ReaderTypes, Request
    <2>2. Open(PayloadPath(req[r].file)) /\ disk[PayloadPath(req[r].file)] # None
      BY <1>8 DEF Open, OpenByReader, OpenThere, Present
    <2> QED BY <1>2, <1>7, <2>1, <2>2, PathsTyped DEF Present, PayloadPath
  <1>9. ASSUME NEW v \in Workers, wpc'[v] \in {"header", "body", "bad"}
        PROVE  disk'[PartPath(wfile'[v])] # None
    <2>1. CASE wpc[v] \in {"header", "body", "bad"} /\ wfile'[v] = wfile[v]
      <3>1. wfile[v] \in Files
        BY <2>1 DEF WorkerTypes
      <3>2. Open(PartPath(wfile[v])) /\ disk[PartPath(wfile[v])] # None
        BY <2>1 DEF Open, OpenByWorker, OpenThere
      <3> QED BY <1>7, <2>1, <3>1, <3>2, PathsTyped
    <2>2. CASE OpenTemp(w) /\ v = w
      <3>1. NoData # None
        BY NoneAssumption DEF NoData, Content, Chunk
      <3> QED BY <1>1, <1>9, <2>2, <3>1, PathsTyped DEF OpenTemp, WorkerGoto, WorkerTypes, SharedTypes
    <2>3. CASE ~(OpenTemp(w) /\ v = w)
      <3>1. wpc[v] \in {"header", "body", "bad"} /\ wfile'[v] = wfile[v]
        BY <1>9, <2>3 DEF WorkerStep, Connect, OpenTemp, RecvHeader, RecvBody, RecvEnd, Discard,
           Publish, Unlink, Republish, Release, RenameTemp, WorkerGoto, WorkerTypes
      <3> QED BY <2>1, <3>1
    <2> QED BY <2>2, <2>3
  <1>10. OpenThere'
    BY <1>2, <1>8, <1>9 DEF OpenThere, PartPath
  <1> QED BY <1>3, <1>4, <1>6, <1>10

LEMMA RestartTypeStep ==
  ASSUME TypeInv, Restart
  PROVE  TypeInv'
  BY NoneAssumption, SizeAssumption DEF TypeInv, TypeOK, PollsLeft, Polling, OpenThere, Restart,
     Cache!Forget, SharedTypes, ReaderTypes, WorkerTypes, ReaderPcs, WorkerPcs

LEMMA TypeInit == Init => TypeInv
  BY NoneAssumption, SizeAssumption DEF Init, Cache!Init, TypeInv, TypeOK, PollsLeft, Polling,
     OpenThere, SharedTypes, ReaderTypes, WorkerTypes, ReaderPcs, WorkerPcs

LEMMA TypeStep == TypeInv /\ [Next]_vars => TypeInv'
  <1> SUFFICES ASSUME TypeInv, [Next]_vars PROVE TypeInv'
    OBVIOUS
  <1>1. CASE Next
    BY <1>1, ReaderTypeStep, ReaderOpenStep, WorkerTypeStep, RestartTypeStep DEF Next, TypeInv
  <1>2. CASE UNCHANGED vars
    BY <1>2 DEF vars, TypeInv, TypeOK, PollsLeft, Polling, OpenThere, Present, PayloadPath, PartPath,
       SharedTypes, ReaderTypes, WorkerTypes
  <1> QED BY <1>1, <1>2

(* Every variable keeps to its range in every reachable state, the polls   *)
(* of a read within MaxAttempts (VirtualDrive.cpp:579, WebDavServer.cpp:393). *)
THEOREM TypeCorrect == Spec => []TypeOK
  <1>1. Init => TypeInv
    BY TypeInit
  <1>2. TypeInv /\ [Next]_vars => TypeInv'
    BY TypeStep
  <1>3. TypeInv => TypeOK
    BY DEF TypeInv
  <1> QED BY <1>1, <1>2, <1>3, PTL DEF Spec

-----------------------------------------------------------------------------
(* Claims and their owners *)

ClaimInv == TypeInv /\ InFlightOwned

SameOwners ==
  /\ UNCHANGED inFlight
  /\ \A r \in Readers, f \in Files : ClaimedBy(r, f)' <=> ClaimedBy(r, f)
  /\ \A w \in Workers, f \in Files : DownloadedBy(w, f)' <=> DownloadedBy(w, f)

LEMMA SameOwnersKeep ==
  ASSUME InFlightOwned, SameOwners
  PROVE  InFlightOwned'
  BY DEF InFlightOwned, NoLostClaim, OneOwner, SameOwners

(* Away from the claim, a reader's move changes no ownership. *)
LEMMA PlainMove ==
  ASSUME TypeInv, NEW r \in Readers, rpc[r] # "spawn",
         NEW pc, pc # "spawn", NEW q, Goto(r, pc, q), UNCHANGED <<inFlight, wpc, wfile>>
  PROVE  SameOwners
  <1>1. ASSUME NEW s \in Readers, NEW f \in Files
        PROVE  ClaimedBy(s, f)' <=> ClaimedBy(s, f)
    BY DEF Goto, ClaimedBy, TypeInv, TypeOK, ReaderTypes
  <1>2. ASSUME NEW w \in Workers, NEW f \in Files
        PROVE  DownloadedBy(w, f)' <=> DownloadedBy(w, f)
    BY DEF DownloadedBy
  <1> QED BY <1>1, <1>2 DEF SameOwners

LEMMA ReaderClaimStep ==
  ASSUME ClaimInv, NEW r \in Readers, Start(r) \/ ReaderStep(r)
  PROVE  InFlightOwned'
  <1> USE DEF ClaimInv
  <1> DEFINE f == req[r].file
  <1>1. CASE Claim(r) /\ f \notin inFlight
    <2>1. /\ inFlight' = inFlight \cup {f}
          /\ Goto(r, "spawn", req[r])
          /\ UNCHANGED <<wpc, wfile>>
          /\ rpc[r] = "claim"
      BY <1>1 DEF Claim, workerVars
    <2>2. f \in Files
      BY <2>1 DEF TypeInv, TypeOK, ReaderTypes, Request
    <2>3. /\ \A s \in Readers : ~ClaimedBy(s, f)
          /\ \A w \in Workers : ~DownloadedBy(w, f)
      BY <1>1, <2>2 DEF InFlightOwned, NoLostClaim
    <2>4. ASSUME NEW s \in Readers, NEW g \in Files
          PROVE  ClaimedBy(s, g)' <=> ClaimedBy(s, g) \/ (s = r /\ g = f)
      BY <2>1 DEF Goto, ClaimedBy, TypeInv, TypeOK, ReaderTypes
    <2>5. ASSUME NEW w \in Workers, NEW g \in Files
          PROVE  DownloadedBy(w, g)' <=> DownloadedBy(w, g)
      BY <2>1 DEF DownloadedBy
    <2> QED BY <2>1, <2>2, <2>3, <2>4, <2>5 DEF InFlightOwned, NoLostClaim, OneOwner
  <1>2. CASE Spawn(r)
    <2>1. PICK w \in Workers : /\ wpc[w] = "none"
                               /\ wpc' = [wpc EXCEPT ![w] = "connect"]
                               /\ wfile' = [wfile EXCEPT ![w] = f]
      BY <1>2 DEF Spawn
    <2>2. PICK pc, q : pc \in {"idle", "touch", "exists"} /\ Goto(r, pc, q)
      BY <1>2, EnsureReturnsMoves DEF Spawn
    <2>3. rpc[r] = "spawn" /\ UNCHANGED inFlight
      BY <1>2 DEF Spawn
    <2>4. f \in Files
      BY <2>3 DEF TypeInv, TypeOK, ReaderTypes, Request
    <2>5. ASSUME NEW s \in Readers, NEW g \in Files
          PROVE  ClaimedBy(s, g)' <=> ClaimedBy(s, g) /\ s # r
      BY <2>2, <2>3 DEF Goto, ClaimedBy, TypeInv, TypeOK, ReaderTypes
    <2>6. ASSUME NEW v \in Workers, NEW g \in Files
          PROVE  DownloadedBy(v, g)' <=> DownloadedBy(v, g) \/ (v = w /\ g = f)
      BY <2>1 DEF DownloadedBy, TypeInv, TypeOK, WorkerTypes
    <2>7. ClaimedBy(r, f) /\ \A g \in Files : ClaimedBy(r, g) => g = f
      BY <2>3 DEF ClaimedBy
    <2>8. NoLostClaim'
      BY <2>3, <2>4, <2>5, <2>6, <2>7 DEF InFlightOwned, NoLostClaim, OneOwner
    <2>9. OneOwner'
      BY <2>4, <2>5, <2>6, <2>7 DEF InFlightOwned, OneOwner
    <2> QED BY <2>8, <2>9 DEF InFlightOwned
  <1>3. CASE ~Spawn(r) /\ ~(Claim(r) /\ f \notin inFlight)
    <2>1. rpc[r] # "spawn" /\ UNCHANGED <<inFlight, wpc, wfile>>
      BY <1>3 DEF Start, ReaderStep, Touch, EvictIfNeeded, EnsureCheck, Claim, NoBuffer, TryRead,
         OpenPayload, Read, IsHydrating, workerVars
    <2>2. PICK pc, q : pc # "spawn" /\ Goto(r, pc, q)
      <3>1. CASE EnsureReturns(r) \/ AttemptFails(r)
        BY <3>1, EnsureReturnsMoves
      <3>2. CASE Start(r)
        BY <3>2, Zenon DEF Start, BeginStreaming, AfterQueue
      <3>3. CASE Touch(r) \/ EvictIfNeeded(r) \/ NoBuffer(r) \/ TryRead(r) \/ Read(r)
        BY <3>3, Zenon DEF Touch, EvictIfNeeded, NoBuffer, TryRead, Read
      <3>4. CASE EnsureCheck(r) \/ Claim(r) \/ OpenPayload(r) \/ IsHydrating(r)
        BY <1>3, <3>1, <3>4, Zenon DEF EnsureCheck, Claim, OpenPayload, IsHydrating
      <3> QED BY <1>3, <3>1, <3>2, <3>3, <3>4 DEF ReaderStep
    <2> QED BY <2>1, <2>2, PlainMove, SameOwnersKeep
  <1> QED BY <1>1, <1>2, <1>3

LEMMA WorkerClaimStep ==
  ASSUME ClaimInv, NEW w \in Workers, WorkerStep(w)
  PROVE  InFlightOwned'
  <1> USE DEF ClaimInv
  <1>1. CASE Release(w)
    <2> DEFINE f == wfile[w]
    <2>1. /\ inFlight' = inFlight \ {f}
          /\ wpc[w] = "release"
          /\ wpc' = [wpc EXCEPT ![w] = "none"]
          /\ wfile' = [wfile EXCEPT ![w] = None]
          /\ UNCHANGED <<rpc, req>>
      BY <1>1 DEF Release, WorkerGoto, readerVars
    <2>2. f \in Files
      BY <2>1 DEF TypeInv, TypeOK, WorkerTypes
    <2>3. ASSUME NEW v \in Workers, NEW g \in Files
          PROVE  DownloadedBy(v, g)' <=> DownloadedBy(v, g) /\ v # w
      BY <2>1 DEF DownloadedBy, TypeInv, TypeOK, WorkerTypes
    <2>4. ASSUME NEW r \in Readers, NEW g \in Files
          PROVE  ClaimedBy(r, g)' <=> ClaimedBy(r, g)
      BY <2>1 DEF ClaimedBy
    <2>5. DownloadedBy(w, f) /\ \A g \in Files : DownloadedBy(w, g) => g = f
      BY <2>1 DEF DownloadedBy
    <2>6. NoLostClaim'
      BY <2>1, <2>2, <2>3, <2>4, <2>5 DEF InFlightOwned, NoLostClaim, OneOwner
    <2>7. OneOwner'
      BY <2>3, <2>4 DEF InFlightOwned, OneOwner
    <2> QED BY <2>6, <2>7 DEF InFlightOwned
  <1>2. CASE ~Release(w)
    <2>1. /\ wpc[w] # "none"
          /\ \E pc : pc # "none" /\ wpc' = [wpc EXCEPT ![w] = pc]
          /\ UNCHANGED <<inFlight, rpc, req, wfile>>
      BY <1>2 DEF WorkerStep, Connect, OpenTemp, RecvHeader, RecvBody, RecvEnd, Discard,
         Publish, Unlink, Republish, RenameTemp, WorkerGoto, readerVars,
         TypeInv, TypeOK, WorkerTypes
    <2>2. SameOwners
      BY <2>1 DEF SameOwners, ClaimedBy, DownloadedBy, TypeInv, TypeOK, WorkerTypes
    <2> QED BY <2>2, SameOwnersKeep
  <1> QED BY <1>1, <1>2

LEMMA RestartClaimStep ==
  ASSUME Restart
  PROVE  InFlightOwned'
  BY DEF Restart, InFlightOwned, NoLostClaim, OneOwner, ClaimedBy, DownloadedBy

LEMMA ClaimInit == Init => ClaimInv
  BY TypeInit DEF Init, ClaimInv, InFlightOwned, NoLostClaim, OneOwner, ClaimedBy, DownloadedBy

LEMMA ClaimStep == ClaimInv /\ [Next]_vars => ClaimInv'
  <1> SUFFICES ASSUME ClaimInv, [Next]_vars PROVE ClaimInv'
    OBVIOUS
  <1>1. TypeInv'
    BY TypeStep DEF ClaimInv
  <1>2. InFlightOwned'
    <2>1. CASE Next
      BY <2>1, ReaderClaimStep, WorkerClaimStep, RestartClaimStep DEF Next
    <2>2. CASE UNCHANGED vars
      BY <2>2 DEF vars, ClaimInv, InFlightOwned, NoLostClaim, OneOwner, ClaimedBy, DownloadedBy
    <2> QED BY <2>1, <2>2
  <1> QED BY <1>1, <1>2 DEF ClaimInv

(* The set of downloads in flight and the threads that answer for them     *)
(* match one to one (TorrentSession.cpp:150-161), whatever fails.          *)
THEOREM ClaimsOwned == Spec => []InFlightOwned
  <1>1. Init => ClaimInv
    BY ClaimInit
  <1>2. ClaimInv /\ [Next]_vars => ClaimInv'
    BY ClaimStep
  <1>3. ClaimInv => InFlightOwned
    BY DEF ClaimInv
  <1> QED BY <1>1, <1>2, <1>3, PTL DEF Spec

-----------------------------------------------------------------------------
(* What the payload directory holds *)

(* Bodies by file instead of by path. *)
IsBodyOf(c, f) ==
  \A k \in 1 .. MaxBody : c[k] \in Sharing(f) \cup {None} \/ (c[k] = Hole /\ ~OwnPath(f))

LEMMA BodiesByFile ==
  ASSUME NEW f \in Files, NEW c \in Content
  PROVE  c \in BodiesAt(PayloadPath(f)) <=> IsBodyOf(c, f)
  <1>1. ASSUME NEW g \in Files, FileName[g] = PayloadPath(f)
        PROVE  Sharing(g) = Sharing(f) /\ (OwnPath(g) <=> OwnPath(f))
    BY <1>1 DEF Sharing, OwnPath, PayloadPath
  <1>2. c \in BodiesAt(PayloadPath(f)) <=>
          \A g \in Files : FileName[g] = PayloadPath(f) => IsBodyOf(c, g)
    BY DEF BodiesAt, IsBodyOf
  <1>3. \A g \in Files : FileName[g] = PayloadPath(f) => (IsBodyOf(c, g) <=> IsBodyOf(c, f))
    BY <1>1 DEF IsBodyOf
  <1>4. FileName[f] = PayloadPath(f)
    BY DEF PayloadPath
  <1> QED BY <1>2, <1>3, <1>4

(* Files with one .part file share their payload, and what is at a .part   *)
(* file is at no payload path.                                             *)
LEMMA PartsApart ==
  ASSUME NEW f \in Files, NEW g \in Files
  PROVE  /\ PartPath(f) = PartPath(g) => Sharing(f) = Sharing(g) /\ PayloadPath(f) = PayloadPath(g)
         /\ OwnPath(f) /\ f # g => PartPath(f) # PartPath(g) /\ PayloadPath(f) # PayloadPath(g)
         /\ NoTempClash => PartPath(f) # PayloadPath(g)
  BY PartAssumption DEF PartPath, PayloadPath, Sharing, OwnPath, NoTempClash

(* Contents of .part files and payloads. *)
BodyInv ==
  \A f \in Files :
    /\ disk[PartPath(f)] # None => IsBodyOf(disk[PartPath(f)], f)
    /\ disk[PayloadPath(f)] # None => IsBodyOf(disk[PayloadPath(f)], f)

Prefix(f, n) == [k \in 1 .. MaxBody |-> IF k <= n THEN f ELSE None]

(* What a download has written so far, where the path is its own. *)
StreamInv ==
  \A w \in Workers :
    /\ wpc[w] \notin {"body", "bad"} => wgot[w] = 0
    /\ wpc[w] \in {"header", "body"} /\ OwnPath(wfile[w]) =>
         disk[PartPath(wfile[w])] = Prefix(wfile[w], wgot[w])

DiskInv == ClaimInv /\ BodyInv /\ StreamInv

LEMMA SameBodies ==
  ASSUME NEW f \in Files, NEW g \in Files, Sharing(f) = Sharing(g), NEW c, IsBodyOf(c, f)
  PROVE  IsBodyOf(c, g)
  BY DEF IsBodyOf, Sharing, OwnPath

LEMMA ReaderBodyStep ==
  ASSUME DiskInv, NEW r \in Readers, Start(r) \/ ReaderStep(r)
  PROVE  BodyInv' /\ StreamInv'
  <1> USE DEF DiskInv, ClaimInv, TypeInv, TypeOK
  <1>1. \A p \in Path : disk'[p] \in {disk[p], None}
    BY ReaderDisk
  <1>2. BodyInv'
    BY <1>1, PathsTyped DEF BodyInv, IsBodyOf, PartPath, PayloadPath, Sharing, OwnPath
  <1>3. ASSUME NEW w \in Workers
        PROVE  /\ (wpc'[w] \in {"header", "body", "bad"} \/ wpc[w] \in {"header", "body", "bad"})
                     => wpc'[w] = wpc[w] /\ wfile'[w] = wfile[w]
               /\ wgot'[w] = wgot[w]
    BY DEF Start, ReaderStep, Touch, EvictIfNeeded, EnsureCheck, Claim, Spawn, NoBuffer,
       TryRead, OpenPayload, Read, IsHydrating, workerVars, WorkerTypes
  <1>4. ASSUME NEW w \in Workers, wpc[w] \in {"header", "body"}
        PROVE  disk'[PartPath(wfile[w])] = disk[PartPath(wfile[w])]
    <2>1. Open(PartPath(wfile[w])) /\ wfile[w] \in Files
      BY <1>4 DEF Open, OpenByWorker, WorkerTypes
    <2> QED BY <2>1, ReaderDisk, PathsTyped
  <1>5. StreamInv'
    <2> SUFFICES ASSUME NEW w \in Workers
                 PROVE  /\ wpc'[w] \notin {"body", "bad"} => wgot'[w] = 0
                        /\ wpc'[w] \in {"header", "body"} /\ OwnPath(wfile'[w]) =>
                             disk'[PartPath(wfile'[w])] = Prefix(wfile'[w], wgot'[w])
      BY DEF StreamInv, PartPath, Prefix, OwnPath
    <2> QED BY <1>3, <1>4 DEF StreamInv
  <1> QED BY <1>2, <1>5

(* A chunk goes where the last one ended, and leaves a hole only where     *)
(* another download has emptied the file.                                  *)
LEMMA ChunkBelongs ==
  ASSUME NEW f \in Files, NEW c \in Content, NEW n \in Nat, IsBodyOf(c, f),
         OwnPath(f) => c = Prefix(f, n)
  PROVE  /\ IsBodyOf(Written(c, n + 1, f), f)
         /\ OwnPath(f) => Written(c, n + 1, f) = Prefix(f, n + 1)
  <1>1. f \in Sharing(f)
    BY DEF Sharing
  <1>2. ASSUME OwnPath(f) PROVE Written(c, n + 1, f) = Prefix(f, n + 1)
    <2>1. \A k \in 1 .. MaxBody : c[k] = IF k <= n THEN f ELSE None
      BY <1>2 DEF Prefix
    <2>2. f # None
      BY NoneAssumption
    <2>3. \A k \in 1 .. MaxBody : (IF k = n + 1 THEN f
                                 ELSE IF k < n + 1 /\ c[k] = None THEN Hole
                                 ELSE c[k]) = (IF k <= n + 1 THEN f ELSE None)
      BY <2>1, <2>2, SizeAssumption
    <2> QED BY <2>3 DEF Written, Prefix
  <1>3. CASE OwnPath(f)
    <2>1. \A k \in 1 .. MaxBody : Prefix(f, n + 1)[k] \in {f, None}
      BY DEF Prefix
    <2> QED BY <1>1, <1>2, <1>3, <2>1 DEF IsBodyOf
  <1>4. CASE ~OwnPath(f)
    BY <1>1, <1>4 DEF IsBodyOf, Written
  <1> QED BY <1>3, <1>4, <1>2

LEMMA WorkerFacts ==
  ASSUME TypeInv, NEW w \in Workers, WorkerStep(w)
  PROVE  /\ \A v \in Workers : v # w => /\ wpc'[v] = wpc[v]
                                        /\ wfile'[v] = wfile[v]
                                        /\ wgot'[v] = wgot[v]
         /\ wpc'[w] # "none" => wfile'[w] = wfile[w]
  <1> USE DEF TypeInv, TypeOK
  <1>1. CASE Release(w)
    BY <1>1 DEF Release, WorkerGoto, WorkerTypes
  <1>2. CASE ~Release(w)
    BY <1>2 DEF WorkerStep, Connect, OpenTemp, RecvHeader, RecvBody, RecvEnd, Discard,
       Publish, Unlink, Republish, RenameTemp, WorkerGoto, WorkerTypes
  <1> QED BY <1>1, <1>2

LEMMA WorkerStream ==
  ASSUME NoTempClash, DiskInv, NEW w \in Workers, WorkerStep(w)
  PROVE  StreamInv'
  <1> USE DEF DiskInv, ClaimInv, TypeInv, TypeOK
  <1> DEFINE f == wfile[w]
             part == PartPath(f)
             Mine(v) == wpc'[v] \in {"header", "body"} /\ OwnPath(wfile'[v])
  <1>1. wpc[w] # "none" /\ f \in Files /\ part \in Path /\ disk \in [Path -> Content \cup {None}]
    BY WorkerBusy, PathsTyped DEF SharedTypes
  <1>2. ASSUME NEW v \in Workers, v # w
        PROVE  /\ wpc'[v] \notin {"body", "bad"} => wgot'[v] = 0
               /\ Mine(v) => disk'[PartPath(wfile'[v])] = Prefix(wfile'[v], wgot'[v])
    <2>1. wpc'[v] = wpc[v] /\ wfile'[v] = wfile[v] /\ wgot'[v] = wgot[v]
      BY <1>2, WorkerFacts
    <2>2. ASSUME wpc[v] \in {"header", "body"}, OwnPath(wfile[v])
          PROVE  disk'[PartPath(wfile[v])] = disk[PartPath(wfile[v])]
      <3>1. wfile[v] \in Files /\ wfile[v] # f
        BY <1>1, <1>2, <2>2 DEF WorkerTypes, InFlightOwned, OneOwner, DownloadedBy
      <3>2. PartPath(wfile[v]) # part
        BY <1>1, <2>2, <3>1, PartsApart
      <3>3. PartPath(wfile[v]) # PayloadPath(f)
        BY <1>1, <3>1, PartsApart
      <3> QED BY <3>1, <3>2, <3>3, WorkerDisk, PathsTyped
    <2> QED BY <2>1, <2>2 DEF StreamInv
  <1>3. wpc'[w] \notin {"body", "bad"} => wgot'[w] = 0
    <2>1. CASE RecvBody(w)
      BY <1>1, <2>1 DEF RecvBody, WorkerGoto, WorkerTypes
    <2>2. CASE RecvEnd(w)
      BY <2>2 DEF RecvEnd, WorkerTypes
    <2>3. CASE ~RecvBody(w) /\ ~RecvEnd(w)
      BY <2>3 DEF WorkerStep, Connect, OpenTemp, RecvHeader, Discard, Publish, Unlink, Republish,
         Release, StreamInv
    <2> QED BY <2>1, <2>2, <2>3
  <1>4. ASSUME Mine(w) PROVE disk'[PartPath(wfile'[w])] = Prefix(wfile'[w], wgot'[w])
    <2>1. wfile'[w] = f
      BY <1>4, WorkerFacts
    <2>2. CASE OpenTemp(w)
      <3>1. wgot'[w] = 0 /\ disk'[part] = NoData
        BY <1>1, <1>4, <2>2 DEF OpenTemp, StreamInv, WorkerGoto, WorkerTypes
      <3>2. NoData = Prefix(f, 0)
        BY DEF NoData, Prefix
      <3> QED BY <2>1, <3>1, <3>2
    <2>3. CASE RecvHeader(w)
      BY <1>4, <2>1, <2>3 DEF RecvHeader, StreamInv
    <2>4. CASE RecvBody(w)
      <3>1. /\ wpc[w] = "body"
            /\ disk'[part] = Written(disk[part], wgot[w] + 1, f)
            /\ wgot'[w] = wgot[w] + 1
        BY <1>1, <1>4, <2>4 DEF RecvBody, WorkerGoto, WorkerTypes
      <3>2. disk[part] # None /\ disk[part] \in Content
        BY <1>1, <3>1 DEF OpenThere
      <3>3. wgot[w] \in Nat
        BY SizeAssumption DEF WorkerTypes
      <3>4. OwnPath(f) => disk[part] = Prefix(f, wgot[w])
        BY <3>1 DEF StreamInv
      <3>5. IsBodyOf(disk[part], f)
        BY <1>1, <3>2 DEF BodyInv
      <3> QED BY <1>1, <1>4, <2>1, <3>1, <3>2, <3>3, <3>4, <3>5, ChunkBelongs
    <2>5. CASE ~OpenTemp(w) /\ ~RecvHeader(w) /\ ~RecvBody(w)
      BY <1>1, <1>4, <2>5 DEF WorkerStep, Connect, RecvEnd, Discard, Publish, Unlink, Republish,
         Release, RenameTemp, WorkerGoto, WorkerTypes
    <2> QED BY <2>2, <2>3, <2>4, <2>5
  <1>5. \A v \in Workers : /\ wpc'[v] \notin {"body", "bad"} => wgot'[v] = 0
                           /\ Mine(v) => disk'[PartPath(wfile'[v])] = Prefix(wfile'[v], wgot'[v])
    BY <1>2, <1>3, <1>4
  <1> QED BY <1>5 DEF StreamInv, PartPath, Prefix, OwnPath

(* What a successful rename leaves behind. *)
Renamed(w) ==
  /\ CanRename(w)
  /\ disk' = [disk EXCEPT ![PayloadPath(wfile[w])] = disk[PartPath(wfile[w])],
                          ![PartPath(wfile[w])] = None]

LEMMA WorkerBodyStep ==
  ASSUME NoTempClash, DiskInv, NEW w \in Workers, WorkerStep(w)
  PROVE  BodyInv'
  <1> USE DEF DiskInv, ClaimInv, TypeInv, TypeOK
  <1> DEFINE f == wfile[w]
             part == PartPath(f)
  <1>1. f \in Files /\ disk \in [Path -> Content \cup {None}]
    BY WorkerBusy DEF SharedTypes
  <1>2. \A g \in Files : PartPath(g) \in Path /\ PayloadPath(g) \in Path
    BY PathsTyped
  <1>3. ASSUME \A g \in Files :
                 /\ disk'[PartPath(g)] # None => IsBodyOf(disk'[PartPath(g)], g)
                 /\ disk'[PayloadPath(g)] # None => IsBodyOf(disk'[PayloadPath(g)], g)
        PROVE  BodyInv'
    BY <1>3 DEF BodyInv, IsBodyOf, PartPath, PayloadPath, Sharing, OwnPath
  <1>4. ASSUME \A p \in Path : disk'[p] \in {disk[p], None}
        PROVE  BodyInv'
    BY <1>2, <1>3, <1>4 DEF BodyInv
  <1>5. ASSUME NEW c, disk' = [disk EXCEPT ![part] = c], IsBodyOf(c, f)
        PROVE  BodyInv'
    <2>1. ASSUME NEW g \in Files
          PROVE  disk'[PartPath(g)] # None => IsBodyOf(disk'[PartPath(g)], g)
      <3>1. CASE PartPath(g) = part
        <4>1. Sharing(f) = Sharing(g) /\ disk'[PartPath(g)] = c
          BY <1>1, <1>2, <1>5, <3>1, PartsApart
        <4> QED BY <1>1, <1>5, <4>1, SameBodies
      <3>2. CASE PartPath(g) # part
        BY <1>1, <1>2, <1>5, <3>2 DEF BodyInv
      <3> QED BY <3>1, <3>2
    <2>2. ASSUME NEW g \in Files
          PROVE  disk'[PayloadPath(g)] # None => IsBodyOf(disk'[PayloadPath(g)], g)
      <3>1. PayloadPath(g) # part
        BY <1>1, PartsApart
      <3> QED BY <1>1, <1>2, <1>5, <3>1 DEF BodyInv
    <2> QED BY <1>3, <2>1, <2>2
  <1>6. CASE UNCHANGED disk
    BY <1>4, <1>6
  <1>7. CASE OpenTemp(w) /\ ~UNCHANGED disk
    <2>1. IsBodyOf(NoData, f)
      BY DEF NoData, IsBodyOf
    <2> QED BY <1>5, <1>7, <2>1 DEF OpenTemp
  <1>8. CASE RecvBody(w) /\ ~UNCHANGED disk
    <2>1. wpc[w] = "body" /\ disk' = [disk EXCEPT ![part] = Written(@, wgot[w] + 1, f)]
      BY <1>8 DEF RecvBody
    <2>2. disk' = [disk EXCEPT ![part] = Written(disk[part], wgot[w] + 1, f)]
      BY <2>1
    <2>3. disk[part] # None /\ disk[part] \in Content
      BY <1>1, <1>2, <2>1 DEF OpenThere
    <2>4. IsBodyOf(disk[part], f) /\ (OwnPath(f) => disk[part] = Prefix(f, wgot[w]))
      BY <1>1, <2>1, <2>3 DEF BodyInv, StreamInv
    <2>5. wgot[w] \in Nat
      BY SizeAssumption DEF WorkerTypes
    <2>6. IsBodyOf(Written(disk[part], wgot[w] + 1, f), f)
      BY <1>1, <2>3, <2>4, <2>5, ChunkBelongs
    <2> QED BY <1>5, <2>2, <2>6
  <1>9. CASE (Discard(w) \/ Unlink(w)) /\ ~UNCHANGED disk
    BY <1>1, <1>2, <1>4, <1>9 DEF Discard, Unlink, RemoveQuietly
  <1>10. CASE Renamed(w)
    <2>1. disk[part] # None /\ IsBodyOf(disk[part], f)
      BY <1>1, <1>10 DEF Renamed, CanRename, BodyInv
    <2>2. ASSUME NEW g \in Files
          PROVE  disk'[PartPath(g)] # None => IsBodyOf(disk'[PartPath(g)], g)
      <3>1. PartPath(g) # PayloadPath(f)
        BY <1>1, PartsApart
      <3>2. disk'[PartPath(g)] \in {disk[PartPath(g)], None}
        BY <1>1, <1>2, <1>10, <3>1 DEF Renamed
      <3> QED BY <3>2 DEF BodyInv
    <2>3. ASSUME NEW g \in Files
          PROVE  disk'[PayloadPath(g)] # None => IsBodyOf(disk'[PayloadPath(g)], g)
      <3>1. PayloadPath(g) # part
        BY <1>1, PartsApart
      <3>2. CASE PayloadPath(g) = PayloadPath(f)
        <4>1. disk'[PayloadPath(g)] = disk[part]
          BY <1>1, <1>2, <1>10, <3>1, <3>2 DEF Renamed
        <4>2. Sharing(f) = Sharing(g)
          BY <3>2 DEF Sharing, PayloadPath
        <4> QED BY <1>1, <2>1, <4>1, <4>2, SameBodies
      <3>3. CASE PayloadPath(g) # PayloadPath(f)
        BY <1>1, <1>2, <1>10, <3>1, <3>3 DEF Renamed, BodyInv
      <3> QED BY <3>2, <3>3
    <2> QED BY <1>3, <2>2, <2>3
  <1>11. CASE (Publish(w) \/ Republish(w)) /\ ~UNCHANGED disk
    BY <1>10, <1>11 DEF Publish, Republish, RenameTemp, Renamed
  <1> QED BY <1>6, <1>7, <1>8, <1>9, <1>11
      DEF WorkerStep, Connect, RecvHeader, RecvEnd, Release

LEMMA DiskInit == Init => DiskInv
  BY ClaimInit, PathsTyped DEF Init, DiskInv, BodyInv, StreamInv

LEMMA DiskStep ==
  ASSUME NoTempClash
  PROVE  DiskInv /\ [Next]_vars => DiskInv'
  <1> SUFFICES ASSUME DiskInv, [Next]_vars PROVE DiskInv'
    OBVIOUS
  <1>1. ClaimInv'
    BY ClaimStep DEF DiskInv
  <1>2. BodyInv' /\ StreamInv'
    <2>1. ASSUME NEW r \in Readers, Start(r) \/ ReaderStep(r) PROVE BodyInv' /\ StreamInv'
      BY <2>1, ReaderBodyStep
    <2>2. ASSUME NEW w \in Workers, WorkerStep(w) PROVE BodyInv' /\ StreamInv'
      BY <2>2, WorkerBodyStep, WorkerStream
    <2>3. CASE Restart \/ UNCHANGED vars
      <3>1. BodyInv'
        BY <2>3 DEF Restart, vars, DiskInv, BodyInv, IsBodyOf, PartPath, PayloadPath, Sharing, OwnPath
      <3>2. StreamInv'
        BY <2>3 DEF Restart, vars, DiskInv, StreamInv, PartPath, Prefix, OwnPath
      <3> QED BY <3>1, <3>2
    <2> QED BY <2>1, <2>2, <2>3 DEF Next
  <1> QED BY <1>1, <1>2 DEF DiskInv

LEMMA PayloadsAreBodies ==
  ASSUME DiskInv
  PROVE  PayloadBelongs
  BY BodiesByFile, PathsTyped
     DEF DiskInv, ClaimInv, TypeInv, TypeOK, SharedTypes, BodyInv, PayloadBelongs, Present

(* Unless a file of the torrent is called like another one plus ".part",   *)
(* no payload ever holds bytes of a file that does not share its path, nor *)
(* holes if it has that path for itself (TorrentSession.cpp:76-87,         *)
(* WebSeedClient.cpp:191-248) - with any seed and a disk that may be full. *)
THEOREM PayloadsBelong ==
  ASSUME NoTempClash
  PROVE  Spec => []PayloadBelongs
  <1>1. Init => DiskInv
    BY DiskInit
  <1>2. DiskInv /\ [Next]_vars => DiskInv'
    BY DiskStep
  <1>3. DiskInv => PayloadBelongs
    BY PayloadsAreBodies
  <1> QED BY <1>1, <1>2, <1>3, PTL DEF Spec

-----------------------------------------------------------------------------
(* A payload under a reader *)

(* The payload a reader has open stays as it is until it is closed         *)
(* (TorrentSession.cpp:106-113, WebSeedClient.cpp:243-247): a .part file   *)
(* is at no payload path, and nothing else is done to open files.          *)
THEOREM OpenPayloadsStable ==
  ASSUME NoTempClash
  PROVE  Spec => StableWhileOpen
  <1> DEFINE Stable == \A r \in Readers :
                         rpc[r] = "read" =>
                           disk'[PayloadPath(req[r].file)] = disk[PayloadPath(req[r].file)]
  <1>1. Init => TypeInv
    BY TypeInit
  <1>2. TypeInv /\ [Next]_vars => TypeInv'
    BY TypeStep
  <1>3. TypeInv /\ [Next]_vars => [Stable]_vars
    <2> SUFFICES ASSUME TypeInv, [Next]_vars, NEW r \in Readers, rpc[r] = "read"
                 PROVE  disk'[PayloadPath(req[r].file)] = disk[PayloadPath(req[r].file)]
      OBVIOUS
    <2> USE DEF TypeInv, TypeOK
    <2>1. req[r].file \in Files /\ PayloadPath(req[r].file) \in Path
      BY PathsTyped DEF ReaderTypes, Request
    <2>2. Open(PayloadPath(req[r].file))
      BY DEF Open, OpenByReader
    <2>3. ASSUME NEW s \in Readers, Start(s) \/ ReaderStep(s)
          PROVE  disk'[PayloadPath(req[r].file)] = disk[PayloadPath(req[r].file)]
      BY <2>1, <2>2, <2>3, ReaderDisk
    <2>4. ASSUME NEW w \in Workers, WorkerStep(w)
          PROVE  disk'[PayloadPath(req[r].file)] = disk[PayloadPath(req[r].file)]
      <3>1. PayloadPath(req[r].file) # PartPath(wfile[w])
        BY <2>1, <2>4, WorkerBusy, PartsApart
      <3> QED BY <2>1, <2>2, <2>4, <3>1, WorkerDisk
    <2>5. CASE Restart \/ UNCHANGED vars
      BY <2>5 DEF Restart, vars
    <2> QED BY <2>3, <2>4, <2>5 DEF Next
  <1> QED BY <1>1, <1>2, <1>3, PTL DEF Spec, StableWhileOpen

-----------------------------------------------------------------------------
(* Hydration implements PayloadStore *)

Releasing(f) == \E w \in Workers : wpc[w] = "release" /\ wfile[w] = f

LEMMA PhaseOf ==
  /\ phaseBar = [f \in Files |-> IF f \notin inFlight THEN "idle"
                                ELSE IF Releasing(f) THEN "settled" ELSE "fetching"]
  /\ phaseBar' = [f \in Files |-> IF f \notin inFlight' THEN "idle"
                                 ELSE IF Releasing(f)' THEN "settled" ELSE "fetching"]
  BY DEF phaseBar, Releasing

SlotPaths == {PayloadPath(f) : f \in Files}

LEMMA StoreOf ==
  /\ storeBar = [p \in SlotPaths |-> disk[p]]
  /\ storeBar' = [p \in SlotPaths |-> disk'[p]]
  BY DEF storeBar, SlotPaths, PayloadPath

SamePhase(Moved) ==
  \A g \in Files \ Moved : /\ (g \in inFlight)' <=> g \in inFlight
                           /\ Releasing(g)' <=> Releasing(g)

LEMMA PhaseSame ==
  ASSUME SamePhase({})
  PROVE  UNCHANGED phaseBar
  BY PhaseOf DEF SamePhase

LEMMA StoreSame ==
  ASSUME \A p \in SlotPaths : disk'[p] = disk[p]
  PROVE  UNCHANGED storeBar
  BY StoreOf

(* Changing one payload changes one slot. *)
LEMMA StoreChanges ==
  ASSUME NEW f \in Files, NEW c, disk'[PayloadPath(f)] = c,
         \A p \in SlotPaths : p # PayloadPath(f) => disk'[p] = disk[p]
  PROVE  storeBar' = [storeBar EXCEPT ![PayloadPath(f)] = c]
  BY StoreOf DEF SlotPaths

(* The steps of the abstract store, in terms of the two mapped variables.  *)
LEMMA StoreBegins ==
  ASSUME NEW f \in Files, phaseBar[f] = "idle",
         phaseBar' = [phaseBar EXCEPT ![f] = "fetching"], UNCHANGED storeBar
  PROVE  Store!Next
  BY DEF Store!Next, Store!Begin, Store!Move

LEMMA StoreGivesUp ==
  ASSUME NEW f \in Files, phaseBar[f] = "fetching",
         phaseBar' = [phaseBar EXCEPT ![f] = "settled"], UNCHANGED storeBar
  PROVE  Store!Next
  BY DEF Store!Next, Store!GiveUp, Store!Move

LEMMA StoreFinishes ==
  ASSUME NEW f \in Files, phaseBar[f] = "settled",
         phaseBar' = [phaseBar EXCEPT ![f] = "idle"], UNCHANGED storeBar
  PROVE  Store!Next
  BY DEF Store!Next, Store!Finish, Store!Move

SlotOf == [f \in Files |-> PayloadPath(f)]
BodiesOf == [p \in {PayloadPath(f) : f \in Files} |-> BodiesAt(p)]

LEMMA StoreRemoves ==
  ASSUME NEW f \in Files, phaseBar[f] = "fetching", UNCHANGED phaseBar,
         storeBar' = [storeBar EXCEPT ![PayloadPath(f)] = None]
  PROVE  Store!Next
  <1>1. SlotOf[f] = PayloadPath(f)
    BY DEF SlotOf
  <1>2. storeBar' = [storeBar EXCEPT ![SlotOf[f]] = None]
    BY <1>1
  <1> QED BY <1>2 DEF Store!Next, Store!Remove, SlotOf

LEMMA StorePublishes ==
  ASSUME NEW f \in Files, phaseBar[f] = "fetching",
         phaseBar' = [phaseBar EXCEPT ![f] = "settled"],
         NEW b \in BodiesAt(PayloadPath(f)),
         storeBar' = [storeBar EXCEPT ![PayloadPath(f)] = b]
  PROVE  Store!Next
  <1>1. SlotOf[f] = PayloadPath(f) /\ BodiesOf[PayloadPath(f)] = BodiesAt(PayloadPath(f))
    BY DEF SlotOf, BodiesOf
  <1>2. b \in BodiesOf[SlotOf[f]] /\ storeBar' = [storeBar EXCEPT ![SlotOf[f]] = b]
    BY <1>1
  <1> QED BY <1>2 DEF Store!Next, Store!Publish, Store!Move, SlotOf, BodiesOf

LEMMA ReaderStore ==
  ASSUME EvictsElsewhere, DiskInv, NEW r \in Readers, Start(r) \/ ReaderStep(r)
  PROVE  Store!Next \/ UNCHANGED <<storeBar, phaseBar>>
  <1> DEFINE f == req[r].file
  <1> USE DEF DiskInv, ClaimInv, TypeInv, TypeOK
  <1>1. UNCHANGED storeBar
    <2>1. ASSUME NEW p \in SlotPaths PROVE disk'[p] = disk[p]
      <3>1. p \in Path /\ \A k \in Files : p # EvictPath(k)
        BY PathsTyped DEF SlotPaths, EvictsElsewhere, EvictPath, PayloadPath
      <3> QED BY <3>1, ReaderDisk
    <2> QED BY <2>1, StoreSame
  <1>2. CASE Claim(r) /\ f \notin inFlight
    <2>1. /\ inFlight' = inFlight \cup {f}
          /\ UNCHANGED <<wpc, wfile>>
          /\ rpc[r] = "claim"
      BY <1>2 DEF Claim, workerVars
    <2>2. f \in Files
      BY <2>1 DEF ReaderTypes, Request
    <2>3. ~Releasing(f)
      BY <1>2, <2>2 DEF Releasing, InFlightOwned, NoLostClaim, DownloadedBy
    <2>4. \A g \in Files : Releasing(g)' <=> Releasing(g)
      BY <2>1 DEF Releasing
    <2>5. phaseBar[f] = "idle" /\ phaseBar' = [phaseBar EXCEPT ![f] = "fetching"]
      BY <1>2, <2>1, <2>2, <2>3, <2>4, PhaseOf
    <2> QED BY <1>1, <2>2, <2>5, StoreBegins
  <1>3. CASE Spawn(r)
    <2>1. PICK w \in Workers : /\ wpc[w] = "none"
                               /\ wpc' = [wpc EXCEPT ![w] = "connect"]
                               /\ wfile' = [wfile EXCEPT ![w] = f]
      BY <1>3 DEF Spawn
    <2>2. UNCHANGED inFlight
      BY <1>3 DEF Spawn
    <2>3. ASSUME NEW g \in Files PROVE Releasing(g)' <=> Releasing(g)
      BY <2>1 DEF Releasing, WorkerTypes
    <2> QED BY <1>1, <2>2, <2>3, PhaseSame DEF SamePhase
  <1>4. CASE ~Spawn(r) /\ ~(Claim(r) /\ f \notin inFlight)
    <2>1. UNCHANGED <<inFlight, wpc, wfile>>
      BY <1>4 DEF Start, ReaderStep, Touch, EvictIfNeeded, EnsureCheck, Claim, NoBuffer, TryRead,
         OpenPayload, Read, IsHydrating, workerVars
    <2> QED BY <1>1, <2>1, PhaseSame DEF SamePhase, Releasing
  <1> QED BY <1>2, <1>3, <1>4

LEMMA WorkerStore ==
  ASSUME NoTempClash, DiskInv, NEW w \in Workers, WorkerStep(w)
  PROVE  Store!Next \/ UNCHANGED <<storeBar, phaseBar>>
  <1> USE DEF DiskInv, ClaimInv, TypeInv, TypeOK
  <1> DEFINE f == wfile[w]
             part == PartPath(f)
  <1>1. wpc[w] # "none" /\ f \in Files
    BY WorkerBusy
  <1>2. f \in inFlight
    BY <1>1 DEF InFlightOwned, NoLostClaim, DownloadedBy
  <1>3. \A v \in Workers : v # w => ~DownloadedBy(v, f)
    BY <1>1 DEF InFlightOwned, OneOwner, DownloadedBy
  <1>4. /\ wpc \in [Workers -> WorkerPcs] /\ wfile \in [Workers -> Files \cup {None}]
        /\ disk \in [Path -> Content \cup {None}]
        /\ \A g \in Files : PayloadPath(g) \in Path /\ PartPath(g) \in Path
    BY PathsTyped DEF WorkerTypes, SharedTypes
  <1>5. Releasing(f) <=> wpc[w] = "release"
    BY <1>1, <1>3 DEF Releasing, DownloadedBy
  <1>6. \A p \in SlotPaths : p \in Path /\ p # part
    BY <1>1, <1>4, PartsApart DEF SlotPaths
  <1>7. CASE Release(w)
    <2>1. /\ inFlight' = inFlight \ {f}
          /\ wpc[w] = "release"
          /\ wpc' = [wpc EXCEPT ![w] = "none"]
          /\ wfile' = [wfile EXCEPT ![w] = None]
          /\ UNCHANGED disk
      BY <1>7 DEF Release, WorkerGoto
    <2>2. ASSUME NEW g \in Files, g # f PROVE Releasing(g)' <=> Releasing(g)
      BY <1>4, <2>1, <2>2 DEF Releasing
    <2>3. phaseBar[f] = "settled" /\ phaseBar' = [phaseBar EXCEPT ![f] = "idle"]
      BY <1>1, <1>2, <1>5, <2>1, <2>2, PhaseOf
    <2>4. UNCHANGED storeBar
      BY <2>1, StoreSame
    <2> QED BY <1>1, <2>3, <2>4, StoreFinishes
  <1> DEFINE Settles == wpc' = [wpc EXCEPT ![w] = "release"]
             Works == \E pc : pc # "release" /\ wpc' = [wpc EXCEPT ![w] = pc]
  <1>8. ASSUME ~Release(w)
        PROVE  wpc[w] # "release" /\ UNCHANGED <<inFlight, wfile>>
    BY <1>8 DEF WorkerStep, Connect, OpenTemp, RecvHeader, RecvBody, RecvEnd, Discard,
       Publish, Unlink, Republish
  <1>9. ASSUME ~Release(w)
        PROVE  Settles \/ Works
    <2>1. \E pc : wpc' = [wpc EXCEPT ![w] = pc]
      BY <1>4, <1>9 DEF WorkerStep, Connect, OpenTemp, RecvHeader, RecvBody, RecvEnd, Discard,
         Publish, Unlink, Republish, RenameTemp, WorkerGoto
    <2> QED BY <2>1
  <1>10. ASSUME ~Release(w), Works
         PROVE  UNCHANGED phaseBar /\ phaseBar[f] = "fetching"
    <2>1. ASSUME NEW g \in Files PROVE Releasing(g)' <=> Releasing(g)
      BY <1>4, <1>8, <1>10 DEF Releasing
    <2> QED BY <1>1, <1>2, <1>5, <1>8, <1>10, <2>1, PhaseSame, PhaseOf DEF SamePhase
  <1>11. ASSUME ~Release(w), Settles
         PROVE  /\ phaseBar[f] = "fetching"
                /\ phaseBar' = [phaseBar EXCEPT ![f] = "settled"]
    <2>1. ASSUME NEW g \in Files, g # f PROVE Releasing(g)' <=> Releasing(g)
      BY <1>4, <1>8, <1>11, <2>1 DEF Releasing
    <2>2. Releasing(f)'
      BY <1>4, <1>8, <1>11 DEF Releasing
    <2> QED BY <1>1, <1>2, <1>5, <1>8, <1>11, <2>1, <2>2, PhaseOf
  <1>12. ASSUME ~Release(w), UNCHANGED storeBar
         PROVE  Store!Next \/ UNCHANGED <<storeBar, phaseBar>>
    BY <1>1, <1>9, <1>10, <1>11, <1>12, StoreGivesUp
  <1>13. CASE OpenTemp(w) \/ RecvBody(w) \/ Discard(w)
    <2>1. \A p \in SlotPaths : disk'[p] = disk[p]
      BY <1>1, <1>4, <1>6, <1>13 DEF OpenTemp, RecvBody, Discard, RemoveQuietly
    <2>2. ~Release(w)
      BY <1>13 DEF OpenTemp, RecvBody, Discard, Release
    <2> QED BY <1>12, <2>1, <2>2, StoreSame
  <1>14. CASE ~Release(w) /\ UNCHANGED disk
    BY <1>12, <1>14, StoreSame
  <1>15. CASE Unlink(w) /\ disk' = [disk EXCEPT ![PayloadPath(f)] = None]
    <2>1. ~Release(w) /\ Works
      BY <1>15 DEF Unlink, Release, WorkerGoto
    <2>2. storeBar' = [storeBar EXCEPT ![PayloadPath(f)] = None]
      <3>1. disk'[PayloadPath(f)] = None
        BY <1>1, <1>4, <1>15
      <3>2. \A p \in SlotPaths : p # PayloadPath(f) => disk'[p] = disk[p]
        BY <1>4, <1>6, <1>15
      <3> QED BY <1>1, <3>1, <3>2, StoreChanges
    <2> QED BY <1>1, <1>10, <2>1, <2>2, StoreRemoves
  <1>16. CASE (Publish(w) \/ Republish(w)) /\ ~UNCHANGED disk
    <2>1. ~Release(w) /\ Settles /\ Renamed(w)
      BY <1>16 DEF Publish, Republish, RenameTemp, Renamed, Release, WorkerGoto
    <2>2. disk[part] # None /\ disk[part] \in Content
      BY <1>1, <1>4, <2>1 DEF Renamed, CanRename
    <2>3. disk[part] \in BodiesAt(PayloadPath(f))
      BY <1>1, <2>2, BodiesByFile DEF BodyInv
    <2>4. storeBar' = [storeBar EXCEPT ![PayloadPath(f)] = disk[part]]
      <3>1. PayloadPath(f) # part
        BY <1>1, PartsApart
      <3>2. disk'[PayloadPath(f)] = disk[part]
        BY <1>1, <1>4, <2>1, <3>1 DEF Renamed
      <3>3. \A p \in SlotPaths : p # PayloadPath(f) => disk'[p] = disk[p]
        BY <1>4, <1>6, <2>1 DEF Renamed
      <3> QED BY <1>1, <3>2, <3>3, StoreChanges
    <2> QED BY <1>1, <1>11, <2>1, <2>3, <2>4, StorePublishes
  <1> QED BY <1>7, <1>13, <1>14, <1>15, <1>16
      DEF WorkerStep, Connect, RecvHeader, RecvEnd, Publish, Unlink, Republish, RemoveQuietly

LEMMA RestartStore ==
  ASSUME Restart
  PROVE  Store!Next
  BY StoreOf, PhaseOf DEF Restart, Store!Next, Store!Restart

(* Downloads with their failures, races and restarts look, path by path,   *)
(* like a store that gets at most one body per claim, in one step, of a    *)
(* file with that path (WebSeedClient.cpp:165-249,                         *)
(* TorrentSession.cpp:140-162).                                            *)
THEOREM HydrationImplementsStore ==
  ASSUME NoTempClash, EvictsElsewhere
  PROVE  Spec => ImplementsStore
  <1>1. Init => Store!Init
    <2> SUFFICES ASSUME Init PROVE Store!Init
      OBVIOUS
    <2>1. storeBar = [p \in SlotPaths |-> None]
      BY StoreOf, PathsTyped DEF Init, SlotPaths
    <2>2. phaseBar = [f \in Files |-> "idle"]
      BY PhaseOf DEF Init
    <2>3. Store!Slots = SlotPaths
      BY DEF Store!Slots, SlotPaths
    <2> QED BY <2>1, <2>2, <2>3 DEF Store!Init
  <1>2. DiskInv /\ [Next]_vars => [Store!Next]_<<storeBar, phaseBar>>
    <2> SUFFICES ASSUME DiskInv, [Next]_vars
                 PROVE  Store!Next \/ UNCHANGED <<storeBar, phaseBar>>
      OBVIOUS
    <2>1. CASE UNCHANGED vars
      BY <2>1 DEF vars, storeBar, phaseBar, PayloadPath
    <2> QED BY <2>1, ReaderStore, WorkerStore, RestartStore DEF Next
  <1>3. Init => DiskInv
    BY DiskInit
  <1>4. DiskInv /\ [Next]_vars => DiskInv'
    BY DiskStep
  <1> QED BY <1>1, <1>2, <1>3, <1>4, PTL
      DEF Spec, ImplementsStore, Store!Spec, Store!storeVars

-----------------------------------------------------------------------------
(* A seed that sends whole bodies *)

(* A body is complete once the download goes on to publish it.             *)
BodyWhole(w) ==
  /\ wpc[w] # "bad"
  /\ wpc[w] \in {"publish", "unlink", "republish"} /\ OwnPath(wfile[w])
       => disk[PartPath(wfile[w])] \in {None, WholeBody(wfile[w])}

(* A poll that reads nothing is past the end of its file.                  *)
PollPlaced(r) ==
  /\ rpc[r] \in {"open", "read"} => req[r].off < Size[req[r].file]
  /\ rpc[r] = "hydrating" => req[r].off >= Size[req[r].file] \/ ~OwnPath(req[r].file)

WholeInv ==
  /\ DiskInv
  /\ PayloadComplete
  /\ \A w \in Workers : BodyWhole(w)
  /\ \A r \in Readers : PollPlaced(r)

LEMMA WholeInit == Init => WholeInv
  BY DiskInit, PathsTyped DEF Init, WholeInv, PayloadComplete, Present, BodyWhole, PollPlaced

(* Payloads that are as they were or gone stay complete. *)
LEMMA CompleteKeeps ==
  ASSUME PayloadComplete,
         \A g \in Files : OwnPath(g) => disk'[PayloadPath(g)] \in {disk[PayloadPath(g)], None, WholeBody(g)}
  PROVE  PayloadComplete'
  BY DEF PayloadComplete, Present, PayloadPath, OwnPath, WholeBody

LEMMA ReaderBodies ==
  ASSUME WholeInv, NEW r \in Readers, Start(r) \/ ReaderStep(r)
  PROVE  PayloadComplete' /\ \A w \in Workers : BodyWhole(w)'
  <1> USE DEF WholeInv, DiskInv, ClaimInv, TypeInv, TypeOK
  <1>1. \A p \in Path : disk'[p] \in {disk[p], None}
    BY ReaderDisk
  <1>2. PayloadComplete'
    BY <1>1, PathsTyped, CompleteKeeps
  <1>3. ASSUME NEW w \in Workers, wpc'[w] \in {"publish", "unlink", "republish", "bad"}
        PROVE  wpc'[w] = wpc[w] /\ wfile'[w] = wfile[w]
    BY <1>3 DEF Start, ReaderStep, Touch, EvictIfNeeded, EnsureCheck, Claim, Spawn, NoBuffer,
       TryRead, OpenPayload, Read, IsHydrating, workerVars, WorkerTypes
  <1>4. ASSUME NEW w \in Workers PROVE BodyWhole(w)'
    <2>1. CASE wpc'[w] \in {"publish", "unlink", "republish", "bad"}
      <3>1. wpc'[w] = wpc[w] /\ wfile'[w] = wfile[w] /\ wfile[w] \in Files
        BY <1>3, <2>1 DEF WorkerTypes
      <3>2. disk'[PartPath(wfile[w])] \in {disk[PartPath(wfile[w])], None}
        BY <1>1, <3>1, PathsTyped
      <3>3. BodyWhole(w)
        OBVIOUS
      <3> QED BY <3>1, <3>2, <3>3 DEF BodyWhole, PartPath, OwnPath, WholeBody
    <2>2. CASE wpc'[w] \notin {"publish", "unlink", "republish", "bad"}
      BY <2>2 DEF BodyWhole
    <2> QED BY <2>1, <2>2
  <1> QED BY <1>2, <1>4

(* A reader that moves is where it says it is, the others stay.            *)
LEMMA ReaderPlaces ==
  ASSUME WholeInv, NEW r \in Readers, Start(r) \/ ReaderStep(r)
  PROVE  \A s \in Readers : PollPlaced(s)'
  <1> USE DEF WholeInv, DiskInv, ClaimInv, TypeInv, TypeOK
  <1> DEFINE q == req[r]
  <1>1. /\ rpc \in [Readers -> ReaderPcs]
        /\ req \in [Readers -> Request \cup {None}]
        /\ \A s \in Readers : rpc[s] # "idle" => req[s] \in Request
    BY DEF ReaderTypes
  <1>2. \A s \in Readers : rpc[s] # "idle" => req[s].file \in Files /\ req[s].off \in Nat
    BY <1>1 DEF Request
  <1>3. ASSUME NEW pc, NEW p, Goto(r, pc, p),
               pc \in {"open", "read"} => p.off < Size[p.file],
               pc = "hydrating" => p.off >= Size[p.file] \/ ~OwnPath(p.file)
        PROVE  \A s \in Readers : PollPlaced(s)'
    BY <1>1, <1>3 DEF Goto, PollPlaced, OwnPath
  <1>4. ASSUME NEW pc, NEW p, Goto(r, pc, p), pc \notin {"open", "read", "hydrating"}
        PROVE  \A s \in Readers : PollPlaced(s)'
    BY <1>3, <1>4
  <1>5. ASSUME EnsureReturns(r) \/ AttemptFails(r)
        PROVE  \A s \in Readers : PollPlaced(s)'
    BY <1>4, <1>5, EnsureReturnsMoves
  <1>6. CASE Start(r)
    <2>1. \E p : \E pc \in {"idle", "touch", "exists"} : Goto(r, pc, p)
      BY <1>6, Zenon DEF Start, BeginStreaming, AfterQueue
    <2> QED BY <1>4, <2>1
  <1>7. CASE Touch(r) \/ EvictIfNeeded(r) \/ NoBuffer(r)
    BY <1>4, <1>7 DEF Touch, EvictIfNeeded, NoBuffer
  <1>8. CASE EnsureCheck(r) \/ Claim(r) \/ Spawn(r)
    BY <1>4, <1>5, <1>8 DEF EnsureCheck, Claim, Spawn
  <1>9. CASE TryRead(r)
    BY <1>3, <1>9 DEF TryRead
  <1>10. CASE OpenPayload(r)
    <2>1. q.off < Size[q.file]
      BY <1>10 DEF OpenPayload, PollPlaced
    <2> QED BY <1>3, <1>5, <1>10, <2>1 DEF OpenPayload
  <1>11. CASE Read(r)
    <2>1. q.off < Size[q.file] /\ Present(q.file) /\ q.file \in Files /\ q.off \in Nat
      BY <1>2, <1>11 DEF Read, PollPlaced, OpenThere
    <2>2. ASSUME OwnPath(q.file) PROVE Reaches(PayloadPath(q.file), q.off)
      <3>1. disk[PayloadPath(q.file)] = WholeBody(q.file)
        BY <2>1, <2>2 DEF PayloadComplete
      <3>2. Size[q.file] \in 0 .. MaxBody /\ MaxBody \in Nat
        BY <2>1, SizeAssumption
      <3>3. q.off + 1 \in 1 .. MaxBody /\ q.off + 1 <= Size[q.file]
        BY <2>1, <3>2
      <3>4. WholeBody(q.file)[q.off + 1] = q.file
        BY <3>3 DEF WholeBody
      <3> QED BY <2>1, <3>1, <3>4, NoneAssumption DEF Reaches, Present
    <2>3. CASE OwnPath(q.file)
      <3>1. \/ Goto(r, "idle", q)
            \/ Goto(r, "exists", [q EXCEPT !.off = @ + 1, !.tries = 0])
        BY <1>11, <2>2, <2>3 DEF Read
      <3> QED BY <1>4, <3>1
    <2>4. CASE ~OwnPath(q.file)
      <3>1. \/ Goto(r, "hydrating", q)
            \/ Goto(r, "idle", q)
            \/ Goto(r, "exists", [q EXCEPT !.off = @ + 1, !.tries = 0])
        BY <1>11 DEF Read
      <3> QED BY <1>3, <1>4, <2>4, <3>1
    <2> QED BY <2>3, <2>4
  <1>12. CASE IsHydrating(r)
    BY <1>4, <1>5, <1>12 DEF IsHydrating
  <1> QED BY <1>6, <1>7, <1>8, <1>9, <1>10, <1>11, <1>12 DEF ReaderStep

(* A worker changes its own .part file and payload; what it publishes is a *)
(* body that has come to its end.                                          *)
LEMMA WorkerWhole ==
  ASSUME NoTempClash, SeedSendsWhole, ~DiskFills, WholeInv, NEW w \in Workers, WorkerStep(w)
  PROVE  PayloadComplete' /\ \A v \in Workers : BodyWhole(v)'
  <1> USE DEF WholeInv, DiskInv, ClaimInv, TypeInv, TypeOK
  <1> DEFINE f == wfile[w]
             part == PartPath(f)
             Late == {"publish", "unlink", "republish"}
  <1>1. /\ wpc \in [Workers -> WorkerPcs] /\ wfile \in [Workers -> Files \cup {None}]
        /\ disk \in [Path -> Content \cup {None}]
        /\ \A g \in Files : PartPath(g) \in Path /\ PayloadPath(g) \in Path
        /\ \A v \in Workers : wpc[v] # "none" => wfile[v] \in Files
    BY PathsTyped DEF WorkerTypes, SharedTypes
  <1>2. wpc[w] # "none" /\ f \in Files
    BY WorkerBusy
  <1>3. \A v \in Workers : v # w /\ wpc[v] # "none" => wfile[v] # f
    BY <1>1, <1>2 DEF InFlightOwned, OneOwner, DownloadedBy
  <1>4. ASSUME NEW v \in Workers, v # w PROVE BodyWhole(v)'
    <2>1. wpc'[v] = wpc[v] /\ wfile'[v] = wfile[v]
      BY <1>4, WorkerFacts
    <2>2. ASSUME wpc[v] \in Late, OwnPath(wfile[v])
          PROVE  disk'[PartPath(wfile[v])] = disk[PartPath(wfile[v])]
      <3>1. wfile[v] \in Files /\ wfile[v] # f
        BY <1>1, <1>3, <1>4, <2>2
      <3>2. PartPath(wfile[v]) # part /\ PartPath(wfile[v]) # PayloadPath(f)
        BY <1>2, <2>2, <3>1, PartsApart
      <3> QED BY <1>1, <3>1, <3>2, WorkerDisk
    <2> QED BY <2>1, <2>2 DEF BodyWhole, PartPath, OwnPath, WholeBody
  <1>5. BodyWhole(w)'
    <2>1. CASE RecvEnd(w)
      <3>1. wpc[w] = "body" /\ wgot[w] = Size[f] /\ UNCHANGED disk /\ wfile'[w] = f
            /\ wpc'[w] = "publish"
        BY <1>1, <2>1 DEF RecvEnd, BodyWhole, WorkerGoto
      <3>2. OwnPath(f) => disk[part] = Prefix(f, Size[f])
        BY <3>1 DEF StreamInv
      <3>3. Prefix(f, Size[f]) = WholeBody(f)
        BY DEF Prefix, WholeBody
      <3> QED BY <3>1, <3>2, <3>3 DEF BodyWhole, PartPath, OwnPath, WholeBody
    <2>2. CASE Unlink(w)
      <3>1. part # PayloadPath(f)
        BY <1>2, PartsApart
      <3>2. /\ disk'[part] = disk[part] /\ wpc[w] \in Late /\ wfile'[w] = f
            /\ wpc'[w] = "republish"
        BY <1>1, <1>2, <2>2, <3>1 DEF Unlink, RemoveQuietly, WorkerGoto
      <3> QED BY <3>2 DEF BodyWhole, PartPath, OwnPath, WholeBody
    <2>3. CASE Publish(w) \/ Republish(w)
      <3>1. wpc[w] \in Late /\ wfile'[w] = f /\ (wpc'[w] \in Late => UNCHANGED disk)
            /\ wpc'[w] # "bad"
        BY <1>1, <2>3 DEF Publish, Republish, RenameTemp, WorkerGoto
      <3> QED BY <3>1 DEF BodyWhole, PartPath, OwnPath, WholeBody
    <2>4. CASE RecvBody(w)
      <3>1. wpc[w] = "body" /\ UNCHANGED wpc
        BY <2>4 DEF RecvBody, BodyWhole
      <3> QED BY <3>1 DEF BodyWhole
    <2>5. CASE ~(RecvEnd(w) \/ Unlink(w) \/ Publish(w) \/ Republish(w) \/ RecvBody(w))
      <3>1. wpc'[w] \notin Late \cup {"bad"}
        BY <1>1, <2>5 DEF WorkerStep, Connect, OpenTemp, RecvHeader, Discard,
           Release, WorkerGoto
      <3> QED BY <3>1 DEF BodyWhole
    <2> QED BY <2>1, <2>2, <2>3, <2>4, <2>5
  <1>6. ASSUME NEW g \in Files, OwnPath(g)
        PROVE  disk'[PayloadPath(g)] \in {disk[PayloadPath(g)], None, WholeBody(g)}
    <2>1. PayloadPath(g) # part
      BY <1>2, PartsApart
    <2>2. CASE g # f
      <3>1. PayloadPath(g) # PayloadPath(f)
        BY <1>2, <1>6, <2>2, PartsApart
      <3> QED BY <1>1, <2>1, <3>1, WorkerDisk
    <2>3. CASE g = f /\ (Publish(w) \/ Republish(w)) /\ ~UNCHANGED disk
      <3>1. disk'[PayloadPath(f)] = disk[part] /\ disk[part] # None /\ wpc[w] \in Late
        BY <1>1, <1>2, <2>1, <2>3 DEF Publish, Republish, RenameTemp, CanRename
      <3> QED BY <1>6, <2>3, <3>1 DEF BodyWhole
    <2>4. CASE ~((Publish(w) \/ Republish(w)) /\ ~UNCHANGED disk)
      BY <1>1, <1>2, <2>1, <2>4 DEF WorkerStep, Connect, OpenTemp, RecvHeader, RecvBody,
         RecvEnd, Discard, Unlink, Release, RemoveQuietly
    <2> QED BY <2>2, <2>3, <2>4
  <1>7. PayloadComplete'
    BY <1>6, CompleteKeeps
  <1> QED BY <1>4, <1>5, <1>7

LEMMA WholeStep ==
  ASSUME NoTempClash, SeedSendsWhole, ~DiskFills
  PROVE  WholeInv /\ [Next]_vars => WholeInv'
  <1> SUFFICES ASSUME WholeInv, [Next]_vars PROVE WholeInv'
    OBVIOUS
  <1>1. DiskInv'
    BY DiskStep DEF WholeInv
  <1>2. ASSUME NEW r \in Readers, Start(r) \/ ReaderStep(r) PROVE WholeInv'
    BY <1>1, <1>2, ReaderBodies, ReaderPlaces DEF WholeInv
  <1>3. ASSUME NEW w \in Workers, WorkerStep(w) PROVE WholeInv'
    <2>1. UNCHANGED <<rpc, req>>
      BY <1>3 DEF WorkerStep, Connect, OpenTemp, RecvHeader, RecvBody, RecvEnd, Discard,
         Publish, Unlink, Republish, Release, readerVars
    <2>2. \A r \in Readers : PollPlaced(r)'
      BY <2>1 DEF WholeInv, PollPlaced, OwnPath
    <2> QED BY <1>1, <1>3, <2>2, WorkerWhole DEF WholeInv
  <1>4. CASE Restart
    <2>1. PayloadComplete'
      BY <1>4 DEF Restart, WholeInv, PayloadComplete, Present, PayloadPath, OwnPath, WholeBody
    <2> QED BY <1>1, <1>4, <2>1 DEF Restart, WholeInv, BodyWhole, PollPlaced
  <1>5. CASE UNCHANGED vars
    BY <1>1, <1>5 DEF vars, WholeInv, PayloadComplete, Present, PayloadPath, PartPath, BodyWhole,
       PollPlaced, OwnPath, WholeBody
  <1> QED BY <1>2, <1>3, <1>4, <1>5 DEF Next

(* If the seed sends whole bodies and the disk takes what is written, then *)
(* after any number of crashes, failed downloads and left-over .part       *)
(* files, and for any number of threads, what is in the cache at a path of *)
(* one file is that whole file (WebSeedClient.cpp:192-248).                *)
THEOREM PayloadsComplete ==
  ASSUME NoTempClash, SeedSendsWhole, ~DiskFills
  PROVE  Spec => []PayloadComplete
  <1>1. Init => WholeInv
    BY WholeInit
  <1>2. WholeInv /\ [Next]_vars => WholeInv'
    BY WholeStep
  <1>3. WholeInv => PayloadComplete
    BY DEF WholeInv
  <1> QED BY <1>1, <1>2, <1>3, PTL DEF Spec

(* A reader ends only where it may. *)
LEMMA ReaderEnds ==
  ASSUME WholeInv, NEW r \in Readers, ReaderStep(r), rpc'[r] = "idle"
  PROVE  \/ req[r].op = "info" \/ rpc[r] = "read" \/ NoBuffer(r)
         \/ req[r].off >= Size[req[r].file] \/ ~OwnPath(req[r].file)
         \/ req[r].tries + 1 >= MaxAttempts
  <1> USE DEF WholeInv, DiskInv, ClaimInv, TypeInv, TypeOK
  <1> DEFINE q == req[r]
             Over == q.op = "info" \/ q.tries + 1 >= MaxAttempts
  <1>1. /\ rpc[r] # "idle" => q \in Request
        /\ MaxAttempts \in Nat
        /\ \A pc, p : Goto(r, pc, p) => pc = "idle"
    BY AttemptsAssumption DEF ReaderTypes, Goto
  <1>2. rpc[r] # "idle"
    BY DEF ReaderStep, Touch, EvictIfNeeded, EnsureCheck, Claim, Spawn, NoBuffer, TryRead,
       OpenPayload, Read, IsHydrating
  <1>3. q.tries \in Nat
    BY <1>1, <1>2 DEF Request
  <1>4. ASSUME NEW p, AfterQueue(p) = "idle", p.op = q.op, p.tries \in {q.tries, q.tries + 1}
        PROVE  Over
    BY <1>1, <1>3, <1>4 DEF AfterQueue
  <1>5. ASSUME AttemptFails(r) PROVE Over
    <2> DEFINE p == [q EXCEPT !.tries = @ + 1, !.inTry = FALSE]
    <2>1. p.op = q.op /\ p.tries = q.tries + 1
      BY <1>1, <1>2 DEF Request
    <2> HIDE DEF p
    <2>2. PICK pc \in {BeginStreaming(p), AfterQueue(p)} : Goto(r, pc, p)
      BY <1>5, Zenon DEF AttemptFails, p
    <2>3. AfterQueue(p) = "idle"
      BY <1>1, <2>2 DEF BeginStreaming
    <2> QED BY <1>4, <2>1, <2>3
  <1>6. ASSUME EnsureReturns(r) PROVE Over
    BY <1>1, <1>4, <1>5, <1>6 DEF EnsureReturns
  <1>7. CASE Touch(r) \/ EvictIfNeeded(r) \/ TryRead(r)
    BY <1>1, <1>7 DEF Touch, EvictIfNeeded, TryRead
  <1>8. CASE EnsureCheck(r) \/ Claim(r) \/ Spawn(r)
    BY <1>1, <1>6, <1>8 DEF EnsureCheck, Claim, Spawn
  <1>9. CASE OpenPayload(r)
    BY <1>1, <1>5, <1>9 DEF OpenPayload
  <1>10. CASE Read(r)
    BY <1>10 DEF Read
  <1>11. CASE IsHydrating(r)
    BY <1>11 DEF IsHydrating, PollPlaced
  <1> QED BY <1>7, <1>8, <1>9, <1>10, <1>11 DEF ReaderStep

(* ... and then no read of bytes its file has is refused before its polls  *)
(* are spent: looking at the payload and at webSeedInFlight_ one after the *)
(* other, while others download, publish and release, costs no read its    *)
(* data (VirtualDrive.cpp:579-591, WebDavServer.cpp:389-411).              *)
THEOREM ReadsWait ==
  ASSUME NoTempClash, SeedSendsWhole, ~DiskFills
  PROVE  Spec => ReadWaits
  <1> DEFINE Waits == \A r \in Readers :
                        ReaderStep(r) /\ rpc'[r] = "idle" =>
                          \/ req[r].op = "info" \/ rpc[r] = "read" \/ NoBuffer(r)
                          \/ req[r].off >= Size[req[r].file] \/ ~OwnPath(req[r].file)
                          \/ req[r].tries + 1 >= MaxAttempts
  <1>1. Init => WholeInv
    BY WholeInit
  <1>2. WholeInv /\ [Next]_vars => WholeInv'
    BY WholeStep
  <1>3. WholeInv /\ [Next]_vars => [Waits]_vars
    BY ReaderEnds
  <1> QED BY <1>1, <1>2, <1>3, PTL DEF Spec, ReadWaits
=============================================================================
