--------------------------- MODULE WebDavRequest ---------------------------
(***************************************************************************)
(* One request after the other in WebDavServer::serverLoop: what is read   *)
(* of it, which answer its method, its path and its Range header lead to,  *)
(* and the loop that sends a file's body while the payload may still be on *)
(* its way.  Mount has the thread's life, Hydration what happens behind a  *)
(* poll; here a poll has any outcome that tryReadFileRange and isHydrating *)
(* can have, and the reads that beginStreaming queues are left out.        *)
(***************************************************************************)
EXTENDS Integers

CONSTANTS
  Methods,      \* those the server answers and others, "HEAD", ... among them
  Sizes,        \* sizes of the files there are
  Numbers,      \* what a number of a Range header can come out as in 64 bits
  ChunkSize,    \* 64 KiB
  MaxAttempts,  \* 1200
  Open,         \* the end of a range is left open
  None

ASSUME WebDavAssumption ==
  /\ Sizes \subseteq Nat
  /\ Numbers \subseteq Nat
  /\ {ChunkSize, MaxAttempts} \subseteq Nat \ {0}
  /\ Open \notin Nat
  /\ None \notin Nat \cup {Open}

(* A Range header, None where stoull finds no number. *)
Range == [first : Numbers \cup {None}, last : Numbers \cup {Open, None}]
Target == [kind : {"missing", "directory"}, size : {0}] \cup [kind : {"file"}, size : Sizes]

ASSUME NoneAssumption == None \notin Range \cup (Nat \X Nat) \cup {"client", "offline"}

VARIABLES
  pc,        \* where serverLoop is
  method,    \* the request: method, ...
  target,    \* ... what lookup found under its path, ...
  range,     \* ... its Range header or None ...
  whole,     \* ... and whether the only recv brought all of its headers
  status,    \* the status of the answer
  start, end, position,
  bytesRead, \* of the last poll
  attempts,  \* polls of the current chunk that brought nothing
  promised,  \* Content-Length
  sent,      \* bytes of the body that were sent
  cut        \* why the body ended early: "client", "offline" or None

requestVars == <<method, target, range, whole>>
bodyVars == <<start, end, position, bytesRead, attempts, promised, sent, cut>>
vars == <<pc, requestVars, status, bodyVars>>

MinOf(a, b) == IF a <= b THEN a ELSE b

parseRangePastEnd(h, size) ==  \* faulty variant: the end is not clamped
  IF h.first = None \/ h.last = None THEN None
  ELSE LET end0 == IF h.last = Open THEN size - 1 ELSE h.last
       IN  IF h.first >= size \/ end0 < h.first THEN None ELSE <<h.first, end0>>

parseRangeHeader(h, size) ==
  IF h.first = None \/ h.last = None THEN None
  ELSE LET end0 == IF h.last = Open THEN IF size = 0 THEN 0 ELSE size - 1 ELSE h.last
       IN  IF h.first >= size \/ end0 < h.first THEN None
           ELSE <<h.first, MinOf(end0, size - 1)>>

ResponseLengthShort(first, last, size) == IF size = 0 THEN 0 ELSE last - first  \* faulty variant

ResponseLength(first, last, size) == IF size = 0 THEN 0 ELSE last - first + 1

(* How much the next poll asks for. *)
Asked == MinOf(ChunkSize, end - position + 1)

Init ==
  /\ pc = "recv"
  /\ method = None
  /\ target = None
  /\ range = None
  /\ whole = TRUE
  /\ status = None
  /\ start = 0
  /\ end = 0
  /\ position = 0
  /\ bytesRead = 0
  /\ attempts = 0
  /\ promised = 0
  /\ sent = 0
  /\ cut = None

(* What the one recv brings: the whole request, or its first line and not  *)
(* all of its headers.  (Less than a line closes the connection.)          *)
Receive ==
  /\ pc = "recv"
  /\ method' \in Methods
  /\ target' \in Target
  /\ range' \in Range \cup {None}
  /\ whole' \in BOOLEAN
  /\ pc' = "dispatch"
  /\ UNCHANGED <<status, bodyVars>>

(* The answers without a file's body. *)
Answer ==
  /\ pc = "dispatch"
  /\ \/ method = "OPTIONS" /\ status' = 200
     \/ method # "OPTIONS" /\ target.kind = "missing" /\ status' = 404
     \/ method = "PROPFIND" /\ target.kind # "missing" /\ status' = 207
     \/ method \notin {"OPTIONS", "PROPFIND"} /\ target.kind = "directory" /\ status' = 405
  /\ pc' = "close"
  /\ UNCHANGED <<requestVars, bodyVars>>

(* Any other method on a file is taken for a GET. *)
Prepare ==
  /\ pc = "dispatch"
  /\ method \notin {"OPTIONS", "PROPFIND"}
  /\ target.kind = "file"
  /\ LET parsed == IF whole /\ range # None THEN parseRangeHeader(range, target.size) ELSE None
     IN  /\ start' = IF parsed = None THEN 0 ELSE parsed[1]
         /\ end' = IF parsed # None THEN parsed[2]
                   ELSE IF target.size = 0 THEN 0 ELSE target.size - 1
         /\ status' = IF parsed = None THEN 200 ELSE 206
  /\ position' = start'
  /\ promised' = ResponseLength(start', end', target.size)
  /\ pc' = "headers"
  /\ UNCHANGED <<requestVars, bytesRead, attempts, sent, cut>>

SendHeaders ==
  /\ pc = "headers"
  /\ \/ pc' = (IF method = "HEAD" THEN "close" ELSE "poll") /\ UNCHANGED cut
     \/ pc' = "close" /\ cut' = "client"
  /\ UNCHANGED <<requestVars, status, start, end, position, bytesRead, attempts, promised, sent>>

(* A poll that brings bytes: no more than were asked for and than the file *)
(* has from here on.                                                       *)
PollReads ==
  /\ pc = "poll"
  /\ bytesRead' \in 1 .. MinOf(Asked, target.size - position)
  /\ pc' = "send"
  /\ UNCHANGED <<requestVars, status, start, end, position, attempts, promised, sent, cut>>

(* One that does not: nothing there and nothing on its way, or no payload  *)
(* yet - then the read is queued again, and after MaxAttempts given up.    *)
PollNothingForever ==  \* faulty variant: running out of attempts starts them anew
  /\ pc = "poll"
  /\ \/ pc' = "close" /\ cut' = "offline" /\ UNCHANGED attempts
     \/ position < target.size /\ attempts' = (attempts + 1) % MaxAttempts /\ UNCHANGED <<pc, cut>>
  /\ UNCHANGED <<requestVars, status, start, end, position, bytesRead, promised, sent>>

PollNothing ==
  /\ pc = "poll"
  /\ \/ /\ pc' = "close"
        /\ cut' = "offline"
        /\ UNCHANGED attempts
     \/ /\ position < target.size
        /\ attempts' = attempts + 1
        /\ IF attempts' = MaxAttempts THEN pc' = "close" /\ cut' = "offline"
                                      ELSE UNCHANGED <<pc, cut>>
  /\ UNCHANGED <<requestVars, status, start, end, position, bytesRead, promised, sent>>

SendChunkStopsShort ==  \* faulty variant: the loop ends one byte early
  /\ pc = "send"
  /\ position' = position + bytesRead
  /\ sent' = sent + bytesRead
  /\ pc' = IF position' < end THEN "poll" ELSE "close"
  /\ attempts' = 0
  /\ UNCHANGED <<requestVars, status, start, end, bytesRead, promised, cut>>

SendChunk ==
  /\ pc = "send"
  /\ \/ /\ position' = position + bytesRead
        /\ sent' = sent + bytesRead
        /\ pc' = IF position' <= end THEN "poll" ELSE "close"
        /\ UNCHANGED cut
     \/ /\ pc' = "close"
        /\ cut' = "client"
        /\ UNCHANGED <<position, sent>>
  /\ attempts' = 0
  /\ UNCHANGED <<requestVars, status, start, end, bytesRead, promised>>

Close ==
  /\ pc = "close"
  /\ pc' = "recv"
  /\ method' = None
  /\ target' = None
  /\ range' = None
  /\ whole' = TRUE
  /\ status' = None
  /\ start' = 0
  /\ end' = 0
  /\ position' = 0
  /\ bytesRead' = 0
  /\ attempts' = 0
  /\ promised' = 0
  /\ sent' = 0
  /\ cut' = None

ServerStep ==
  Answer \/ Prepare \/ SendHeaders \/ PollReads \/ PollNothing \/ SendChunk \/ Close

Next == Receive \/ ServerStep

Spec == Init /\ [][Next]_vars

(* The thread keeps running and a client takes what is sent, or goes. *)
FairSpec == Spec /\ WF_vars(ServerStep)

-----------------------------------------------------------------------------
(* Properties *)

(* The bytes a request may hope for by its header. *)
BytesOf(h, size) ==
  {b \in 0 .. size - 1 : /\ h.first # None /\ h.last # None
                         /\ h.first <= b
                         /\ h.last # Open => b <= h.last}

(* The answer is partial exactly when the Range header was read and names  *)
(* bytes of the file, and then covers those bytes and no others - for open *)
(* and overlong ends, inverted ranges, numbers that wrap and empty files   *)
(* (WebDavServer.cpp:152-172, 361-371).                                    *)
RangeHonoured ==
  pc \in {"headers", "poll", "send"} =>
    LET bytes == IF whole /\ range # None THEN BytesOf(range, target.size) ELSE {}
    IN  /\ status = 206 <=> bytes # {}
        /\ status = 206 => start .. end = bytes

(* What is sent never exceeds the Content-Length and lies in the range; it *)
(* falls short of it only for HEAD, for a client that is gone or for data  *)
(* that did not come (WebDavServer.cpp:371-414).                           *)
PromiseKept ==
  /\ sent <= promised
  /\ pc \in {"poll", "send"} =>
       /\ position = start + sent
       /\ target.size > 0 => position + Asked <= start + promised
  /\ pc = "close" /\ sent < promised => method = "HEAD" \/ cut # None

(* Every request is done with, however the polls turn out: attempts count  *)
(* up, and a chunk that was read moves the position                        *)
(* (WebDavServer.cpp:389-411).                                             *)
RequestEnds == pc # "recv" ~> pc = "recv"

=============================================================================
