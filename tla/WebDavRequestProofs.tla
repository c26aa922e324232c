------------------------ MODULE WebDavRequestProofs ------------------------
(***************************************************************************)
(* Theorems about WebDavRequest, for every size of file, chunk and number  *)
(* in a header.                                                            *)
(***************************************************************************)
EXTENDS WebDavRequest, TLAPS

Requested ==
  /\ target \in Target
  /\ range \in Range \cup {None}
  /\ whole \in BOOLEAN

(* Nothing has been sent or promised yet. *)
Unanswered == sent = 0 /\ promised = 0 /\ cut = None /\ attempts = 0

(* The answer under way covers start .. end, and sent bytes of it are out. *)
Answering ==
  LET size == target.size
  IN  /\ target.kind = "file"
      /\ start \in Nat /\ end \in Nat /\ position \in Nat /\ sent \in Nat
      /\ position = start + sent
      /\ IF size = 0 THEN start = 0 /\ end = 0 /\ promised = 0
                     ELSE start <= end /\ end < size /\ promised = end - start + 1
      /\ position <= end
      /\ cut = None

PollInv == pc \in {"headers", "poll"} => Answering
HeadersInv == pc = "headers" => sent = 0
SendInv ==
  pc = "send" => Answering /\ bytesRead \in 1 .. MinOf(Asked, target.size - position)

DoneInv ==
  pc = "close" =>
    /\ sent <= promised
    /\ sent < promised => method = "HEAD" \/ cut # None

WebDavInv ==
  /\ pc \in {"recv", "dispatch", "headers", "poll", "send", "close"}
  /\ pc # "recv" => Requested
  /\ pc \in {"recv", "dispatch"} => Unanswered
  /\ PollInv /\ HeadersInv /\ SendInv /\ DoneInv
  /\ RangeHonoured

LEMMA TargetFacts ==
  ASSUME Requested
  PROVE  /\ target.size \in Nat
         /\ target.kind # "file" => target.size = 0
  <1>1. CASE target \in [kind : {"missing", "directory"}, size : {0}]
    BY <1>1
  <1>2. CASE target \in [kind : {"file"}, size : Sizes]
    BY <1>2, WebDavAssumption
  <1> QED BY <1>1, <1>2 DEF Requested, Target

(* parseRangeHeader finds the bytes a header names: none, or an interval.  *)
LEMMA RangeOfHeader ==
  ASSUME NEW h \in Range, NEW size \in Nat
  PROVE  LET parsed == parseRangeHeader(h, size)
         IN  /\ parsed = None <=> BytesOf(h, size) = {}
             /\ parsed # None =>
                  /\ parsed[1] \in Nat /\ parsed[2] \in Nat
                  /\ parsed[1] <= parsed[2] /\ parsed[2] < size
                  /\ parsed[1] .. parsed[2] = BytesOf(h, size)
  <1> DEFINE parsed == parseRangeHeader(h, size)
             end0 == IF h.last = Open THEN IF size = 0 THEN 0 ELSE size - 1 ELSE h.last
  <1>1. /\ h.first \in Nat \cup {None}
        /\ h.last \in Nat \cup {Open, None}
    BY WebDavAssumption DEF Range
  <1>2. CASE h.first = None \/ h.last = None
    BY <1>2 DEF parseRangeHeader, BytesOf
  <1>3. CASE h.first # None /\ h.last # None
    <2>1. h.first \in Nat /\ end0 \in Nat
      BY <1>1, <1>3
    <2>2. CASE h.first >= size \/ end0 < h.first
      <3>1. parsed = None
        BY <1>3, <2>2 DEF parseRangeHeader
      <3>2. ASSUME NEW b \in BytesOf(h, size) PROVE FALSE
        BY <1>1, <1>3, <2>1, <2>2, WebDavAssumption DEF BytesOf
      <3> QED BY <3>1, <3>2
    <2>3. CASE ~(h.first >= size \/ end0 < h.first)
      <3>1. parsed = <<h.first, MinOf(end0, size - 1)>>
        BY <1>3, <2>3 DEF parseRangeHeader
      <3>2. /\ MinOf(end0, size - 1) \in Nat
            /\ h.first <= MinOf(end0, size - 1)
            /\ MinOf(end0, size - 1) < size
        BY <2>1, <2>3 DEF MinOf
      <3>3. parsed # None
        BY <2>1, <3>1, <3>2, NoneAssumption
      <3>4. \A b : b \in h.first .. MinOf(end0, size - 1) <=> b \in BytesOf(h, size)
        BY <1>1, <1>3, <2>1, <2>3, WebDavAssumption DEF BytesOf, MinOf
      <3>5. h.first \in BytesOf(h, size)
        BY <2>1, <3>2, <3>4
      <3>6. h.first .. MinOf(end0, size - 1) = BytesOf(h, size)
        <4>1. h.first .. MinOf(end0, size - 1) \subseteq BytesOf(h, size)
          BY <3>4
        <4>2. BytesOf(h, size) \subseteq h.first .. MinOf(end0, size - 1)
          BY <3>4
        <4> QED BY <4>1, <4>2
      <3>7. BytesOf(h, size) # {}
        BY <3>5
      <3>8. parsed[1] = h.first /\ parsed[2] = MinOf(end0, size - 1)
        BY <3>1
      <3> HIDE DEF end0
      <3> QED BY <2>1, <3>2, <3>3, <3>6, <3>7, <3>8
    <2> QED BY <2>2, <2>3
  <1> QED BY <1>2, <1>3

LEMMA InvInit == Init => WebDavInv
  BY DEF Init, WebDavInv, Unanswered, PollInv, HeadersInv, SendInv, DoneInv, RangeHonoured

LEMMA PrepareInv ==
  ASSUME WebDavInv, Prepare
  PROVE  WebDavInv'
  <1> DEFINE size == target.size
             bytes == IF whole /\ range # None THEN BytesOf(range, size) ELSE {}
             parsed == IF whole /\ range # None THEN parseRangeHeader(range, size) ELSE None
  <1>1. /\ pc = "dispatch" /\ pc' = "headers"
        /\ Requested /\ Requested' /\ Unanswered
        /\ target.kind = "file" /\ size \in Nat
        /\ sent' = 0 /\ cut' = None
    BY TargetFacts DEF Prepare, WebDavInv, Requested, Unanswered, requestVars
  <1>2. /\ parsed = None <=> bytes = {}
        /\ parsed # None =>
             /\ parsed[1] \in Nat /\ parsed[2] \in Nat
             /\ parsed[1] <= parsed[2] /\ parsed[2] < size
             /\ parsed[1] .. parsed[2] = bytes
    BY <1>1, RangeOfHeader DEF Requested
  <1>3. /\ start' = IF parsed = None THEN 0 ELSE parsed[1]
        /\ end' = IF parsed # None THEN parsed[2] ELSE IF size = 0 THEN 0 ELSE size - 1
        /\ status' = IF parsed = None THEN 200 ELSE 206
        /\ position' = start'
        /\ promised' = ResponseLength(start', end', size)
        /\ UNCHANGED requestVars
    BY DEF Prepare
  <1> HIDE DEF parsed, bytes
  <1>4. /\ start' \in Nat /\ end' \in Nat /\ start' <= end'
        /\ IF size = 0 THEN start' = 0 /\ end' = 0 ELSE end' < size
    BY <1>1, <1>2, <1>3
  <1>5. IF size = 0 THEN promised' = 0 ELSE promised' = end' - start' + 1
    BY <1>3 DEF ResponseLength
  <1>6. Answering'
    BY <1>1, <1>3, <1>4, <1>5 DEF Answering, requestVars
  <1>7. /\ status' = 206 <=> bytes # {}
        /\ status' = 206 => start' .. end' = bytes
    BY <1>2, <1>3
  <1>8. RangeHonoured'
    BY <1>3, <1>7 DEF RangeHonoured, requestVars, bytes
  <1> QED BY <1>1, <1>6, <1>8 DEF WebDavInv, PollInv, HeadersInv, SendInv, DoneInv

(* Steps that leave the request and the interval alone keep the range. *)
LEMMA RangeKept ==
  ASSUME RangeHonoured, pc \in {"headers", "poll", "send"},
         UNCHANGED <<requestVars, status, start, end>>
  PROVE  RangeHonoured'
  BY DEF RangeHonoured, requestVars

LEMMA SendHeadersInv ==
  ASSUME WebDavInv, SendHeaders
  PROVE  WebDavInv'
  <1>1. /\ pc = "headers" /\ pc' \in {"poll", "close"}
        /\ Requested /\ Answering /\ RangeHonoured
        /\ pc' = "close" => method = "HEAD" \/ cut' # None
        /\ pc' = "poll" => cut' = None
    BY NoneAssumption DEF SendHeaders, WebDavInv, PollInv, Answering
  <1>2. /\ UNCHANGED <<requestVars, status, start, end>>
        /\ UNCHANGED <<position, promised, sent>>
    BY DEF SendHeaders
  <1>3. Requested' /\ RangeHonoured'
    BY <1>1, <1>2, RangeKept DEF Requested, requestVars
  <1>4. target.size \in Nat
    BY <1>1, TargetFacts
  <1>5. pc' = "poll" => Answering'
    BY <1>1, <1>2 DEF Answering, requestVars
  <1>6. pc' = "close" => sent' <= promised'
    BY <1>1, <1>2, <1>4 DEF WebDavInv, HeadersInv, Answering
  <1>7. method' = method
    BY <1>2 DEF requestVars
  <1> QED BY <1>1, <1>3, <1>5, <1>6, <1>7 DEF WebDavInv, PollInv, HeadersInv, SendInv, DoneInv

LEMMA PollReadsInv ==
  ASSUME WebDavInv, PollReads
  PROVE  WebDavInv'
  <1>1. /\ pc = "poll" /\ pc' = "send"
        /\ Requested /\ Answering /\ RangeHonoured
        /\ bytesRead' \in 1 .. MinOf(Asked, target.size - position)
    BY DEF PollReads, WebDavInv, PollInv
  <1>2. /\ UNCHANGED <<requestVars, status, start, end>>
        /\ UNCHANGED <<position, promised, sent, cut>>
    BY DEF PollReads
  <1>3. Requested' /\ RangeHonoured'
    BY <1>1, <1>2, RangeKept DEF Requested, requestVars
  <1>4. Answering' /\ Asked' = Asked /\ target' = target
    BY <1>1, <1>2 DEF Answering, Asked, requestVars
  <1>5. SendInv'
    BY <1>1, <1>2, <1>4 DEF SendInv
  <1> QED BY <1>1, <1>3, <1>5 DEF WebDavInv, PollInv, HeadersInv, DoneInv

LEMMA PollNothingInv ==
  ASSUME WebDavInv, PollNothing
  PROVE  WebDavInv'
  <1>1. /\ pc = "poll" /\ pc' \in {"poll", "close"}
        /\ Requested /\ Answering /\ RangeHonoured
        /\ pc' = "close" => cut' # None
        /\ pc' = "poll" => cut' = None
    BY NoneAssumption DEF PollNothing, WebDavInv, PollInv, Answering
  <1>2. /\ UNCHANGED <<requestVars, status, start, end>>
        /\ UNCHANGED <<position, promised, sent>>
    BY DEF PollNothing
  <1>3. Requested' /\ RangeHonoured'
    BY <1>1, <1>2, RangeKept DEF Requested, requestVars
  <1>4. pc' = "poll" => Answering'
    BY <1>1, <1>2 DEF Answering, requestVars
  <1>5. sent' <= promised'
    <2>1. target.size \in Nat
      BY <1>1, TargetFacts
    <2> QED BY <1>1, <1>2, <2>1 DEF Answering
  <1> QED BY <1>1, <1>3, <1>4, <1>5 DEF WebDavInv, PollInv, HeadersInv, SendInv, DoneInv

LEMMA SendChunkInv ==
  ASSUME WebDavInv, SendChunk
  PROVE  WebDavInv'
  <1> DEFINE size == target.size
  <1>1. /\ pc = "send" /\ pc' \in {"poll", "close"}
        /\ Requested /\ Answering /\ RangeHonoured
        /\ bytesRead \in 1 .. MinOf(Asked, size - position)
    BY DEF SendChunk, WebDavInv, SendInv
  <1>2. UNCHANGED <<requestVars, status, start, end>> /\ promised' = promised
    BY DEF SendChunk
  <1>3. Requested' /\ RangeHonoured'
    BY <1>1, <1>2, RangeKept DEF Requested, requestVars
  <1>4. size \in Nat /\ target' = target /\ ChunkSize \in Nat
    BY <1>1, <1>2, TargetFacts, WebDavAssumption DEF requestVars
  <1>5. /\ bytesRead \in Nat /\ size # 0
        /\ position + bytesRead <= end + 1
    BY <1>1, <1>4 DEF Answering, Asked, MinOf
  <1>6. /\ start <= end /\ end < size /\ promised = end - start + 1 /\ position = start + sent
        /\ start \in Nat /\ end \in Nat /\ sent \in Nat /\ position \in Nat /\ cut = None
    BY <1>1, <1>5 DEF Answering
  <1>7. CASE /\ position' = position + bytesRead
             /\ sent' = sent + bytesRead
             /\ pc' = IF position' <= end THEN "poll" ELSE "close"
             /\ UNCHANGED cut
    <2>1. pc' = "poll" => Answering'
      BY <1>1, <1>2, <1>4, <1>5, <1>6, <1>7 DEF Answering
    <2>2. sent' <= promised' /\ (pc' = "close" => sent' = promised')
      BY <1>2, <1>5, <1>6, <1>7
    <2> QED BY <1>1, <1>3, <1>5, <1>6, <1>7, <2>1, <2>2
            DEF WebDavInv, PollInv, HeadersInv, SendInv, DoneInv
  <1>8. CASE /\ pc' = "close"
             /\ cut' = "client"
             /\ UNCHANGED <<position, sent>>
    <2>1. cut' # None
      BY <1>8, NoneAssumption
    <2>2. sent' <= promised'
      BY <1>1, <1>2, <1>5, <1>6, <1>8 DEF Answering
    <2> QED BY <1>3, <1>8, <2>1, <2>2
            DEF WebDavInv, PollInv, HeadersInv, SendInv, DoneInv
  <1> QED BY <1>7, <1>8 DEF SendChunk

LEMMA InvStep == WebDavInv /\ [Next]_vars => WebDavInv'
  <1> SUFFICES ASSUME WebDavInv, [Next]_vars PROVE WebDavInv'
    OBVIOUS
  <1> USE DEF WebDavInv, PollInv, HeadersInv, SendInv, DoneInv
  <1>1. CASE Receive
    BY <1>1 DEF Receive, Requested, Unanswered, bodyVars, RangeHonoured
  <1>2. CASE Answer
    BY <1>2 DEF Answer, Requested, Unanswered, requestVars, bodyVars, RangeHonoured
  <1>3. CASE Close
    BY <1>3 DEF Close, Unanswered, RangeHonoured
  <1>4. CASE UNCHANGED vars
    BY <1>4 DEF vars, Requested, Unanswered, Answering, Asked, requestVars, bodyVars, RangeHonoured
  <1> QED BY <1>1, <1>2, <1>3, <1>4, PrepareInv, SendHeadersInv, PollReadsInv,
             PollNothingInv, SendChunkInv DEF Next, ServerStep

LEMMA AlwaysWebDavInv == Spec => []WebDavInv
  BY InvInit, InvStep, PTL DEF Spec

(* Range headers mean what they say, for all sizes and numbers             *)
(* (WebDavServer.cpp:152-172, 361-371).                                    *)
THEOREM RangesHonoured == Spec => []RangeHonoured
  <1>1. WebDavInv => RangeHonoured
    BY DEF WebDavInv
  <1> QED BY <1>1, AlwaysWebDavInv, PTL

(* No answer is longer than its Content-Length, or shorter without a       *)
(* reason (WebDavServer.cpp:371-414).                                      *)
THEOREM PromisesKept == Spec => []PromiseKept
  <1>1. WebDavInv => PromiseKept
    <2> SUFFICES ASSUME WebDavInv PROVE PromiseKept
      OBVIOUS
    <2>1. CASE pc \in {"recv", "dispatch"}
      BY <2>1 DEF WebDavInv, Unanswered, PromiseKept
    <2>2. CASE pc = "close"
      BY <2>2 DEF WebDavInv, DoneInv, PromiseKept
    <2>3. CASE pc \in {"headers", "poll", "send"}
      <3>1. Requested /\ Answering
        BY <2>3 DEF WebDavInv, PollInv, SendInv
      <3>2. target.size \in Nat /\ ChunkSize \in Nat
        BY <3>1, TargetFacts, WebDavAssumption
      <3> QED BY <2>3, <3>1, <3>2 DEF PromiseKept, Answering, Asked, MinOf
    <2> QED BY <2>1, <2>2, <2>3 DEF WebDavInv
  <1> QED BY <1>1, AlwaysWebDavInv, PTL
=============================================================================
