---------------------------- MODULE TorrentEngine ----------------------------
(***************************************************************************)
(* The peer side of a read (src/src/TorrentEngine.cpp): queueRead pushes   *)
(* its range and then pumps once.  Both operations take the same mutex;    *)
(* pumpOnce keeps it while it connects, so connecting and sending are      *)
(* steps of their own with the lock held.                                  *)
(*                                                                         *)
(* There is one connection, to the first of the DHT bootstrap nodes: the   *)
(* list of peers is filled with them before the tracker is looked at, so   *)
(* the tracker is never asked.  A connection that fails later is not       *)
(* noticed: the object stays, and sends on it go nowhere.                  *)
(***************************************************************************)
EXTENDS PeerWire

CONSTANTS
  Threads,      \* threads that call queueRead
  Files,
  Size,         \* Size[f]: bytes of f
  Index,        \* Index[f]: the place of f in the torrent's list of files
  PieceLength,  \* metadata_.pieceLength(), as the torrent gives it
  InitialWindow, ReadAhead, MaxBlock,  \* 1 MiB, 2 MiB and 16 KiB in the code
  Reads,        \* bound of the model: the files, offsets and lengths read
  MaxPushes,    \* bound of the model: requests pushed
  Cuts,         \* bound of the model: how much of the last messages gets through
  None

ASSUME EngineAssumption ==
  /\ Size \in [Files -> Nat]
  /\ Index \in [Files -> Nat]
  /\ \A f, g \in Files : Index[f] = Index[g] => f = g
  /\ IsFiniteSet(Files)
  /\ PieceLength \in Nat /\ PieceLength % Word32 # 0  \* or pumpOnce divides by zero
  /\ {InitialWindow, ReadAhead, MaxBlock} \subseteq Nat \ {0}
  /\ MaxBlock < Word32
  /\ Reads \subseteq [file : Files, off : Nat, len : Nat]
  /\ Cuts \subseteq Nat
  /\ IsFiniteSet(Threads)
  /\ None \notin Threads

VARIABLES
  peers,     \* "none" or "bootstrap"
  conn,      \* peerConnection_: "none", "up", or "broken" by the network
  requests,  \* requests_, front first
  lock,      \* the owner of mutex_, or None
  pc,        \* where each thread is
  arg,       \* the range its read asks for
  wire,      \* the bytes that reach the peer
  asked,     \* history: what the peer has been asked, with the block meant
  pushed,    \* history: every request ever pushed
  failures   \* history: pumps that could not connect

vars == <<peers, conn, requests, lock, pc, arg, wire, asked, pushed, failures>>

Min2(a, b) == IF a <= b THEN a ELSE b
Max2(a, b) == IF a >= b THEN a ELSE b

(* Where a file begins in the torrent: after all that are listed before it. *)
Offset ==
  [f \in Files |-> MapThenSumSet(LAMBDA g : Size[g], {g \in Files : Index[g] < Index[f]})]

ClampUnbounded(f, off, len) ==  \* faulty variant: the end of the file is forgotten
  IF off >= Size[f] THEN 0 ELSE IF len = 0 THEN InitialWindow ELSE Max2(len, ReadAhead)

(* How much a read of len bytes asks for: a read-ahead window, up to the end. *)
ClampStreamWindow(f, off, len) ==
  IF off >= Size[f] THEN 0
  ELSE Min2(Size[f] - off, IF len = 0 THEN InitialWindow ELSE Max2(len, ReadAhead))

(* The block of a request, in the coordinates of the wire protocol, which  *)
(* go wrong when the length of a piece does not fit into 32 bits.          *)
pieceLength == PieceLength % Word32

BlockOf(q) ==
  LET global == Offset[q.file] + q.off
  IN  [piece |-> (global \div pieceLength) % Word32,
       begin |-> global % pieceLength,
       len   |-> Min2(q.len, MaxBlock)]

Init ==
  /\ peers = "none"
  /\ conn = "none"
  /\ requests = <<>>
  /\ lock = None
  /\ pc = [t \in Threads |-> "idle"]
  /\ arg = [t \in Threads |-> None]
  /\ wire = <<>>
  /\ asked = <<>>
  /\ pushed = <<>>
  /\ failures = 0

(* queueRead comes to its engine calls; a window of length 0 never does. *)
QueueRead(t) ==
  /\ pc[t] = "idle"
  /\ \E r \in Reads :
       LET window == ClampStreamWindow(r.file, r.off, r.len)
       IN  /\ window # 0
           /\ arg' = [arg EXCEPT ![t] = [r EXCEPT !.len = window]]
  /\ pc' = [pc EXCEPT ![t] = "push"]
  /\ UNCHANGED <<peers, conn, requests, lock, wire, asked, pushed, failures>>

RequestFileData(t) ==
  /\ pc[t] = "push"
  /\ lock = None
  /\ Len(pushed) < MaxPushes
  /\ requests' = Append(requests, arg[t])
  /\ pushed' = Append(pushed, arg[t])
  /\ pc' = [pc EXCEPT ![t] = "pump"]
  /\ UNCHANGED <<peers, conn, lock, arg, wire, asked, failures>>

Leave(t) ==
  /\ lock' = None
  /\ pc' = [pc EXCEPT ![t] = "idle"]
  /\ arg' = [arg EXCEPT ![t] = None]

(* pumpOnce, up to the connection. *)
PumpOnce(t) ==
  /\ pc[t] = "pump"
  /\ lock = None
  /\ lock' = t
  /\ peers' = "bootstrap"
  /\ pc' = [pc EXCEPT ![t] = IF conn = "none" THEN "connect" ELSE "send"]
  /\ UNCHANGED <<conn, requests, arg, wire, asked, pushed, failures>>

Connect(t) ==
  /\ pc[t] = "connect"
  /\ \/ /\ conn' = "up"
        /\ pc' = [pc EXCEPT ![t] = "send"]
        /\ UNCHANGED <<lock, arg, failures>>
     \/ /\ Leave(t)
        /\ failures' = failures + 1
        /\ UNCHANGED conn
  /\ UNCHANGED <<peers, requests, wire, asked, pushed>>

(* sendInterested and, if the socket took that, requestBlock: all of it    *)
(* gets through, or a part and then the connection is gone.                *)
RequestBlock(q) ==
  LET block == BlockOf(q)
      bytes == encodeMessage(InterestedMessage) \o encodeMessage(RequestMessage(block))
  IN  IF conn = "up"
      THEN /\ asked' = Append(asked, [req |-> q, block |-> block])
           /\ \/ wire' = wire \o bytes /\ UNCHANGED conn
              \/ /\ \E k \in Cuts : wire' = wire \o SubSeq(bytes, 1, Min2(k, Len(bytes) - 1))
                 /\ conn' = "broken"
      ELSE UNCHANGED <<conn, wire, asked>>

SendKeepsFront(t) ==  \* faulty variant: a request is popped only if the send fails
  /\ pc[t] = "send"
  /\ requests # <<>>
  /\ RequestBlock(Head(requests))
  /\ requests' = IF conn = "up" THEN requests ELSE Tail(requests)
  /\ Leave(t)
  /\ UNCHANGED <<peers, pushed, failures>>

SendNewest(t) ==  \* faulty variant: the newest request is sent, the oldest popped
  /\ pc[t] = "send"
  /\ requests # <<>>
  /\ RequestBlock(requests[Len(requests)])
  /\ requests' = Tail(requests)
  /\ Leave(t)
  /\ UNCHANGED <<peers, pushed, failures>>

(* The front is asked for and popped, whatever came of it. *)
Send(t) ==
  /\ pc[t] = "send"
  /\ IF requests = <<>>
       THEN UNCHANGED <<conn, requests, wire, asked>>
       ELSE /\ RequestBlock(Head(requests))
            /\ requests' = Tail(requests)
  /\ Leave(t)
  /\ UNCHANGED <<peers, pushed, failures>>

(* The network, or the node, drops the connection. *)
Break ==
  /\ conn = "up"
  /\ conn' = "broken"
  /\ UNCHANGED <<peers, requests, lock, pc, arg, wire, asked, pushed, failures>>

Next ==
  \/ \E t \in Threads : QueueRead(t) \/ RequestFileData(t) \/ PumpOnce(t) \/ Connect(t) \/ Send(t)
  \/ Break

Spec == Init /\ [][Next]_vars

-----------------------------------------------------------------------------
(* Properties *)

Pumping == {t \in Threads : pc[t] \in {"pump", "connect", "send"}}

(* A pump takes one request and every push is followed by one pump, so the *)
(* queue holds one request per thread on its way and one for every pump    *)
(* that could not connect: those are never caught up with, each later read *)
(* sends an older one's block (TorrentEngine.cpp:37-43, 80-98).            *)
QueueAccounted == Len(requests) = Cardinality(Pumping) + failures

(* As long as the connection lives, the peer is asked for exactly what was *)
(* pushed, in that order, each once - across threads and failed connects   *)
(* (TorrentEngine.cpp:88-97).                                              *)
AskedInOrder == conn # "broken" => pushed = [i \in DOMAIN asked |-> asked[i].req] \o requests

FileBytes(f) == Offset[f] .. Offset[f] + Size[f] - 1
TotalSize == MapThenSumSet(LAMBDA f : Size[f], Files)

(* The blocks asked for are bytes of the torrent and of no other file than *)
(* the one that is read: file offsets, window and piece arithmetic fit     *)
(* together as long as the length of a piece fits into 32 bits             *)
(* (TorrentMetadata.cpp:74-87, TorrentSession.cpp:23-32,                   *)
(* TorrentEngine.cpp:89-95).                                               *)
BlockInFile ==
  PieceLength < Word32 => \A i \in DOMAIN asked :
    LET b == asked[i].block
        first == b.piece * PieceLength + b.begin
        others == UNION {FileBytes(g) : g \in Files \ {asked[i].req.file}}
    IN  first .. first + b.len - 1 \subseteq (0 .. TotalSize - 1) \ others

(* The messages at the front of the data, one behind the other. *)
Decoded(data) ==
  LET from[i \in Nat \ {0}] ==
        LET rest == SubSeq(data, i, Len(data))
            m == decodeMessage(rest)
        IN  IF m = NoMessage THEN <<>>
            ELSE <<m>> \o from[i + 4 + NumberOf4(SubSeq(rest, 1, 4))]
  IN  from[1]

(* The block a request names. *)
Field(m, k) == NumberOf4(SubSeq(m.payload, 4 * k - 3, 4 * k))
BlockIn(m) == [piece |-> Field(m, 1), begin |-> Field(m, 2), len |-> Field(m, 3)]

(* A peer that reads the stream message by message is interested in, and   *)
(* asked for, exactly the blocks that were meant - and when the connection *)
(* goes in the middle of a message, for no others (PeerConnection.cpp:     *)
(* 62-74, 114-135, PeerProtocol.cpp:43-57).                                *)
WireDecodes ==
  LET messages == Decoded(wire)
      read == [k \in DOMAIN messages |->
                 IF messages[k].type = Request THEN BlockIn(messages[k]) ELSE messages[k]]
      meant == [k \in 1 .. 2 * Len(asked) |->
                  IF k % 2 = 1 THEN InterestedMessage ELSE asked[k \div 2].block]
  IN  IF conn = "broken" THEN IsPrefix(read, meant) ELSE read = meant
=============================================================================
