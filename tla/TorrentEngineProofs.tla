------------------------- MODULE TorrentEngineProofs -------------------------
(***************************************************************************)
(* Theorems about TorrentEngine, for every set of threads, every torrent   *)
(* and every window.                                                       *)
(***************************************************************************)
EXTENDS TorrentEngine, DataTheorems

-----------------------------------------------------------------------------
(* Where files lie in the torrent. *)

Before(f) == {g \in Files : Index[g] < Index[f]}

LEMMA OffsetIsSum ==
  ASSUME NEW f \in Files
  PROVE  /\ Offset[f] = SumOf(Size, Before(f))
         /\ Offset[f] \in Nat
         /\ Offset[f] + Size[f] = SumOf(Size, Before(f) \cup {f})
  <1>1. Offset[f] = SumOf(Size, Before(f))
    BY DEF Offset, SumOf, Before
  <1>2. IsFiniteSet(Before(f)) /\ IsFiniteSet(Before(f) \cup {f})
    BY FS_Subset, EngineAssumption DEF Before
  <1>3. Size[f] \in Nat /\ (\A g \in Before(f) \cup {f} : Size[g] \in Nat)
    BY EngineAssumption DEF Before
  <1>4. SumOf(Size, Before(f)) \in Nat
    BY <1>2, <1>3, SumType
  <1>5. f \notin Before(f)
    BY EngineAssumption DEF Before
  <1>6. SumOf(Size, Before(f) \cup {f}) = Size[f] + SumOf(Size, Before(f))
    BY <1>2, <1>3, <1>5, SumAdd
  <1> QED BY <1>1, <1>3, <1>4, <1>6

LEMMA TotalIsSum ==
  /\ TotalSize = SumOf(Size, Files)
  /\ TotalSize \in Nat
  <1>1. TotalSize = SumOf(Size, Files)
    BY DEF TotalSize, SumOf
  <1> QED BY <1>1, SumType, EngineAssumption

(* Every file ends before the next begins and before the torrent ends. *)
LEMMA FilesApart ==
  ASSUME NEW f \in Files
  PROVE  /\ Offset[f] + Size[f] <= TotalSize
         /\ \A g \in Files : Index[f] < Index[g] => Offset[f] + Size[f] <= Offset[g]
  <1>1. Offset[f] + Size[f] = SumOf(Size, Before(f) \cup {f})
    BY OffsetIsSum
  <1>2. IsFiniteSet(Files) /\ \A k \in Files : Size[k] \in Nat
    BY EngineAssumption
  <1>3. Before(f) \cup {f} \subseteq Files
    BY DEF Before
  <1>4. SumOf(Size, Before(f) \cup {f}) <= SumOf(Size, Files)
    BY <1>2, <1>3, SumMonotonic
  <1>5. ASSUME NEW g \in Files, Index[f] < Index[g]
        PROVE  Offset[f] + Size[f] <= Offset[g]
    <2>1. Before(f) \cup {f} \subseteq Before(g)
      BY <1>5, EngineAssumption DEF Before
    <2>2. IsFiniteSet(Before(g)) /\ \A k \in Before(g) : Size[k] \in Nat
      BY <1>2, FS_Subset DEF Before
    <2>3. SumOf(Size, Before(f) \cup {f}) <= SumOf(Size, Before(g))
      BY <2>1, <2>2, SumMonotonic
    <2> QED BY <1>1, <2>3, OffsetIsSum
  <1> QED BY <1>1, <1>4, <1>5, TotalIsSum

-----------------------------------------------------------------------------
(* What a read asks for is inside its file. *)
Wanted == {q \in [file : Files, off : Nat, len : Nat] :
             q.len > 0 /\ q.off + q.len <= Size[q.file]}

Asked == {[req |-> q, block |-> BlockOf(q)] : q \in Wanted}

(* The type invariant: every request is one that a read wanted, every      *)
(* block the one that was meant.                                           *)
EngineType ==
  /\ conn \in {"none", "up", "broken"}
  /\ lock \in Threads \cup {None}
  /\ pc \in [Threads -> {"idle", "push", "pump", "connect", "send"}]
  /\ arg \in [Threads -> Wanted \cup {None}]
  /\ \A t \in Threads : pc[t] = "push" => arg[t] \in Wanted
  /\ requests \in Seq(Wanted)
  /\ pushed \in Seq(Wanted)
  /\ asked \in Seq(Asked)
  /\ failures \in Nat

(* Only the owner of mutex_ connects and sends, and it connects only while *)
(* there is no connection object.                                          *)
LockHeld ==
  \A t \in Threads :
    /\ pc[t] \in {"connect", "send"} <=> lock = t
    /\ pc[t] = "connect" => conn = "none"
    /\ pc[t] = "send" => conn # "none"

Safe == EngineType /\ LockHeld

LEMMA WindowInFile ==
  ASSUME NEW r \in Reads, ClampStreamWindow(r.file, r.off, r.len) # 0
  PROVE  [r EXCEPT !.len = ClampStreamWindow(r.file, r.off, r.len)] \in Wanted
  <1> DEFINE w == ClampStreamWindow(r.file, r.off, r.len)
  <1>1. r \in [file : Files, off : Nat, len : Nat] /\ Size[r.file] \in Nat
    BY EngineAssumption
  <1>2. w \in Nat /\ w > 0 /\ r.off + w <= Size[r.file]
    BY <1>1, EngineAssumption DEF ClampStreamWindow, Min2, Max2
  <1> HIDE DEF w
  <1> DEFINE q == [r EXCEPT !.len = w]
  <1>3. q = [file |-> r.file, off |-> r.off, len |-> w]
    BY <1>1
  <1>4. q \in Wanted
    BY <1>1, <1>2, <1>3 DEF Wanted
  <1> QED BY <1>4 DEF w

LEMMA SafeInit == Init => Safe
  BY EngineAssumption DEF Init, Safe, EngineType, LockHeld

LEMMA SafeStep == Safe /\ [Next]_vars => Safe'
  <1> SUFFICES ASSUME Safe, [Next]_vars PROVE Safe'
    OBVIOUS
  <1> USE DEF Safe, EngineType
  <1>1. ASSUME NEW t \in Threads, QueueRead(t) PROVE Safe'
    <2>1. PICK r \in Reads :
            /\ ClampStreamWindow(r.file, r.off, r.len) # 0
            /\ arg' = [arg EXCEPT ![t] = [r EXCEPT !.len = ClampStreamWindow(r.file, r.off, r.len)]]
      BY <1>1 DEF QueueRead
    <2> DEFINE q == [r EXCEPT !.len = ClampStreamWindow(r.file, r.off, r.len)]
    <2>2. q \in Wanted
      BY <2>1, WindowInFile
    <2>3. arg' = [arg EXCEPT ![t] = q]
      BY <2>1
    <2> HIDE DEF q
    <2>4. EngineType'
      BY <1>1, <2>2, <2>3 DEF QueueRead
    <2>5. LockHeld'
      BY <1>1 DEF QueueRead, LockHeld
    <2> QED BY <2>4, <2>5
  <1>2. ASSUME NEW t \in Threads, RequestFileData(t) PROVE Safe'
    <2>1. arg[t] \in Wanted
      BY <1>2 DEF RequestFileData
    <2>2. EngineType'
      BY <1>2, <2>1 DEF RequestFileData
    <2>3. LockHeld'
      BY <1>2 DEF RequestFileData, LockHeld
    <2> QED BY <2>2, <2>3
  <1>3. ASSUME NEW t \in Threads, PumpOnce(t) PROVE Safe'
    BY <1>3, EngineAssumption DEF PumpOnce, LockHeld
  <1>4. ASSUME NEW t \in Threads, Connect(t) PROVE Safe'
    <2>1. EngineType'
      <3>1. /\ UNCHANGED <<requests, asked, pushed>>
            /\ conn' \in {"up", conn} /\ lock' \in {lock, None}
            /\ failures' \in {failures, failures + 1}
            /\ arg' \in {arg, [arg EXCEPT ![t] = None]}
            /\ pc' \in {[pc EXCEPT ![t] = "send"], [pc EXCEPT ![t] = "idle"]}
        BY <1>4 DEF Connect, Leave
      <3>2. pc' \in [Threads -> {"idle", "push", "pump", "connect", "send"}]
        BY <3>1
      <3>3. arg' \in [Threads -> Wanted \cup {None}]
        BY <3>1
      <3>4. \A u \in Threads : pc'[u] = "push" => arg'[u] \in Wanted
        BY <3>1
      <3>5. conn' \in {"none", "up", "broken"} /\ lock' \in Threads \cup {None} /\ failures' \in Nat
        BY <3>1
      <3> QED BY <3>1, <3>2, <3>3, <3>4, <3>5
    <2>2. pc[t] = "connect" /\ lock = t /\ \A u \in Threads \ {t} : pc[u] \notin {"connect", "send"}
      BY <1>4 DEF Connect, LockHeld
    <2>3. \A u \in Threads \ {t} : pc'[u] = pc[u]
      BY <1>4 DEF Connect, Leave
    <2>4. \/ pc'[t] = "send" /\ conn' = "up" /\ lock' = lock
          \/ pc'[t] = "idle" /\ lock' = None
      BY <1>4 DEF Connect, Leave
    <2>5. LockHeld'
      BY <2>2, <2>3, <2>4, EngineAssumption DEF LockHeld
    <2> QED BY <2>1, <2>5
  <1>5. ASSUME NEW t \in Threads, Send(t) PROVE Safe'
    <2>1. requests' \in Seq(Wanted) /\ asked' \in Seq(Asked)
      <3>1. CASE requests = <<>>
        BY <1>5, <3>1 DEF Send
      <3>2. CASE requests # <<>>
        <4>1. Head(requests) \in Wanted /\ Tail(requests) \in Seq(Wanted)
          BY <3>2, HeadTailProperties
        <4>2. [req |-> Head(requests), block |-> BlockOf(Head(requests))] \in Asked
          BY <4>1 DEF Asked
        <4>3. asked' \in {asked, Append(asked, [req |-> Head(requests), block |-> BlockOf(Head(requests))])}
          BY <1>5, <3>2 DEF Send, RequestBlock
        <4>4. requests' = Tail(requests)
          BY <1>5, <3>2 DEF Send
        <4> DEFINE e == [req |-> Head(requests), block |-> BlockOf(Head(requests))]
        <4>5. asked' \in Seq(Asked)
          <5>1. asked \in Seq(Asked) /\ e \in Asked /\ asked' \in {asked, Append(asked, e)}
            BY <4>2, <4>3
          <5> HIDE DEF e
          <5>2. Append(asked, e) \in Seq(Asked)
            BY <5>1, AppendProperties
          <5> QED BY <5>1, <5>2
        <4> QED BY <4>1, <4>4, <4>5
      <3> QED BY <3>1, <3>2
    <2>2. conn' \in {conn, "broken"} /\ (conn = "none" => conn' = "none")
      BY <1>5 DEF Send, RequestBlock
    <2>3. EngineType'
      BY <1>5, <2>1, <2>2 DEF Send, Leave
    <2>4. LockHeld'
      BY <1>5, <2>2, EngineAssumption DEF Send, Leave, LockHeld
    <2> QED BY <2>3, <2>4
  <1>6. ASSUME Break PROVE Safe'
    BY <1>6 DEF Break, LockHeld
  <1>7. CASE UNCHANGED vars
    BY <1>7 DEF vars, LockHeld
  <1> QED BY <1>1, <1>2, <1>3, <1>4, <1>5, <1>6, <1>7 DEF Next

-----------------------------------------------------------------------------
(* The queue. *)

LEMMA ThreadEnters ==
  ASSUME Safe, NEW t \in Threads, t \notin Pumping, Pumping' = Pumping \cup {t}
  PROVE  Cardinality(Pumping)' = Cardinality(Pumping) + 1
  <1>1. IsFiniteSet(Pumping)
    BY FS_Subset, EngineAssumption DEF Pumping
  <1>2. Cardinality(Pumping \cup {t}) = Cardinality(Pumping) + 1
    BY <1>1, FS_AddElement
  <1> QED BY <1>2

LEMMA ThreadLeaves ==
  ASSUME Safe, NEW t \in Threads, t \in Pumping, Pumping' = Pumping \ {t}
  PROVE  /\ Cardinality(Pumping)' = Cardinality(Pumping) - 1
         /\ Cardinality(Pumping) >= 1
  <1>1. IsFiniteSet(Pumping)
    BY FS_Subset, EngineAssumption DEF Pumping
  <1>2. Cardinality(Pumping \ {t}) = Cardinality(Pumping) - 1
    BY <1>1, FS_RemoveElement
  <1>3. IsFiniteSet(Pumping \ {t}) /\ Cardinality(Pumping) \in Nat
    BY <1>1, FS_Subset, FS_CardinalityType
  <1>4. Cardinality(Pumping \ {t}) \in Nat
    BY <1>3, FS_CardinalityType
  <1> QED BY <1>2, <1>3, <1>4

LEMMA CountType == Safe => Cardinality(Pumping) \in Nat
  <1>1. IsFiniteSet(Pumping)
    BY FS_Subset, EngineAssumption DEF Pumping
  <1> QED BY <1>1, FS_CardinalityType

LEMMA QueueInit == Init => QueueAccounted
  <1> SUFFICES ASSUME Init PROVE QueueAccounted
    OBVIOUS
  <1>1. Pumping = {}
    BY DEF Init, Pumping
  <1>2. Cardinality(Pumping) = 0
    BY <1>1, FS_EmptySet
  <1> QED BY <1>2 DEF Init, QueueAccounted

LEMMA QueueStep == Safe /\ QueueAccounted /\ [Next]_vars => QueueAccounted'
  <1> SUFFICES ASSUME Safe, QueueAccounted, [Next]_vars PROVE QueueAccounted'
    OBVIOUS
  <1>0. Cardinality(Pumping) \in Nat /\ failures \in Nat /\ requests \in Seq(Wanted)
    BY CountType DEF Safe, EngineType
  <1> USE DEF Safe, EngineType
  <1>1. ASSUME NEW t \in Threads, QueueRead(t) PROVE QueueAccounted'
    <2>1. Pumping' = Pumping
      BY <1>1 DEF QueueRead, Pumping
    <2> QED BY <1>1, <2>1 DEF QueueRead, QueueAccounted
  <1>2. ASSUME NEW t \in Threads, RequestFileData(t) PROVE QueueAccounted'
    <2>1. t \notin Pumping /\ Pumping' = Pumping \cup {t}
      BY <1>2 DEF RequestFileData, Pumping
    <2>2. Cardinality(Pumping)' = Cardinality(Pumping) + 1
      BY <2>1, ThreadEnters
    <2>3. Len(requests') = Len(requests) + 1
      BY <1>2 DEF RequestFileData
    <2>4. failures' = failures
      BY <1>2 DEF RequestFileData
    <2> QED BY <1>0, <2>2, <2>3, <2>4 DEF QueueAccounted
  <1>3. ASSUME NEW t \in Threads, PumpOnce(t) PROVE QueueAccounted'
    <2>1. Pumping' = Pumping
      BY <1>3 DEF PumpOnce, Pumping
    <2> QED BY <1>3, <2>1 DEF PumpOnce, QueueAccounted
  <1>4. ASSUME NEW t \in Threads, Connect(t) PROVE QueueAccounted'
    <2>1. CASE pc' = [pc EXCEPT ![t] = "send"] /\ failures' = failures
      <3>1. Pumping' = Pumping
        BY <1>4, <2>1 DEF Connect, Pumping
      <3> QED BY <1>4, <2>1, <3>1 DEF Connect, QueueAccounted
    <2>2. CASE Leave(t) /\ failures' = failures + 1
      <3>1. t \in Pumping /\ Pumping' = Pumping \ {t}
        BY <1>4, <2>2 DEF Connect, Leave, Pumping
      <3>2. Cardinality(Pumping)' = Cardinality(Pumping) - 1
        BY <3>1, ThreadLeaves
      <3>3. requests' = requests
        BY <1>4 DEF Connect
      <3> QED BY <1>0, <2>2, <3>2, <3>3 DEF QueueAccounted
    <2> QED BY <1>4, <2>1, <2>2 DEF Connect
  <1>5. ASSUME NEW t \in Threads, Send(t) PROVE QueueAccounted'
    <2>1. t \in Pumping /\ Pumping' = Pumping \ {t}
      BY <1>5 DEF Send, Leave, Pumping
    <2>2. Cardinality(Pumping)' = Cardinality(Pumping) - 1 /\ Cardinality(Pumping) >= 1
      BY <2>1, ThreadLeaves
    <2>3. requests # <<>>
      BY <1>0, <2>2 DEF QueueAccounted
    <2>4. requests' = Tail(requests) /\ failures' = failures
      BY <1>5, <2>3 DEF Send
    <2>5. Len(requests') = Len(requests) - 1
      BY <2>3, <2>4
    <2> QED BY <1>0, <2>2, <2>4, <2>5 DEF QueueAccounted
  <1>6. ASSUME Break PROVE QueueAccounted'
    BY <1>6 DEF Break, QueueAccounted, Pumping
  <1>7. CASE UNCHANGED vars
    BY <1>7 DEF vars, QueueAccounted, Pumping
  <1> QED BY <1>1, <1>2, <1>3, <1>4, <1>5, <1>6, <1>7 DEF Next

(* However many threads read and however often connecting fails, the queue *)
(* holds one request for every pump on its way and one for every failure.  *)
THEOREM QueueStaysAccounted == Spec => []QueueAccounted
  BY SafeInit, SafeStep, QueueInit, QueueStep, PTL DEF Spec

-----------------------------------------------------------------------------
(* The order in which the peer is asked. *)

LEMMA AppendToConcat ==
  ASSUME NEW s \in Seq(Wanted), NEW q \in Seq(Wanted), NEW e \in Wanted
  PROVE  Append(s \o q, e) = s \o Append(q, e)
  <1>1. Append(q, e) = q \o <<e>> /\ <<e>> \in Seq(Wanted) /\ s \o q \in Seq(Wanted)
    BY AppendIsConcat
  <1>2. Append(s \o q, e) = (s \o q) \o <<e>>
    BY <1>1, AppendIsConcat
  <1>3. (s \o q) \o <<e>> = s \o (q \o <<e>>)
    BY <1>1, ConcatAssociative
  <1> QED BY <1>1, <1>2, <1>3

Requested == [i \in DOMAIN asked |-> asked[i].req]

LEMMA OrderInit == Init => AskedInOrder
  BY DEF Init, AskedInOrder

LEMMA OrderStep == Safe /\ AskedInOrder /\ [Next]_vars => AskedInOrder'
  <1> SUFFICES ASSUME Safe, AskedInOrder, [Next]_vars, conn' # "broken"
               PROVE  pushed' = Requested' \o requests'
    BY DEF AskedInOrder, Requested
  <1>1. Requested \in Seq(Wanted) /\ requests \in Seq(Wanted)
    BY DEF Safe, EngineType, Requested, Asked
  <1>2. ASSUME NEW t \in Threads, RequestFileData(t) PROVE pushed' = Requested' \o requests'
    <2>1. pushed = Requested \o requests /\ Requested' = Requested
      BY <1>2 DEF RequestFileData, AskedInOrder, Requested
    <2>2. /\ pushed' = Append(Requested \o requests, arg[t])
          /\ requests' = Append(requests, arg[t])
          /\ arg[t] \in Wanted
      BY <1>2, <2>1 DEF RequestFileData, Safe, EngineType
    <2>3. Append(Requested \o requests, arg[t]) = Requested \o Append(requests, arg[t])
      <3>1. arg[t] \in Wanted
        BY <2>2
      <3> QED BY <1>1, <3>1, AppendToConcat
    <2> QED BY <2>1, <2>2, <2>3
  <1>3. ASSUME NEW t \in Threads, Send(t) PROVE pushed' = Requested' \o requests'
    <2>1. conn = "up" /\ pushed' = pushed
      <3>1. conn # "none"
        BY <1>3 DEF Send, Safe, LockHeld
      <3>2. conn # "broken"
        BY <1>3 DEF Send, RequestBlock
      <3> QED BY <1>3, <3>1, <3>2 DEF Send, Safe, EngineType
    <2>2. pushed = Requested \o requests
      BY <2>1 DEF AskedInOrder, Requested
    <2>3. CASE requests = <<>>
      BY <1>3, <2>1, <2>2, <2>3 DEF Send, Requested
    <2>4. CASE requests # <<>>
      <3> DEFINE q == Head(requests)
      <3>1. q \in Wanted /\ requests' = Tail(requests)
        BY <1>3, <2>4, HeadTailProperties DEF Send, Safe, EngineType
      <3>2. asked' = Append(asked, [req |-> q, block |-> BlockOf(q)])
        BY <1>3, <2>1, <2>4 DEF Send, RequestBlock
      <3>3. Requested' = Append(Requested, q)
        BY <3>2 DEF Requested, Safe, EngineType
      <3>4. Requested \o requests = Append(Requested, q) \o Tail(requests)
        BY <1>1, <2>4, <3>1
      <3> QED BY <2>1, <2>2, <3>1, <3>3, <3>4
    <2> QED BY <2>3, <2>4
  <1>4. ASSUME UNCHANGED <<requests, asked, pushed>>, conn # "broken"
        PROVE  pushed' = Requested' \o requests'
    BY <1>4 DEF AskedInOrder, Requested
  <1>5. ASSUME NEW t \in Threads, Connect(t) PROVE conn # "broken"
    BY <1>5 DEF Connect, Safe, LockHeld
  <1>6. ~ Break
    BY DEF Break
  <1>7. ASSUME NEW t \in Threads, QueueRead(t) \/ PumpOnce(t) \/ Connect(t)
        PROVE  UNCHANGED <<requests, asked, pushed>> /\ conn # "broken"
    BY <1>5, <1>7 DEF QueueRead, PumpOnce, Connect
  <1>8. ASSUME UNCHANGED vars PROVE UNCHANGED <<requests, asked, pushed>> /\ conn # "broken"
    BY <1>8 DEF vars
  <1> QED BY <1>2, <1>3, <1>4, <1>6, <1>7, <1>8 DEF Next

(* Up to the end of the connection the peer is asked for what was pushed,  *)
(* in that order and each once (TorrentEngine.cpp:88-97).                  *)
THEOREM AskedAsPushed == Spec => []AskedInOrder
  BY SafeInit, SafeStep, OrderInit, OrderStep, PTL DEF Spec

-----------------------------------------------------------------------------
(* The blocks that are asked for. *)

(* The torrent has no more pieces than a 32-bit index counts. *)
PieceIndexFits == TotalSize <= Word32 * PieceLength

LEMMA WordType ==
  ASSUME PieceLength < Word32
  PROVE  Word32 \in Nat /\ PieceLength \in Nat \ {0} /\ pieceLength = PieceLength
  <1>1. Word32 \in Nat
    BY WireAssumption DEF Word32
  <1>2. pieceLength = PieceLength
    BY <1>1, EngineAssumption DEF pieceLength
  <1>3. PieceLength # 0
    BY <1>2, EngineAssumption DEF pieceLength
  <1> QED BY <1>1, <1>2, <1>3, EngineAssumption

(* A block begins at the byte of the torrent that the request names. *)
LEMMA BlockBegins ==
  ASSUME PieceIndexFits, PieceLength < Word32, NEW q \in Wanted
  PROVE  /\ BlockOf(q).piece * PieceLength + BlockOf(q).begin = Offset[q.file] + q.off
         /\ BlockOf(q).len \in Nat
         /\ BlockOf(q).len <= q.len
  <1> DEFINE global == Offset[q.file] + q.off
  <1>1. /\ q.file \in Files /\ q.off \in Nat /\ q.len \in Nat /\ q.len > 0
        /\ q.off + q.len <= Size[q.file]
    BY DEF Wanted
  <1>2. /\ Offset[q.file] \in Nat /\ Size[q.file] \in Nat
        /\ Offset[q.file] + Size[q.file] <= TotalSize /\ TotalSize \in Nat
    BY <1>1, OffsetIsSum, FilesApart, TotalIsSum, EngineAssumption
  <1>3. global \in Nat /\ global < TotalSize
    BY <1>1, <1>2
  <1>4. BlockOf(q) = [piece |-> (global \div PieceLength) % Word32,
                      begin |-> global % PieceLength,
                      len   |-> Min2(q.len, MaxBlock)]
    BY WordType DEF BlockOf
  <1> HIDE DEF global
  <1>5. Word32 * PieceLength \in Nat
    BY WordType
  <1>6. global < Word32 * PieceLength
    BY <1>2, <1>3, <1>5 DEF PieceIndexFits
  <1>7. global \div PieceLength \in Nat /\ global \div PieceLength < Word32
    <2>1. global \div PieceLength \in Int /\ global \div PieceLength >= 0
      BY <1>3, WordType
    <2>2. global \div PieceLength < Word32
      BY <1>3, <1>6, WordType, DivBelow
    <2> QED BY <2>1, <2>2
  <1>8. (global \div PieceLength) % Word32 = global \div PieceLength
    BY <1>7, WordType
  <1>9. (global \div PieceLength) * PieceLength + (global % PieceLength) = global
    <2>1. PieceLength \in Nat \ {0}
      BY WordType
    <2>2. global \in Int
      BY <1>3
    <2> QED BY <2>1, <2>2, DivMod, Zenon
  <1>10. Min2(q.len, MaxBlock) \in Nat /\ Min2(q.len, MaxBlock) <= q.len
    BY <1>1, EngineAssumption DEF Min2
  <1>11. /\ BlockOf(q).piece = global \div PieceLength
         /\ BlockOf(q).begin = global % PieceLength
         /\ BlockOf(q).len = Min2(q.len, MaxBlock)
    BY <1>4, <1>8
  <1>12. BlockOf(q).piece * PieceLength + BlockOf(q).begin = global
    BY <1>9, <1>11
  <1> QED BY <1>10, <1>11, <1>12 DEF global

LEMMA FileBytesApart ==
  ASSUME NEW f \in Files, NEW g \in Files, f # g
  PROVE  FileBytes(f) \cap FileBytes(g) = {}
  <1>1. /\ Offset[f] \in Nat /\ Offset[g] \in Nat /\ Size[f] \in Nat /\ Size[g] \in Nat
        /\ Index[f] \in Nat /\ Index[g] \in Nat /\ Index[f] # Index[g]
    BY OffsetIsSum, EngineAssumption
  <1>2. Offset[f] + Size[f] <= Offset[g] \/ Offset[g] + Size[g] <= Offset[f]
    BY <1>1, FilesApart
  <1> QED BY <1>1, <1>2 DEF FileBytes

LEMMA BlocksSafe ==
  ASSUME PieceIndexFits, Safe
  PROVE  BlockInFile
  <1> SUFFICES ASSUME PieceLength < Word32, NEW i \in DOMAIN asked
      PROVE  LET b == asked[i].block
                 first == b.piece * PieceLength + b.begin
                 others == UNION {FileBytes(g) : g \in Files \ {asked[i].req.file}}
             IN  first .. first + b.len - 1 \subseteq (0 .. TotalSize - 1) \ others
    BY DEF BlockInFile
  <1>1. asked[i] \in Asked
    BY DEF Safe, EngineType
  <1>2. PICK q \in Wanted : asked[i] = [req |-> q, block |-> BlockOf(q)]
    BY <1>1 DEF Asked
  <1> DEFINE f == q.file
             first == BlockOf(q).piece * PieceLength + BlockOf(q).begin
  <1>3. f \in Files /\ q.off \in Nat /\ q.len \in Nat /\ q.off + q.len <= Size[f]
    BY DEF Wanted
  <1>4. first = Offset[f] + q.off /\ BlockOf(q).len \in Nat /\ BlockOf(q).len <= q.len
    BY BlockBegins
  <1>5. /\ Offset[f] \in Nat /\ Size[f] \in Nat /\ TotalSize \in Nat
        /\ Offset[f] + Size[f] <= TotalSize
    BY <1>3, OffsetIsSum, FilesApart, TotalIsSum, EngineAssumption
  <1> HIDE DEF first
  <1>6. first .. first + BlockOf(q).len - 1 \subseteq FileBytes(f)
    BY <1>3, <1>4, <1>5 DEF FileBytes
  <1>7. FileBytes(f) \subseteq 0 .. TotalSize - 1
    BY <1>5 DEF FileBytes
  <1>8. \A g \in Files \ {f} : FileBytes(f) \cap FileBytes(g) = {}
    BY <1>3, FileBytesApart
  <1>9. first .. first + BlockOf(q).len - 1
          \subseteq (0 .. TotalSize - 1) \ UNION {FileBytes(g) : g \in Files \ {f}}
    BY <1>6, <1>7, <1>8
  <1>10. asked[i].req.file = f /\ asked[i].block = BlockOf(q)
    BY <1>2
  <1> QED BY <1>9, <1>10 DEF first

(* Window, file offset, piece index and offset in the piece fit together:  *)
(* a block that is asked for lies in the file that is read, in a torrent   *)
(* whose pieces a 32-bit index counts (TorrentMetadata.cpp:74-87,          *)
(* TorrentSession.cpp:23-32, TorrentEngine.cpp:89-95).                     *)
THEOREM BlocksStayInFile ==
  ASSUME PieceIndexFits
  PROVE  Spec => []BlockInFile
  <1>1. Safe => BlockInFile
    BY BlocksSafe
  <1> QED BY <1>1, SafeInit, SafeStep, PTL DEF Spec

-----------------------------------------------------------------------------
(* What the peer reads off the wire. *)

LEMMA BytesAreRead ==
  ASSUME NEW n \in Nat, n < Word32
  PROVE  /\ Bytes4(n) \in Seq(0 .. Byte - 1) /\ Len(Bytes4(n)) = 4
         /\ NumberOf4(Bytes4(n)) = n
  <1>1. Byte \in Nat \ {0} /\ n < Byte * Byte * Byte * Byte
    BY WireAssumption DEF Word32
  <1>2. PICK d3, d2, d1, d0 \in 0 .. Byte - 1 :
           /\ (n \div (Byte * Byte * Byte)) % Byte = d3
           /\ (n \div (Byte * Byte)) % Byte = d2
           /\ (n \div Byte) % Byte = d1
           /\ n % Byte = d0
           /\ ((d3 * Byte + d2) * Byte + d1) * Byte + d0 = n
    BY <1>1, FourDigits
  <1>3. Bytes4(n) = <<d3, d2, d1, d0>>
    BY <1>2 DEF Bytes4
  <1> QED BY <1>2, <1>3 DEF NumberOf4

ByteSet == 0 .. Byte - 1

LEMMA SmallNumbers ==
  /\ Byte \in Nat /\ Byte > 7
  /\ Word32 \in Nat /\ Word32 >= 4096
  /\ 1 < Word32 /\ 13 < Word32
  <1>1. Byte \in Nat /\ Byte >= 8
    BY WireAssumption
  <1>2. Byte * Byte \in Nat /\ Byte * Byte >= 64
    <2>1. Byte * Byte >= 8 * Byte
      <3>1. (Byte - 8) * Byte \in Nat
        BY <1>1
      <3>2. (Byte - 8) * Byte = Byte * Byte - 8 * Byte
        BY <1>1
      <3> QED BY <1>1, <3>1, <3>2
    <2> QED BY <1>1, <2>1
  <1> DEFINE s == Byte * Byte
  <1>3. s \in Nat /\ s >= 64
    BY <1>2
  <1>4. Word32 = s * s
    BY <1>1 DEF Word32
  <1> HIDE DEF s
  <1>5. s * s \in Nat /\ s * s >= 4096
    <2>1. s * s >= 64 * s
      <3>1. (s - 64) * s \in Nat
        BY <1>3
      <3>2. (s - 64) * s = s * s - 64 * s
        BY <1>3
      <3> QED BY <1>3, <3>1, <3>2
    <2> QED BY <1>3, <2>1
  <1>6. 1 < s * s /\ 13 < s * s
    BY <1>5
  <1> QED BY <1>1, <1>4, <1>5, <1>6

Text(s, n) == s \in Seq(ByteSet) /\ Len(s) = n

Joins(z, s, t) ==
  /\ Text(z, Len(s) + Len(t))
  /\ \A i \in 1 .. Len(s) : z[i] = s[i]
  /\ \A i \in 1 .. Len(t) : z[Len(s) + i] = t[i]

LEMMA JoinedBytes ==
  ASSUME NEW s, NEW m, Text(s, m), NEW t, NEW n, Text(t, n)
  PROVE  Joins(s \o t, s, t)
  BY DEF Text, Joins

(* A message behind its length is read as it was written. *)
SaysLength(data, n) ==
  Len(data) >= 4 /\ \A k \in 1 .. 4 : data[k] = Bytes4(n)[k]

IsReadAs(data, n) ==
  /\ NumberOf4(SubSeq(data, 1, 4)) = n
  /\ Len(data) < n + 4 => decodeMessage(data) = NoMessage
  /\ Len(data) >= n + 4 => decodeMessage(data) = Message(data[5], SubSeq(data, 6, 4 + n))

LEMMA MessageIsRead ==
  ASSUME NEW data \in Seq(ByteSet), NEW n \in 1 .. 13, SaysLength(data, n)
  PROVE  IsReadAs(data, n)
  <1>1. n \in Nat /\ n < Word32 /\ (n + 4) % Word32 = n + 4
    BY SmallNumbers
  <1>2. Bytes4(n) \in Seq(ByteSet) /\ Len(Bytes4(n)) = 4 /\ NumberOf4(Bytes4(n)) = n
    BY <1>1, BytesAreRead DEF ByteSet
  <1>3. SubSeq(data, 1, 4) = Bytes4(n)
    BY <1>2 DEF SaysLength
  <1>4. NumberOf4(SubSeq(data, 1, 4)) = n
    BY <1>2, <1>3
  <1> QED BY <1>1, <1>4 DEF decodeMessage, SaysLength, IsReadAs

LEMMA PieceOfMessage ==
  ASSUME NEW data \in Seq(ByteSet), Len(data) < 4
  PROVE  decodeMessage(data) = NoMessage
  BY DEF decodeMessage

Blocks == [piece : 0 .. Word32 - 1, begin : 0 .. Word32 - 1, len : 0 .. Word32 - 1]

BytesOf(b) == encodeMessage(InterestedMessage) \o encodeMessage(RequestMessage(b))

LEMMA NumberBytes ==
  ASSUME NEW n \in Nat, n < Word32
  PROVE  Text(Bytes4(n), 4)
  BY BytesAreRead DEF Text, ByteSet

LEMMA InterestedBytes ==
  /\ Text(encodeMessage(InterestedMessage), 5)
  /\ \A k \in 1 .. 4 : encodeMessage(InterestedMessage)[k] = Bytes4(1)[k]
  /\ encodeMessage(InterestedMessage)[5] = Interested
  <1> DEFINE s == Bytes4(1)
             t == <<Interested>>
  <1>1. Text(s, 4)
    BY SmallNumbers, NumberBytes
  <1>2. Text(t, 1) /\ t[1] = Interested
    BY SmallNumbers DEF Text, ByteSet, Interested
  <1>3. encodeMessage(InterestedMessage) = s \o t \o <<>>
    BY SmallNumbers DEF encodeMessage, InterestedMessage, Message, Interested, KeepAlive
  <1> HIDE DEF s, t
  <1>4. Joins(s \o t, s, t)
    BY <1>1, <1>2, JoinedBytes
  <1>5. s \o t \o <<>> = s \o t
    BY <1>4 DEF Joins, Text
  <1>6. Text(s \o t, 5) /\ (\A k \in 1 .. 4 : (s \o t)[k] = s[k]) /\ (s \o t)[5] = t[1]
    <2> DEFINE z == s \o t
    <2>1. Joins(z, s, t)
      BY <1>4
    <2> HIDE DEF z
    <2>2. Text(z, 5) /\ (\A k \in 1 .. 4 : z[k] = s[k]) /\ z[5] = t[1]
      BY <1>1, <1>2, <2>1 DEF Joins, Text
    <2> QED BY <2>2 DEF z
  <1> QED BY <1>2, <1>3, <1>5, <1>6 DEF s

PayloadOf(b) == Bytes4(b.piece) \o Bytes4(b.begin) \o Bytes4(b.len)

LEMMA PayloadBytes ==
  ASSUME NEW b \in Blocks
  PROVE  /\ Text(PayloadOf(b), 12)
         /\ SubSeq(PayloadOf(b), 1, 4) = Bytes4(b.piece)
         /\ SubSeq(PayloadOf(b), 5, 8) = Bytes4(b.begin)
         /\ SubSeq(PayloadOf(b), 9, 12) = Bytes4(b.len)
  <1> DEFINE x == Bytes4(b.piece)
             y == Bytes4(b.begin)
             z == Bytes4(b.len)
             h == x \o y
             s == h \o z
  <1>1. Text(x, 4) /\ Text(y, 4) /\ Text(z, 4)
    <2>1. \A n \in 0 .. Word32 - 1 : Text(Bytes4(n), 4)
      BY SmallNumbers, NumberBytes
    <2> QED BY <2>1 DEF Blocks
  <1> HIDE DEF x, y, z
  <1>2. Joins(h, x, y)
    BY <1>1, JoinedBytes
  <1> HIDE DEF h
  <1>3. Text(h, 8)
    BY <1>1, <1>2 DEF Joins, Text
  <1>4. Joins(s, h, z)
    BY <1>1, <1>3, JoinedBytes
  <1> HIDE DEF s
  <1>5. Text(s, 12)
    BY <1>1, <1>3, <1>4 DEF Joins, Text
  <1>6. \A k \in 1 .. 4 : s[k] = x[k] /\ s[4 + k] = y[k] /\ s[8 + k] = z[k]
    BY <1>1, <1>2, <1>3, <1>4 DEF Joins, Text
  <1>7. SubSeq(s, 1, 4) = x
    BY <1>1, <1>5, <1>6 DEF Text
  <1>8. SubSeq(s, 5, 8) = y
    BY <1>1, <1>5, <1>6 DEF Text
  <1>9. SubSeq(s, 9, 12) = z
    BY <1>1, <1>5, <1>6 DEF Text
  <1> QED BY <1>5, <1>7, <1>8, <1>9 DEF s, h, x, y, z, PayloadOf

LEMMA BlockIsRead ==
  ASSUME NEW b \in Blocks
  PROVE  BlockIn(RequestMessage(b)) = b
  <1> DEFINE m == RequestMessage(b)
             p == PayloadOf(b)
  <1>1. m.payload = p
    BY DEF RequestMessage, Message, PayloadOf
  <1>2. /\ NumberOf4(Bytes4(b.piece)) = b.piece
        /\ NumberOf4(Bytes4(b.begin)) = b.begin
        /\ NumberOf4(Bytes4(b.len)) = b.len
    <2>1. \A n \in 0 .. Word32 - 1 : NumberOf4(Bytes4(n)) = n
      BY SmallNumbers, BytesAreRead
    <2> QED BY <2>1 DEF Blocks
  <1>3. /\ SubSeq(p, 1, 4) = Bytes4(b.piece)
        /\ SubSeq(p, 5, 8) = Bytes4(b.begin)
        /\ SubSeq(p, 9, 12) = Bytes4(b.len)
    BY PayloadBytes
  <1>4. /\ Field(m, 1) = NumberOf4(SubSeq(m.payload, 1, 4))
        /\ Field(m, 2) = NumberOf4(SubSeq(m.payload, 5, 8))
        /\ Field(m, 3) = NumberOf4(SubSeq(m.payload, 9, 12))
    BY DEF Field
  <1>5. Field(m, 1) = b.piece /\ Field(m, 2) = b.begin /\ Field(m, 3) = b.len
    BY <1>1, <1>2, <1>3, <1>4
  <1> QED BY <1>5 DEF BlockIn, Blocks

LEMMA RequestBytes ==
  ASSUME NEW b \in Blocks
  PROVE  /\ Text(encodeMessage(RequestMessage(b)), 17)
         /\ \A k \in 1 .. 4 : encodeMessage(RequestMessage(b))[k] = Bytes4(13)[k]
         /\ encodeMessage(RequestMessage(b))[5] = Request
         /\ \A k \in 1 .. 12 : encodeMessage(RequestMessage(b))[5 + k] = PayloadOf(b)[k]
  <1> DEFINE p == PayloadOf(b)
             s == Bytes4(13)
             t == <<Request>>
             h == s \o t
             z == h \o p
  <1>1. Text(s, 4) /\ Text(p, 12)
    BY SmallNumbers, NumberBytes, PayloadBytes
  <1>2. Text(t, 1) /\ t[1] = Request
    BY SmallNumbers DEF Text, ByteSet, Request
  <1>3. encodeMessage(RequestMessage(b)) = z
    <2>1. RequestMessage(b).type = Request /\ RequestMessage(b).payload = p
      BY DEF RequestMessage, Message, PayloadOf
    <2>2. Request # KeepAlive
      BY SmallNumbers DEF Request, KeepAlive
    <2>3. 1 + Len(p) = 13
      BY <1>1 DEF Text
    <2> QED BY <2>1, <2>2, <2>3 DEF encodeMessage
  <1> HIDE DEF s, t, p
  <1>4. Joins(h, s, t)
    BY <1>1, <1>2, JoinedBytes
  <1> HIDE DEF h
  <1>5. Text(h, 5)
    BY <1>1, <1>2, <1>4 DEF Joins, Text
  <1>6. Joins(z, h, p)
    BY <1>1, <1>5, JoinedBytes
  <1> HIDE DEF z
  <1>7. Text(z, 17)
    BY <1>1, <1>5, <1>6 DEF Joins, Text
  <1>8. (\A k \in 1 .. 4 : z[k] = s[k]) /\ z[5] = Request
    BY <1>1, <1>2, <1>4, <1>5, <1>6 DEF Joins, Text
  <1>9. \A k \in 1 .. 12 : z[5 + k] = p[k]
    BY <1>1, <1>5, <1>6 DEF Joins, Text
  <1> QED BY <1>3, <1>7, <1>8, <1>9 DEF s, p

LEMMA BytesOfBlock ==
  ASSUME NEW b \in Blocks
  PROVE  /\ Text(BytesOf(b), 22)
         /\ \A k \in 1 .. 4 : BytesOf(b)[k] = Bytes4(1)[k] /\ BytesOf(b)[5 + k] = Bytes4(13)[k]
         /\ BytesOf(b)[5] = Interested /\ BytesOf(b)[10] = Request
         /\ \A k \in 1 .. 12 : BytesOf(b)[10 + k] = PayloadOf(b)[k]
  <1> DEFINE x == encodeMessage(InterestedMessage)
             y == encodeMessage(RequestMessage(b))
             z == x \o y
  <1>1. Text(x, 5) /\ (\A k \in 1 .. 4 : x[k] = Bytes4(1)[k]) /\ x[5] = Interested
    BY InterestedBytes
  <1>2. /\ Text(y, 17)
        /\ \A k \in 1 .. 4 : y[k] = Bytes4(13)[k]
        /\ y[5] = Request
        /\ \A k \in 1 .. 12 : y[5 + k] = PayloadOf(b)[k]
    BY RequestBytes
  <1>3. BytesOf(b) = z
    BY DEF BytesOf
  <1> HIDE DEF x, y
  <1>4. Joins(z, x, y)
    BY <1>1, <1>2, JoinedBytes
  <1> HIDE DEF z
  <1>5. /\ Text(z, 22)
        /\ \A k \in 1 .. 5 : z[k] = x[k]
        /\ \A k \in 1 .. 17 : z[5 + k] = y[k]
    BY <1>1, <1>2, <1>4 DEF Joins, Text
  <1>6. z[5] = Interested /\ z[5 + 5] = Request
    BY <1>1, <1>2, <1>5
  <1>7. \A k \in 1 .. 12 : z[10 + k] = PayloadOf(b)[k]
    <2> TAKE k \in 1 .. 12
    <2>1. 5 + k \in 1 .. 17 /\ 5 + (5 + k) = 10 + k
      OBVIOUS
    <2>2. z[5 + (5 + k)] = y[5 + k]
      BY <1>5, <2>1
    <2> QED BY <1>2, <2>1, <2>2
  <1>8. \A k \in 1 .. 4 : z[k] = Bytes4(1)[k] /\ z[5 + k] = Bytes4(13)[k]
    BY <1>1, <1>2, <1>5
  <1> QED BY <1>3, <1>5, <1>6, <1>7, <1>8

LEMMA BlockType ==
  ASSUME NEW q \in Wanted
  PROVE  BlockOf(q) \in Blocks
  <1> DEFINE global == Offset[q.file] + q.off
  <1>1. q.file \in Files /\ q.off \in Nat /\ q.len \in Nat
    BY DEF Wanted
  <1>2. global \in Nat
    <2>1. Offset[q.file] \in Nat
      BY <1>1, OffsetIsSum
    <2> QED BY <1>1, <2>1
  <1>3. /\ Word32 \in Nat \ {0} /\ pieceLength \in 1 .. Word32 - 1
        /\ MaxBlock \in Nat /\ MaxBlock < Word32
    <2>1. Word32 \in Nat \ {0} /\ MaxBlock \in Nat /\ MaxBlock < Word32
      BY SmallNumbers, EngineAssumption
    <2>2. PieceLength % Word32 \in 0 .. Word32 - 1
      BY <2>1, Division, EngineAssumption
    <2>3. pieceLength \in 1 .. Word32 - 1
      <3> DEFINE d == PieceLength % Word32
      <3>1. d \in 0 .. Word32 - 1 /\ d # 0
        BY <2>2, EngineAssumption
      <3> HIDE DEF d
      <3>2. d \in 1 .. Word32 - 1
        BY <2>1, <3>1
      <3> QED BY <3>2 DEF d, pieceLength
    <2> QED BY <2>1, <2>3
  <1> HIDE DEF global
  <1>4. (global \div pieceLength) % Word32 \in 0 .. Word32 - 1
    <2>1. global \div pieceLength \in Nat
      BY <1>2, <1>3, Division
    <2> DEFINE d == global \div pieceLength
    <2>2. d \in Nat
      BY <2>1
    <2> HIDE DEF d
    <2>3. d % Word32 \in 0 .. Word32 - 1
      BY <1>3, <2>2, Division
    <2> QED BY <2>3 DEF d
  <1>5. global % pieceLength \in 0 .. Word32 - 1
    <2>1. global % pieceLength \in 0 .. pieceLength - 1
      BY <1>2, <1>3, Division
    <2> QED BY <1>3, <2>1
  <1>6. Min2(q.len, MaxBlock) \in 0 .. Word32 - 1
    BY <1>1, <1>3 DEF Min2
  <1> QED BY <1>4, <1>5, <1>6 DEF BlockOf, Blocks, global

(* What has reached the peer: the bytes of every block asked for, up to    *)
(* where the connection broke.                                             *)
WireHoldsAsked ==
  /\ wire \in Seq(ByteSet)
  /\ Len(wire) <= 22 * Len(asked)
  /\ conn # "broken" => Len(wire) = 22 * Len(asked)
  /\ \A i \in 1 .. Len(asked), j \in 1 .. 22 :
       22 * (i - 1) + j <= Len(wire) => wire[22 * (i - 1) + j] = BytesOf(asked[i].block)[j]

LEMMA WireInit == Init => WireHoldsAsked
  BY DEF Init, WireHoldsAsked

LEMMA PartOfText ==
  ASSUME NEW s, NEW n \in Nat, Text(s, n), NEW a \in 1 .. n + 1, NEW b \in a - 1 .. n
  PROVE  /\ Text(SubSeq(s, a, b), b - a + 1)
         /\ \A i \in 1 .. b - a + 1 : SubSeq(s, a, b)[i] = s[a + i - 1]
  <1>1. s \in Seq(ByteSet) /\ Len(s) = n
    BY DEF Text
  <1>2. a \in Int /\ b \in Int /\ \A i \in a .. b : s[i] \in ByteSet
    BY <1>1
  <1>3. /\ SubSeq(s, a, b) \in Seq(ByteSet)
        /\ Len(SubSeq(s, a, b)) = IF a <= b THEN b - a + 1 ELSE 0
        /\ \A i \in 1 .. b - a + 1 : SubSeq(s, a, b)[i] = s[a + i - 1]
    BY <1>2, SubSeqProperties
  <1>4. Len(SubSeq(s, a, b)) = b - a + 1
    BY <1>3
  <1> QED BY <1>3, <1>4 DEF Text

(* The first m bytes of the messages for a request get through. *)
GetsThrough(q, m) ==
  /\ asked' = Append(asked, [req |-> q, block |-> BlockOf(q)])
  /\ wire' = wire \o SubSeq(BytesOf(BlockOf(q)), 1, m)
  /\ m = 22 \/ conn' = "broken"

LEMMA WireGrows ==
  ASSUME Safe, WireHoldsAsked, conn = "up", NEW q \in Wanted, NEW m \in 0 .. 22,
         GetsThrough(q, m)
  PROVE  WireHoldsAsked'
  <1> DEFINE b == BlockOf(q)
             n == Len(asked)
             t == SubSeq(BytesOf(b), 1, m)
  <1>1. /\ Text(t, m)
        /\ \A i \in 1 .. m : t[i] = BytesOf(b)[i]
    <2>1. Text(BytesOf(b), 22)
      BY BlockType, BytesOfBlock
    <2>2. /\ Text(t, m - 1 + 1)
          /\ \A i \in 1 .. m - 1 + 1 : t[i] = BytesOf(b)[1 + i - 1]
      <3> HIDE DEF b
      <3>1. 1 \in 1 .. 22 + 1 /\ m \in 1 - 1 .. 22 /\ 22 \in Nat
        OBVIOUS
      <3> QED BY <2>1, <3>1, PartOfText
    <2> HIDE DEF t
    <2>3. m - 1 + 1 = m /\ \A i \in 1 .. m : 1 + i - 1 = i
      OBVIOUS
    <2> QED BY <2>2, <2>3
  <1>2. /\ Text(wire, 22 * n)
        /\ n \in Nat
        /\ \A i \in 1 .. n, j \in 1 .. 22 : wire[22 * (i - 1) + j] = BytesOf(asked[i].block)[j]
    <2>1. n \in Nat
      BY DEF Safe, EngineType
    <2>2. \A i \in 1 .. n, j \in 1 .. 22 : 22 * (i - 1) + j <= 22 * n
      BY <2>1
    <2> QED BY <2>1, <2>2 DEF WireHoldsAsked, Text
  <1>3. /\ Len(asked') = n + 1
        /\ \A i \in 1 .. n : asked'[i] = asked[i]
        /\ asked'[n + 1].block = b
    BY DEF Safe, EngineType, GetsThrough
  <1>4. wire' = wire \o t
    BY DEF GetsThrough
  <1> HIDE DEF b, n, t
  <1>5. Joins(wire', wire, t)
    BY <1>1, <1>2, <1>4, JoinedBytes
  <1>6. Text(wire', 22 * n + m)
    BY <1>1, <1>2, <1>5 DEF Joins, Text
  <1>7. ASSUME NEW i \in 1 .. n + 1, NEW j \in 1 .. 22, 22 * (i - 1) + j <= 22 * n + m
        PROVE  wire'[22 * (i - 1) + j] = BytesOf(asked'[i].block)[j]
    <2>1. CASE i \in 1 .. n
      <3>1. 22 * (i - 1) + j \in 1 .. 22 * n
        BY <1>2, <2>1
      <3>2. wire'[22 * (i - 1) + j] = wire[22 * (i - 1) + j]
        BY <1>2, <1>5, <3>1 DEF Joins, Text
      <3> QED BY <1>2, <1>3, <2>1, <3>2
    <2>2. CASE i = n + 1
      <3>1. 22 * (i - 1) + j = 22 * n + j /\ j \in 1 .. m
        BY <1>2, <1>7, <2>2
      <3>2. wire'[22 * n + j] = t[j]
        BY <1>1, <1>2, <1>5, <3>1 DEF Joins, Text
      <3> QED BY <1>1, <1>3, <2>2, <3>1, <3>2
    <2>3. n \in Nat
      BY <1>2
    <2> QED BY <2>1, <2>2, <2>3
  <1>8. /\ wire' \in Seq(ByteSet) /\ Len(wire') = 22 * n + m
        /\ Len(wire') <= 22 * (n + 1)
        /\ conn' # "broken" => Len(wire') = 22 * (n + 1)
    <2>1. n \in Nat
      BY <1>2
    <2>2. wire' \in Seq(ByteSet) /\ Len(wire') = 22 * n + m
      BY <1>6 DEF Text
    <2>3. conn' # "broken" => m = 22
      BY DEF GetsThrough
    <2> QED BY <2>1, <2>2, <2>3
  <1> QED BY <1>3, <1>7, <1>8 DEF WireHoldsAsked

LEMMA WireStep == Safe /\ WireHoldsAsked /\ [Next]_vars => WireHoldsAsked'
  <1> SUFFICES ASSUME Safe, WireHoldsAsked, [Next]_vars PROVE WireHoldsAsked'
    OBVIOUS
  <1>1. ASSUME UNCHANGED <<wire, asked>>, conn' = "broken" \/ conn # "broken"
        PROVE  WireHoldsAsked'
    BY <1>1 DEF WireHoldsAsked
  <1>2. ASSUME NEW t \in Threads, Send(t) PROVE WireHoldsAsked'
    <2>1. CASE requests = <<>> \/ conn # "up"
      <3>1. UNCHANGED <<wire, asked, conn>>
        BY <1>2, <2>1 DEF Send, RequestBlock
      <3> QED BY <1>1, <3>1
    <2>2. CASE requests # <<>> /\ conn = "up"
      <3> DEFINE q == Head(requests)
                 bytes == BytesOf(BlockOf(q))
      <3>1. q \in Wanted
        BY <2>2, HeadTailProperties DEF Safe, EngineType
      <3>2. asked' = Append(asked, [req |-> q, block |-> BlockOf(q)])
        BY <1>2, <2>2 DEF Send, RequestBlock
      <3>3. Text(bytes, 22)
        BY <3>1, BlockType, BytesOfBlock
      <3>4. \/ wire' = wire \o bytes
            \/ conn' = "broken" /\ \E k \in Cuts : wire' = wire \o SubSeq(bytes, 1, Min2(k, Len(bytes) - 1))
        BY <1>2, <2>2 DEF Send, RequestBlock, BytesOf
      <3> HIDE DEF q, bytes
      <3>5. CASE wire' = wire \o bytes
        <4>1. SubSeq(bytes, 1, 22) = bytes
          BY <3>3 DEF Text
        <4>2. wire' = wire \o SubSeq(bytes, 1, 22)
          BY <3>5, <4>1
        <4>3. GetsThrough(q, 22)
          BY <3>2, <4>2 DEF GetsThrough, bytes
        <4> QED BY <2>2, <3>1, <4>3, WireGrows
      <3>6. ASSUME conn' = "broken", NEW k \in Cuts,
                   wire' = wire \o SubSeq(bytes, 1, Min2(k, Len(bytes) - 1))
            PROVE  WireHoldsAsked'
        <4> DEFINE m == Min2(k, Len(bytes) - 1)
        <4>1. m \in 0 .. 22
          <5>1. k \in Nat /\ Len(bytes) = 22
            BY <3>3, EngineAssumption DEF Text
          <5> QED BY <5>1 DEF Min2
        <4>2. wire' = wire \o SubSeq(bytes, 1, m)
          BY <3>6
        <4> HIDE DEF m
        <4>3. GetsThrough(q, m)
          BY <3>2, <3>6, <4>2 DEF GetsThrough, bytes
        <4> QED BY <2>2, <3>1, <4>1, <4>3, WireGrows
      <3> QED BY <3>4, <3>5, <3>6
    <2> QED BY <2>1, <2>2
  <1>3. ASSUME NEW t \in Threads, Connect(t)
        PROVE  UNCHANGED <<wire, asked>> /\ conn # "broken"
    BY <1>3 DEF Connect, Safe, LockHeld
  <1>4. ASSUME NEW t \in Threads, QueueRead(t) \/ RequestFileData(t) \/ PumpOnce(t)
        PROVE  UNCHANGED <<wire, asked, conn>>
    BY <1>4 DEF QueueRead, RequestFileData, PumpOnce
  <1>5. ASSUME Break PROVE UNCHANGED <<wire, asked>> /\ conn' = "broken"
    BY <1>5 DEF Break
  <1>6. ASSUME UNCHANGED vars PROVE UNCHANGED <<wire, asked, conn>>
    BY <1>6 DEF vars
  <1> QED BY <1>1, <1>2, <1>3, <1>4, <1>5, <1>6 DEF Next

Rest(data, i) == SubSeq(data, i, Len(data))
After(data, i) == i + 4 + NumberOf4(SubSeq(Rest(data, i), 1, 4))

Decoding(data, f) ==
  f = [i \in Nat \ {0} |->
         LET rest == SubSeq(data, i, Len(data))
             m == decodeMessage(rest)
         IN  IF m = NoMessage THEN <<>>
             ELSE <<m>> \o f[i + 4 + NumberOf4(SubSeq(rest, 1, 4))]]

IsRest(r, data, i) ==
  /\ r \in Seq(ByteSet)
  /\ i <= Len(data) + 1 => Len(r) = Len(data) - i + 1
  /\ i > Len(data) => Len(r) = 0
  /\ \A k \in 1 .. Len(data) - i + 1 : r[k] = data[i + k - 1]

LEMMA RestType ==
  ASSUME NEW data \in Seq(ByteSet), NEW i \in Nat \ {0}
  PROVE  IsRest(Rest(data, i), data, i)
  <1> DEFINE n == Len(data)
  <1>1. n \in Nat /\ i \in Int /\ n \in Int /\ \A k \in i .. n : data[k] \in ByteSet
    OBVIOUS
  <1>2. /\ SubSeq(data, i, n) \in Seq(ByteSet)
        /\ Len(SubSeq(data, i, n)) = IF i <= n THEN n - i + 1 ELSE 0
        /\ \A k \in 1 .. n - i + 1 : SubSeq(data, i, n)[k] = data[i + k - 1]
    <2> HIDE DEF n
    <2> QED BY <1>1, SubSeqProperties
  <1>3. Rest(data, i) = SubSeq(data, i, n)
    BY DEF Rest
  <1> HIDE DEF n
  <1>4. i <= n + 1 => Len(SubSeq(data, i, n)) = n - i + 1
    BY <1>1, <1>2
  <1>5. i > n => Len(SubSeq(data, i, n)) = 0
    BY <1>1, <1>2
  <1> QED BY <1>2, <1>3, <1>4, <1>5 DEF n, IsRest

(* Where a message is read, another four bytes at least are done with. *)
LEMMA AfterIsLater ==
  ASSUME NEW data \in Seq(ByteSet), NEW i \in Nat \ {0},
         decodeMessage(Rest(data, i)) # NoMessage
  PROVE  /\ i <= Len(data)
         /\ After(data, i) \in Nat \ {0}
         /\ After(data, i) > i
  <1> DEFINE r == Rest(data, i)
  <1>1. r \in Seq(ByteSet) /\ Len(data) \in Nat
    BY RestType DEF IsRest
  <1>2. Len(r) >= 4
    <2> HIDE DEF r
    <2> QED BY <1>1 DEF decodeMessage, r
  <1>3. i <= Len(data)
    BY <1>1, <1>2, RestType DEF IsRest
  <1> HIDE DEF r
  <1>4. NumberOf4(SubSeq(r, 1, 4)) \in Nat
    <2>1. SubSeq(r, 1, 4)[1] = r[1] /\ SubSeq(r, 1, 4)[2] = r[2]
          /\ SubSeq(r, 1, 4)[3] = r[3] /\ SubSeq(r, 1, 4)[4] = r[4]
      BY <1>1, <1>2
    <2>2. r[1] \in ByteSet /\ r[2] \in ByteSet /\ r[3] \in ByteSet /\ r[4] \in ByteSet
      BY <1>1, <1>2
    <2>3. \A a, b \in Nat : a * Byte + b \in Nat
      BY SmallNumbers
    <2>4. r[1] \in Nat /\ r[2] \in Nat /\ r[3] \in Nat /\ r[4] \in Nat
      BY <2>2 DEF ByteSet
    <2>5. ((r[1] * Byte + r[2]) * Byte + r[3]) * Byte + r[4] \in Nat
      BY <2>3, <2>4
    <2> QED BY <2>1, <2>5 DEF NumberOf4
  <1>5. After(data, i) = i + 4 + NumberOf4(SubSeq(r, 1, 4))
    BY DEF After, r
  <1> QED BY <1>3, <1>4, <1>5

LEMMA DecodingExists ==
  ASSUME NEW data \in Seq(ByteSet)
  PROVE  \E f : Decoding(data, f)
  <1> DEFINE D == Nat \ {0}
             R == Behind(Len(data))
             msg(i) == decodeMessage(Rest(data, i))
             Base == {i \in D : msg(i) = NoMessage}
             V == Seq({msg(i) : i \in D})
             b == [i \in Base |-> <<>>]
             next == [i \in D \ Base |-> After(data, i)]
             step == [p \in (D \ Base) \X V |-> <<msg(p[1])>> \o p[2]]
  <1>1. IsWellFoundedOn(R, D)
    <2> DEFINE n == Len(data)
    <2>1. n \in Nat
      OBVIOUS
    <2> HIDE DEF n
    <2>2. IsWellFoundedOn(Behind(n), Nat \ {0})
      BY <2>1, BehindWellFounded
    <2> QED BY <2>2 DEF n
  <1>2. \A i \in D \ Base : After(data, i) \in D /\ After(data, i) > i /\ i <= Len(data)
    BY AfterIsLater
  <1> HIDE DEF msg
  <1>3. \A i \in D, v \in V : <<msg(i)>> \o v \in V
    <2> TAKE i \in D, v \in V
    <2> DEFINE W == {msg(j) : j \in D}
    <2>1. msg(i) \in W /\ v \in Seq(W)
      OBVIOUS
    <2> HIDE DEF W
    <2>2. <<msg(i)>> \o v \in Seq(W)
      BY <2>1
    <2> QED BY <2>2 DEF W
  <1>4. b \in [Base -> V]
    OBVIOUS
  <1>5. next \in [D \ Base -> D] /\ \A i \in D \ Base : next[i] = After(data, i)
    BY <1>2
  <1>6. /\ step \in [(D \ Base) \X V -> V]
        /\ \A i \in D \ Base, v \in V : step[<<i, v>>] = <<msg(i)>> \o v
    <2> HIDE DEF V
    <2> QED BY <1>3
  <1>7. \A i \in D \ Base : <<next[i], i>> \in R
    BY <1>2, <1>5 DEF Behind
  <1>8. Base \in SUBSET D
    OBVIOUS
  <1> HIDE DEF R, Base, V, b, next, step
  <1>9. IsRecursion(D, R, V, Base, b, next, step)
    BY <1>1, <1>4, <1>5, <1>6, <1>7, <1>8 DEF IsRecursion
  <1>10. PICK f : Recursive(f, D, V, Base, b, next, step)
    <2> HIDE DEF D
    <2> QED BY <1>9, RecursiveFunction
  <1>11. ASSUME NEW i \in D
         PROVE  f[i] = IF msg(i) = NoMessage THEN <<>> ELSE <<msg(i)>> \o f[After(data, i)]
    <2>1. f[i] = IF i \in Base THEN b[i] ELSE step[<<i, f[next[i]]>>]
      BY <1>10 DEF Recursive
    <2>2. CASE msg(i) = NoMessage
      BY <2>1, <2>2 DEF Base, b
    <2>3. CASE msg(i) # NoMessage
      <3>1. i \in D \ Base
        BY <2>3 DEF Base
      <3>2. next[i] = After(data, i) /\ next[i] \in D
        BY <1>5, <3>1
      <3>3. f[next[i]] \in V
        BY <1>10, <3>2 DEF Recursive
      <3>4. step[<<i, f[next[i]]>>] = <<msg(i)>> \o f[next[i]]
        BY <1>6, <3>1, <3>3
      <3> QED BY <2>1, <2>3, <3>1, <3>2, <3>4
    <2> QED BY <2>2, <2>3
  <1>12. f = [i \in D |-> IF msg(i) = NoMessage THEN <<>> ELSE <<msg(i)>> \o f[After(data, i)]]
    BY <1>10, <1>11 DEF Recursive
  <1> QED BY <1>12 DEF Decoding, msg, After, Rest

LEMMA DecodedStep ==
  ASSUME NEW data \in Seq(ByteSet)
  PROVE  \E f : /\ Decoded(data) = f[1]
                /\ \A i \in Nat \ {0} :
                     f[i] = IF decodeMessage(Rest(data, i)) = NoMessage THEN <<>>
                            ELSE <<decodeMessage(Rest(data, i))>> \o f[After(data, i)]
  <1> DEFINE g == CHOOSE f : Decoding(data, f)
  <1>1. Decoding(data, g)
    BY DecodingExists
  <1>2. Decoded(data) = g[1]
    BY DEF Decoded, Decoding
  <1> HIDE DEF g
  <1>3. \A i \in Nat \ {0} :
           g[i] = IF decodeMessage(Rest(data, i)) = NoMessage THEN <<>>
                  ELSE <<decodeMessage(Rest(data, i))>> \o g[After(data, i)]
    BY <1>1 DEF Decoding, Rest, After
  <1> QED BY <1>2, <1>3

(* What is decoded where the length of a message of n bytes is written. *)
LengthAt(data, p, n) ==
  \A k \in 1 .. 4 : p + k - 1 <= Len(data) => data[p + k - 1] = Bytes4(n)[k]

MessageAt(data, p, n) == Message(data[p + 4], [k \in 1 .. n - 1 |-> data[p + 4 + k]])

ReadsAt(data, p, n) ==
  /\ Len(data) < p + n + 3 => decodeMessage(Rest(data, p)) = NoMessage
  /\ Len(data) >= p + n + 3 =>
       decodeMessage(Rest(data, p)) = MessageAt(data, p, n) /\ After(data, p) = p + n + 4

LEMMA ReadAnywhere ==
  ASSUME NEW data \in Seq(ByteSet), NEW p \in Nat \ {0}, NEW n \in 1 .. 13,
         LengthAt(data, p, n)
  PROVE  ReadsAt(data, p, n)
  <1> DEFINE r == Rest(data, p)
             size == Len(data)
  <1>1. IsRest(r, data, p)
    BY RestType
  <1>2. After(data, p) = p + 4 + NumberOf4(SubSeq(r, 1, 4))
    BY DEF After
  <1> HIDE DEF r
  <1>3. size \in Nat /\ r \in Seq(ByteSet) /\ Len(r) \in Nat
    BY <1>1 DEF IsRest
  <1>4. /\ p <= size + 1 => Len(r) = size - p + 1
        /\ p > size => Len(r) = 0
    BY <1>1 DEF IsRest
  <1>5. \A k \in 1 .. size - p + 1 : r[k] = data[p + k - 1]
    BY <1>1 DEF IsRest
  <1> HIDE DEF size
  <1>6. CASE Len(r) < 4
    <2>1. decodeMessage(r) = NoMessage
      BY <1>3, <1>6, PieceOfMessage
    <2>2. size < p + n + 3
      BY <1>3, <1>4, <1>6
    <2>3. ~ (size >= p + n + 3)
      BY <1>3, <2>2
    <2> QED BY <2>1, <2>3 DEF r, size, ReadsAt
  <1>7. CASE Len(r) >= 4
    <2>1. p <= size /\ Len(r) = size - p + 1
      BY <1>3, <1>4, <1>7
    <2>2. SaysLength(r, n)
      <3>1. ASSUME NEW k \in 1 .. 4 PROVE r[k] = Bytes4(n)[k]
        <4>1. k \in 1 .. size - p + 1 /\ p + k - 1 <= size
          BY <1>3, <1>7, <2>1
        <4> QED BY <1>5, <4>1 DEF size, LengthAt
      <3> QED BY <1>7, <3>1 DEF SaysLength
    <2>3. IsReadAs(r, n)
      BY <1>3, <2>2, MessageIsRead
    <2>4. CASE size < p + n + 3
      <3>1. Len(r) < n + 4
        BY <1>3, <2>1, <2>4
      <3>2. decodeMessage(r) = NoMessage
        BY <2>3, <3>1 DEF IsReadAs
      <3>3. ~ (size >= p + n + 3)
        BY <1>3, <2>4
      <3> QED BY <3>2, <3>3 DEF r, size, ReadsAt
    <2>5. CASE size >= p + n + 3
      <3>1. Len(r) >= n + 4
        BY <1>3, <2>1, <2>5
      <3>2. r[5] = data[p + 4]
        <4>1. 5 \in 1 .. size - p + 1 /\ p + 5 - 1 = p + 4
          BY <1>3, <2>1, <3>1
        <4> QED BY <1>5, <4>1
      <3>3. SubSeq(r, 6, 4 + n) = [k \in 1 .. n - 1 |-> data[p + 4 + k]]
        <4>1. SubSeq(r, 6, 4 + n) = [k \in 1 .. n - 1 |-> r[k + 5]]
          <5>1. SubSeq(r, 6, 4 + n) = [k \in 1 .. (4 + n) - 6 + 1 |-> r[6 + k - 1]]
            BY <1>3
          <5>2. (4 + n) - 6 + 1 = n - 1
            OBVIOUS
          <5>3. \A k \in 1 .. n - 1 : 6 + k - 1 = k + 5
            OBVIOUS
          <5> QED BY <5>1, <5>2, <5>3
        <4>2. \A k \in 1 .. n - 1 : r[k + 5] = data[p + 4 + k]
          <5> TAKE k \in 1 .. n - 1
          <5>1. k + 5 \in 1 .. size - p + 1 /\ p + (k + 5) - 1 = p + 4 + k
            BY <1>3, <2>1, <3>1
          <5>2. r[k + 5] = data[p + (k + 5) - 1]
            BY <1>5, <5>1
          <5> QED BY <5>1, <5>2
        <4> QED BY <4>1, <4>2
      <3>4. After(data, p) = p + n + 4
        BY <1>2, <2>3 DEF IsReadAs
      <3>5. decodeMessage(r) = Message(r[5], SubSeq(r, 6, 4 + n))
        BY <2>3, <3>1 DEF IsReadAs
      <3>6. ~ (size < p + n + 3)
        BY <1>3, <2>5
      <3> QED BY <3>2, <3>3, <3>4, <3>5, <3>6 DEF r, size, ReadsAt, MessageAt
    <2> QED BY <1>3, <2>4, <2>5
  <1> QED BY <1>3, <1>6, <1>7

BlockAt(i) == asked[i].block

LEMMA BlockAtType ==
  ASSUME Safe, NEW i \in 1 .. Len(asked)
  PROVE  BlockAt(i) \in Blocks
  <1>1. asked[i] \in Asked
    BY DEF Safe, EngineType
  <1>2. PICK q \in Wanted : asked[i] = [req |-> q, block |-> BlockOf(q)]
    BY <1>1 DEF Asked
  <1> QED BY <1>2, BlockType DEF BlockAt

(* The two messages of the block asked for after i others. *)
LEMMA MessagesOfBlock ==
  ASSUME Safe, WireHoldsAsked, NEW i \in 0 .. Len(asked) - 1
  PROVE  /\ Len(wire) < 22 * i + 5 => decodeMessage(Rest(wire, 22 * i + 1)) = NoMessage
         /\ Len(wire) >= 22 * i + 5 =>
              /\ decodeMessage(Rest(wire, 22 * i + 1)) = InterestedMessage
              /\ After(wire, 22 * i + 1) = 22 * i + 6
         /\ Len(wire) < 22 * i + 22 => decodeMessage(Rest(wire, 22 * i + 6)) = NoMessage
         /\ Len(wire) >= 22 * i + 22 =>
              /\ decodeMessage(Rest(wire, 22 * i + 6)) = RequestMessage(BlockAt(i + 1))
              /\ After(wire, 22 * i + 6) = 22 * i + 23
  <1> DEFINE b == BlockAt(i + 1)
             p == 22 * i + 1
             size == Len(wire)
  <1>1. Len(asked) \in Nat /\ i \in Nat /\ p \in Nat \ {0} /\ i + 1 \in 1 .. Len(asked)
        /\ p + 5 \in Nat \ {0}
    BY DEF Safe, EngineType
  <1>2. wire \in Seq(ByteSet) /\ size \in Nat
    BY DEF WireHoldsAsked
  <1>3. b \in Blocks
    BY <1>1, BlockAtType
  <1>4. ASSUME NEW j \in 1 .. 22, p + j - 1 <= size PROVE wire[p + j - 1] = BytesOf(b)[j]
    <2>1. 22 * ((i + 1) - 1) + j = p + j - 1
      BY <1>1
    <2> QED BY <1>1, <1>4, <2>1 DEF WireHoldsAsked, BlockAt
  <1>5. /\ \A k \in 1 .. 4 : BytesOf(b)[k] = Bytes4(1)[k] /\ BytesOf(b)[5 + k] = Bytes4(13)[k]
        /\ BytesOf(b)[5] = Interested /\ BytesOf(b)[10] = Request
        /\ \A k \in 1 .. 12 : BytesOf(b)[10 + k] = PayloadOf(b)[k]
    BY <1>3, BytesOfBlock
  <1> HIDE DEF b, p
  <1>6. LengthAt(wire, p, 1)
    <2> SUFFICES ASSUME NEW k \in 1 .. 4, p + k - 1 <= size
                 PROVE  wire[p + k - 1] = Bytes4(1)[k]
      BY DEF LengthAt
    <2>1. k \in 1 .. 22
      OBVIOUS
    <2> QED BY <1>4, <1>5, <2>1
  <1> DEFINE q == p + 5
  <1>7. LengthAt(wire, q, 13)
    <2> SUFFICES ASSUME NEW k \in 1 .. 4, q + k - 1 <= size
                 PROVE  wire[q + k - 1] = Bytes4(13)[k]
      BY DEF LengthAt
    <2>1. 5 + k \in 1 .. 22 /\ p + (5 + k) - 1 = q + k - 1
      BY <1>1
    <2> QED BY <1>4, <1>5, <2>1
  <1>8. q \in Nat \ {0} /\ q = p + 5
    BY <1>1
  <1> HIDE DEF q
  <1>9. ReadsAt(wire, p, 1)
    <2>1. 1 \in 1 .. 13
      OBVIOUS
    <2> QED BY <1>1, <1>2, <1>6, <2>1, ReadAnywhere
  <1>10. ReadsAt(wire, q, 13)
    <2>1. 13 \in 1 .. 13
      OBVIOUS
    <2> QED BY <1>2, <1>7, <1>8, <2>1, ReadAnywhere
  <1>11. ASSUME size >= p + 4 PROVE MessageAt(wire, p, 1) = InterestedMessage
    <2>1. 5 \in 1 .. 22 /\ p + 5 - 1 = p + 4
      BY <1>1
    <2>2. wire[p + 4] = Interested
      BY <1>4, <1>5, <1>11, <2>1
    <2>3. [k \in 1 .. 1 - 1 |-> wire[p + 4 + k]] = <<>>
      OBVIOUS
    <2> QED BY <2>2, <2>3 DEF InterestedMessage, MessageAt
  <1>12. ASSUME size >= q + 16 PROVE MessageAt(wire, q, 13) = RequestMessage(b)
    <2>1. 10 \in 1 .. 22 /\ p + 10 - 1 = q + 4 /\ q + 4 <= size
      BY <1>1, <1>2, <1>8, <1>12
    <2>2. wire[q + 4] = Request
      BY <1>4, <1>5, <2>1
    <2>3. \A k \in 1 .. 12 : wire[q + 4 + k] = PayloadOf(b)[k]
      <3> TAKE k \in 1 .. 12
      <3>1. 10 + k \in 1 .. 22 /\ p + (10 + k) - 1 = q + 4 + k /\ q + 4 + k <= size
        BY <1>1, <1>2, <1>8, <1>12
      <3>2. wire[q + 4 + k] = BytesOf(b)[10 + k]
        BY <1>4, <3>1
      <3> QED BY <1>5, <3>2
    <2>4. Text(PayloadOf(b), 12)
      BY <1>3, PayloadBytes
    <2>5. PayloadOf(b) = [k \in 1 .. 12 |-> PayloadOf(b)[k]]
      BY <2>4 DEF Text
    <2>6. [k \in 1 .. 13 - 1 |-> wire[q + 4 + k]] = PayloadOf(b)
      BY <2>3, <2>5
    <2>7. RequestMessage(b) = Message(Request, PayloadOf(b))
      BY DEF RequestMessage, PayloadOf
    <2> QED BY <2>2, <2>6, <2>7 DEF MessageAt
  <1>13. /\ size < p + 4 => decodeMessage(Rest(wire, p)) = NoMessage
         /\ size >= p + 4 => decodeMessage(Rest(wire, p)) = InterestedMessage /\ After(wire, p) = q
    <2>1. p + 1 + 3 = p + 4 /\ p + 1 + 4 = q
      BY <1>1, <1>8
    <2> QED BY <1>9, <1>11, <2>1 DEF ReadsAt
  <1>14. /\ size < q + 16 => decodeMessage(Rest(wire, q)) = NoMessage
         /\ size >= q + 16 => decodeMessage(Rest(wire, q)) = RequestMessage(b) /\ After(wire, q) = q + 17
    <2>1. q + 13 + 3 = q + 16 /\ q + 13 + 4 = q + 17
      BY <1>8
    <2> QED BY <1>10, <1>12, <2>1 DEF ReadsAt
  <1>15. /\ p = 22 * i + 1 /\ p + 4 = 22 * i + 5 /\ q = 22 * i + 6
         /\ q + 16 = 22 * i + 22 /\ q + 17 = 22 * i + 23
    BY <1>1, <1>8 DEF p
  <1> QED BY <1>13, <1>14, <1>15 DEF b

LEMMA EndOfWire ==
  ASSUME Safe, WireHoldsAsked
  PROVE  decodeMessage(Rest(wire, 22 * Len(asked) + 1)) = NoMessage
  <1>1. wire \in Seq(ByteSet) /\ 22 * Len(asked) + 1 \in Nat \ {0} /\ 22 * Len(asked) + 1 > Len(wire)
    BY DEF WireHoldsAsked, Safe, EngineType
  <1> DEFINE p == 22 * Len(asked) + 1
  <1> HIDE DEF p
  <1>2. IsRest(Rest(wire, p), wire, p)
    BY <1>1, RestType DEF p
  <1>3. Rest(wire, p) \in Seq(ByteSet) /\ Len(Rest(wire, p)) < 4
    BY <1>1, <1>2 DEF p, IsRest
  <1> QED BY <1>3, PieceOfMessage DEF p

(* The messages that m whole blocks, and e of half a block, decode to,     *)
(* from block i on.                                                        *)
Sent(k, i) == IF k % 2 = 1 THEN InterestedMessage ELSE RequestMessage(BlockAt(i + (k \div 2)))
SentFrom(i, m, e) == [k \in 1 .. 2 * (m - i) + e |-> Sent(k, i)]

(* m blocks are whole, and of the next one the first message if e is 1. *)
WholeBlocks(m, e) ==
  /\ m \in 0 .. Len(asked)
  /\ 22 * m <= Len(wire) /\ Len(wire) < 22 * m + 22
  /\ e = (IF Len(wire) >= 22 * m + 5 THEN 1 ELSE 0)

LEMMA SomeBlocksWhole ==
  ASSUME Safe, WireHoldsAsked
  PROVE  \E m, e \in Nat :
           /\ WholeBlocks(m, e)
           /\ 2 * m + e <= 2 * Len(asked)
           /\ conn # "broken" => m = Len(asked) /\ e = 0
  <1> DEFINE n == Len(asked)
             size == Len(wire)
             m == size \div 22
             e == IF size >= 22 * m + 5 THEN 1 ELSE 0
  <1>1. n \in Nat /\ size \in Nat /\ size <= 22 * n /\ (conn # "broken" => size = 22 * n)
    BY DEF WireHoldsAsked, Safe, EngineType
  <1>2. m \in Nat /\ size % 22 \in 0 .. 21 /\ size = m * 22 + (size % 22)
    <2> HIDE DEF size
    <2>1. 22 \in Nat \ {0}
      OBVIOUS
    <2> QED BY <1>1, <2>1, Division
  <1> HIDE DEF m, n, size
  <1>3. 22 * m <= size /\ size < 22 * m + 22
    BY <1>1, <1>2
  <1>4. m \in 0 .. n /\ e \in Nat /\ 2 * m + e <= 2 * n /\ (conn # "broken" => m = n /\ e = 0)
    BY <1>1, <1>2, <1>3
  <1>5. WholeBlocks(m, e)
    BY <1>3, <1>4 DEF WholeBlocks, n, size
  <1> QED BY <1>2, <1>4, <1>5 DEF n

(* One block further. *)
LEMMA SentBefore ==
  ASSUME NEW m \in Nat, NEW i \in Nat, i < m, NEW e \in 0 .. 1
  PROVE  SentFrom(i, m, e) =
           <<InterestedMessage>> \o (<<RequestMessage(BlockAt(i + 1))>> \o SentFrom(i + 1, m, e))
  <1> DEFINE t == SentFrom(i + 1, m, e)
             n == 2 * (m - (i + 1)) + e
             x == InterestedMessage
             y == RequestMessage(BlockAt(i + 1))
             s == [k \in 1 .. n + 2 |-> IF k = 1 THEN x ELSE IF k = 2 THEN y ELSE t[k - 2]]
  <1>1. n \in Nat /\ n + 2 = 2 * (m - i) + e
    OBVIOUS
  <1>2. t = [k \in 1 .. n |-> Sent(k, i + 1)]
    BY DEF SentFrom
  <1>3. <<x>> \o (<<y>> \o t) = s
    <2> HIDE DEF n, x, y
    <2>1. <<y>> \o t = [k \in 1 .. n + 1 |-> IF k = 1 THEN y ELSE t[k - 1]]
      BY <1>1, <1>2
    <2> DEFINE u == [k \in 1 .. n + 1 |-> IF k = 1 THEN y ELSE t[k - 1]]
    <2>2. <<x>> \o u = [k \in 1 .. n + 2 |-> IF k = 1 THEN x ELSE u[k - 1]]
      BY <1>1
    <2>3. [k \in 1 .. n + 2 |-> IF k = 1 THEN x ELSE u[k - 1]] = s
      BY <1>1
    <2> QED BY <2>1, <2>2, <2>3
  <1>4. ASSUME NEW k \in 1 .. n + 2 PROVE s[k] = Sent(k, i)
    <2>1. CASE k = 1
      BY <2>1 DEF Sent
    <2>2. CASE k = 2
      BY <2>2 DEF Sent
    <2>3. CASE k > 2
      <3>1. k - 2 \in 1 .. n /\ (k - 2) % 2 = k % 2 /\ (i + 1) + ((k - 2) \div 2) = i + (k \div 2)
        BY <1>1, <2>3
      <3>2. s[k] = Sent(k - 2, i + 1)
        BY <1>2, <2>3, <3>1
      <3> QED BY <3>1, <3>2 DEF Sent
    <2> QED BY <1>1, <2>1, <2>2, <2>3
  <1>5. SentFrom(i, m, e) = [k \in 1 .. n + 2 |-> Sent(k, i)]
    BY <1>1 DEF SentFrom
  <1>6. s = [k \in 1 .. n + 2 |-> Sent(k, i)]
    BY <1>4
  <1> QED BY <1>3, <1>5, <1>6

IsDecoding(f) ==
  \A i \in Nat \ {0} :
    f[i] = IF decodeMessage(Rest(wire, i)) = NoMessage THEN <<>>
           ELSE <<decodeMessage(Rest(wire, i))>> \o f[After(wire, i)]

LEMMA NoMessageUnsent ==
  InterestedMessage # NoMessage /\ \A b : RequestMessage(b) # NoMessage
  BY DEF InterestedMessage, RequestMessage, NoMessage, Message, Interested, Request

LEMMA LastMessages ==
  ASSUME Safe, WireHoldsAsked, NEW f, IsDecoding(f), NEW m \in Nat, NEW e \in Nat,
         WholeBlocks(m, e)
  PROVE  f[22 * m + 1] = SentFrom(m, m, e)
  <1> DEFINE n == Len(asked)
             size == Len(wire)
  <1>1. n \in Nat /\ size \in Nat /\ size <= 22 * n
    BY DEF WireHoldsAsked, Safe, EngineType
  <1>2. /\ m \in 0 .. n /\ 22 * m <= size /\ size < 22 * m + 22
        /\ e = (IF size >= 22 * m + 5 THEN 1 ELSE 0)
    BY DEF WholeBlocks
  <1>3. SentFrom(m, m, 0) = <<>> /\ SentFrom(m, m, 1) = <<InterestedMessage>>
    <2>1. 2 * (m - m) + 0 = 0 /\ 2 * (m - m) + 1 = 1 /\ Sent(1, m) = InterestedMessage
      BY DEF Sent
    <2>2. [k \in 1 .. 0 |-> Sent(k, m)] = <<>>
      OBVIOUS
    <2>3. [k \in 1 .. 1 |-> Sent(k, m)] = <<Sent(1, m)>>
      OBVIOUS
    <2> QED BY <2>1, <2>2, <2>3 DEF SentFrom
  <1>4. CASE decodeMessage(Rest(wire, 22 * m + 1)) = NoMessage /\ e = 0
    <2>1. 22 * m + 1 \in Nat \ {0}
      OBVIOUS
    <2> QED BY <1>3, <1>4, <2>1 DEF IsDecoding
  <1>5. CASE m = n
    <2>1. e = 0
      BY <1>1, <1>2, <1>5
    <2> QED BY <1>4, <1>5, <2>1, EndOfWire
  <1>6. CASE m < n /\ size < 22 * m + 5
    <2>1. m \in 0 .. n - 1 /\ e = 0
      BY <1>1, <1>2, <1>6
    <2>2. decodeMessage(Rest(wire, 22 * m + 1)) = NoMessage
      BY <1>6, <2>1, MessagesOfBlock
    <2> QED BY <1>4, <2>1, <2>2
  <1>7. CASE m < n /\ size >= 22 * m + 5
    <2>1. m \in 0 .. n - 1 /\ e = 1
      BY <1>1, <1>2, <1>7
    <2>2. /\ decodeMessage(Rest(wire, 22 * m + 1)) = InterestedMessage
          /\ After(wire, 22 * m + 1) = 22 * m + 6
          /\ decodeMessage(Rest(wire, 22 * m + 6)) = NoMessage
      BY <1>2, <1>7, <2>1, MessagesOfBlock
    <2>3. 22 * m + 1 \in Nat \ {0} /\ 22 * m + 6 \in Nat \ {0}
      OBVIOUS
    <2>4. f[22 * m + 6] = <<>>
      BY <2>2, <2>3 DEF IsDecoding
    <2>5. f[22 * m + 1] = <<InterestedMessage>> \o <<>>
      BY <2>2, <2>3, <2>4, NoMessageUnsent DEF IsDecoding
    <2> QED BY <1>3, <2>1, <2>5
  <1>8. m = n \/ (m < n /\ size < 22 * m + 5) \/ (m < n /\ size >= 22 * m + 5)
    <2> HIDE DEF n, size
    <2> QED BY <1>1, <1>2
  <1> QED BY <1>5, <1>6, <1>7, <1>8

LEMMA EarlierMessages ==
  ASSUME Safe, WireHoldsAsked, NEW f, IsDecoding(f), NEW m \in Nat, NEW e \in Nat,
         WholeBlocks(m, e), NEW i \in 0 .. m - 1, f[22 * (i + 1) + 1] = SentFrom(i + 1, m, e)
  PROVE  f[22 * i + 1] = SentFrom(i, m, e)
  <1>1. /\ m \in 0 .. Len(asked) /\ 22 * m <= Len(wire) /\ e \in 0 .. 1
        /\ Len(wire) \in Nat /\ Len(asked) \in Nat
    BY DEF WholeBlocks, WireHoldsAsked, Safe, EngineType
  <1>2. i \in 0 .. Len(asked) - 1 /\ Len(wire) >= 22 * i + 22 /\ Len(wire) >= 22 * i + 5
    BY <1>1
  <1>3. /\ decodeMessage(Rest(wire, 22 * i + 1)) = InterestedMessage
        /\ After(wire, 22 * i + 1) = 22 * i + 6
        /\ decodeMessage(Rest(wire, 22 * i + 6)) = RequestMessage(BlockAt(i + 1))
        /\ After(wire, 22 * i + 6) = 22 * i + 23
    BY <1>2, MessagesOfBlock
  <1>4. 22 * i + 1 \in Nat \ {0} /\ 22 * i + 6 \in Nat \ {0} /\ 22 * (i + 1) + 1 = 22 * i + 23
    OBVIOUS
  <1>5. f[22 * i + 6] = <<RequestMessage(BlockAt(i + 1))>> \o SentFrom(i + 1, m, e)
    BY <1>3, <1>4, NoMessageUnsent DEF IsDecoding
  <1>6. f[22 * i + 1] = <<InterestedMessage>> \o f[22 * i + 6]
    BY <1>3, <1>4, NoMessageUnsent DEF IsDecoding
  <1>7. i \in Nat /\ i < m
    OBVIOUS
  <1>8. e \in 0 .. 1
    BY <1>1
  <1>9. SentFrom(i, m, e) =
          <<InterestedMessage>> \o (<<RequestMessage(BlockAt(i + 1))>> \o SentFrom(i + 1, m, e))
    BY <1>7, <1>8, SentBefore
  <1> QED BY <1>5, <1>6, <1>9

LEMMA DecodedWire ==
  ASSUME Safe, WireHoldsAsked, NEW m \in Nat, NEW e \in Nat, WholeBlocks(m, e)
  PROVE  Decoded(wire) = SentFrom(0, m, e)
  <1>1. wire \in Seq(ByteSet)
    BY DEF WireHoldsAsked
  <1>2. PICK f : Decoded(wire) = f[1] /\ IsDecoding(f)
    BY <1>1, DecodedStep DEF IsDecoding
  <1> DEFINE Right(i) == f[22 * i + 1] = SentFrom(i, m, e)
             T == {d \in 0 .. m : ~ Right(m - d)}
  <1>3. T = {}
    <2> SUFFICES ASSUME T # {} PROVE FALSE
      OBVIOUS
    <2>1. T \subseteq Nat
      OBVIOUS
    <2>2. PICK d \in T : \A c \in T : d <= c
      <3> HIDE DEF T
      <3> QED BY <2>1, LeastNatural
    <2>3. Right(m)
      BY <1>2, LastMessages
    <2>4. d \in 0 .. m /\ ~ Right(m - d)
      OBVIOUS
    <2> HIDE DEF Right
    <2>5. d # 0
      BY <2>3, <2>4
    <2>6. d - 1 \in 0 .. m /\ d - 1 \notin T
      BY <2>2, <2>4, <2>5
    <2>7. Right(m - (d - 1))
      BY <2>6
    <2>8. m - d \in 0 .. m - 1 /\ m - (d - 1) = (m - d) + 1
      BY <2>4, <2>5
    <2> DEFINE i == m - d
    <2>9. i \in 0 .. m - 1 /\ Right(i + 1) /\ ~ Right(i)
      BY <2>4, <2>7, <2>8
    <2> HIDE DEF i
    <2>10. f[22 * (i + 1) + 1] = SentFrom(i + 1, m, e) /\ f[22 * i + 1] # SentFrom(i, m, e)
      BY <2>9 DEF Right
    <2> QED BY <1>2, <2>9, <2>10, EarlierMessages
  <1>4. Right(0)
    <2>1. m \in 0 .. m /\ m - m = 0
      OBVIOUS
    <2> HIDE DEF Right
    <2> QED BY <1>3, <2>1
  <1>5. 22 * 0 + 1 = 1
    OBVIOUS
  <1> QED BY <1>2, <1>4, <1>5

LEMMA WireIsRead == Safe /\ WireHoldsAsked => WireDecodes
  <1> SUFFICES ASSUME Safe, WireHoldsAsked PROVE WireDecodes
    OBVIOUS
  <1> DEFINE n == Len(asked)
  <1>1. n \in Nat
    BY DEF Safe, EngineType
  <1>2. PICK m, e \in Nat :
          /\ WholeBlocks(m, e)
          /\ 2 * m + e <= 2 * n
          /\ conn # "broken" => m = n /\ e = 0
    BY SomeBlocksWhole
  <1> DEFINE size == 2 * m + e
             messages == Decoded(wire)
             read == [k \in DOMAIN messages |->
                        IF messages[k].type = Request THEN BlockIn(messages[k]) ELSE messages[k]]
             meant == [k \in 1 .. 2 * n |->
                         IF k % 2 = 1 THEN InterestedMessage ELSE asked[k \div 2].block]
             shown(k) == IF k % 2 = 1 THEN InterestedMessage ELSE asked[k \div 2].block
  <1>3. messages = [k \in 1 .. size |-> Sent(k, 0)]
    <2>1. messages = SentFrom(0, m, e)
      BY <1>2, DecodedWire
    <2>2. 2 * (m - 0) + e = size
      OBVIOUS
    <2> QED BY <2>1, <2>2 DEF SentFrom
  <1> HIDE DEF messages
  <1>4. ASSUME NEW k \in 1 .. size
        PROVE  (IF messages[k].type = Request THEN BlockIn(messages[k]) ELSE messages[k]) = shown(k)
    <2>1. CASE k % 2 = 1
      <3>1. messages[k] = InterestedMessage
        BY <1>3, <1>4, <2>1 DEF Sent
      <3>2. InterestedMessage.type # Request
        BY DEF InterestedMessage, Message, Interested, Request
      <3> QED BY <2>1, <3>1, <3>2
    <2>2. CASE k % 2 # 1
      <3>1. k \div 2 \in 1 .. n
        BY <1>1, <1>2, <1>4, <2>2
      <3>2. 0 + (k \div 2) = k \div 2
        BY <3>1
      <3>3. messages[k] = RequestMessage(BlockAt(k \div 2))
        BY <1>3, <1>4, <2>2, <3>2 DEF Sent
      <3>4. BlockAt(k \div 2) \in Blocks
        BY <3>1, BlockAtType
      <3>5. BlockIn(messages[k]) = BlockAt(k \div 2)
        BY <3>3, <3>4, BlockIsRead
      <3>6. messages[k].type = Request
        BY <3>3 DEF RequestMessage, Message
      <3> QED BY <2>2, <3>5, <3>6 DEF BlockAt
    <2> QED BY <2>1, <2>2
  <1>5. read = [k \in 1 .. size |-> shown(k)]
    BY <1>3, <1>4
  <1>6. size \in Nat /\ size <= 2 * n /\ (conn # "broken" => size = 2 * n)
    BY <1>1, <1>2
  <1>7. meant = [k \in 1 .. 2 * n |-> shown(k)]
    OBVIOUS
  <1> HIDE DEF size, read, meant, shown
  <1>8. conn # "broken" => read = meant
    BY <1>5, <1>6, <1>7
  <1>9. IsPrefix(read, meant)
    BY <1>1, <1>5, <1>6, <1>7 DEF IsPrefix
  <1> QED BY <1>8, <1>9 DEF WireDecodes, messages, read, meant

(* Whatever was asked for and wherever the connection broke: the peer      *)
(* reads the blocks that were meant off the wire, in order, and no others  *)
(* (PeerConnection.cpp:62-74, 114-135, PeerProtocol.cpp:43-57).            *)
THEOREM WireAlwaysDecodes == Spec => []WireDecodes
  BY SafeInit, SafeStep, WireInit, WireStep, WireIsRead, PTL DEF Spec
=============================================================================
