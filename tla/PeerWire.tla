------------------------------- MODULE PeerWire -------------------------------
(***************************************************************************)
(* Messages of the peer protocol as PeerProtocol writes and reads them:    *)
(* four bytes of length, one of type, and the payload.                     *)
(***************************************************************************)
EXTENDS Integers, SequencesExt

CONSTANT Byte  \* the number of values of a byte: 256

(* The types that are sent fit in a byte, below the one of keepAlive. *)
ASSUME WireAssumption == Byte \in Nat /\ Byte > 7

Word32 == Byte * Byte * Byte * Byte

Interested == 2
Request == 6
KeepAlive == Byte - 1

Message(type, payload) == [type |-> type, payload |-> payload]

(* The highest byte first, four of them. *)
Bytes4(n) == <<(n \div (Byte * Byte * Byte)) % Byte, (n \div (Byte * Byte)) % Byte,
               (n \div Byte) % Byte, n % Byte>>
NumberOf4(b) == ((b[1] * Byte + b[2]) * Byte + b[3]) * Byte + b[4]

encodeMessageShort(m) ==  \* faulty variant: the type is not counted
  Bytes4(Len(m.payload)) \o <<m.type>> \o m.payload

encodeMessage(m) ==
  IF m.type = KeepAlive THEN Bytes4(0)
  ELSE Bytes4(1 + Len(m.payload)) \o <<m.type>> \o m.payload

NoMessage == Message(-1, <<>>)

(* A message at the front of the data, which is as long as it says. *)
decodeMessage(data) ==
  LET length == NumberOf4(SubSeq(data, 1, 4))
  IN  CASE Len(data) < 4 -> NoMessage
        [] Len(data) >= 4 /\ length = 0 -> Message(KeepAlive, <<>>)
        [] OTHER -> IF Len(data) < (length + 4) % Word32 THEN NoMessage
                    ELSE Message(data[5], SubSeq(data, 6, 4 + length))

(* PeerConnection::sendInterested and requestBlock. *)
InterestedMessage == Message(Interested, <<>>)
RequestMessage(block) ==
  Message(Request, Bytes4(block.piece) \o Bytes4(block.begin) \o Bytes4(block.len))
=============================================================================
