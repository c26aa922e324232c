-------------------------------- MODULE Sha1 --------------------------------
(***************************************************************************)
(* The buffering of Sha1: which 64-byte blocks processBlock gets to see.   *)
(* A byte of a block is named by where it comes from: a position of the    *)
(* text, or the padding.  What processBlock does with a block is left out. *)
(***************************************************************************)
EXTENDS Integers, SequencesExt

Marker == 0              \* 0x80
Zero == -1
LengthByte(i) == -1 - i  \* the i-th byte of bitCount_, the highest first

BlockSize == 64
LengthAt == 56           \* where the last block has bitCount_

(* Empty for count < 0. *)
Zeros(count) == [k \in 1 .. count |-> Zero]

(* The members of a Sha1 object, with the blocks processed so far. *)
Fresh == [buffer |-> <<>>, blocks |-> <<>>]

(* update: whole blocks are processed, the rest is kept. *)
Update(sha, bytes) ==
  LET all == sha.buffer \o bytes
      whole == Len(all) \div BlockSize
  IN  [buffer |-> SubSeq(all, whole * BlockSize + 1, Len(all)),
       blocks |-> sha.blocks \o
         [b \in 1 .. whole |-> SubSeq(all, (b - 1) * BlockSize + 1, b * BlockSize)]]

FillLate(marked) ==  \* faulty variant: bufferSize_ > 57
  IF Len(marked) > LengthAt + 1
  THEN << marked \o Zeros(BlockSize - Len(marked)), Zeros(LengthAt) >>
  ELSE << marked \o Zeros(LengthAt - Len(marked)) >>

(* The marked rest of the text, filled with zeros: in one block when the   *)
(* length fits behind it, else in two.                                     *)
Fill(marked) ==
  IF Len(marked) > LengthAt
  THEN << marked \o Zeros(BlockSize - Len(marked)), Zeros(LengthAt) >>
  ELSE << marked \o Zeros(LengthAt - Len(marked)) >>

(* final *)
Final(sha) ==
  LET filled == Fill(Append(sha.buffer, Marker))
  IN  sha.blocks \o Front(filled) \o << Last(filled) \o [i \in 1 .. 8 |-> LengthByte(i)] >>

(* digest of a text of n bytes *)
Digest(n) == Final(Update(Fresh, [k \in 1 .. n |-> k]))
=============================================================================
