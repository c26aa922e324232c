-------------------------------- MODULE Load --------------------------------
(***************************************************************************)
(* From the command line to the metadata: Config::parse, and               *)
(* TorrentMetadata::loadFromFile as TorrentSession::start calls it.  Every *)
(* exception on the way is caught by Config::parse or App::run, and the    *)
(* program returns 1: here, pc is "refused" or, when it is storage that    *)
(* failed, "unopened".                                                     *)
(***************************************************************************)
EXTENDS TorrentText

CONSTANTS
  Inputs,     \* command lines with the torrent file they name
  Gib,        \* bytes in a gigabyte
  HashBytes,  \* bytes of a piece hash (20)
  NotANumber  \* an argument that does not begin with a number

Sha == INSTANCE Sha1

(* A torrent and what the file holds of it: the text of it, perhaps cut    *)
(* short, perhaps with something behind it.                                *)
ASSUME LoadAssumption ==
  /\ Inputs \subseteq [argc : Nat, exists : BOOLEAN, letter : BOOLEAN,
                       gigabytes : Int \cup {NotANumber},
                       torrent : Seq(Nodes), text : Seq(Byte)]
  /\ \A in \in Inputs :
       /\ IsTree(in.torrent)
       /\ \/ IsPrefix(in.text, Spell(in.torrent, 1))
          \/ IsPrefix(Spell(in.torrent, 1), in.text)
  /\ {Gib, HashBytes} \subseteq Nat \ {0}
  /\ NotANumber \notin Int

VARIABLES
  input,      \* argc, exists, letter, gigabytes; torrent and text of the file
  pc,
  cacheSize,  \* cacheSizeBytes
  values,     \* the values in the file, rootValue the first of them
  metadata,   \* announceUrl_, name_, pieceLength_, pieceCount_, totalSize_ and files_
  hashed,     \* the text that the info hash is of
  queue       \* the entries of the files list still to come

vars == <<input, pc, cacheSize, values, metadata, hashed, queue>>

Empty == [announce |-> <<>>, name |-> <<>>, pieceLength |-> 0, pieceCount |-> 0,
          totalSize |-> 0, files |-> <<>>]

Init ==
  /\ input \in Inputs
  /\ pc = "config"
  /\ cacheSize = 0
  /\ values = <<>>
  /\ metadata = Empty
  /\ hashed = <<>>
  /\ queue = <<>>

Goto(here, there) == pc = here /\ pc' = there

-----------------------------------------------------------------------------
(* Config::parse *)

(* std::stoull takes a sign, and negates in the unsigned type.             *)
OutOfRange(n) == n >= Word \/ -n >= Word
Stoull(n) == n % Word

SizeUnchecked(n) ==  \* faulty variant: the limit is not looked at
  n # NotANumber /\ ~OutOfRange(n)

SizeAccepted(n) ==
  /\ n # NotANumber
  /\ ~OutOfRange(n)
  /\ Stoull(n) <= (Word - 1) \div Gib

CommandLineFine ==
  /\ input.argc = 5
  /\ input.exists
  /\ input.letter
  /\ SizeAccepted(input.gigabytes)

ParseConfig ==
  /\ CommandLineFine
  /\ Goto("config", "start")
  /\ cacheSize' = (Stoull(input.gigabytes) * Gib) % Word
  /\ UNCHANGED <<input, values, metadata, hashed, queue>>

RefuseConfig ==
  /\ ~CommandLineFine
  /\ Goto("config", "refused")
  /\ UNCHANGED <<input, cacheSize, values, metadata, hashed, queue>>

-----------------------------------------------------------------------------
(* TorrentSession::start, TorrentMetadata::loadFromFile *)

(* The cache directories cannot be created, or the file cannot be read.    *)
StorageFails ==
  /\ Goto("start", "unopened")
  /\ UNCHANGED <<input, cacheSize, values, metadata, hashed, queue>>

(* The entry of a dictionary for a key; whether there is one of this kind. *)
Entry(dict, k) == values[dict[<<k>>]].value
Find(dict, k, kind) == <<k>> \in DOMAIN dict /\ Entry(dict, k).kind = kind

Root == values[1].value.dictionary
Info == Entry(Root, "info").dictionary

(* The file is parsed; its root and its info are dictionaries. *)
RootFine ==
  /\ values[1].value.kind = "dictionary"
  /\ Find(Root, "info", "dictionary")

ParseTorrent ==
  /\ values' = Values(input.text)
  /\ Goto("start", IF IsParsed(input.text, values') /\ RootFine' THEN "info" ELSE "refused")
  /\ UNCHANGED <<input, cacheSize, metadata, hashed, queue>>

(* joinPathList: no separator while nothing has been joined. *)
JoinPathList(parts) ==
  FoldLeft(LAMBDA out, p : IF out = <<>> THEN p ELSE out \o <<"/">> \o p, <<>>, parts)

Record(path, length, offset) ==
  [relativePath |-> path, size |-> length % Word, offset |-> offset]

InfoFine ==
  /\ Find(Info, "name", "string")
  /\ Find(Info, "piece length", "integer")
  /\ Find(Info, "pieces", "string")
  /\ IF <<"files">> \in DOMAIN Info
     THEN Entry(Info, "files").kind = "list"
     ELSE Find(Info, "length", "integer")

(* The fields of info, the info hash, and the file of a single-file        *)
(* torrent; a files list is taken up by the loop that follows.             *)
ReadInfo ==
  LET name == Entry(Info, "name").string
      single == <<Record(name, Entry(Info, "length").integer, 0)>>
      many == <<"files">> \in DOMAIN Info
  IN  /\ pc = "info"
      /\ InfoFine
      /\ hashed' = Encode(values, Root[<<"info">>])
      /\ metadata' =
           [announce |-> IF Find(Root, "announce", "string") THEN Entry(Root, "announce").string
                         ELSE <<>>,
            name |-> name,
            pieceLength |-> Entry(Info, "piece length").integer % Word,
            pieceCount |-> Len(Entry(Info, "pieces").string) \div HashBytes,
            totalSize |-> IF many THEN 0 ELSE single[1].size,
            files |-> IF many THEN <<>> ELSE single]
      /\ queue' = IF many THEN Entry(Info, "files").list ELSE <<>>
      /\ pc' = IF many THEN "files" ELSE "ready"
      /\ UNCHANGED <<input, cacheSize, values>>

RefuseInfo ==
  /\ Goto("info", "refused")
  /\ ~InfoFine
  /\ UNCHANGED <<input, cacheSize, values, metadata, hashed, queue>>

FileFine(f) ==
  /\ f.kind = "dictionary"
  /\ Find(f.dictionary, "path", "list")
  /\ \A part \in ToSet(Entry(f.dictionary, "path").list) : values[part].value.kind = "string"
  /\ Find(f.dictionary, "length", "integer")

OffsetOfLast(m) ==  \* faulty variant: the offset is not advanced past the last file
  IF m.files = <<>> THEN 0 ELSE Last(m.files).size

(* offset and totalSize_ grow by the same amounts. *)
NextOffset(m) == m.totalSize

ReadFile ==
  LET f == values[Head(queue)].value
      parts == Entry(f.dictionary, "path").list
      path == JoinPathList([k \in DOMAIN parts |-> values[parts[k]].value.string])
      record == Record(metadata.name \o <<"/">> \o path, Entry(f.dictionary, "length").integer,
                       NextOffset(metadata))
  IN  /\ pc = "files"
      /\ queue # <<>>
      /\ FileFine(f)
      /\ metadata' = [metadata EXCEPT !.files = Append(@, record),
                                      !.totalSize = (@ + record.size) % Word]
      /\ queue' = Tail(queue)
      /\ UNCHANGED <<input, pc, cacheSize, values, hashed>>

RefuseFile ==
  /\ queue # <<>>
  /\ Goto("files", "refused")
  /\ ~FileFine(values[Head(queue)].value)
  /\ UNCHANGED <<input, cacheSize, values, metadata, hashed, queue>>

FilesRead ==
  /\ queue = <<>>
  /\ Goto("files", "ready")
  /\ UNCHANGED <<input, cacheSize, values, metadata, hashed, queue>>

Next ==
  \/ ParseConfig \/ RefuseConfig
  \/ StorageFails \/ ParseTorrent \/ ReadInfo \/ RefuseInfo
  \/ ReadFile \/ RefuseFile \/ FilesRead

Spec == Init /\ [][Next]_vars

-----------------------------------------------------------------------------
(* Properties *)

(* The program goes on with a torrent exactly when the file is the whole   *)
(* of one: cut short or with bytes behind it, without a key it needs or    *)
(* with a value of another kind, it is refused (Bencode.cpp:19-124,        *)
(* TorrentMetadata.cpp:14-95).                                             *)
LoadsExactlyTorrents ==
  LET whole == input.text = Spell(input.torrent, 1)
  IN  /\ pc = "ready" => whole /\ IsTorrent(input.torrent)
      /\ pc = "refused" => ~(CommandLineFine /\ whole /\ IsTorrent(input.torrent))

(* The info hash, by which peers know the torrent, is the hash of what the *)
(* file has for info, wherever that is spelled as bencode demands - though *)
(* the program hashes its own encoding of what it parsed (Bencode.cpp:     *)
(* 138-161, TorrentMetadata.cpp:68).                                       *)
HashOfFile ==
  hashed # <<>> => LET info == Get(input.torrent[1], "info")
                   IN  IsCanonical(input.torrent, info) => hashed = Spell(input.torrent, info)

(* Whatever its length, the hashed text reaches processBlock in whole      *)
(* blocks, padded as SHA-1 demands: the marker, the fewest zeros that      *)
(* serve and the length at the very end (Sha1.cpp:17-52).                  *)
HashPadded ==
  hashed # <<>> =>
    LET n == Len(hashed)
        blocks == Sha!Digest(n)
        zeros == (Sha!LengthAt - 1 - n) % Sha!BlockSize
    IN  /\ \A k \in DOMAIN blocks : Len(blocks[k]) = Sha!BlockSize
        /\ FlattenSeq(blocks) = [k \in 1 .. n |-> k] \o <<Sha!Marker>> \o Sha!Zeros(zeros)
                                \o [k \in 1 .. 8 |-> Sha!LengthByte(k)]

(* As long as the lengths add up to less than a word, the files lie one    *)
(* behind the other in the torrent: every byte is in exactly one of them   *)
(* (TorrentMetadata.cpp:70-95).                                            *)
FilesTile ==
  pc = "ready" =>
    LET torrent == input.torrent
        lengths == LengthsOf(torrent, torrent[Get(torrent[1], "info")])
        total == MapThenSumSet(LAMBDA k : lengths[k], DOMAIN lengths)
        files == metadata.files
    IN  (\A k \in DOMAIN lengths : lengths[k] >= 0) /\ total < Word =>
          /\ Len(files) = Len(lengths)
          /\ metadata.totalSize = total
          /\ \A b \in 0 .. total - 1 :
               Cardinality({k \in DOMAIN files :
                              files[k].offset <= b /\ b < files[k].offset + files[k].size}) = 1
          /\ \A k \in DOMAIN files : files[k].size = lengths[k]

(* A cache of n gigabytes has n gigabytes: the product never wraps         *)
(* (Config.cpp:32-43).                                                     *)
CacheSizeKept ==
  pc \notin {"config", "refused"} /\ input.gigabytes >= 0 =>
    cacheSize = input.gigabytes * Gib
=============================================================================
