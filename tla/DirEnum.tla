------------------------------ MODULE DirEnum ------------------------------
(***************************************************************************)
(* Directory enumeration under ProjFS (src/src/VirtualDrive.cpp): ProjFS   *)
(* opens an enumeration under an id, asks again and again for entries, one *)
(* buffer at a time, may start over at any point, and closes it.  Several  *)
(* enumerations run at once; each callback is one section under mutex_,    *)
(* hence one action.                                                       *)
(*                                                                         *)
(* ProjFS is the environment: it repeats the directory and the search      *)
(* expression of a scan on every call, and gives up on a scan that failed. *)
(***************************************************************************)
EXTENDS Integers, SequencesExt

CONSTANTS
  Ids,        \* enumeration ids
  Dirs,
  Listing,    \* Listing[d]: what listProjectedDirectory returns for d
  Exprs,      \* search expressions; an empty one matches every entry
  Matching,   \* Matching[e]: the entries whose name matches e
  Collate,    \* Collate[x]: the place of x's name in PrjFileNameCompare's order
  Rooms,      \* how many entries the buffers of the calls have room for
  Refused,    \* entries whose names PrjFillDirEntryBuffer fails on
  None

ASSUME EnumAssumption ==
  /\ \A d \in Dirs : IsFiniteSet(Listing[d]) /\ \A x \in Listing[d] : Collate[x] \in Int
  /\ Rooms \subseteq Nat \ {0}
  /\ None \notin [dir : Dirs, expr : Exprs]

VARIABLES
  enumerations,  \* enumerations_[id]: the entries and how many were handed out, or None
  scan,          \* the directory and expression ProjFS is after under id, or None
  got,           \* what it has received since the scan began
  answer         \* how its last call went: "open", "entries", "nomore", "failed"

enumVars == <<enumerations, scan, got, answer>>

Wanted(d, e) == Listing[d] \cap Matching[e]

OrderingsUnfiltered(d, e) ==  \* faulty variant: the search expression is ignored
  {s \in SetToSeqs(Listing[d]) :
     \A i, j \in DOMAIN s : i < j => Collate[s[i]] <= Collate[s[j]]}

(* std::sort is not stable: names that compare equal come in any order. *)
Orderings(d, e) ==
  {s \in SetToSeqs(Wanted(d, e)) :
     \A i, j \in DOMAIN s : i < j => Collate[s[i]] <= Collate[s[j]]}

EnumInit ==
  /\ enumerations = [id \in Ids |-> None]
  /\ scan = [id \in Ids |-> None]
  /\ got = [id \in Ids |-> <<>>]
  /\ answer = [id \in Ids |-> "open"]

StartDirEnum(id) ==
  /\ scan[id] = None
  /\ \E d \in Dirs, e \in Exprs : scan' = [scan EXCEPT ![id] = [dir |-> d, expr |-> e]]
  /\ enumerations' = [enumerations EXCEPT ![id] = [entries |-> <<>>, nextIndex |-> 0]]
  /\ got' = [got EXCEPT ![id] = <<>>]
  /\ answer' = [answer EXCEPT ![id] = "open"]

EndDirEnum(id) ==
  /\ scan[id] # None
  /\ scan' = [scan EXCEPT ![id] = None]
  /\ enumerations' = [enumerations EXCEPT ![id] = None]
  /\ got' = [got EXCEPT ![id] = <<>>]
  /\ answer' = [answer EXCEPT ![id] = "open"]

(* The entries from "from" to "to" go into the buffer; then there are no   *)
(* more, or no more fit, or the next one is refused.                       *)
Filled(entries, from, to, room) ==
  /\ to - from <= room
  /\ \A k \in from + 1 .. to : entries[k] \notin Refused
  /\ to < Len(entries) /\ to - from < room => entries[to + 1] \in Refused

HandedSwallowed(from, to, room, entries) ==  \* faulty variant: a refused entry ends the listing
  IF to = from THEN "nomore" ELSE "entries"

Handed(from, to, room, entries) ==
  IF to < Len(entries) /\ to - from < room THEN "failed"
  ELSE IF to = from THEN "nomore" ELSE "entries"

(* The list is made anew for a restart, and whenever it is empty. *)
FirstIndexKept(state, restart) ==  \* faulty variant: nextIndex is not reset
  state.nextIndex

FirstIndex(state, restart) ==
  IF restart \/ state.entries = <<>> THEN 0 ELSE state.nextIndex

EntriesOf(state, restart, d, e) ==
  IF restart \/ state.entries = <<>> THEN Orderings(d, e) ELSE {state.entries}

GetDirEnum(id, restart) ==
  /\ scan[id] # None
  /\ answer[id] = "failed" => restart
  /\ \E e \in (IF restart THEN Exprs ELSE {scan[id].expr}), room \in Rooms :
       LET state == enumerations[id]
           from == FirstIndex(state, restart)
       IN  /\ scan' = [scan EXCEPT ![id].expr = e]
           /\ \E entries \in EntriesOf(state, restart, scan[id].dir, e) :
              \E to \in from .. Len(entries) :
                /\ Filled(entries, from, to, room)
                /\ enumerations' =
                     [enumerations EXCEPT ![id] = [entries |-> entries, nextIndex |-> to]]
                /\ got' = [got EXCEPT ![id] =
                             (IF restart THEN <<>> ELSE @) \o SubSeq(entries, from + 1, to)]
                /\ answer' = [answer EXCEPT ![id] = Handed(from, to, room, entries)]

EnumNext ==
  \E id \in Ids :
    \/ StartDirEnum(id)
    \/ EndDirEnum(id)
    \/ \E restart \in BOOLEAN : GetDirEnum(id, restart)

EnumSpec == EnumInit /\ [][EnumNext]_enumVars

-----------------------------------------------------------------------------
(* Properties *)

(* However a scan is cut into buffers, restarted and mixed with others,    *)
(* what ProjFS holds is the beginning of one sorted listing of what it     *)
(* asked for: nothing twice, nothing that does not match, nothing that had *)
(* to come later (VirtualDrive.cpp:499-545).                               *)
InOrderOnce ==
  \A id \in Ids :
    scan[id] # None =>
      LET s == got[id]
          W == Wanted(scan[id].dir, scan[id].expr)
      IN  /\ \A k \in DOMAIN s : s[k] \in W
          /\ \A j, k \in DOMAIN s : j < k => s[j] # s[k] /\ Collate[s[j]] <= Collate[s[k]]
          /\ \A w \in W \ ToSet(s), k \in DOMAIN s : Collate[s[k]] <= Collate[w]

(* An empty answer ends a scan for ProjFS; it then has every entry - if    *)
(* each buffer has room for one, because running out of room is reported   *)
(* as success too (VirtualDrive.cpp:528-544).                              *)
NoMoreMeansAll ==
  \A id \in Ids :
    scan[id] # None /\ answer[id] = "nomore" =>
      ToSet(got[id]) = Wanted(scan[id].dir, scan[id].expr)
=============================================================================
