-------------------------- MODULE VirtualDriveProofs --------------------------
(***************************************************************************)
(* Theorems about the two sides of the drive.  Mount: for torrents of any  *)
(* number of files and any number of ProjFS callbacks.  DirEnum: for every *)
(* directory, search expression, size of buffer and number of enumerations.*)
(***************************************************************************)
EXTENDS Mount, DirEnum, FiniteSetTheorems, TLAPS

-----------------------------------------------------------------------------
(* Directory enumeration. *)

(* What is behind one enumeration: it was just opened, or what ProjFS has  *)
(* are the first nextIndex entries of one ordering of what it wants.       *)
Fresh(id) ==
  /\ enumerations[id] = [entries |-> <<>>, nextIndex |-> 0]
  /\ got[id] = <<>>
  /\ answer[id] = "open"

UnderWay(id) ==
  LET entries == enumerations[id].entries
      n == enumerations[id].nextIndex
  IN  /\ entries \in Orderings(scan[id].dir, scan[id].expr)
      /\ n \in 0 .. Len(entries)
      /\ got[id] = SubSeq(entries, 1, n)
      /\ answer[id] = "nomore" => n = Len(entries)

Shape ==
  /\ DOMAIN enumerations = Ids
  /\ scan \in [Ids -> [dir : Dirs, expr : Exprs] \cup {None}]
  /\ DOMAIN got = Ids
  /\ DOMAIN answer = Ids

ScanInv == Shape /\ \A id \in Ids : scan[id] # None => Fresh(id) \/ UnderWay(id)

(* An ordering holds each wanted entry once, and nothing else. *)
LEMMA OrderingFacts ==
  ASSUME NEW d \in Dirs, NEW e, NEW s \in Orderings(d, e)
  PROVE  /\ s \in Seq(Wanted(d, e))
         /\ \A i, j \in DOMAIN s : i < j => s[i] # s[j] /\ Collate[s[i]] <= Collate[s[j]]
         /\ ToSet(s) = Wanted(d, e)
  <1> DEFINE W == Wanted(d, e)
             D == 1 .. Cardinality(W)
  <1>1. IsFiniteSet(W)
    BY EnumAssumption, FS_Subset DEF Wanted
  <1>2. Cardinality(W) \in Nat
    BY <1>1, FS_CardinalityType
  <1>3. /\ s \in [D -> W]
        /\ \A i, j \in D : i # j => s[i] # s[j]
        /\ \A i, j \in DOMAIN s : i < j => Collate[s[i]] <= Collate[s[j]]
    BY DEF Orderings, SetToSeqs
  <1>4. s \in Injection(D, W)
    BY <1>3 DEF Injection, IsInjective
  <1>5. IsFiniteSet(D) /\ Cardinality(D) = Cardinality(W)
    BY <1>2, FS_Interval
  <1>6. s \in Surjection(D, W)
    BY <1>1, <1>4, <1>5, FS_Injection
  <1>7. ToSet(s) = W
    BY <1>3, <1>6 DEF ToSet, Surjection
  <1>8. s \in Seq(W)
    BY <1>2, <1>3
  <1>9. \A i, j \in DOMAIN s : i < j => s[i] # s[j]
    BY <1>2, <1>3
  <1> QED BY <1>3, <1>7, <1>8, <1>9

LEMMA SubSeqsMeet ==
  ASSUME NEW S, NEW s \in Seq(S), NEW m \in 0 .. Len(s), NEW n \in m .. Len(s)
  PROVE  SubSeq(s, 1, m) \o SubSeq(s, m + 1, n) = SubSeq(s, 1, n)
  OBVIOUS

(* "nomore" is the answer at the end of the list only. *)
LEMMA NoMoreAtEnd ==
  ASSUME NEW S, NEW s \in Seq(S), NEW from \in Nat, NEW to \in 0 .. Len(s),
         NEW room \in Nat \ {0}, Handed(from, to, room, s) = "nomore"
  PROVE  to = Len(s)
  BY DEF Handed

LEMMA ScanInit == EnumInit => ScanInv
  BY DEF EnumInit, ScanInv, Shape

LEMMA StartInv ==
  ASSUME ScanInv, NEW id \in Ids, StartDirEnum(id)
  PROVE  ScanInv'
  <1>1. PICK d \in Dirs, e \in Exprs : scan' = [scan EXCEPT ![id] = [dir |-> d, expr |-> e]]
    BY DEF StartDirEnum
  <1>2. Shape'
    BY <1>1 DEF StartDirEnum, ScanInv, Shape
  <1>3. Fresh(id)'
    BY DEF StartDirEnum, ScanInv, Shape, Fresh
  <1>4. ASSUME NEW i \in Ids, i # id, scan'[i] # None
        PROVE  Fresh(i)' \/ UnderWay(i)'
    BY <1>1, <1>4 DEF StartDirEnum, ScanInv, Shape, Fresh, UnderWay
  <1> QED BY <1>2, <1>3, <1>4 DEF ScanInv

LEMMA EndInv ==
  ASSUME ScanInv, NEW id \in Ids, EndDirEnum(id)
  PROVE  ScanInv'
  <1>1. Shape'
    BY DEF EndDirEnum, ScanInv, Shape
  <1>2. ASSUME NEW i \in Ids, scan'[i] # None
        PROVE  i # id /\ scan[i] # None
    BY <1>2 DEF EndDirEnum, ScanInv, Shape
  <1>3. ASSUME NEW i \in Ids, scan'[i] # None
        PROVE  Fresh(i)' \/ UnderWay(i)'
    BY <1>2, <1>3 DEF EndDirEnum, ScanInv, Shape, Fresh, UnderWay
  <1> QED BY <1>1, <1>3 DEF ScanInv

(* One call: the list it works on is an ordering of what is wanted, and    *)
(* what ProjFS gets continues what it has.                                 *)
LEMMA GetInv ==
  ASSUME ScanInv, NEW id \in Ids, NEW restart \in BOOLEAN, GetDirEnum(id, restart)
  PROVE  ScanInv'
  <1> DEFINE state == enumerations[id]
             from == FirstIndex(state, restart)
             d == scan[id].dir
  <1>1. PICK e \in (IF restart THEN Exprs ELSE {scan[id].expr}), room \in Rooms :
          /\ scan' = [scan EXCEPT ![id].expr = e]
          /\ \E entries \in EntriesOf(state, restart, d, e) :
             \E to \in from .. Len(entries) :
               /\ Filled(entries, from, to, room)
               /\ enumerations' =
                    [enumerations EXCEPT ![id] = [entries |-> entries, nextIndex |-> to]]
               /\ got' = [got EXCEPT ![id] =
                            (IF restart THEN <<>> ELSE @) \o SubSeq(entries, from + 1, to)]
               /\ answer' = [answer EXCEPT ![id] = Handed(from, to, room, entries)]
    BY DEF GetDirEnum
  <1>2. PICK entries \in EntriesOf(state, restart, d, e) :
        \E to \in from .. Len(entries) :
               /\ Filled(entries, from, to, room)
               /\ enumerations' =
                    [enumerations EXCEPT ![id] = [entries |-> entries, nextIndex |-> to]]
               /\ got' = [got EXCEPT ![id] =
                            (IF restart THEN <<>> ELSE @) \o SubSeq(entries, from + 1, to)]
               /\ answer' = [answer EXCEPT ![id] = Handed(from, to, room, entries)]
    BY <1>1
  <1>3. PICK to \in from .. Len(entries) :
               /\ Filled(entries, from, to, room)
               /\ enumerations' =
                    [enumerations EXCEPT ![id] = [entries |-> entries, nextIndex |-> to]]
               /\ got' = [got EXCEPT ![id] =
                            (IF restart THEN <<>> ELSE @) \o SubSeq(entries, from + 1, to)]
               /\ answer' = [answer EXCEPT ![id] = Handed(from, to, room, entries)]
    BY <1>2
  <1>4. /\ scan[id] # None
        /\ scan[id] \in [dir : Dirs, expr : Exprs]
        /\ d \in Dirs
        /\ e \in Exprs
        /\ Fresh(id) \/ UnderWay(id)
    BY <1>1 DEF GetDirEnum, ScanInv, Shape
  <1>5. scan'[id] = [dir |-> d, expr |-> e]
    BY <1>1, <1>4 DEF ScanInv, Shape
  <1>6. Shape'
    BY <1>1, <1>3, <1>4 DEF ScanInv, Shape
  <1>7. entries \in Orderings(d, e)
    BY <1>1, <1>4 DEF EntriesOf, Fresh, UnderWay
  <1>8. entries \in Seq(Wanted(d, e))
    BY <1>4, <1>7, OrderingFacts
  <1>9. /\ from \in 0 .. Len(entries)
        /\ (IF restart THEN <<>> ELSE got[id]) = SubSeq(entries, 1, from)
    <2>1. CASE restart \/ state.entries = <<>>
      <3>1. from = 0
        BY <2>1 DEF FirstIndex
      <3>2. restart \/ got[id] = <<>>
        BY <1>4, <2>1 DEF Fresh, UnderWay
      <3>3. (IF restart THEN <<>> ELSE got[id]) = <<>>
        BY <3>2
      <3>4. SubSeq(entries, 1, 0) = <<>> /\ 0 \in 0 .. Len(entries)
        BY <1>8
      <3> QED BY <3>1, <3>3, <3>4
    <2>2. CASE ~(restart \/ state.entries = <<>>)
      BY <1>4, <2>2 DEF FirstIndex, EntriesOf, Fresh, UnderWay
    <2> QED BY <2>1, <2>2
  <1>10. to \in 0 .. Len(entries) /\ to \in from .. Len(entries)
    BY <1>8, <1>9
  <1>11. SubSeq(entries, 1, from) \o SubSeq(entries, from + 1, to) = SubSeq(entries, 1, to)
    BY <1>8, <1>9, <1>10, SubSeqsMeet
  <1>12. got'[id] = SubSeq(entries, 1, to)
    BY <1>3, <1>9, <1>11 DEF ScanInv, Shape
  <1>13. answer'[id] = "nomore" => to = Len(entries)
    <2>1. room \in Nat \ {0}
      BY EnumAssumption
    <2>2. answer'[id] = Handed(from, to, room, entries)
      BY <1>3 DEF ScanInv, Shape
    <2>3. from \in Nat /\ to \in Nat
      BY <1>8, <1>9, <1>10
    <2> HIDE DEF from
    <2> QED BY <1>8, <1>10, <2>1, <2>2, <2>3, NoMoreAtEnd
  <1>14. UnderWay(id)'
    <2>1. enumerations'[id].entries = entries /\ enumerations'[id].nextIndex = to
      BY <1>3 DEF ScanInv, Shape
    <2>2. scan'[id].dir = d /\ scan'[id].expr = e
      BY <1>5
    <2> HIDE DEF d
    <2> QED BY <1>7, <1>10, <1>12, <1>13, <2>1, <2>2 DEF UnderWay
  <1>15. ASSUME NEW i \in Ids, i # id, scan'[i] # None
         PROVE  Fresh(i)' \/ UnderWay(i)'
    BY <1>1, <1>3, <1>15 DEF ScanInv, Shape, Fresh, UnderWay
  <1> QED BY <1>6, <1>14, <1>15 DEF ScanInv

LEMMA ScanStep == ScanInv /\ [EnumNext]_enumVars => ScanInv'
  <1> SUFFICES ASSUME ScanInv, [EnumNext]_enumVars PROVE ScanInv'
    OBVIOUS
  <1>1. CASE UNCHANGED enumVars
    BY <1>1 DEF enumVars, ScanInv, Shape, Fresh, UnderWay
  <1> QED BY <1>1, StartInv, EndInv, GetInv DEF EnumNext

LEMMA InvImplies == ScanInv => InOrderOnce /\ NoMoreMeansAll
  <1> SUFFICES ASSUME ScanInv, NEW id \in Ids, scan[id] # None
               PROVE  LET s == got[id]
                          W == Wanted(scan[id].dir, scan[id].expr)
                      IN  /\ \A k \in DOMAIN s : s[k] \in W
                          /\ \A j, k \in DOMAIN s :
                               j < k => s[j] # s[k] /\ Collate[s[j]] <= Collate[s[k]]
                          /\ \A w \in W \ ToSet(s), k \in DOMAIN s : Collate[s[k]] <= Collate[w]
                          /\ answer[id] = "nomore" => ToSet(s) = W
    BY DEF InOrderOnce, NoMoreMeansAll
  <1>1. CASE Fresh(id)
    BY <1>1 DEF Fresh
  <1>2. CASE UnderWay(id)
    <2> DEFINE W == Wanted(scan[id].dir, scan[id].expr)
               s == enumerations[id].entries
               n == enumerations[id].nextIndex
    <2>1. scan[id].dir \in Dirs
      BY DEF ScanInv, Shape
    <2>2. /\ s \in Seq(W)
          /\ \A i, j \in DOMAIN s : i < j => s[i] # s[j] /\ Collate[s[i]] <= Collate[s[j]]
          /\ ToSet(s) = W
      BY <1>2, <2>1, OrderingFacts DEF UnderWay
    <2>3. /\ n \in 0 .. Len(s)
          /\ got[id] = SubSeq(s, 1, n)
          /\ answer[id] = "nomore" => n = Len(s)
      BY <1>2 DEF UnderWay
    <2>4. /\ DOMAIN got[id] = 1 .. n
          /\ \A k \in 1 .. n : got[id][k] = s[k] /\ k \in DOMAIN s
      BY <2>2, <2>3
    <2>5. \A w \in W \ ToSet(got[id]) : \E i \in DOMAIN s : w = s[i] /\ i > n
      <3> SUFFICES ASSUME NEW w \in W, w \notin ToSet(got[id])
                   PROVE  \E i \in DOMAIN s : w = s[i] /\ i > n
        OBVIOUS
      <3>1. PICK i \in DOMAIN s : w = s[i]
        BY <2>2 DEF ToSet
      <3>2. i \notin 1 .. n
        BY <2>4, <3>1 DEF ToSet
      <3> QED BY <2>2, <2>3, <3>1, <3>2
    <2>6. \A w \in W \ ToSet(got[id]), k \in DOMAIN got[id] : Collate[got[id][k]] <= Collate[w]
      <3> SUFFICES ASSUME NEW w \in W \ ToSet(got[id]), NEW k \in 1 .. n
                   PROVE  Collate[s[k]] <= Collate[w]
        BY <2>4
      <3>1. PICK i \in DOMAIN s : w = s[i] /\ i > n
        BY <2>5
      <3>2. k \in DOMAIN s /\ k < i
        BY <2>2, <2>3, <2>4, <3>1
      <3> QED BY <2>2, <3>1, <3>2
    <2>7. \A k \in DOMAIN got[id] : got[id][k] \in W
      BY <2>2, <2>4
    <2>8. \A j, k \in DOMAIN got[id] :
            j < k => got[id][j] # got[id][k] /\ Collate[got[id][j]] <= Collate[got[id][k]]
      BY <2>2, <2>4
    <2>9. answer[id] = "nomore" => got[id] = s
      BY <2>2, <2>3
    <2> QED BY <2>2, <2>6, <2>7, <2>8, <2>9
  <1> QED BY <1>1, <1>2 DEF ScanInv

LEMMA AlwaysScanInv == EnumSpec => []ScanInv
  BY ScanInit, ScanStep, PTL DEF EnumSpec

(* Every scan hands out a sorted listing without gaps or repeats, however  *)
(* many entries, buffers and enumerations there are                        *)
(* (VirtualDrive.cpp:499-545).                                             *)
THEOREM ScansInOrder == EnumSpec => []InOrderOnce
  <1>1. ScanInv => InOrderOnce
    BY InvImplies
  <1> QED BY <1>1, AlwaysScanInv, PTL

(* A scan that ProjFS takes for finished has listed the whole directory    *)
(* (VirtualDrive.cpp:528-544).                                             *)
THEOREM ScansComplete == EnumSpec => []NoMoreMeansAll
  <1>1. ScanInv => NoMoreMeansAll
    BY InvImplies
  <1> QED BY <1>1, AlwaysScanInv, PTL

-----------------------------------------------------------------------------
(* The mount: threads and what they use. *)

(* Where the main thread is: before anything runs, in the loop over the    *)
(* tree, while a mount is up, and on its way out.                          *)
Starting == {"mark", "virtualize", "startdav", "native"}
Placing == {"link", "attribute", "place", "size"}
Building == Placing \cup {"materialize"}
Stopping == {"stop", "close", "join"}
Ending == {"stopprj", "free", "exited"}
Leaving == Stopping \cup Ending

-----------------------------------------------------------------------------
(* The session and those who use it. *)

UseTypes ==
  /\ main \in Starting \cup Building \cup {"map", "cancel"} \cup Leaving
  /\ drive \in {"none", "projfs", "dav", "refused", "sparse", "left"}
  /\ projecting \in BOOLEAN
  /\ callbacks \in Nat
  /\ srv \in {"off", "loop", "accept", "recv", "serve"}
  /\ alive \in BOOLEAN
  /\ running \in BOOLEAN
  /\ listening \in BOOLEAN
  /\ davSession \in BOOLEAN

(* Callbacks run for as long as there is a projection and the server       *)
(* thread for as long as it has its session; both begin in mount(), end in *)
(* the destructor, and outlive neither.                                    *)
Confined ==
  /\ alive <=> main # "exited"
  /\ callbacks > 0 => projecting
  /\ projecting => main \in {"map", "cancel", "stopprj"} \cup Stopping
  /\ srv # "off" => davSession
  /\ davSession => main \in {"native", "map", "cancel"} \cup Building \cup Stopping
  /\ listening => main \in {"native", "map", "cancel"} \cup Building \cup {"stop", "close"}
  /\ drive = "dav" => main = "cancel"

UseInv == UseTypes /\ Confined

LEMMA UseInit == Init => UseInv
  <1> SUFFICES ASSUME Init PROVE UseInv
    OBVIOUS
  <1>1. UseTypes
    BY DEF Init, UseTypes, Starting
  <1>2. Confined
    BY DEF Init, Confined
  <1> QED BY <1>1, <1>2 DEF UseInv

(* The steps that make the tree change nothing that UseInv speaks of but   *)
(* the place of the main thread, which stays in mount().                   *)
TreeStep == TakeFile \/ CreateHardLink \/ ProtectLink \/ CreateAlways \/ SetEndOfFile \/ TreeDone

LEMMA TreeStepStays ==
  ASSUME TreeStep
  PROVE  /\ main \in Building
         /\ main' \in Building \cup {"map", "cancel"}
         /\ UNCHANGED <<drive, prjVars, davVars, srv, sessionVars, nativeFailed>>
  <1>1. CASE TakeFile
    BY <1>1 DEF TakeFile, Goto, Building, Placing
  <1>2. CASE CreateHardLink
    BY <1>2 DEF CreateHardLink, Goto, Building, Placing
  <1>3. CASE ProtectLink
    BY <1>3 DEF ProtectLink, Goto, Building, Placing
  <1>4. CASE CreateAlways
    BY <1>4 DEF CreateAlways, Goto, Building, Placing
  <1>5. CASE SetEndOfFile
    BY <1>5 DEF SetEndOfFile, Goto, Building, Placing
  <1>6. CASE TreeDone
    BY <1>6 DEF TreeDone, Goto, Building, Placing
  <1> QED BY <1>1, <1>2, <1>3, <1>4, <1>5, <1>6 DEF TreeStep

LEMMA UseStep ==
  ASSUME UseInv, [Next]_vars
  PROVE  UseInv'
  <1> USE DEF UseInv, UseTypes, Confined, Goto, davVars, prjVars, sessionVars,
              Starting, Placing, Building, Stopping, Ending, Leaving
  <1>1. CASE Mark
    BY <1>1 DEF Mark
  <1>2. CASE Virtualize
    <2>1. UseTypes'
      BY <1>2 DEF Virtualize
    <2>2. Confined'
      BY <1>2 DEF Virtualize
    <2> QED BY <2>1, <2>2
  <1>3. CASE StartDav
    BY <1>3 DEF StartDav
  <1>4. CASE TryMountNative
    BY <1>4 DEF TryMountNative
  <1>5. CASE TreeStep
    BY <1>5, TreeStepStays
  <1>6. CASE MapDriveLetter
    <2>1. UseTypes'
      BY <1>6 DEF MapDriveLetter
    <2>2. Confined'
      BY <1>6 DEF MapDriveLetter
    <2> QED BY <2>1, <2>2
  <1>7. CASE CancelConnection
    BY <1>7 DEF CancelConnection
  <1>8. CASE StopRunning
    BY <1>8 DEF StopRunning
  <1>9. CASE CloseListenSocket
    BY <1>9 DEF CloseListenSocket
  <1>10. CASE JoinServer
    BY <1>10 DEF JoinServer
  <1>11. CASE StopVirtualizing
    <2>1. UseTypes'
      BY <1>11 DEF StopVirtualizing
    <2>2. Confined'
      BY <1>11 DEF StopVirtualizing
    <2> QED BY <2>1, <2>2
  <1>12. CASE FreeSession
    BY <1>12 DEF FreeSession
  <1>13. CASE CheckRunning
    BY <1>13 DEF CheckRunning
  <1>14. CASE Accept \/ AcceptFails
    BY <1>14 DEF Accept, AcceptFails
  <1>15. CASE Recv \/ Serve
    BY <1>15 DEF Recv, Serve
  <1>16. CASE CallbackStarts
    BY <1>16 DEF CallbackStarts
  <1>17. CASE CallbackEnds
    BY <1>17 DEF CallbackEnds
  <1>18. CASE StartDownload \/ EndDownload
    BY <1>18 DEF StartDownload, EndDownload, treeVars
  <1>19. CASE Restart
    <2>1. UseTypes'
      BY <1>19 DEF Restart
    <2>2. Confined'
      BY <1>19 DEF Restart
    <2> QED BY <2>1, <2>2
  <1>20. CASE UNCHANGED vars
    BY <1>20 DEF vars
  <1> QED
    BY <1>1, <1>2, <1>3, <1>4, <1>5, <1>6, <1>7, <1>8, <1>9, <1>10, <1>11, <1>12, <1>13,
       <1>14, <1>15, <1>16, <1>17, <1>18, <1>19, <1>20
    DEF Next, MainStep, ServerStep, TreeStep

LEMMA AlwaysUseInv == Spec => []UseInv
  BY UseInit, UseStep, PTL DEF Spec

(* Whatever way mount() took and wherever the server thread and the        *)
(* callbacks are when it is taken down, a request has a session            *)
(* (WebDavServer.cpp:221-230, VirtualDrive.cpp:312-321, App.cpp:13-17).    *)
THEOREM RequestsServed == Spec => []ServedFromLiveSession
  <1>1. UseInv => ServedFromLiveSession
    BY DEF UseInv, UseTypes, Confined, ServedFromLiveSession,
           Starting, Placing, Building, Stopping, Ending, Leaving
  <1> QED BY <1>1, AlwaysUseInv, PTL

(* The program leaves nothing behind that serves requests, whatever failed *)
(* in mount() and however many callbacks and downloads there are; a WebDAV *)
(* drive stays only if Windows refuses to cancel it, and the threads that  *)
(* may outlive the session are those that download                         *)
(* (VirtualDrive.cpp:257-321, TorrentSession.cpp:157-161).                 *)
THEOREM ServingStopped == Spec => []NothingLeftServing
  <1>1. UseInv => NothingLeftServing
    BY DEF UseInv, UseTypes, Confined, NothingLeftServing,
           Starting, Placing, Building, Stopping, Ending, Leaving
  <1> QED BY <1>1, AlwaysUseInv, PTL

-----------------------------------------------------------------------------
(* The payloads. *)

DiskTypes ==
  /\ root \in [Files -> {"none", "link", "empty", "placeholder"}]
  /\ payload \in [Files -> {"absent", "whole", "zeros"}]
  /\ readOnly \in [Files -> BOOLEAN]
  /\ next \in 1 .. FileCount + 1
  /\ main \in Placing => next \in Files

(* A link without the attribute was left like that, or was just made.      *)
Guarded ==
  /\ \A f \in Files : payload[f] = "zeros" => f \in exposed
  /\ \A f \in Files : root[f] = "link" /\ ~readOnly[f] =>
                      f \in exposed \/ (main = "attribute" /\ next = f)

DiskInv == DiskTypes /\ Guarded

LEMMA DiskInit == Init => DiskInv
  <1> SUFFICES ASSUME Init PROVE DiskInv
    OBVIOUS
  <1>1. DiskTypes
    BY MountAssumption DEF Init, DiskTypes, Files, Placing
  <1>2. Guarded
    BY DEF Init, Guarded
  <1> QED BY <1>1, <1>2 DEF DiskInv

(* The steps that are not about the tree leave the disk alone, and do not  *)
(* enter or leave the placing of a file.                                   *)
LEMMA ElsewhereStep ==
  ASSUME DiskInv, UNCHANGED treeVars, main \notin Placing,
         main' \notin Placing \/ main' = main
  PROVE  DiskInv'
  BY DEF DiskInv, DiskTypes, Guarded, treeVars, diskVars, Placing

LEMMA DiskStep ==
  ASSUME UseInv, DiskInv, [Next]_vars
  PROVE  DiskInv'
  <1> USE DEF DiskInv, DiskTypes, Guarded, Placing, Goto, treeVars, diskVars
  <1>a. Files' = Files /\ Files \subseteq Nat /\ \A f \in Files : f + 1 \in 1 .. FileCount + 1
    BY MountAssumption DEF Files
  <1>1. CASE TakeFile
    <2>1. DiskTypes'
      BY <1>1 DEF TakeFile
    <2>2. Guarded'
      BY <1>1 DEF TakeFile
    <2> QED BY <2>1, <2>2
  <1>2. CASE CreateHardLink
    <2>1. DiskTypes'
      BY <1>2 DEF CreateHardLink
    <2>2. Guarded'
      BY <1>2 DEF CreateHardLink
    <2> QED BY <2>1, <2>2
  <1>3. CASE ProtectLink
    <2>1. next \in Files /\ next' = next + 1 /\ UNCHANGED <<root, payload>>
      BY <1>3 DEF ProtectLink
    <2>2. next' # next /\ next' \in 1 .. FileCount + 1 /\ main' = "materialize"
      BY <1>3, <1>a, <2>1 DEF ProtectLink
    <2>3. CASE readOnly' = [readOnly EXCEPT ![next] = TRUE] /\ UNCHANGED exposed
      <3>1. readOnly' \in [Files -> BOOLEAN] /\ \A f \in Files : readOnly'[f] <=> readOnly[f] \/ f = next
        BY <2>1, <2>3
      <3> QED BY <1>3, <2>1, <2>2, <2>3, <3>1
    <2>4. CASE exposed' = exposed \cup {next} /\ UNCHANGED readOnly
      <3>1. DiskTypes'
        BY <2>1, <2>2, <2>4
      <3>2. ASSUME NEW f \in Files, payload'[f] = "zeros" PROVE f \in exposed'
        BY <2>1, <2>4, <3>2
      <3>3. ASSUME NEW f \in Files, root'[f] = "link", ~readOnly'[f] PROVE f \in exposed'
        BY <2>1, <2>4, <3>3
      <3> QED BY <1>a, <3>1, <3>2, <3>3
    <2> QED BY <1>3, <2>3, <2>4 DEF ProtectLink
  <1>4. CASE CreateAlways
    <2>1. DiskTypes'
      BY <1>4 DEF CreateAlways
    <2>2. Guarded'
      BY <1>4 DEF CreateAlways
    <2> QED BY <2>1, <2>2
  <1>5. CASE SetEndOfFile
    <2>1. next \in Files /\ UNCHANGED <<payload, exposed>>
      BY <1>5 DEF SetEndOfFile
    <2>2. CASE main' = "cancel" /\ UNCHANGED <<root, readOnly, next>>
      BY <1>5, <2>1, <2>2 DEF SetEndOfFile
    <2>3. CASE /\ root' = [root EXCEPT ![next] = IF @ = "empty" THEN "placeholder" ELSE @]
               /\ readOnly' \in {readOnly, [readOnly EXCEPT ![next] = root[next] = "link" \/ @]}
               /\ next' = next + 1
               /\ main' = "materialize"
      <3>1. next' \in 1 .. FileCount + 1
        BY <1>a, <2>1, <2>3
      <3>2. /\ root' \in [Files -> {"none", "link", "empty", "placeholder"}]
            /\ \A f \in Files : root'[f] = "link" => root[f] = "link"
        BY <2>1, <2>3
      <3>3. readOnly' \in [Files -> BOOLEAN] /\ \A f \in Files : readOnly[f] => readOnly'[f]
        BY <2>1, <2>3
      <3>4. ASSUME NEW f \in Files, root'[f] = "link", ~readOnly'[f] PROVE f \in exposed'
        <4>1. root[f] = "link" /\ ~readOnly[f] /\ main = "size"
          BY <1>5, <3>2, <3>3, <3>4 DEF SetEndOfFile
        <4> QED BY <2>1, <4>1
      <3>5. DiskTypes'
        BY <1>a, <2>1, <2>3, <3>1, <3>2, <3>3
      <3>6. Guarded'
        BY <1>a, <2>1, <3>4
      <3> QED BY <3>5, <3>6
    <2> QED BY <1>5, <2>2, <2>3 DEF SetEndOfFile
  <1>6. CASE EndDownload
    <2>1. PICK f : payload' \in {payload, [payload EXCEPT ![f] = "whole"]}
      BY <1>6 DEF EndDownload
    <2> QED BY <1>6, <2>1 DEF EndDownload
  <1>7. CASE Restart
    <2>1. DiskTypes'
      BY <1>7, MountAssumption DEF Restart
    <2>2. CASE main = "attribute"
      <3>1. exposed' = exposed \cup {next} /\ UNCHANGED <<root, payload, readOnly>>
        BY <1>7, <2>2 DEF Restart
      <3>2. ASSUME NEW f \in Files, root[f] = "link", ~readOnly[f] PROVE f \in exposed'
        BY <3>1, <3>2
      <3> QED BY <1>a, <2>1, <3>1, <3>2
    <2>3. CASE main # "attribute"
      <3>1. UNCHANGED <<exposed, root, payload, readOnly>>
        BY <1>7, <2>3 DEF Restart
      <3> QED BY <1>a, <2>1, <2>3, <3>1
    <2> QED BY <2>2, <2>3
  <1>8. CASE \/ Mark \/ Virtualize \/ StartDav \/ TryMountNative \/ TreeDone \/ MapDriveLetter
            \/ CancelConnection \/ StopRunning \/ CloseListenSocket \/ JoinServer
            \/ StopVirtualizing \/ FreeSession
    <2>1. UNCHANGED treeVars /\ main \notin Placing /\ main' \notin Placing
      BY <1>8 DEF Mark, Virtualize, StartDav, TryMountNative, TreeDone, MapDriveLetter,
                  CancelConnection, StopRunning, CloseListenSocket, JoinServer,
                  StopVirtualizing, FreeSession
    <2> QED BY <2>1, ElsewhereStep
  <1>9. CASE \/ ServerStep \/ Accept \/ CallbackStarts \/ CallbackEnds \/ StartDownload
            \/ UNCHANGED vars
    <2>1. UNCHANGED <<main, treeVars>>
      BY <1>9 DEF ServerStep, CheckRunning, Accept, AcceptFails, Recv, Serve,
                  CallbackStarts, CallbackEnds, StartDownload, vars
    <2> QED BY <2>1
  <1> QED
    BY <1>1, <1>2, <1>3, <1>4, <1>5, <1>6, <1>7, <1>8, <1>9 DEF Next, MainStep

LEMMA AlwaysDiskInv == Spec => []DiskInv
  BY DiskInit, DiskStep, AlwaysUseInv, PTL DEF Spec

(* Start after start, killed or not, and whatever fails: only a link that  *)
(* was left without the read-only attribute lets a payload be overwritten  *)
(* (VirtualDrive.cpp:196-241).                                             *)
THEOREM PayloadsKept == Spec => []PayloadKept
  <1>1. DiskInv => PayloadKept
    BY DEF DiskInv, Guarded, PayloadKept
  <1> QED BY <1>1, AlwaysDiskInv, PTL

-----------------------------------------------------------------------------
(* The sparse tree. *)

NativeFirst ==
  /\ main \in Starting => next = 1
  /\ main = "native" /\ davSession => running

(* In the loop everything before next is made, and next itself as far as   *)
(* the place in the loop says; mapDriveLetter comes to a tree at its end.  *)
Built ==
  /\ main \in Building \/ (main = "map" /\ ~projecting) =>
       /\ nativeFailed \/ ~davSession
       /\ \A f \in Files : f < next => root[f] \in {"link", "placeholder"}
  /\ main = "map" /\ ~projecting => next \notin Files
  /\ main = "attribute" => root[next] = "link"
  /\ main = "size" => root[next] \in {"link", "empty"}

Shown == drive = "sparse" => main \in {"cancel"} \cup Leaving /\ SparseTreeLast

TreeInv == NativeFirst /\ Built /\ Shown

LEMMA TreeInit == Init => TreeInv
  BY DEF Init, TreeInv, NativeFirst, Built, Shown, Starting, Building, Placing

(* Most steps of the program, and all of its environment, have nothing to  *)
(* do with the tree: they leave the main thread where it is, or on its way *)
(* out, where the tree stays as it is.                                     *)
LEMMA OtherwhereStep ==
  ASSUME TreeInv, UNCHANGED <<root, next, nativeFailed>>,
         drive' = "sparse" => drive = "sparse",
         projecting' => projecting, davSession' => davSession,
         \/ UNCHANGED <<main, projecting, running>>
         \/ main' \in {"cancel"} \cup Leaving
  PROVE  TreeInv'
  <1> USE DEF Starting, Building, Placing, Stopping, Ending, Leaving
  <1>1. NativeFirst'
    BY DEF TreeInv, NativeFirst
  <1>2. Built'
    BY DEF TreeInv, Built
  <1>3. Shown'
    BY DEF TreeInv, Shown, SparseTreeLast
  <1> QED BY <1>1, <1>2, <1>3 DEF TreeInv

(* While mount() is on its way there is no sparse drive yet.               *)
LEMMA NotYet ==
  ASSUME TreeInv, main \in Starting \cup Building \cup {"map"}
  PROVE  drive # "sparse"
  BY DEF TreeInv, Shown, Starting, Building, Placing, Stopping, Ending, Leaving

LEMMA StartingStep ==
  ASSUME UseInv, TreeInv, Mark \/ Virtualize \/ StartDav \/ TryMountNative
  PROVE  TreeInv'
  <1> USE DEF Starting, Building, Placing, Goto, davVars, treeVars, prjVars
  <1>1. main \in Starting /\ next' = next /\ next = 1
    BY DEF Mark, Virtualize, StartDav, TryMountNative, TreeInv, NativeFirst
  <1>2. drive' # "sparse"
    BY <1>1, NotYet DEF Mark, Virtualize, StartDav, TryMountNative
  <1>3. NativeFirst'
    <2>1. CASE StartDav
      <3>1. ~davSession
        BY <2>1 DEF StartDav, UseInv, Confined, Stopping
      <3>2. running' = TRUE \/ UNCHANGED davSession
        BY <2>1 DEF StartDav
      <3>3. NativeFirst' <=> (main' = "native" /\ davSession' => running')
        BY <1>1, <2>1 DEF StartDav, NativeFirst
      <3> QED BY <3>1, <3>2, <3>3
    <2>2. CASE ~StartDav
      BY <1>1, <2>2 DEF Mark, Virtualize, TryMountNative, NativeFirst
    <2> QED BY <2>1, <2>2
  <1>4. Built'
    <2>1. CASE Virtualize
      BY <2>1 DEF Virtualize, Built
    <2>2. CASE TryMountNative
      <3>1. main' = "materialize" => nativeFailed' \/ ~davSession'
        BY <2>2 DEF TryMountNative, TreeInv, NativeFirst
      <3>2. \A f \in Files : ~(f < 1)
        BY MountAssumption DEF Files
      <3>3. main' \in {"materialize", "cancel"}
        BY <2>2 DEF TryMountNative
      <3> QED BY <1>1, <3>1, <3>2, <3>3 DEF Built
    <2>3. CASE Mark \/ StartDav
      BY <2>3 DEF Mark, StartDav, Built
    <2> QED BY <2>1, <2>2, <2>3
  <1> QED BY <1>2, <1>3, <1>4 DEF TreeInv, Shown

LEMMA BuildingStep ==
  ASSUME UseInv, DiskInv, TreeInv, TreeStep
  PROVE  TreeInv'
  <1> USE DEF Goto, davVars, prjVars, treeVars, diskVars
  <1>1. main \in Building /\ main' \in Building \cup {"map", "cancel"}
    BY TreeStepStays
  <1>2. UNCHANGED <<drive, projecting, running, davSession, nativeFailed>>
    BY TreeStepStays
  <1>3. Shown' /\ NativeFirst'
    BY <1>1, <1>2, NotYet DEF Shown, NativeFirst, Starting, Building, Placing
  <1>4. ASSUME main' \in Building \cup {"map"}
        PROVE  nativeFailed' \/ ~davSession'
    BY <1>1, <1>2 DEF TreeInv, Built
  <1>5. next \in Nat /\ root \in [Files -> {"none", "link", "empty", "placeholder"}]
    BY MountAssumption DEF DiskInv, DiskTypes
  <1>6. main \in Placing => next \in Files
    BY DEF DiskInv, DiskTypes
  <1>7. Files \subseteq Nat
    BY MountAssumption DEF Files
  <1>8. \A f \in Files : f < next => root[f] \in {"link", "placeholder"}
    BY <1>1 DEF TreeInv, Built
  <1> DEFINE Upto == \A f \in Files : f < next => root[f] \in {"link", "placeholder"}
  <1>9. main' # "cancel" => Upto'
    <2>1. CASE UNCHANGED <<root, next>>
      BY <1>8, <2>1
    <2>2. CASE next' = next /\ next \in Files /\ \E v : root' = [root EXCEPT ![next] = v]
      BY <1>5, <1>7, <1>8, <2>2
    <2>3. CASE /\ next' = next + 1 /\ next \in Files
               /\ root'[next] \in {"link", "placeholder"}
               /\ \A f \in Files : f # next => root'[f] = root[f]
      <3>1. ASSUME NEW f \in Files, f < next' PROVE f < next \/ f = next
        BY <1>5, <1>7, <2>3, <3>1
      <3> QED BY <1>8, <2>3, <3>1
    <2>4. CASE ProtectLink
      <3>1. next' = next + 1 /\ next \in Files /\ UNCHANGED root /\ root[next] = "link"
        BY <1>6, <2>4 DEF ProtectLink, Placing, TreeInv, Built
      <3> QED BY <2>3, <3>1
    <2>5. CASE SetEndOfFile /\ main' # "cancel"
      <3>1. /\ next' = next + 1 /\ next \in Files
            /\ root' = [root EXCEPT ![next] = IF @ = "empty" THEN "placeholder" ELSE @]
            /\ root[next] \in {"link", "empty"}
        BY <1>6, <2>5 DEF SetEndOfFile, Placing, TreeInv, Built
      <3> QED BY <1>5, <2>3, <3>1
    <2>6. CASE TakeFile \/ CreateHardLink \/ CreateAlways \/ TreeDone
      <3>1. next' = next
        BY <2>6 DEF TakeFile, CreateHardLink, CreateAlways, TreeDone
      <3>2. UNCHANGED root \/ (next \in Files /\ \E v : root' = [root EXCEPT ![next] = v])
        BY <1>6, <2>6 DEF TakeFile, CreateHardLink, CreateAlways, TreeDone, Placing
      <3> QED BY <2>1, <2>2, <3>1, <3>2
    <2> QED BY <2>4, <2>5, <2>6 DEF TreeStep
  <1>10. main' = "map" => next' \notin Files
    BY DEF TreeStep, TakeFile, CreateHardLink, ProtectLink, CreateAlways, SetEndOfFile, TreeDone, Files
  <1>11. main' = "attribute" => root'[next'] = "link"
    BY <1>5, <1>6 DEF TreeStep, TakeFile, CreateHardLink, ProtectLink, CreateAlways, SetEndOfFile,
                      TreeDone, Placing
  <1>12. main' = "size" => root'[next'] \in {"link", "empty"}
    BY <1>5, <1>6 DEF TreeStep, TakeFile, CreateHardLink, ProtectLink, CreateAlways, SetEndOfFile,
                      TreeDone, Placing
  <1>13. Built'
    BY <1>1, <1>4, <1>9, <1>10, <1>11, <1>12 DEF Built, Building, Placing
  <1> QED BY <1>3, <1>13 DEF TreeInv

LEMMA TreeStepInv ==
  ASSUME UseInv, DiskInv, TreeInv, [Next]_vars
  PROVE  TreeInv'
  <1> USE DEF Goto, davVars, prjVars, treeVars, diskVars
  <1>1. CASE Mark \/ Virtualize \/ StartDav \/ TryMountNative
    BY <1>1, StartingStep
  <1>2. CASE TreeStep
    BY <1>2, BuildingStep
  <1>3. CASE MapDriveLetter
    <2>1. CASE drive' = "sparse" /\ ~projecting /\ UNCHANGED projecting
      <3>1. main = "map" /\ main' = "cancel" /\ UNCHANGED <<root, next, davSession, nativeFailed>>
        BY <1>3 DEF MapDriveLetter
      <3>2. \A f \in Files : f < next
        BY <2>1, <3>1, MountAssumption DEF TreeInv, Built, DiskInv, DiskTypes, Files
      <3>3. SparseTreeLast'
        BY <2>1, <3>1, <3>2 DEF TreeInv, Built, SparseTreeLast
      <3>4. NativeFirst' /\ Built'
        BY <3>1 DEF NativeFirst, Built, Starting, Building, Placing
      <3> QED BY <3>1, <3>3, <3>4 DEF TreeInv, Shown
    <2>2. CASE ~(drive' = "sparse" /\ ~projecting /\ UNCHANGED projecting)
      <3>1. /\ UNCHANGED <<root, next, nativeFailed, davSession>>
            /\ main' = "cancel"
            /\ drive' = "sparse" => drive = "sparse"
            /\ projecting' => projecting
        BY <1>3, <2>2 DEF MapDriveLetter
      <3> QED BY <3>1, OtherwhereStep
    <2> QED BY <2>1, <2>2
  <1>4. CASE \/ CancelConnection \/ StopRunning \/ CloseListenSocket \/ JoinServer
            \/ StopVirtualizing \/ FreeSession
    <2>1. UNCHANGED <<root, next, nativeFailed>> /\ main' \in Leaving
      BY <1>4 DEF CancelConnection, StopRunning, CloseListenSocket, JoinServer,
                  StopVirtualizing, FreeSession, Leaving, Stopping, Ending
    <2>2. /\ drive' = "sparse" => drive = "sparse"
          /\ projecting' => projecting
          /\ davSession' => davSession
      BY <1>4 DEF CancelConnection, StopRunning, CloseListenSocket, JoinServer,
                  StopVirtualizing, FreeSession
    <2> QED BY <2>1, <2>2, OtherwhereStep
  <1>5. CASE \/ ServerStep \/ Accept \/ CallbackStarts \/ CallbackEnds
            \/ StartDownload \/ EndDownload \/ UNCHANGED vars
    <2>1. UNCHANGED <<main, drive, projecting, running, davSession, root, next, nativeFailed>>
      BY <1>5 DEF ServerStep, CheckRunning, Accept, AcceptFails, Recv, Serve,
                  CallbackStarts, CallbackEnds, StartDownload, EndDownload, vars
    <2> QED BY <2>1, OtherwhereStep
  <1>6. CASE Restart
    <2>1. main' = "mark" /\ next' = 1
      BY <1>6 DEF Restart
    <2>2. drive' # "sparse"
      BY <1>6 DEF Restart
    <2> QED
      BY <2>1, <2>2 DEF TreeInv, NativeFirst, Built, Shown, Starting, Building, Placing
  <1> QED
    BY <1>1, <1>2, <1>3, <1>4, <1>5, <1>6 DEF Next, MainStep, TreeStep

LEMMA AlwaysTreeInv == Spec => []TreeInv
  BY TreeInit, TreeStepInv, AlwaysUseInv, AlwaysDiskInv, PTL DEF Spec

(* However many files there are and wherever the loop over them ends, the  *)
(* sparse tree becomes the drive only as a whole, and only when neither    *)
(* ProjFS nor the native WebDAV mount is there                             *)
(* (VirtualDrive.cpp:271-309, 393-440).                                    *)
THEOREM SparseTreeIsLast == Spec => []SparseTreeLast
  <1>1. TreeInv => SparseTreeLast
    BY DEF TreeInv, Shown, SparseTreeLast
  <1> QED BY <1>1, AlwaysTreeInv, PTL
=============================================================================
