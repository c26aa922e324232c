-------------------------------- MODULE Mount --------------------------------
(***************************************************************************)
(* The program on Windows, start after start on one cache directory:       *)
(* App::run mounts the torrent through ProjFS, else through the built-in   *)
(* WebDAV server, else as a tree of sparse files and hard links - and then *)
(* returns, which takes everything down again; or the process is killed.   *)
(* Actors: the main thread, the WebDAV server thread, the ProjFS pool      *)
(* threads and the detached threads that download.  What a request does    *)
(* with the session is Hydration's subject; here it only uses it, and now  *)
(* and then has a file downloaded.                                         *)
(***************************************************************************)
EXTENDS Integers

CONSTANTS
  FileCount,    \* files of the torrent
  MaxCallbacks  \* ProjFS callbacks that may run at a time (8 in the code)

ASSUME MountAssumption == FileCount \in Nat /\ MaxCallbacks \in Nat

Files == 1 .. FileCount

VARIABLES
  main,         \* where the main thread is
  drive,        \* what the drive letter stands for: "none", "projfs", "dav", "sparse",
                \* "refused" when Windows has kept the WebDAV mapping though it was
                \* cancelled, or "left" when an earlier start mapped it
  projecting,   \* namespaceHandle_ is live
  callbacks,    \* ProjFS callbacks running
  running,      \* WebDavServer::running_
  listening,    \* its listening socket is open
  davSession,   \* its session_ is set
  srv,          \* where its thread is, "off" when there is none
  alive,        \* the TorrentSession object exists
  downloads,    \* files that its detached threads are downloading
  next,         \* the file that is being materialized
  root,         \* under the root, each file is "none", "link" (to its payload),
                \* "empty" or "placeholder"
  payload,      \* each payload is "absent", "whole" or "zeros"
  readOnly,     \* it has the read-only attribute, which its links share
  nativeFailed, \* history: WNetAddConnection2W was tried and failed
  exposed       \* history: files whose link was left without the attribute

davVars == <<running, listening, davSession>>
prjVars == <<projecting, callbacks>>
sessionVars == <<alive, downloads>>
diskVars == <<root, payload, readOnly, exposed>>
treeVars == <<next, diskVars>>
vars == <<main, drive, prjVars, davVars, srv, sessionVars, treeVars, nativeFailed>>

Goto(pcs) == \E pc \in pcs : main' = pc

Init ==
  /\ main = "mark"
  /\ projecting = FALSE
  /\ callbacks = 0
  /\ running = FALSE
  /\ listening = FALSE
  /\ davSession = FALSE
  /\ srv = "off"
  /\ alive = TRUE
  /\ downloads = {}
  /\ next = 1
  /\ nativeFailed = FALSE
  /\ drive = "none"
  /\ root = [f \in Files |-> "none"]
  /\ payload \in [Files -> {"absent", "whole"}]
  /\ readOnly = [f \in Files |-> FALSE]
  /\ exposed = {}

-----------------------------------------------------------------------------
(* WindowsProjFsProvider::mount *)

(* No GUID ends the run, a root that cannot be marked is the fallback's.   *)
Mark ==
  /\ main = "mark"
  /\ Goto({"virtualize", "startdav", "cancel"})
  /\ UNCHANGED <<drive, prjVars, davVars, srv, treeVars, sessionVars, nativeFailed>>

Virtualize ==
  /\ main = "virtualize"
  /\ \/ projecting' = TRUE /\ Goto({"map"})
     \/ UNCHANGED projecting /\ Goto({"startdav"})
  /\ UNCHANGED <<drive, callbacks, davVars, srv, treeVars, sessionVars, nativeFailed>>

(* One of 20 ports is bound and the thread started, or none is free. *)
StartDav ==
  /\ main = "startdav"
  /\ \/ /\ running' = TRUE
        /\ listening' = TRUE
        /\ davSession' = TRUE
        /\ srv' = "loop"
     \/ UNCHANGED <<davVars, srv>>
  /\ Goto({"native"})
  /\ UNCHANGED <<drive, prjVars, treeVars, sessionVars, nativeFailed>>

TryMountNative ==
  /\ main = "native"
  /\ \/ /\ running
        /\ drive = "none"
        /\ drive' = "dav"
        /\ Goto({"cancel"})
        /\ UNCHANGED nativeFailed
     \/ /\ Goto({"materialize"})
        /\ nativeFailed' = (nativeFailed \/ running)
        /\ UNCHANGED drive
  /\ UNCHANGED <<prjVars, davVars, srv, treeVars, sessionVars>>

(* materializeFallbackTree with linkOrPlaceholder for one file after the   *)
(* other; the first that fails ends it.  What an earlier start left is     *)
(* removed, or stays if that fails.                                        *)
TakeFile ==
  /\ main = "materialize"
  /\ next \in Files
  /\ root' \in {root, [root EXCEPT ![next] = "none"]}
  /\ Goto(IF payload[next] = "absent" THEN {"place"} ELSE {"link", "cancel"})
  /\ UNCHANGED <<drive, prjVars, davVars, srv, sessionVars, next, payload, readOnly, exposed, nativeFailed>>

CreateHardLink ==
  /\ main = "link"
  /\ \/ root[next] = "none" /\ root' = [root EXCEPT ![next] = "link"] /\ Goto({"attribute"})
     \/ Goto({"place"}) /\ UNCHANGED root
  /\ UNCHANGED <<drive, prjVars, davVars, srv, sessionVars, next, payload, readOnly, exposed, nativeFailed>>

ProtectNothing ==  \* faulty variant: the link keeps the attributes of the payload
  /\ main = "attribute"
  /\ next' = next + 1
  /\ Goto({"materialize"})
  /\ UNCHANGED <<drive, prjVars, davVars, srv, sessionVars, diskVars, nativeFailed>>

(* SetFileAttributesW on the link; nobody looks at its result. *)
ProtectLink ==
  /\ main = "attribute"
  /\ \/ readOnly' = [readOnly EXCEPT ![next] = TRUE] /\ UNCHANGED exposed
     \/ exposed' = exposed \cup {next} /\ UNCHANGED readOnly
  /\ next' = next + 1
  /\ Goto({"materialize"})
  /\ UNCHANGED <<drive, prjVars, davVars, srv, sessionVars, root, payload, nativeFailed>>

(* CREATE_ALWAYS cuts what is there to nothing, unless it is read-only:    *)
(* through a link that was not removed, the payload.                       *)
CreateAlways ==
  /\ main = "place"
  /\ \/ /\ ~(root[next] = "link" /\ readOnly[next])
        /\ IF root[next] = "link"
           THEN payload' = [payload EXCEPT ![next] = "zeros"] /\ UNCHANGED root
           ELSE root' = [root EXCEPT ![next] = "empty"] /\ UNCHANGED payload
        /\ Goto({"size"})
     \/ Goto({"cancel"}) /\ UNCHANGED <<root, payload>>
  /\ UNCHANGED <<drive, prjVars, davVars, srv, sessionVars, next, readOnly, exposed, nativeFailed>>

SizeAnyway ==  \* faulty variant: a file that could not be sized is passed over
  /\ main = "size"
  /\ root' \in {root, [root EXCEPT ![next] = IF @ = "empty" THEN "placeholder" ELSE @]}
  /\ next' = next + 1
  /\ Goto({"materialize"})
  /\ UNCHANGED <<drive, prjVars, davVars, srv, sessionVars, payload, readOnly, exposed, nativeFailed>>

(* Then the attribute is set here, too. *)
SetEndOfFile ==
  /\ main = "size"
  /\ \/ /\ root' = [root EXCEPT ![next] = IF @ = "empty" THEN "placeholder" ELSE @]
        /\ readOnly' \in {readOnly, [readOnly EXCEPT ![next] = root[next] = "link" \/ @]}
        /\ next' = next + 1
        /\ Goto({"materialize"})
     \/ Goto({"cancel"}) /\ UNCHANGED <<root, readOnly, next>>
  /\ UNCHANGED <<drive, prjVars, davVars, srv, sessionVars, payload, exposed, nativeFailed>>

TreeDone ==
  /\ main = "materialize"
  /\ next \notin Files
  /\ Goto({"map"})
  /\ UNCHANGED <<drive, prjVars, davVars, srv, sessionVars, treeVars, nativeFailed>>

(* mapDriveLetter; when that fails the projection is stopped at once. *)
MapDriveLetter ==
  /\ main = "map"
  /\ \/ drive' = (IF projecting THEN "projfs" ELSE "sparse") /\ UNCHANGED projecting
     \/ /\ projecting => callbacks = 0
        /\ projecting' = FALSE
        /\ UNCHANGED drive
  /\ Goto({"cancel"})
  /\ UNCHANGED <<callbacks, davVars, srv, treeVars, sessionVars, nativeFailed>>

-----------------------------------------------------------------------------
(* mount() has returned, so App::run does: ~WindowsProjFsProvider, with    *)
(* WebDavServer::stop, and then the session.                               *)

(* Nobody looks whether the connection could be cancelled. *)
CancelConnection ==
  /\ main = "cancel"
  /\ IF drive = "dav" THEN drive' \in {"none", "refused"} ELSE UNCHANGED drive
  /\ Goto({"stop"})
  /\ UNCHANGED <<prjVars, davVars, srv, treeVars, sessionVars, nativeFailed>>

StopStillRunning ==  \* faulty variant: the flag stays set
  /\ main = "stop"
  /\ Goto({"close"})
  /\ UNCHANGED <<drive, prjVars, davVars, srv, treeVars, sessionVars, nativeFailed>>

StopRunning ==
  /\ main = "stop"
  /\ running' = FALSE
  /\ Goto({"close"})
  /\ UNCHANGED <<drive, prjVars, listening, davSession, srv, treeVars, sessionVars, nativeFailed>>

CloseListenSocket ==
  /\ main = "close"
  /\ listening' = FALSE
  /\ Goto({"join"})
  /\ UNCHANGED <<drive, prjVars, running, davSession, srv, treeVars, sessionVars, nativeFailed>>

JoinNobody ==  \* faulty variant: the thread is detached instead of joined
  /\ main = "join"
  /\ davSession' = FALSE
  /\ Goto({"stopprj"})
  /\ UNCHANGED <<drive, prjVars, running, listening, srv, treeVars, sessionVars, nativeFailed>>

(* thread_.join() and session_.reset() *)
JoinServer ==
  /\ main = "join"
  /\ srv = "off"
  /\ davSession' = FALSE
  /\ Goto({"stopprj"})
  /\ UNCHANGED <<drive, prjVars, running, listening, srv, treeVars, sessionVars, nativeFailed>>

StopNotProjecting ==  \* faulty variant: the projection is left running
  /\ main = "stopprj"
  /\ Goto({"free"})
  /\ UNCHANGED <<drive, prjVars, davVars, srv, treeVars, sessionVars, nativeFailed>>

(* PrjStopVirtualizing returns when no callback is running any more. *)
StopVirtualizing ==
  /\ main = "stopprj"
  /\ projecting => callbacks = 0
  /\ projecting' = FALSE
  /\ Goto({"free"})
  /\ UNCHANGED <<drive, callbacks, davVars, srv, treeVars, sessionVars, nativeFailed>>

(* The last owners of the session go, whoever still downloads for it; main *)
(* returns.                                                                *)
FreeSession ==
  /\ main = "free"
  /\ alive' = FALSE
  /\ Goto({"exited"})
  /\ UNCHANGED <<drive, prjVars, davVars, srv, treeVars, downloads, nativeFailed>>

MainStep ==
  \/ Mark \/ Virtualize \/ StartDav \/ TryMountNative
  \/ TakeFile \/ CreateHardLink \/ ProtectLink \/ CreateAlways \/ SetEndOfFile \/ TreeDone
  \/ MapDriveLetter
  \/ CancelConnection \/ StopRunning \/ CloseListenSocket \/ JoinServer
  \/ StopVirtualizing \/ FreeSession

-----------------------------------------------------------------------------
(* WebDavServer::serverLoop *)

CheckRunning ==
  /\ srv = "loop"
  /\ srv' = IF running THEN "accept" ELSE "off"
  /\ UNCHANGED <<main, drive, prjVars, davVars, treeVars, sessionVars, nativeFailed>>

(* A client comes ... *)
Accept ==
  /\ srv = "accept"
  /\ listening
  /\ srv' = "recv"
  /\ UNCHANGED <<main, drive, prjVars, davVars, treeVars, sessionVars, nativeFailed>>

(* ... or the socket is closed under accept, or was before the call. *)
AcceptFails ==
  /\ srv = "accept"
  /\ ~listening
  /\ srv' = "loop"
  /\ UNCHANGED <<main, drive, prjVars, davVars, treeVars, sessionVars, nativeFailed>>

(* recv has no timeout: it is the client that sends or closes. *)
Recv ==
  /\ srv = "recv"
  /\ srv' \in {"serve", "loop"}
  /\ UNCHANGED <<main, drive, prjVars, davVars, treeVars, sessionVars, nativeFailed>>

(* The request is answered and the client's socket closed. *)
Serve ==
  /\ srv = "serve"
  /\ srv' = "loop"
  /\ UNCHANGED <<main, drive, prjVars, davVars, treeVars, sessionVars, nativeFailed>>

ServerStep == CheckRunning \/ AcceptFails \/ Recv \/ Serve

-----------------------------------------------------------------------------
(* ProjFS pool threads *)

CallbackStarts ==
  /\ projecting
  /\ main # "stopprj"
  /\ callbacks < MaxCallbacks
  /\ callbacks' = callbacks + 1
  /\ UNCHANGED <<main, drive, projecting, davVars, srv, treeVars, sessionVars, nativeFailed>>

CallbackEnds ==
  /\ callbacks > 0
  /\ callbacks' = callbacks - 1
  /\ UNCHANGED <<main, drive, projecting, davVars, srv, treeVars, sessionVars, nativeFailed>>

-----------------------------------------------------------------------------
(* Detached threads *)

(* A request needs a file that is not in the cache. *)
StartDownload ==
  /\ srv = "serve" \/ callbacks > 0
  /\ \E f \in Files \ downloads :
       /\ payload[f] = "absent"
       /\ downloads' = downloads \cup {f}
  /\ UNCHANGED <<main, drive, prjVars, davVars, srv, treeVars, alive, nativeFailed>>

(* The payload is published, or the download has failed. *)
EndDownload ==
  /\ \E f \in downloads :
       /\ downloads' = downloads \ {f}
       /\ payload' \in {payload, [payload EXCEPT ![f] = "whole"]}
  /\ UNCHANGED <<main, drive, prjVars, davVars, srv, alive, next, root, readOnly, exposed, nativeFailed>>

-----------------------------------------------------------------------------
(* The program is started again, after it has ended or was killed.  Only   *)
(* a reboot takes away a drive letter it has mapped.                       *)
Restart ==
  /\ main' = "mark"
  /\ projecting' = FALSE
  /\ callbacks' = 0
  /\ running' = FALSE
  /\ listening' = FALSE
  /\ davSession' = FALSE
  /\ srv' = "off"
  /\ alive' = TRUE
  /\ downloads' = {}
  /\ next' = 1
  /\ nativeFailed' = FALSE
  /\ drive' \in {"none", IF drive = "none" THEN "none" ELSE "left"}
  /\ exposed' = IF main = "attribute" THEN exposed \cup {next} ELSE exposed
  /\ UNCHANGED <<root, payload, readOnly>>

Next ==
  \/ MainStep \/ Accept \/ ServerStep
  \/ CallbackStarts \/ CallbackEnds
  \/ StartDownload \/ EndDownload
  \/ Restart

Spec == Init /\ [][Next]_vars

(* Threads keep running, and a client that has connected sends its request *)
(* or closes; nobody need connect.                                         *)
FairSpec == Spec /\ WF_vars(MainStep) /\ WF_vars(ServerStep) /\ WF_vars(CallbackEnds)

-----------------------------------------------------------------------------
(* Properties *)

(* A request that is being served, over WebDAV or by a ProjFS callback,    *)
(* has a session: tearing down stops both before it lets go of theirs      *)
(* (WebDavServer.cpp:221-230, VirtualDrive.cpp:312-321, App.cpp:13-17).    *)
ServedFromLiveSession ==
  /\ srv \in {"recv", "serve"} => davSession /\ alive
  /\ callbacks > 0 => alive

(* When the program is through, whatever serves requests is gone, on every *)
(* path through mount(): server thread, socket, projection and callbacks,  *)
(* and so is the WebDAV drive unless Windows refuses.  Only threads that   *)
(* download may be left, and none begins to                                *)
(* (VirtualDrive.cpp:257-321, TorrentSession.cpp:157-161).                 *)
NothingLeftServing ==
  main = "exited" =>
    /\ srv = "off" /\ ~listening /\ ~projecting /\ callbacks = 0
    /\ drive # "dav"

(* The sparse tree becomes the drive only when the other two ways failed,  *)
(* and only as a whole (VirtualDrive.cpp:271-309, 393-440).                *)
SparseTreeLast ==
  drive = "sparse" =>
    /\ \A f \in Files : root[f] \in {"link", "placeholder"}
    /\ ~projecting
    /\ nativeFailed \/ ~davSession

(* Materializing the tree never costs a payload, whatever earlier starts   *)
(* left under the root and whichever removals fail: it is the read-only    *)
(* attribute that keeps CREATE_ALWAYS from a payload that is still linked, *)
(* so only a link that was left without it lets one be overwritten         *)
(* (VirtualDrive.cpp:196-241).                                             *)
PayloadKept == \A f \in Files : payload[f] = "zeros" => f \in exposed

(* Taking the mount down ends: the join is not waited for in vain          *)
(* (WebDavServer.cpp:221-230, 247-271).                                    *)
TeardownEnds == main = "cancel" ~> main \in {"exited", "mark"}

-----------------------------------------------------------------------------
(* What the documentation says and the code does not keep to. *)

(* A drive letter that was mapped to the ProjFS root has the projection    *)
(* behind it (VirtualDrive.cpp:318-320, 331).                              *)
DriveIsProjected == drive = "projfs" => projecting
=============================================================================
