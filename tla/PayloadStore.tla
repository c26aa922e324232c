---------------------------- MODULE PayloadStore ----------------------------
(***************************************************************************)
(* What hydration promises about the payload cache: at most one fetch of a *)
(* file is outstanding, only a fetch of a file with that slot touches a    *)
(* payload, and it publishes at most one body, in one step - a reader      *)
(* never meets a payload that is still growing, nor bytes that belong to   *)
(* no file of the slot.  Hydration implements it.                          *)
(***************************************************************************)
CONSTANTS
  Files,
  Slot,      \* Slot[f]: where f's payload is kept; files may share one
  Bodies,    \* Bodies[s]: what may be kept in slot s
  Missing    \* the store's value for a slot with nothing in it

Slots == {Slot[f] : f \in Files}

VARIABLES
  store,     \* store[s]: what can be read in s, or Missing
  phase      \* phase[f]: "idle", "fetching" or "settled" (body in place, claim held)

storeVars == <<store, phase>>

Move(f, from, to) ==
  /\ phase[f] = from
  /\ phase' = [phase EXCEPT ![f] = to]

Init ==
  /\ store = [s \in Slots |-> Missing]
  /\ phase = [f \in Files |-> "idle"]

Begin(f) ==
  /\ Move(f, "idle", "fetching")
  /\ UNCHANGED store

(* The body replaces whatever was there, in one step. *)
Publish(f) ==
  /\ Move(f, "fetching", "settled")
  /\ \E b \in Bodies[Slot[f]] : store' = [store EXCEPT ![Slot[f]] = b]

(* A fetch that cannot replace an existing payload may remove it first. *)
Remove(f) ==
  /\ phase[f] = "fetching"
  /\ store' = [store EXCEPT ![Slot[f]] = Missing]
  /\ UNCHANGED phase

GiveUp(f) ==
  /\ Move(f, "fetching", "settled")
  /\ UNCHANGED store

Finish(f) ==
  /\ Move(f, "settled", "idle")
  /\ UNCHANGED store

(* The process ends and is started again: fetches are gone, payloads stay. *)
Restart ==
  /\ phase' = [f \in Files |-> "idle"]
  /\ UNCHANGED store

Next ==
  \/ \E f \in Files : Begin(f) \/ Publish(f) \/ Remove(f) \/ GiveUp(f) \/ Finish(f)
  \/ Restart

Spec == Init /\ [][Next]_storeVars
=============================================================================
