---------------------------- MODULE PageLifecycle ----------------------------
(***************************************************************************)
(* What the memory manager promises for each page of the virtual address   *)
(* range, without lists, statuses, locks or threads: a page that was       *)
(* touched is always somewhere, and a frame backs one page at a time.      *)
(***************************************************************************)
CONSTANTS VAs, Frames, NoFrame

VARIABLES
  where,   (* page -> where its contents are                               *)
  backing  (* page -> the frame that holds them, or NoFrame                *)

Untouched == "untouched"  (* nowhere: the page reads as zeroes             *)
Resident == "resident"    (* in a frame that is the page's                 *)
Leaving == "leaving"      (* still in its frame, which may be taken away   *)
OnDisk == "on disk"       (* in a disk slot only                           *)

Backed(va) == where[va] \in {Resident, Leaving}

Init ==
  /\ where = [va \in VAs |-> Untouched]
  /\ backing = [va \in VAs |-> NoFrame]

(* A fault gives the page a frame that backs no page ...                   *)
FaultIn(va, f) ==
  /\ ~ Backed(va)
  /\ \A other \in VAs : backing[other] # f
  /\ where' = [where EXCEPT ![va] = Resident]
  /\ backing' = [backing EXCEPT ![va] = f]

(* ... or the one it still has.                                            *)
Rescue(va) ==
  /\ where[va] = Leaving
  /\ where' = [where EXCEPT ![va] = Resident]
  /\ backing' = backing

Trim(va) ==
  /\ where[va] = Resident
  /\ where' = [where EXCEPT ![va] = Leaving]
  /\ backing' = backing

(* The frame goes to another page, and the contents are in a slot.         *)
Evict(va) ==
  /\ where[va] = Leaving
  /\ where' = [where EXCEPT ![va] = OnDisk]
  /\ backing' = [backing EXCEPT ![va] = NoFrame]

(* Each step moves a page.                                                 *)
Next == /\ where' # where
        /\ \E va \in VAs : \/ \E f \in Frames : FaultIn(va, f)
                           \/ Rescue(va) \/ Trim(va) \/ Evict(va)

Spec == Init /\ [][Next]_<<where, backing>>
==============================================================================
