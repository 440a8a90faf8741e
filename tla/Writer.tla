-------------------------------- MODULE Writer --------------------------------
(***************************************************************************)
(* The writer thread (writer.c): while the modified list is not empty it   *)
(* collects free disk slots, takes as many modified frames, and copies     *)
(* each one that is not rescued meanwhile to its slot.                     *)
(*                                                                         *)
(* The branch for disk_slot_found == FALSE (writer.c:99-113) puts victims  *)
(* back; without slots no victim is popped, the loop starts over first,    *)
(* and the branch has no step here.                                        *)
(***************************************************************************)
EXTENDS VMState

CONSTANT MAXIMUM_WRITE_BATCH

ASSUME WriteBatchAssumption == MAXIMUM_WRITE_BATCH \in Nat \ {0}

VARIABLES
  wpc,       (* control state of the writer thread                         *)
  wslots,    (* slotsAvailable[0 .. diskPagesFound-1]                      *)
  wvictims,  (* victims[0 .. numVictims-1]                                 *)
  wi         (* loop index: slots looked at, then the victim to write      *)

writerVars == <<wpc, wslots, wvictims, wi>>

WriterPC == {"check", "wait", "search", "lockModified", "pop", "victim",
             "lockStandby", "write", "signal"}

InitWriter == wpc = "check" /\ wslots = <<>> /\ wvictims = <<>> /\ wi = 0

CheckModifiedList ==
  /\ wpc = "check"
  /\ Free("modifiedListLock")
  /\ wpc' = IF IsListEmpty(modifiedList) THEN "wait" ELSE "search"
  /\ UNCHANGED <<wslots, wvictims, wi, shared>>

AwaitStart ==
  /\ wpc = "wait"
  /\ startWriter
  /\ startWriter' = FALSE
  /\ wpc' = "check"
  /\ UNCHANGED <<wslots, wvictims, wi, pages, lists, slots, map, lock,
                 startTrimmer, finishWriter>>

(* One iteration of the search.  It reads disk_pages without a lock, and   *)
(* stays on the slot that completes the batch.                             *)
SearchSlot ==
  LET free == SlotIsFree(disk_page_index)
      found == IF free THEN Append(wslots, disk_page_index) ELSE wslots
      full == free /\ Len(found) = MAXIMUM_WRITE_BATCH
  IN /\ wpc = "search"
     /\ wslots' = found
     /\ disk_page_index' = IF full THEN disk_page_index
                           ELSE NextSlot(disk_page_index)
     /\ IF full \/ wi + 1 = DiskPages
        THEN wpc' = "lockModified" /\ wi' = 0
        ELSE wpc' = wpc /\ wi' = wi + 1
     /\ UNCHANGED <<wvictims, pages, lists, disk_pages, map, lock, events>>

WriteLock(pc, l, next) ==
  /\ wpc = pc
  /\ EnterCriticalSection(l, "writer")
  /\ wpc' = next
  /\ UNCHANGED <<wslots, wvictims, wi, pages, lists, slots, map, events>>

WriteLockModified == WriteLock("lockModified", "modifiedListLock", "pop")

Popping == Len(wvictims) < Len(wslots) /\ ~ IsListEmpty(modifiedList)

PopModified ==
  /\ wpc = "pop"
  /\ Popping
  /\ wvictims' = Append(wvictims, Head(modifiedList))
  /\ modifiedList' = Tail(modifiedList)
  /\ pfnStatus' = [pfnStatus EXCEPT ![Head(modifiedList)] = PFN_MIDWRITE]
  /\ UNCHANGED <<wpc, wslots, wi, pageTable, pfnPte, pfnDiskIndex, freeList,
                 activeList, standbyList, slots, map, lock, events>>

(* With no victim the loop starts over: nothing is written or signalled.   *)
EndPop ==
  /\ wpc = "pop"
  /\ ~ Popping
  /\ LeaveCriticalSection({"modifiedListLock"})
  /\ IF wvictims = <<>>
     THEN wpc' = "check" /\ wslots' = <<>> /\ wi' = 0
     ELSE wpc' = "victim" /\ wslots' = wslots /\ wi' = 1
  /\ UNCHANGED <<wvictims, pages, lists, slots, map, events>>

(* Where the write loop goes after victim wi.                              *)
NextVictim ==
  IF wi = Len(wvictims)
  THEN wpc' = "signal" /\ wi' = 0
  ELSE wpc' = "victim" /\ wi' = wi + 1

(* The victim was not rescued meanwhile.  Seeded faults: not looked at;    *)
(* looked at for the first victim only.                                    *)
StillMidwriteUnchecked == wi \in DOMAIN wvictims
StillMidwriteFirst == wi > 1 \/ pfnStatus[wvictims[wi]] = PFN_MIDWRITE
StillMidwrite == pfnStatus[wvictims[wi]] = PFN_MIDWRITE

(* The unlocked test for a victim that was rescued meanwhile.              *)
CheckVictim ==
  /\ wpc = "victim"
  /\ IF StillMidwrite
     THEN wpc' = "lockStandby" /\ wi' = wi
     ELSE NextVictim
  /\ UNCHANGED <<wslots, wvictims, shared>>

WriteLockStandby == WriteLock("lockStandby", "standbyListLock", "write")

WritePage ==
  /\ wpc = "write"
  /\ StillMidwrite
  /\ disk_pages' = [disk_pages EXCEPT ![wslots[wi]] = 1]
  /\ pfnStatus' = [pfnStatus EXCEPT ![wvictims[wi]] = PFN_STANDBY]
  /\ pfnDiskIndex' = [pfnDiskIndex EXCEPT ![wvictims[wi]] = wslots[wi]]
  /\ standbyList' = add_entry(standbyList, wvictims[wi])
  /\ LeaveCriticalSection({"standbyListLock"})
  /\ NextVictim
  /\ UNCHANGED <<wslots, wvictims, pageTable, pfnPte, freeList, activeList,
                 modifiedList, disk_page_index, map, events>>

(* The second look finds that the victim was rescued.                      *)
SkipRescued ==
  /\ wpc = "write"
  /\ ~ StillMidwrite
  /\ LeaveCriticalSection({"standbyListLock"})
  /\ NextVictim
  /\ UNCHANGED <<wslots, wvictims, pages, lists, slots, map, events>>

SignalUser ==
  /\ wpc = "signal"
  /\ finishWriter' = TRUE
  /\ wpc' = "check"
  /\ wslots' = <<>>
  /\ wvictims' = <<>>
  /\ UNCHANGED <<wi, pages, lists, slots, map, lock, startTrimmer, startWriter>>

WriterNext == \/ CheckModifiedList \/ AwaitStart \/ SearchSlot
              \/ WriteLockModified \/ PopModified \/ EndPop
              \/ CheckVictim \/ WriteLockStandby \/ WritePage \/ SkipRescued
              \/ SignalUser

WriterTypeOK ==
  /\ wpc \in WriterPC
  /\ wslots \in Seq(Slots \ {0})
  /\ wvictims \in Seq(Frames)
  /\ wi \in Nat
==============================================================================
