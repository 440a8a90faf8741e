--------------------------- MODULE PageFaultHandler ---------------------------
(***************************************************************************)
(* The user thread: accessVirtualMemory (main.c) touches pages at random,  *)
(* and every access the hardware refuses runs pageFaultHandler, which      *)
(* rescues the page's frame if it still holds one, and otherwise gets a    *)
(* frame and fills it.  The build has NUM_OF_USER_THREADS = 1.             *)
(*                                                                         *)
(* upc names the next thing the thread does.  A read of shared state that  *)
(* the code makes without its lock is a step of its own.                   *)
(***************************************************************************)
EXTENDS VMState

VARIABLES
  upc,     (* control state of the user thread                             *)
  uva,     (* arbitrary_va / fault_va: the page of the access in progress  *)
  uframe   (* freePage and frameNumber: the frame the handler works on     *)

userVars == <<upc, uva, uframe>>

UserPC == {"access", "fault", "checkModified", "lockModified",
           "rescueModified", "checkMidwrite", "rescueMidwrite",
           "checkStandby", "lockStandby", "rescueStandby", "clearSlot",
           "popFree", "lockPageTable", "lockStandbyList", "popStandby",
           "signal", "await", "fill", "freeSlot", "setValid", "addActive",
           "mapVA"}

InitUser == upc = "access" /\ uva = NoVA /\ uframe = NoFrame

(* An access starts on any page and, after a fault, is tried again on the  *)
(* page that faulted.                                                      *)
Accessing(va) == upc = "access" /\ uva \in {NoVA, va}

WriteVA(va) ==
  /\ Accessing(va)
  /\ map[va] # NoFrame
  /\ uva' = NoVA
  /\ UNCHANGED <<upc, uframe, shared>>

FaultOn(va) ==
  /\ Accessing(va)
  /\ map[va] = NoFrame
  /\ uva' = va
  /\ upc' = "fault"
  /\ UNCHANGED <<uframe, shared>>

StartFault ==
  /\ upc = "fault"
  /\ \/ /\ IS_PTE_TRANSITION(pageTable[uva])
        /\ uframe' = pageTable[uva].index
        /\ upc' = "checkModified"
     \/ /\ ~ IS_PTE_TRANSITION(pageTable[uva])
        /\ uframe' = uframe
        /\ upc' = "popFree"
  /\ UNCHANGED <<uva, shared>>
------------------------------------------------------------------------------
(* Rescue.  Each status is looked at without a lock and again under it.    *)

(* The unlocked test "freePage->status == status".                         *)
CheckStatus(pc, status, found, otherwise) ==
  /\ upc = pc
  /\ upc' = IF pfnStatus[uframe] = status THEN found ELSE otherwise
  /\ UNCHANGED <<uva, uframe, shared>>

CheckModified ==
  CheckStatus("checkModified", PFN_MODIFIED, "lockModified", "checkMidwrite")
(* Seeded fault: no look for a frame the writer has.                       *)
CheckMidwriteForgotten ==
  CheckStatus("checkMidwrite", PFN_MIDRESCUE, "rescueMidwrite", "checkStandby")
CheckMidwrite ==
  CheckStatus("checkMidwrite", PFN_MIDWRITE, "rescueMidwrite", "checkStandby")
CheckStandby ==
  CheckStatus("checkStandby", PFN_STANDBY, "lockStandby", "setValid")

Lock(pc, l, next) ==
  /\ upc = pc
  /\ EnterCriticalSection(l, "user")
  /\ upc' = next
  /\ UNCHANGED <<uva, uframe, pages, lists, slots, map, events>>

LockModified == Lock("lockModified", "modifiedListLock", "rescueModified")
LockStandby == Lock("lockStandby", "standbyListLock", "rescueStandby")

(* The second look, under the lock.  Seeded fault: not taken.              *)
StillUnchecked(status) == status \in PfnStatus
Still(status) == pfnStatus[uframe] = status

RescueModified ==
  /\ upc = "rescueModified"
  /\ IF Still(PFN_MODIFIED)
     THEN /\ modifiedList' = removePage(modifiedList, uframe)
          /\ pfnStatus' = [pfnStatus EXCEPT ![uframe] = PFN_MIDRESCUE]
     ELSE UNCHANGED <<modifiedList, pfnStatus>>
  /\ LeaveCriticalSection({"modifiedListLock"})
  /\ upc' = "checkMidwrite"
  /\ UNCHANGED <<uva, uframe, pageTable, pfnPte, pfnDiskIndex, freeList,
                 activeList, standbyList, slots, map, events>>

RescueMidwrite ==
  /\ upc = "rescueMidwrite"
  /\ pfnStatus' = IF Still(PFN_MIDWRITE)
                  THEN [pfnStatus EXCEPT ![uframe] = PFN_MIDRESCUE]
                  ELSE pfnStatus
  /\ upc' = "checkStandby"
  /\ UNCHANGED <<uva, uframe, pageTable, pfnPte, pfnDiskIndex, lists, slots,
                 map, lock, events>>

RescueStandby ==
  /\ upc = "rescueStandby"
  /\ IF Still(PFN_STANDBY)
     THEN /\ standbyList' = removePage(standbyList, uframe)
          /\ pfnStatus' = [pfnStatus EXCEPT ![uframe] = PFN_MIDRESCUE]
     ELSE UNCHANGED <<standbyList, pfnStatus>>
  /\ LeaveCriticalSection({"standbyListLock"})
  /\ upc' = "clearSlot"
  /\ UNCHANGED <<uva, uframe, pageTable, pfnPte, pfnDiskIndex, freeList,
                 activeList, modifiedList, slots, map, events>>

(* The slot is given back after every lock is released.                    *)
ClearSlot ==
  /\ upc = "clearSlot"
  /\ clearDiskSlot(pfnDiskIndex[uframe])
  /\ upc' = "setValid"
  /\ UNCHANGED <<uva, uframe, pages, lists, disk_page_index, map, lock, events>>
------------------------------------------------------------------------------
(* getFreePage.                                                            *)

PopFree ==
  /\ upc = "popFree"
  /\ IF IsListEmpty(freeList)
     THEN /\ upc' = "lockPageTable"
          /\ UNCHANGED <<uframe, freeList>>
     ELSE /\ uframe' = Head(freeList)
          /\ freeList' = Tail(freeList)
          /\ upc' = "fill"
  /\ UNCHANGED <<uva, pages, activeList, modifiedList, standbyList, slots,
                 map, lock, events>>

LockPageTable == Lock("lockPageTable", "pageTableLock", "lockStandbyList")
LockStandbyList == Lock("lockStandbyList", "standbyListLock", "popStandby")

(* The oldest standby frame is taken from its page, whose contents are on  *)
(* disk: the page's entry now names the slot.                              *)
PopStandby ==
  /\ upc = "popStandby"
  /\ IF IsListEmpty(standbyList)
     THEN /\ upc' = "signal"
          /\ UNCHANGED <<uframe, standbyList, pageTable, pfnDiskIndex>>
     ELSE LET f == Head(standbyList)
              old == pfnPte[f]
          IN /\ uframe' = f
             /\ standbyList' = Tail(standbyList)
             /\ pageTable' = [pageTable EXCEPT
                                ![old] = ToDisk(@, pfnDiskIndex[f])]
             /\ pfnDiskIndex' = [pfnDiskIndex EXCEPT ![f] = 0]
             /\ upc' = "fill"
  /\ LeaveCriticalSection({"pageTableLock", "standbyListLock"})
  /\ UNCHANGED <<uva, pfnPte, pfnStatus, freeList, activeList, modifiedList,
                 slots, map, events>>

SignalTrimmer ==
  /\ upc = "signal"
  /\ startTrimmer' = TRUE
  /\ upc' = "await"
  /\ UNCHANGED <<uva, uframe, pages, lists, slots, map, lock, startWriter,
                 finishWriter>>

AwaitWriter ==
  /\ upc = "await"
  /\ finishWriter
  /\ finishWriter' = FALSE
  /\ upc' = "popFree"
  /\ UNCHANGED <<uva, uframe, pages, lists, slots, map, lock, startTrimmer,
                 startWriter>>
------------------------------------------------------------------------------
(* The frame is filled from disk, or with zeroes for a page that was never *)
(* touched.  What the frame then contains is in module PageContents.       *)

ReadDisk ==
  /\ upc = "fill"
  /\ pageTable[uva].index # 0
  /\ upc' = "freeSlot"
  /\ UNCHANGED <<uva, uframe, shared>>

ZeroPage ==
  /\ upc = "fill"
  /\ pageTable[uva].index = 0
  /\ upc' = "setValid"
  /\ UNCHANGED <<uva, uframe, shared>>

FreeSlot ==
  /\ upc = "freeSlot"
  /\ clearDiskSlot(pageTable[uva].index)
  /\ upc' = "setValid"
  /\ UNCHANGED <<uva, uframe, pages, lists, disk_page_index, map, lock, events>>
------------------------------------------------------------------------------
(* makePTEValid.  The frame is in the user's hand, so nobody sees that its *)
(* pte is set before the lock is taken; and nothing that waits for the     *)
(* page table lock sees the entry half written.                            *)

SetValid ==
  /\ upc = "setValid"
  /\ Free("pageTableLock")
  /\ pfnPte' = [pfnPte EXCEPT ![uframe] = uva]
  /\ pageTable' = [pageTable EXCEPT ![uva] = ValidPte(uframe)]
  /\ upc' = "addActive"
  /\ UNCHANGED <<uva, uframe, pfnStatus, pfnDiskIndex, lists, slots, map, lock,
                 events>>

AddActive ==
  /\ upc = "addActive"
  /\ pfnStatus' = [pfnStatus EXCEPT ![uframe] = PFN_ACTIVE]
  /\ activeList' = add_entry(activeList, uframe)
  /\ upc' = "mapVA"
  /\ UNCHANGED <<uva, uframe, pageTable, pfnPte, pfnDiskIndex, freeList,
                 modifiedList, standbyList, slots, map, lock, events>>

MapVA ==
  /\ upc = "mapVA"
  /\ map' = [map EXCEPT ![uva] = uframe]
  /\ uframe' = NoFrame
  /\ upc' = "access"
  /\ UNCHANGED <<uva, pages, lists, slots, lock, events>>
------------------------------------------------------------------------------
Rescue == \/ CheckModified \/ LockModified \/ RescueModified
          \/ CheckMidwrite \/ RescueMidwrite
          \/ CheckStandby \/ LockStandby \/ RescueStandby \/ ClearSlot

GetFreePage == \/ PopFree \/ LockPageTable \/ LockStandbyList \/ PopStandby
               \/ SignalTrimmer \/ AwaitWriter

HandleFault == \/ StartFault \/ Rescue \/ GetFreePage
               \/ ReadDisk \/ ZeroPage \/ FreeSlot
               \/ SetValid \/ AddActive \/ MapVA

UserNext == (\E va \in VAs : WriteVA(va) \/ FaultOn(va)) \/ HandleFault

UserTypeOK ==
  /\ upc \in UserPC
  /\ uva \in VAs \cup {NoVA}
  /\ uframe \in Frames \cup {NoFrame}
==============================================================================
