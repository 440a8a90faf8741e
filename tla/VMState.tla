------------------------------- MODULE VMState -------------------------------
(***************************************************************************)
(* The state every thread of the memory manager shares (struct VMState in  *)
(* include/initializer.h), and the small operations on it.                 *)
(*                                                                         *)
(* Page lists are sequences of frame numbers, head first.  The page lock   *)
(* of a frame is the innermost lock everywhere and guards short            *)
(* straight-line code, so a region under a page lock is one step and page  *)
(* locks are not represented; nor are freeListLock and activeListLock,     *)
(* whose regions acquire nothing but a page lock.  The three locks that    *)
(* are held while another lock is awaited, or across a loop, are explicit. *)
(***************************************************************************)
EXTENDS VMTypes

CONSTANTS
  VAs,         (* pages of the virtual address range that starts at vaBase *)
  Frames,      (* physical frame numbers: a sparse set of numbers          *)
  physical_page_numbers,  (* the frames in the order they were handed out  *)
  DiskPages,   (* NUMBER_OF_DISK_PAGES, slot 0 included                    *)
  NoVA,        (* the NULL of a PTE pointer                                *)
  NoFrame      (* the NULL of a PFN pointer; also "not mapped"             *)

ASSUME StateAssumption ==
  /\ NoVA \notin VAs
  /\ Frames \subseteq Nat
  /\ NoFrame \notin Frames
  /\ physical_page_numbers \in Seq(Frames)
  /\ ToSet(physical_page_numbers) = Frames
  /\ IsInjective(physical_page_numbers)
  /\ DiskPages \in Nat
  /\ DiskPages >= 2

(* VIRTUAL_ADDRESS_SIZE_IN_PAGES: slot 0 is never used and one page is     *)
(* kept in hand.                                                           *)
ASSUME SizeAssumption ==
  /\ IsFiniteSet(VAs)
  /\ Cardinality(VAs) = Cardinality(Frames) + DiskPages - 2

VARIABLES
  pageTable,        (* VA -> PTE                                           *)
  pfnPte,           (* PFN.pte: the page that the frame holds              *)
  pfnStatus,        (* PFN.status                                          *)
  pfnDiskIndex,     (* PFN.diskIndex                                       *)
  freeList, activeList, modifiedList, standbyList,
  disk_pages,       (* slot -> 0 when available, 1 when in use             *)
  disk_page_index,  (* where the writer resumes its search for a slot      *)
  map,              (* the mapping kept by MapUserPhysicalPages            *)
  lock,             (* CRITICAL_SECTION -> owning thread                   *)
  startTrimmer, startWriter, finishWriter  (* auto-reset events            *)

pages == <<pageTable, pfnPte, pfnStatus, pfnDiskIndex>>
lists == <<freeList, activeList, modifiedList, standbyList>>
slots == <<disk_pages, disk_page_index>>
events == <<startTrimmer, startWriter, finishWriter>>
shared == <<pageTable, pfnPte, pfnStatus, pfnDiskIndex, freeList, activeList,
            modifiedList, standbyList, disk_pages, disk_page_index, map, lock,
            startTrimmer, startWriter, finishWriter>>
------------------------------------------------------------------------------
(* Disk slots.                                                             *)

Slots == 0 .. DiskPages - 1

clearDiskSlotForgotten(slot) == disk_pages' = disk_pages  (* seeded fault *)
clearDiskSlot(slot) == disk_pages' = [disk_pages EXCEPT ![slot] = 0]

SlotTakenForFree(slot) == slot > 0  (* seeded fault: not looked at *)
SlotIsFree(slot) == disk_pages[slot] = 0

(* The next slot the search looks at; slot 0 is skipped for ever.  Seeded  *)
(* faults: wraps around to it; does not wrap around.                       *)
NextSlotFromZero(slot) == IF slot + 1 = DiskPages THEN 0 ELSE slot + 1
NextSlotUnwrapped(slot) == IF slot + 1 = DiskPages THEN slot ELSE slot + 1
NextSlot(slot) == IF slot + 1 = DiskPages THEN 1 ELSE slot + 1
------------------------------------------------------------------------------
(* Locks.                                                                  *)

Locks == {"pageTableLock", "modifiedListLock", "standbyListLock"}

Free(l) == lock[l] = NoThread

EnterCriticalSection(l, thread) ==
  /\ Free(l)
  /\ lock' = [lock EXCEPT ![l] = thread]

LeaveCriticalSection(ls) ==
  lock' = [l \in Locks |-> IF l \in ls THEN NoThread ELSE lock[l]]
------------------------------------------------------------------------------
(* The state initializeVirtualMemory, initializeEvents and initializeLocks *)
(* leave behind: every frame is free and no page was ever touched.         *)

InitShared ==
  /\ pageTable = [va \in VAs |-> ZeroPte]
  /\ pfnPte = [f \in Frames |-> NoVA]
  /\ pfnStatus = [f \in Frames |-> PFN_FREE]
  /\ pfnDiskIndex = [f \in Frames |-> 0]
  /\ freeList = physical_page_numbers
  /\ activeList = <<>>
  /\ modifiedList = <<>>
  /\ standbyList = <<>>
  /\ disk_pages = [s \in Slots |-> 0]
  /\ disk_page_index = 1
  /\ map = [va \in VAs |-> NoFrame]
  /\ lock = [l \in Locks |-> NoThread]
  /\ startTrimmer = FALSE
  /\ startWriter = FALSE
  /\ finishWriter = FALSE

SharedTypeOK ==
  /\ pageTable \in [VAs -> PTE]
  /\ pfnPte \in [Frames -> VAs \cup {NoVA}]
  /\ pfnStatus \in [Frames -> PfnStatus]
  /\ pfnDiskIndex \in [Frames -> Slots]
  /\ freeList \in Seq(Frames)
  /\ activeList \in Seq(Frames)
  /\ modifiedList \in Seq(Frames)
  /\ standbyList \in Seq(Frames)
  /\ disk_pages \in [Slots -> {0, 1}]
  /\ disk_page_index \in Slots \ {0}
  /\ map \in [VAs -> Frames \cup {NoFrame}]
  /\ lock \in [Locks -> Threads \cup {NoThread}]
  /\ startTrimmer \in BOOLEAN
  /\ startWriter \in BOOLEAN
  /\ finishWriter \in BOOLEAN
==============================================================================
