------------------------------ MODULE Ownership ------------------------------
(***************************************************************************)
(* The invariant by which the threads of MemoryManager share frames: who   *)
(* may do what with a frame is decided by its status alone, and each value *)
(* of the status means one place.  It is inductive (module                 *)
(* OwnershipProofs), and implies the safety properties of MemoryManager    *)
(* that speak of frames and page table entries (MemoryManagerProofs).      *)
(***************************************************************************)
EXTENDS MemoryManager

PopPC == {"popFree", "lockPageTable", "lockStandbyList", "popStandby",
          "signal", "await"}
RescuePC == {"checkModified", "lockModified", "rescueModified",
             "checkMidwrite", "rescueMidwrite", "checkStandby",
             "lockStandby", "rescueStandby", "clearSlot"}
FillPC == {"fill", "freeSlot"}

(* How far the frame may have come on its way from the modified list to    *)
(* the standby list at each look of a rescue.                              *)
RescueStatus(pc) ==
  CASE pc \in {"checkModified", "lockModified", "rescueModified"} ->
         {PFN_MODIFIED, PFN_MIDWRITE, PFN_STANDBY}
    [] pc = "checkMidwrite" -> {PFN_MIDWRITE, PFN_STANDBY, PFN_MIDRESCUE}
    [] pc = "rescueMidwrite" -> {PFN_MIDWRITE, PFN_STANDBY}
    [] pc = "checkStandby" -> {PFN_STANDBY, PFN_MIDRESCUE}
    [] pc \in {"lockStandby", "rescueStandby"} -> {PFN_STANDBY}
    [] pc = "clearSlot" -> {PFN_MIDRESCUE}

(* The user thread knows the entry of the faulting page and its frame.     *)
UserControl ==
  /\ upc # "access" => uva \in VAs /\ map[uva] = NoFrame
  /\ upc \in PopPC \cup {"access", "fault"} => uframe = NoFrame
  /\ upc \notin PopPC \cup {"access", "fault"} => uframe \in Frames
  /\ upc \in PopPC \cup FillPC => ~ Resident(pageTable[uva])
  /\ upc \in RescuePC =>
       /\ IS_PTE_TRANSITION(pageTable[uva])
       /\ pageTable[uva].index = uframe
       /\ pfnStatus[uframe] \in RescueStatus(upc)
  /\ upc \in FillPC => pfnStatus[uframe] \in {PFN_FREE, PFN_STANDBY}
  /\ upc = "fault" => pageTable[uva].valid = 0
  /\ upc = "setValid" =>
       \/ /\ ~ Resident(pageTable[uva])
          /\ pfnStatus[uframe] \in {PFN_FREE, PFN_STANDBY}
       \/ /\ IS_PTE_TRANSITION(pageTable[uva])
          /\ pageTable[uva].index = uframe
          /\ pfnStatus[uframe] = PFN_MIDRESCUE
  /\ upc = "addActive" =>
       /\ pageTable[uva] = ValidPte(uframe)
       /\ pfnPte[uframe] = uva
       /\ pfnStatus[uframe] \in {PFN_FREE, PFN_STANDBY, PFN_MIDRESCUE}
  /\ upc = "mapVA" => pfnStatus[uframe] # PFN_MIDRESCUE

(* A page whose frame the trimmer has taken is mapped, or the user is just *)
(* about to map it: it cannot fault before the trimmer has unmapped it.    *)
Mapped(va) == map[va] # NoFrame \/ (va = uva /\ upc = "mapVA")

TrimmerControl ==
  /\ tpc \in {"wait", "pop", "signal"} => tvictims = <<>> /\ ti = 1
  /\ tpc \in {"lockPageTable", "lockModified", "unmap"} => ti = 1
  /\ tpc \in {"lockPageTable", "lockModified", "mark", "unmap"} =>
       /\ ti \in 1 .. Len(tvictims)
       /\ \A i \in 1 .. Len(tvictims) : Mapped(tptes[i])
  /\ tpc \in {"lockPageTable", "lockModified", "mark"} =>
       /\ \A i \in ti .. Len(tvictims) : tptes[i] = pfnPte[tvictims[i]]
       /\ \A i \in 1 .. ti - 1 : pageTable[tptes[i]].valid = 0
  /\ tpc = "unmap" =>
       \A i \in 1 .. Len(tvictims) : pageTable[tptes[i]].valid = 0

WriterControl ==
  /\ wpc \in {"check", "wait"} => wslots = <<>>
  /\ wpc \in {"check", "wait", "search", "lockModified"} => wvictims = <<>>
  /\ wpc \in {"pop", "victim", "lockStandby", "write"} =>
       Len(wvictims) <= Len(wslots)
  /\ wpc \in {"victim", "lockStandby", "write"} => wi \in 1 .. Len(wvictims)

(* What the status of a frame says about where it is, and the converse.    *)
StatusIsPlace ==
  \A f \in Frames :
    /\ On(freeList, f) => pfnStatus[f] = PFN_FREE /\ ~ InUserHand(f)
    /\ On(activeList, f) => pfnStatus[f] = PFN_ACTIVE /\ ~ InTrimmerHand(f)
    /\ On(modifiedList, f) => pfnStatus[f] = PFN_MODIFIED
    /\ On(standbyList, f) => pfnStatus[f] = PFN_STANDBY /\ ~ InUserHand(f)
    /\ InTrimmerHand(f) => pfnStatus[f] = PFN_ACTIVE
    /\ pfnStatus[f] = PFN_FREE => On(freeList, f) \/ InUserHand(f)
    /\ pfnStatus[f] = PFN_ACTIVE => On(activeList, f) \/ InTrimmerHand(f)
    /\ pfnStatus[f] = PFN_MODIFIED => On(modifiedList, f)
    /\ pfnStatus[f] = PFN_STANDBY => On(standbyList, f) \/ InUserHand(f)
    /\ pfnStatus[f] = PFN_MIDWRITE => InWriterHand(f)
    /\ pfnStatus[f] = PFN_MIDRESCUE => InUserHand(f)

NoListRepeats ==
  /\ IsInjective(freeList) /\ IsInjective(activeList)
  /\ IsInjective(modifiedList) /\ IsInjective(standbyList)
  /\ IsInjective(tvictims)

(* Frames name their pages, and pages their frames.                        *)
FramesNamePages ==
  \A f \in Frames :
    /\ On(activeList, f) \/ InTrimmerHand(f) =>
         /\ pfnPte[f] \in VAs
         /\ pageTable[pfnPte[f]].valid = 1
         /\ pageTable[pfnPte[f]].index = f
    /\ \/ pfnStatus[f] \in {PFN_MODIFIED, PFN_MIDWRITE, PFN_MIDRESCUE}
       \/ On(standbyList, f)
       => /\ pfnPte[f] \in VAs
          /\ \/ IS_PTE_TRANSITION(pageTable[pfnPte[f]])
             \/ uframe = f /\ upc = "addActive"
          /\ pageTable[pfnPte[f]].index = f

PagesNameFrames ==
  \A va \in VAs : LET p == pageTable[va] IN
    /\ Resident(p) => p.index \in Frames /\ pfnPte[p.index] = va
    /\ p.valid = 1 =>
         \/ On(activeList, p.index) \/ InTrimmerHand(p.index)
         \/ upc = "addActive" /\ va = uva
    /\ IS_PTE_TRANSITION(p) =>
         \/ pfnStatus[p.index] \in {PFN_MODIFIED, PFN_MIDWRITE}
         \/ On(standbyList, p.index)
         \/ pfnStatus[p.index] = PFN_MIDRESCUE /\ va = uva

(* A valid page is mapped, or the user is just about to map it; and what   *)
(* the trimmer has yet to take is still mapped.                            *)
ValidIsMapped ==
  \A va \in VAs :
    pageTable[va].valid = 1 =>
      map[va] # NoFrame \/ (va = uva /\ upc \in {"addActive", "mapVA"})

(* The threads own frames by status: the inductive invariant.  It relates  *)
(* the program counter of each thread, the frames and pages in its hand,   *)
(* the four lists, the statuses, the entries and the mapping, and it holds *)
(* although entries and statuses are looked at without locks               *)
(* (pagefaulthandler.c:51-76, writer.c:121) and pages are unmapped and     *)
(* mapped after the locks are released (trimmer.c:79, pagefaulthandler.c:  *)
(* 34).                                                                    *)
IndInv ==
  /\ TypeOK
  /\ UserControl /\ TrimmerControl /\ WriterControl
  /\ StatusIsPlace /\ NoListRepeats
  /\ FramesNamePages /\ PagesNameFrames /\ ValidIsMapped
------------------------------------------------------------------------------
(* Disk slots: what keeps slots and pages in step while nobody holds a     *)
(* lock on a slot.                                                         *)

(* Found by the writer, and neither written to nor passed over yet.        *)
Pending(i) ==
  /\ i \in DOMAIN wslots
  /\ \/ wpc \in {"search", "lockModified", "pop"}
     \/ wpc \in {"victim", "lockStandby", "write"} /\ wi <= i

(* Inductive beside IndInv, as long as no slot is found twice: slots the   *)
(* writer means to use stay free, although it chose them without a lock    *)
(* (writer.c:51), and the slot that a rescue is about to clear holds no    *)
(* page any more and was not given away (pagefaulthandler.c:87-88).        *)
SlotInv ==
  /\ SlotsOfPagesAreInUse /\ SlotsAreNotShared /\ NoSlotLeaks
  /\ \A i \in DOMAIN wslots : Pending(i) => disk_pages[wslots[i]] = 0
  /\ upc = "clearSlot" =>
       LET s == pfnDiskIndex[uframe] IN
         s # 0 /\ disk_pages[s] = 1 /\ PagesIn(s) = {}
==============================================================================
