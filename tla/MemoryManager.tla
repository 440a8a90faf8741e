---------------------------- MODULE MemoryManager ----------------------------
(***************************************************************************)
(* The three threads of the memory manager running together, from the      *)
(* moment full_virtual_memory_test sets startEvent, and the properties     *)
(* that keep page table, frame records, lists and disk slots consistent.   *)
(***************************************************************************)
EXTENDS PageFaultHandler, Trimmer, Writer

vars == <<shared, userVars, trimmerVars, writerVars>>

Init == InitShared /\ InitUser /\ InitTrimmer /\ InitWriter

UserStep == UserNext /\ UNCHANGED <<trimmerVars, writerVars>>
TrimmerStep == TrimmerNext /\ UNCHANGED <<userVars, writerVars>>
WriterStep == WriterNext /\ UNCHANGED <<userVars, trimmerVars>>

Next == UserStep \/ TrimmerStep \/ WriterStep

Spec == Init /\ [][Next]_vars

(* Every variable keeps its type: in particular no list holds NULL, the    *)
(* search never leaves slots 1 .. NUMBER_OF_DISK_PAGES-1, and a frame is   *)
(* only ever given a slot inside the disk (the ASSERTs at lists.c:81 and   *)
(* writer.c:137).                                                          *)
TypeOK == SharedTypeOK /\ UserTypeOK /\ TrimmerTypeOK /\ WriterTypeOK
------------------------------------------------------------------------------
(* Who has a frame.                                                        *)

(* Taken by the fault handler and not yet on the active list.              *)
InUserHand(f) ==
  /\ uframe = f
  /\ \/ upc \in {"fill", "freeSlot", "setValid", "addActive"}
     \/ pfnStatus[f] = PFN_MIDRESCUE

(* Popped from the active list and not yet on the modified list.           *)
InTrimmerHand(f) ==
  /\ tpc \in {"lockPageTable", "lockModified", "mark"}
  /\ \E i \in ti .. Len(tvictims) : tvictims[i] = f

(* Popped from the modified list, and neither written nor rescued yet.     *)
InWriterHand(f) ==
  /\ pfnStatus[f] = PFN_MIDWRITE
  /\ wpc \in {"pop", "victim", "lockStandby", "write"}
  /\ \E i \in 1 .. Len(wvictims) : wvictims[i] = f /\ (wpc = "pop" \/ wi <= i)

Places ==
  << {f \in Frames : On(freeList, f)}, {f \in Frames : On(activeList, f)},
     {f \in Frames : On(modifiedList, f)}, {f \in Frames : On(standbyList, f)},
     {f \in Frames : InUserHand(f)}, {f \in Frames : InTrimmerHand(f)},
     {f \in Frames : InWriterHand(f)} >>

(* No frame is lost and none is in two places: it is on exactly one list,  *)
(* or in the hand of exactly one thread, and no list holds it twice.  This *)
(* is what the ASSERTs that a frame's entry points to itself               *)
(* (pagefaulthandler.c:10,25,113) look for, across rescues that race with  *)
(* the writer.                                                             *)
FrameInOnePlace ==
  /\ LET P == Places IN
       /\ \A f \in Frames : \E i \in 1 .. 7 : f \in P[i]
       /\ \A i, j \in 1 .. 7 : i # j => P[i] \cap P[j] = {}
  /\ IsInjective(freeList) /\ IsInjective(activeList)
  /\ IsInjective(modifiedList) /\ IsInjective(standbyList)

(* "Indicates the status of the PFN/which list it is currently on"         *)
(* (pfn.h:33): the threads decide from the status alone which list a frame *)
(* is on, and which lock to take.  A frame just taken for another page     *)
(* keeps the status it had until it is active.                             *)
StatusTellsPlace ==
  \A f \in Frames :
    /\ On(freeList, f) => pfnStatus[f] = PFN_FREE
    /\ On(activeList, f) \/ InTrimmerHand(f) => pfnStatus[f] = PFN_ACTIVE
    /\ On(modifiedList, f) <=> pfnStatus[f] = PFN_MODIFIED
    /\ On(standbyList, f) => pfnStatus[f] = PFN_STANDBY
    /\ InWriterHand(f) <=> pfnStatus[f] = PFN_MIDWRITE
    /\ InUserHand(f) => pfnStatus[f] \in {PFN_FREE, PFN_STANDBY, PFN_MIDRESCUE}

(* The lists and the frames the threads have in hand, as PageLists has     *)
(* them.                                                                   *)
ListsByName == [free |-> freeList, active |-> activeList,
                modified |-> modifiedList, standby |-> standbyList]
FramesInHand == [user |-> {f \in Frames : InUserHand(f)},
                 trimmer |-> {f \in Frames : InTrimmerHand(f)},
                 writer |-> {f \in Frames : InWriterHand(f)}]

L == INSTANCE PageLists WITH
       list <- ListsByName, hand <- FramesInHand,
       Order <- physical_page_numbers

(* The threads together keep the promise of PageLists: pages are trimmed,  *)
(* written and repurposed oldest first (trimmer.c:37, lists.c:77), and a   *)
(* frame goes from thread to thread only through a list, except for the    *)
(* one the user rescues out of the writer's hands.                         *)
FramesMoveThroughLists == L!Spec
------------------------------------------------------------------------------
(* Page table entries and frames.                                          *)

Resident(p) == p.valid = 1 \/ p.status = PTE_IN_TRANSITION

(* A resident entry and its frame name each other, so no two pages share a *)
(* frame and repurposing a frame always finds the page that loses it       *)
(* (lists.c:83-91); and a frame outside the free list and the user's hand  *)
(* belongs to a resident page.                                             *)
FramesAndPagesAgree ==
  /\ \A va \in VAs : LET p == pageTable[va] IN
       Resident(p) => p.index \in Frames /\ pfnPte[p.index] = va
  /\ \A f \in Frames :
       ~ On(freeList, f) /\ ~ InUserHand(f)
         => pfnPte[f] \in VAs /\ LET p == pageTable[pfnPte[f]] IN
              Resident(p) /\ p.index = f

(* The format of an entry agrees with what became of the frame: valid from *)
(* makePTEValid until the trimmer marks it, transition until the frame is  *)
(* rescued or repurposed.  The ASSERTs at lists.c:85 and trimmer.c:69 rest *)
(* on it.                                                                  *)
FormatTellsStatus ==
  \A va \in VAs : LET p == pageTable[va] IN
    /\ p.valid = 1 =>
         \/ On(activeList, p.index) \/ InTrimmerHand(p.index)
         \/ upc = "addActive" /\ va = uva
    /\ IS_PTE_TRANSITION(p) =>
         \/ pfnStatus[p.index] \in {PFN_MODIFIED, PFN_MIDWRITE, PFN_STANDBY}
         \/ pfnStatus[p.index] = PFN_MIDRESCUE /\ va = uva

(* Where a page is, by its entry: what PageLifecycle speaks of.            *)
WhereIs(p) ==
  CASE p.valid = 1 -> "resident"
    [] IS_PTE_TRANSITION(p) -> "leaving"
    [] ~ Resident(p) /\ p.index # 0 -> "on disk"
    [] ~ Resident(p) /\ p.index = 0 -> "untouched"
FrameOf(p) == IF Resident(p) THEN p.index ELSE NoFrame
Where == [va \in VAs |-> WhereIs(pageTable[va])]
Backing == [va \in VAs |-> FrameOf(pageTable[va])]

Life == INSTANCE PageLifecycle WITH where <- Where, backing <- Backing

(* The threads together keep the promise of PageLifecycle: a page that was *)
(* touched is never taken for one that was not (a standby frame without a  *)
(* slot would make its entry read as "never touched", pagefaulthandler.c:  *)
(* 98), only pages in transition lose their frames (lists.c:83-91), and no *)
(* frame is given to a page while it backs another, whichever of rescue,   *)
(* write and repurposing comes first.                                      *)
PagesFollowLifecycle == Life!Spec

(* From the fault until makePTEValid has written the entry.                *)
Resolving == upc \notin {"access", "addActive", "mapVA"}

(* The handler looks at the entry of the faulting page without a lock      *)
(* (pagefaulthandler.c:51-54, 98), and the check it leaves out, for an     *)
(* entry that is valid already (108-112), is not needed with one user      *)
(* thread: whoever runs meanwhile, the entry stays invalid and unchanged   *)
(* until the handler itself makes it valid.                                *)
FaultingEntryIsStable ==
  [][ Resolving =>
        /\ pageTable[uva].valid = 0
        /\ upc' # "addActive" => pageTable'[uva] = pageTable[uva] ]_vars

(* A rescue always succeeds: each of the three statuses is looked at       *)
(* without a lock while trimmer and writer move the frame on, and still    *)
(* one of the looks catches it, so the frame a transition entry names is   *)
(* the user's when the entry is made valid.                                *)
RescueSucceeds ==
  upc = "setValid" /\ IS_PTE_TRANSITION(pageTable[uva])
    => uframe = pageTable[uva].index /\ pfnStatus[uframe] = PFN_MIDRESCUE

(* The changes of status that make sense in the life of a frame.           *)
LifeCycle ==
  { <<PFN_FREE, PFN_ACTIVE>>, <<PFN_STANDBY, PFN_ACTIVE>>,
    <<PFN_MIDRESCUE, PFN_ACTIVE>>, <<PFN_ACTIVE, PFN_MODIFIED>>,
    <<PFN_MODIFIED, PFN_MIDWRITE>>, <<PFN_MODIFIED, PFN_MIDRESCUE>>,
    <<PFN_MIDWRITE, PFN_STANDBY>>, <<PFN_MIDWRITE, PFN_MIDRESCUE>>,
    <<PFN_STANDBY, PFN_MIDRESCUE>> }

(* The threads assign statuses without looking at the old one              *)
(* (pagefaulthandler.c:26, trimmer.c:66), and still every change is one of *)
(* these: no status is overwritten by a thread that acts on a stale view.  *)
FramesFollowLifeCycle ==
  [][ \A f \in Frames : pfnStatus'[f] # pfnStatus[f]
        => <<pfnStatus[f], pfnStatus'[f]>> \in LifeCycle ]_vars
------------------------------------------------------------------------------
(* Disk slots.                                                             *)

(* The page whose only copy, or whose latest copy, is in a slot.           *)
PagesIn(s) ==
  { va \in VAs : LET p == pageTable[va] IN
      \/ /\ ~ Resident(p) /\ p.index = s
         /\ ~ (va = uva /\ upc = "setValid")
      \/ /\ IS_PTE_TRANSITION(p)
         /\ pfnStatus[p.index] = PFN_STANDBY
         /\ pfnDiskIndex[p.index] = s }

(* The search did not find a slot twice (writer.c:49).  Once it has,       *)
(* nothing is claimed about slots.                                         *)
NoSlotTwice == IsInjective(wslots)

(* Whenever a search begins, there are free slots for a whole batch.       *)
RoomForABatch ==
  wpc = "search" /\ wi = 0 =>
    Cardinality({s \in Slots \ {0} : disk_pages[s] = 0}) >= MAXIMUM_WRITE_BATCH

(* "0 means that the disk page is available, 1 means the disk page is in   *)
(* use" (initializer.c:50): slots are set and cleared without a lock, long *)
(* after the decision to do so, and a slot that holds a page's copy is     *)
(* still never offered to another page.                                    *)
SlotsOfPagesAreInUse ==
  \A s \in Slots \ {0} : PagesIn(s) # {} => disk_pages[s] = 1

(* One copy per slot.                                                      *)
SlotsAreNotShared ==
  \A s \in Slots \ {0} : \A va1, va2 \in PagesIn(s) : va1 = va2

(* No slot leaks: one that is in use holds a page's copy, or is about to   *)
(* be cleared by the rescue that took its page.                            *)
NoSlotLeaks ==
  \A s \in Slots \ {0} :
    disk_pages[s] = 1 => \/ PagesIn(s) # {}
                         \/ upc = "clearSlot" /\ pfnDiskIndex[uframe] = s

(* "we need to ensure that we don't run out of space"                      *)
(* (initializer.h:30-32): when the user waits for a page to be written and *)
(* no frame can be had, there is a slot to write one to.                   *)
RoomWhenBlocked ==
  upc = "await" /\ IsListEmpty(freeList) /\ IsListEmpty(standbyList)
    => \E s \in Slots \ {0} : disk_pages[s] = 0
==============================================================================
