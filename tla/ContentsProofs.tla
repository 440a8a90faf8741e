---------------------------- MODULE ContentsProofs ----------------------------
(***************************************************************************)
(* Pages keep their contents on the way from frames to slots and back, for *)
(* any pages, frames, disk size and batch sizes, as long as the search has *)
(* not found a slot twice and no store went through a stale mapping.       *)
(* Beside what the threads keep true of frames and slots (IndInv, SlotInv) *)
(* the proof needs that standby frames are clean: otherwise a page that    *)
(* loses its frame would find something else in its slot.                  *)
(***************************************************************************)
EXTENDS PageContents, SlotProofs

USE DEF PFN_FREE, PFN_ACTIVE, PFN_MODIFIED, PFN_STANDBY, PFN_MIDWRITE,
        PFN_MIDRESCUE, PTE_ON_DISK, PTE_IN_TRANSITION
USE DEF shared, pages, lists, slots, events, userVars, trimmerVars, writerVars,
        contents

(* Contents are kept in frames and slots.                                  *)
ContentsTypeOK ==
  /\ mem \in [Frames -> SUBSET VAs]
  /\ disk \in [Slots -> SUBSET VAs]
  /\ written \in SUBSET VAs
  /\ stray \in BOOLEAN

ContentsInv == ContentsTypeOK /\ ContentsAreKept /\ StandbyFramesAreClean

(* An entry in disk format names a slot of the disk, or none (0): so what  *)
(* is read back is read from the disk.                                     *)
EntriesNameSlots ==
  \A va \in VAs : ~ Resident(pageTable[va]) => pageTable[va].index \in Slots

LEMMA EntriesKeepNamingSlots ==
  IndInv /\ EntriesNameSlots /\ [Next]_vars => EntriesNameSlots'
<1> SUFFICES ASSUME IndInv, EntriesNameSlots, [Next]_vars
             PROVE  EntriesNameSlots'
  OBVIOUS
<1>1. /\ pageTable \in [VAs -> PTE] /\ pfnDiskIndex \in [Frames -> Slots]
      /\ standbyList \in Seq(Frames)
  BY DEF IndInv, TypeOK, SharedTypeOK
<1>2. CASE pageTable' = pageTable
  BY <1>2 DEF EntriesNameSlots
<1>3. CASE PopStandby
  <2>1. CASE standbyList = <<>>
    BY <1>2, <1>3, <2>1 DEF PopStandby, IsListEmpty
  <2>2. CASE standbyList # <<>>
    <3> DEFINE f == Head(standbyList)
               old == pfnPte[f]
    <3>1. /\ f \in Frames
          /\ pageTable' = [pageTable EXCEPT ![old] = ToDisk(@, pfnDiskIndex[f])]
      BY <1>1, <1>3, <2>2, PopPage DEF PopStandby, IsListEmpty
    <3> HIDE DEF f, old
    <3>2. \A va \in VAs :
            \/ /\ pageTable'[va].index = pageTable[va].index
               /\ Resident(pageTable[va]) => Resident(pageTable'[va])
            \/ pageTable'[va].index = pfnDiskIndex[f]
      BY <1>1, <3>1 DEF ToDisk
    <3> QED  BY <1>1, <3>1, <3>2 DEF EntriesNameSlots
  <2> QED  BY <2>1, <2>2
<1>4. CASE SetValid
  BY <1>1, <1>4 DEF SetValid, ValidPte, Resident, EntriesNameSlots
<1>5. CASE MarkVictim
  BY <1>1, <1>5 DEF MarkVictim, ToTransition, Resident, EntriesNameSlots
<1> QED  BY <1>2, <1>3, <1>4, <1>5, Writes

(* The page a standby frame would be taken from is in its slot.            *)
LEMMA StandbyPageIsInSlot ==
  ASSUME IndInv, NEW f \in Frames, On(standbyList, f)
  PROVE  /\ pfnPte[f] \in VAs
         /\ IS_PTE_TRANSITION(pageTable[pfnPte[f]])
         /\ pageTable[pfnPte[f]].index = f
         /\ pfnPte[f] \in PagesIn(pfnDiskIndex[f])
<1>1. pfnStatus[f] = PFN_STANDBY /\ ~ InUserHand(f)
  BY DEF IndInv, StatusIsPlace
<1>2. ~ (uframe = f /\ upc = "addActive")
  BY <1>1 DEF InUserHand
<1> QED  BY <1>1, <1>2 DEF IndInv, FramesNamePages, PagesIn

(* No page is in the frame that the user is about to fill, and the frame   *)
(* is not on standby.                                                      *)
LEMMA FilledFrame ==
  ASSUME IndInv, upc = "fill"
  PROVE  /\ uva \in VAs /\ uframe \in Frames /\ ~ Resident(pageTable[uva])
         /\ ~ On(standbyList, uframe)
         /\ \A va \in VAs : Resident(pageTable[va]) =>
              pageTable[va].index \in Frames /\ pageTable[va].index # uframe
<1>1. /\ uva \in VAs /\ uframe \in Frames /\ ~ Resident(pageTable[uva])
      /\ pfnStatus[uframe] \in {PFN_FREE, PFN_STANDBY}
      /\ InUserHand(uframe)
  BY DEF IndInv, UserControl, PopPC, FillPC, InUserHand
<1>2. /\ ~ On(standbyList, uframe) /\ ~ On(activeList, uframe)
      /\ ~ InTrimmerHand(uframe)
  BY <1>1 DEF IndInv, StatusIsPlace
<1>3. ASSUME NEW va \in VAs, Resident(pageTable[va])
      PROVE  pageTable[va].index \in Frames /\ pageTable[va].index # uframe
  <2>1. pageTable[va] \in PTE
    BY DEF IndInv, TypeOK, SharedTypeOK
  <2>2. pageTable[va].valid = 1 \/ IS_PTE_TRANSITION(pageTable[va])
    BY <1>3, <2>1 DEF PTE, Resident, IS_PTE_TRANSITION
  <2> QED  BY <1>1, <1>2, <1>3, <2>2 DEF IndInv, PagesNameFrames
<1> QED  BY <1>1, <1>2, <1>3

(* A step that touches no contents and leaves the contents of every page   *)
(* where they are.                                                         *)
LEMMA ContentsUntouched ==
  ASSUME ContentsInv, UNCHANGED contents,
         \A va \in VAs :
           (IF InTransit(va) THEN mem[uframe] ELSE ContentsOf(va))'
             = IF InTransit(va) THEN mem[uframe] ELSE ContentsOf(va),
         \A f \in Frames : On(standbyList', f) =>
           On(standbyList, f) /\ pfnDiskIndex'[f] = pfnDiskIndex[f]
  PROVE  ContentsInv'
BY DEF ContentsInv, ContentsTypeOK, ContentsAreKept, StandbyFramesAreClean

(* A step that leaves entries, the standby list and the user alone.        *)
LEMMA NothingMoves ==
  ASSUME ContentsInv, UNCHANGED contents,
         UNCHANGED <<pageTable, standbyList, pfnDiskIndex>>,
         \A va \in VAs : InTransit(va)' <=> InTransit(va),
         upc \in {"freeSlot", "setValid"} => uframe' = uframe
  PROVE  ContentsInv'
<1>1. \A va \in VAs : ContentsOf(va)' = ContentsOf(va)
  BY DEF ContentsOf
<1>2. \A va \in VAs : InTransit(va) => uframe' = uframe
  BY DEF InTransit
<1>3. \A va \in VAs :
        (IF InTransit(va) THEN mem[uframe] ELSE ContentsOf(va))'
          = IF InTransit(va) THEN mem[uframe] ELSE ContentsOf(va)
  BY <1>1, <1>2
<1> QED  BY <1>3, ContentsUntouched
------------------------------------------------------------------------------
(* Steps that touch no contents.                                           *)

(* The last look of a rescue, and the clearing of a rescued slot: the page *)
(* is in transit from now on, and still in its frame.                      *)
LEMMA RescueEnds ==
  ASSUME IndInv, ContentsInv, UNCHANGED contents, CheckStandby \/ ClearSlot
  PROVE  ContentsInv'
<1>1. /\ uva \in VAs /\ Resident(pageTable[uva])
      /\ pageTable[uva].index = uframe
      /\ upc \notin {"freeSlot", "setValid"}
  BY DEF IndInv, UserControl, RescuePC, CheckStandby, CheckStatus, ClearSlot,
         Resident, IS_PTE_TRANSITION
<1>2. UNCHANGED <<pageTable, standbyList, pfnDiskIndex, uva, uframe>>
  BY DEF CheckStandby, CheckStatus, ClearSlot
<1>3. \A va \in VAs : ContentsOf(va)' = ContentsOf(va)
  BY <1>2 DEF ContentsOf
<1>4. \A va \in VAs : ~ InTransit(va) /\ (InTransit(va)' => va = uva)
  BY <1>1, <1>2 DEF InTransit
<1>5. ContentsOf(uva) = mem[uframe]
  BY <1>1 DEF ContentsOf
<1>6. \A va \in VAs :
        (IF InTransit(va) THEN mem[uframe] ELSE ContentsOf(va))'
          = IF InTransit(va) THEN mem[uframe] ELSE ContentsOf(va)
  BY <1>2, <1>3, <1>4, <1>5
<1> QED  BY <1>2, <1>6, ContentsUntouched

(* A rescue takes a frame off the standby list.                            *)
LEMMA RescueFromStandby ==
  ASSUME IndInv, ContentsInv, UNCHANGED contents, RescueStandby
  PROVE  ContentsInv'
<1>1. standbyList \in Seq(Frames) /\ IsInjective(standbyList)
  BY DEF IndInv, TypeOK, SharedTypeOK, NoListRepeats
<1>2. /\ UNCHANGED <<pageTable, pfnDiskIndex, uva, uframe>>
      /\ upc = "rescueStandby" /\ upc' = "clearSlot"
  BY DEF RescueStandby
<1>3. \A f : On(standbyList', f) => On(standbyList, f)
  BY <1>1, RemovePage DEF RescueStandby
<1>4. \A va \in VAs : ContentsOf(va)' = ContentsOf(va)
  BY <1>2 DEF ContentsOf
<1>5. \A va \in VAs : ~ InTransit(va) /\ ~ InTransit(va)'
  BY <1>2 DEF InTransit
<1>6. \A va \in VAs :
        (IF InTransit(va) THEN mem[uframe] ELSE ContentsOf(va))'
          = IF InTransit(va) THEN mem[uframe] ELSE ContentsOf(va)
  BY <1>4, <1>5
<1> QED  BY <1>2, <1>3, <1>6, ContentsUntouched

(* The page that loses its frame is in the slot its entry now names, for   *)
(* the frame was clean.                                                    *)
LEMMA FrameIsRepurposed ==
  ASSUME IndInv, StandbyHasSlot, ContentsInv, ~ stray, UNCHANGED contents,
         PopStandby
  PROVE  ContentsInv'
<1>1. /\ standbyList \in Seq(Frames) /\ IsInjective(standbyList)
      /\ pageTable \in [VAs -> PTE] /\ pfnDiskIndex \in [Frames -> Slots]
      /\ upc = "popStandby"
  BY DEF IndInv, TypeOK, SharedTypeOK, NoListRepeats, PopStandby
<1>2. CASE standbyList = <<>>
  BY <1>1, <1>2, NothingMoves DEF PopStandby, IsListEmpty, InTransit
<1>3. CASE standbyList # <<>>
  <2> DEFINE f == Head(standbyList)
             old == pfnPte[f]
             slot == pfnDiskIndex[f]
  <2>1. /\ pageTable' = [pageTable EXCEPT ![old] = ToDisk(@, slot)]
        /\ pfnDiskIndex' = [pfnDiskIndex EXCEPT ![f] = 0]
        /\ standbyList' = Tail(standbyList)
        /\ uva' = uva /\ upc' = "fill"
    BY <1>3 DEF PopStandby, IsListEmpty
  <2>2. /\ f \in Frames /\ On(standbyList, f)
        /\ \A g : On(standbyList', g) => On(standbyList, g) /\ g # f
    BY <1>1, <1>3, <2>1, PopPage
  <2> HIDE DEF f
  <2>3. /\ old \in VAs /\ IS_PTE_TRANSITION(pageTable[old])
        /\ pageTable[old].index = f
    BY <2>2, StandbyPageIsInSlot
  <2>4. slot # 0 /\ disk[slot] = mem[f]
    BY <2>2 DEF StandbyHasSlot, ContentsInv, StandbyFramesAreClean
  <2> HIDE DEF slot
  <2>5. \A va \in VAs : va = old => ContentsOf(va) = mem[f]
    BY <2>3 DEF ContentsOf, Resident, IS_PTE_TRANSITION
  <2>6. \A va \in VAs : va = old => ContentsOf(va)' = disk[slot]
    <3> SUFFICES ASSUME NEW va \in VAs, va = old
                 PROVE  ContentsOf(va)' = disk[slot]
      OBVIOUS
    <3>1. pageTable'[va] = ToDisk(pageTable[va], slot)
      BY <1>1, <2>1, <2>3
    <3>2. ~ Resident(pageTable'[va]) /\ pageTable'[va].index = slot
      BY <2>3, <3>1 DEF Resident, IS_PTE_TRANSITION, ToDisk
    <3> QED  BY <2>4, <3>2 DEF ContentsOf, Resident
  <2>7. \A va \in VAs : ContentsOf(va)' = ContentsOf(va)
    <3>1. \A va \in VAs \ {old} : pageTable'[va] = pageTable[va]
      BY <1>1, <2>1
    <3>2. \A va \in VAs \ {old} : ContentsOf(va)' = ContentsOf(va)
      BY <3>1 DEF ContentsOf
    <3> QED  BY <2>4, <2>5, <2>6, <3>2
  <2>8. \A va \in VAs : ~ InTransit(va) /\ ~ InTransit(va)'
    BY <1>1, <2>1 DEF InTransit
  <2>9. \A va \in VAs :
          (IF InTransit(va) THEN mem[uframe] ELSE ContentsOf(va))'
            = IF InTransit(va) THEN mem[uframe] ELSE ContentsOf(va)
    BY <2>7, <2>8
  <2>10. \A g \in Frames : On(standbyList', g) =>
           On(standbyList, g) /\ pfnDiskIndex'[g] = pfnDiskIndex[g]
    BY <1>1, <2>1, <2>2
  <2> QED  BY <2>9, <2>10, ContentsUntouched
<1> QED  BY <1>2, <1>3

(* The page in transit arrives in the frame.                               *)
LEMMA PageArrives ==
  ASSUME IndInv, ContentsInv, UNCHANGED contents, SetValid
  PROVE  ContentsInv'
<1>1. /\ uva \in VAs /\ uframe \in Frames /\ pageTable \in [VAs -> PTE]
      /\ upc = "setValid"
  BY DEF IndInv, UserControl, TypeOK, SharedTypeOK, SetValid, PopPC
<1>2. /\ pageTable' = [pageTable EXCEPT ![uva] = ValidPte(uframe)]
      /\ UNCHANGED <<standbyList, pfnDiskIndex, uva, uframe>>
      /\ upc' = "addActive"
  BY DEF SetValid
<1>3. \A va \in VAs : va = uva => ContentsOf(va)' = mem[uframe]
  BY <1>1, <1>2 DEF ContentsOf, Resident, ValidPte
<1>4. \A va \in VAs \ {uva} : ContentsOf(va)' = ContentsOf(va)
  BY <1>1, <1>2 DEF ContentsOf
<1>5. \A va \in VAs : (InTransit(va) <=> va = uva) /\ ~ InTransit(va)'
  BY <1>1, <1>2 DEF InTransit
<1>6. \A va \in VAs :
        (IF InTransit(va) THEN mem[uframe] ELSE ContentsOf(va))'
          = IF InTransit(va) THEN mem[uframe] ELSE ContentsOf(va)
  BY <1>3, <1>4, <1>5
<1> QED  BY <1>2, <1>6, ContentsUntouched

(* All other steps of the user that touch no contents.                     *)
LEMMA UserMovesOn ==
  ASSUME IndInv, StandbyHasSlot, ContentsInv, ~ stray, OtherUserStep,
         UNCHANGED <<trimmerVars, writerVars>>
  PROVE  ContentsInv'
<1> DEFINE Same ==
      /\ UNCHANGED <<pageTable, standbyList, pfnDiskIndex>>
      /\ \A va \in VAs : InTransit(va)' <=> InTransit(va)
      /\ upc \in {"freeSlot", "setValid"} => uframe' = uframe
<1>0. UNCHANGED contents
  BY DEF OtherUserStep
<1> USE DEF InTransit
<1>1. StartFault \/ (\E va \in VAs : FaultOn(va)) => Same
  BY DEF StartFault, FaultOn, Accessing
<1>2. CheckModified \/ CheckMidwrite => Same
  BY DEF CheckModified, CheckMidwrite, CheckStatus
<1>3. LockModified \/ LockStandby \/ LockPageTable \/ LockStandbyList => Same
  BY DEF LockModified, LockStandby, LockPageTable, LockStandbyList, Lock
<1>4. SignalTrimmer \/ AwaitWriter \/ PopFree => Same
  BY DEF SignalTrimmer, AwaitWriter, PopFree
<1>5. RescueModified \/ RescueMidwrite => Same
  BY DEF RescueModified, RescueMidwrite
<1>6. FreeSlot \/ AddActive \/ MapVA => Same
  BY DEF FreeSlot, AddActive, MapVA
<1>7. Same => ContentsInv'
  BY <1>0, NothingMoves
<1>8. CheckStandby \/ ClearSlot \/ RescueStandby \/ PopStandby \/ SetValid
        => ContentsInv'
  BY <1>0, RescueEnds, RescueFromStandby, FrameIsRepurposed, PageArrives
<1> QED
  BY <1>1, <1>2, <1>3, <1>4, <1>5, <1>6, <1>7, <1>8
     DEF OtherUserStep, Rescue, GetFreePage

(* The trimmer marks pages that stay in their frames.                      *)
LEMMA TrimmerMovesOn ==
  ASSUME IndInv, ContentsInv, TrimmerStep, UNCHANGED contents
  PROVE  ContentsInv'
<1>1. UNCHANGED <<standbyList, pfnDiskIndex, userVars>>
  BY DEF TrimmerStep, TrimmerNext, AwaitTrimmer, PopVictims, TrimLockPageTable,
         TrimLockModified, TrimLock, MarkVictim, UnmapVictims, SignalWriter
<1>2. \A va \in VAs : InTransit(va)' <=> InTransit(va)
  BY <1>1 DEF InTransit
<1>3. CASE pageTable' = pageTable
  BY <1>1, <1>2, <1>3, NothingMoves
<1>4. CASE MarkVictim
  <2> DEFINE page == tptes[ti]
  <2>1. /\ pageTable' = [pageTable EXCEPT ![page] = ToTransition(@)]
        /\ pageTable \in [VAs -> PTE]
        /\ tpc = "mark"
    BY <1>4 DEF MarkVictim, IndInv, TypeOK, SharedTypeOK
  <2>2. InTrimmerHand(tvictims[ti]) /\ tvictims[ti] \in Frames
        /\ page = pfnPte[tvictims[ti]]
    BY <2>1, ElementOfSeq, LenProperties
       DEF IndInv, TypeOK, TrimmerTypeOK, TrimmerControl, InTrimmerHand
  <2>3. page \in VAs /\ pageTable[page].valid = 1
    BY <2>2 DEF IndInv, FramesNamePages
  <2> HIDE DEF page
  <2>4. \A va \in VAs : ContentsOf(va)' = ContentsOf(va)
    <3> SUFFICES ASSUME NEW va \in VAs PROVE ContentsOf(va)' = ContentsOf(va)
      OBVIOUS
    <3>1. CASE va = page
      <4>1. pageTable'[va] = ToTransition(pageTable[va])
        BY <2>1, <3>1
      <4>2. Resident(pageTable'[va]) /\ Resident(pageTable[va])
            /\ pageTable'[va].index = pageTable[va].index
        BY <2>3, <3>1, <4>1 DEF Resident, ToTransition
      <4> QED  BY <4>2 DEF ContentsOf, Resident
    <3>2. CASE va # page
      BY <2>1, <3>2 DEF ContentsOf
    <3> QED  BY <3>1, <3>2
  <2>5. \A va \in VAs :
          (IF InTransit(va) THEN mem[uframe] ELSE ContentsOf(va))'
            = IF InTransit(va) THEN mem[uframe] ELSE ContentsOf(va)
    BY <1>1, <1>2, <2>4
  <2> QED  BY <1>1, <2>5, ContentsUntouched
<1> QED  BY <1>3, <1>4, TrimmerWrites

(* The steps of the writer that copy nothing.                              *)
LEMMA WriterMovesOn ==
  ASSUME ContentsInv, OtherWriterStep, UNCHANGED <<userVars, trimmerVars>>
  PROVE  ContentsInv'
<1> DEFINE Same == UNCHANGED <<pageTable, standbyList, pfnDiskIndex>>
<1>1. CheckModifiedList \/ AwaitStart \/ CheckVictim \/ SignalUser => Same
  BY DEF CheckModifiedList, AwaitStart, CheckVictim, SignalUser
<1>2. SearchSlot => Same
  BY DEF SearchSlot
<1>3. WriteLockModified \/ WriteLockStandby => Same
  BY DEF WriteLockModified, WriteLockStandby, WriteLock
<1>4. PopModified \/ EndPop \/ SkipRescued => Same
  BY DEF PopModified, EndPop, SkipRescued
<1>5. Same /\ UNCHANGED contents
  BY <1>1, <1>2, <1>3, <1>4 DEF OtherWriterStep
<1>6. \A va \in VAs : InTransit(va)' <=> InTransit(va)
  BY DEF InTransit
<1> QED  BY <1>5, <1>6, NothingMoves
------------------------------------------------------------------------------
(* Steps that touch contents.                                              *)

(* A store reaches the frame that backs its page, and no other page.       *)
LEMMA AfterStamp ==
  ASSUME IndInv, ContentsInv, NEW va \in VAs, Stamp(va)
  PROVE  ContentsInv'
<1> DEFINE f == map[va]
<1>1. /\ upc = "access" /\ f # NoFrame
      /\ mem' = [mem EXCEPT ![f] = @ \cup {va}]
      /\ written' = written \cup {va}
      /\ stray' = (stray \/ ~ Backed(va)) /\ disk' = disk
      /\ UNCHANGED <<upc, uframe, shared>>
  BY DEF Stamp, WriteVA, Accessing
<1>2. f \in Frames /\ pageTable[va] \in PTE
  BY <1>1 DEF IndInv, TypeOK, SharedTypeOK
<1> HIDE DEF f
<1>3. ContentsTypeOK'
  <2>1. mem' \in [Frames -> SUBSET VAs]
    BY <1>1, <1>2 DEF ContentsInv, ContentsTypeOK
  <2> QED  BY <1>1, <2>1 DEF ContentsInv, ContentsTypeOK, Backed
<1> SUFFICES ASSUME ~ stray, pageTable[va].valid = 1, pageTable[va].index = f
             PROVE  /\ \A other \in VAs :
                         {other} \cap written' =
                           (IF InTransit(other) THEN mem[uframe]
                                                ELSE ContentsOf(other))'
                    /\ \A g \in Frames : On(standbyList', g) =>
                         disk'[pfnDiskIndex'[g]] = mem'[g]
  BY <1>1, <1>3
     DEF ContentsInv, ContentsAreKept, StandbyFramesAreClean, Backed, f
<1>4. \A other \in VAs : ~ InTransit(other) /\ ~ InTransit(other)'
  BY <1>1 DEF InTransit
<1>5. \A other \in VAs : {other} \cap written = ContentsOf(other)
  BY <1>4 DEF ContentsInv, ContentsAreKept
<1>6. \A g \in Frames : mem'[g] = IF g = f THEN mem[f] \cup {va} ELSE mem[g]
  BY <1>1, <1>2 DEF ContentsInv, ContentsTypeOK
<1>7. ContentsOf(va)' = ContentsOf(va) \cup {va}
  BY <1>1, <1>2, <1>6 DEF ContentsOf, Resident
<1>8. ASSUME NEW other \in VAs, other # va
      PROVE  ContentsOf(other)' = ContentsOf(other)
  <2>1. CASE Resident(pageTable[other])
    <3>1. pageTable[other].index \in Frames
      BY <2>1 DEF IndInv, PagesNameFrames
    <3>2. pageTable[other].index # f
      BY <1>2, <1>8, <2>1, OnePagePerFrame DEF Resident
    <3> QED  BY <1>1, <1>6, <2>1, <3>1, <3>2 DEF ContentsOf
  <2>2. CASE ~ Resident(pageTable[other])
    BY <1>1, <2>2 DEF ContentsOf
  <2> QED  BY <2>1, <2>2
<1>9. \A other \in VAs : {other} \cap written' = ContentsOf(other)'
  <2> SUFFICES ASSUME NEW other \in VAs
               PROVE  {other} \cap written' = ContentsOf(other)'
    OBVIOUS
  <2>1. CASE other = va
    BY <1>1, <1>5, <1>7, <2>1
  <2>2. CASE other # va
    BY <1>1, <1>5, <1>8, <2>2
  <2> QED  BY <2>1, <2>2
<1>10. ~ On(standbyList, f)
  <2>1. ~ InUserHand(f) \/ upc # "addActive"
    BY <1>1
  <2>2. On(activeList, f) \/ InTrimmerHand(f)
    BY <1>1 DEF IndInv, PagesNameFrames
  <2> QED  BY <1>2, <2>2 DEF IndInv, StatusIsPlace
<1>11. \A g \in Frames : On(standbyList', g) =>
         disk'[pfnDiskIndex'[g]] = mem'[g]
  BY <1>1, <1>6, <1>10 DEF ContentsInv, StandbyFramesAreClean
<1> QED  BY <1>4, <1>9, <1>11

(* A frame that backs no page is filled with what its page contains.       *)
LEMMA AfterFill ==
  ASSUME IndInv, EntriesNameSlots, ContentsInv, ReadFromDisk \/ Zero
  PROVE  ContentsInv'
<1> DEFINE filling == IF pageTable[uva].index # 0
                      THEN disk[pageTable[uva].index] ELSE {}
<1>1. /\ upc = "fill" /\ upc' \in {"freeSlot", "setValid"}
      /\ mem' = [mem EXCEPT ![uframe] = filling]
      /\ UNCHANGED <<disk, written, stray, uva, uframe, shared>>
  BY DEF ReadFromDisk, Zero, ReadDisk, ZeroPage
<1>2. /\ uva \in VAs /\ uframe \in Frames /\ ~ Resident(pageTable[uva])
      /\ ~ On(standbyList, uframe)
      /\ \A va \in VAs : Resident(pageTable[va]) =>
           pageTable[va].index \in Frames /\ pageTable[va].index # uframe
  BY <1>1, FilledFrame
<1>3. filling = ContentsOf(uva)
  BY <1>2 DEF ContentsOf
<1> HIDE DEF filling
<1>4. filling \in SUBSET VAs
  BY <1>2 DEF EntriesNameSlots, filling, ContentsInv, ContentsTypeOK
<1>5. ContentsTypeOK'
  BY <1>1, <1>2, <1>4 DEF ContentsInv, ContentsTypeOK
<1>6. \A g \in Frames : mem'[g] = IF g = uframe THEN filling ELSE mem[g]
  BY <1>1, <1>2 DEF ContentsInv, ContentsTypeOK
<1>7. \A va \in VAs : ~ InTransit(va) /\ (InTransit(va)' <=> va = uva)
  BY <1>1 DEF InTransit
<1>8. ASSUME NEW va \in VAs, va # uva
      PROVE  ContentsOf(va)' = ContentsOf(va)
  BY <1>1, <1>2, <1>6 DEF ContentsOf
<1>9. \A va \in VAs :
        (IF InTransit(va) THEN mem[uframe] ELSE ContentsOf(va))'
          = IF InTransit(va) THEN mem[uframe] ELSE ContentsOf(va)
  <2> SUFFICES ASSUME NEW va \in VAs
               PROVE  (IF InTransit(va) THEN mem[uframe] ELSE ContentsOf(va))'
                        = IF InTransit(va) THEN mem[uframe] ELSE ContentsOf(va)
    OBVIOUS
  <2>1. CASE va = uva
    BY <1>1, <1>2, <1>3, <1>6, <1>7, <2>1
  <2>2. CASE va # uva
    BY <1>7, <1>8, <2>2
  <2> QED  BY <2>1, <2>2
<1>10. \A g \in Frames : On(standbyList', g) =>
         On(standbyList, g) /\ disk[pfnDiskIndex'[g]] = disk[pfnDiskIndex[g]]
           /\ mem'[g] = mem[g]
  BY <1>1, <1>2, <1>6
<1> QED
  BY <1>1, <1>5, <1>9, <1>10
     DEF ContentsInv, ContentsAreKept, StandbyFramesAreClean

(* A page is copied to a slot that holds no page, and its frame comes to   *)
(* the standby list clean.                                                 *)
LEMMA AfterCopy ==
  ASSUME IndInv, SlotInv, StandbyHasSlot, ContentsInv, CopyToDisk,
         UNCHANGED <<userVars, trimmerVars>>
  PROVE  ContentsInv'
<1> DEFINE f == wvictims[wi]
           slot == wslots[wi]
<1>1. /\ WritePage
      /\ disk' = [disk EXCEPT ![slot] = mem[f]]
      /\ UNCHANGED <<mem, written, stray, pageTable>>
      /\ pfnDiskIndex' = [pfnDiskIndex EXCEPT ![f] = slot]
      /\ standbyList' = add_entry(standbyList, f)
  BY DEF CopyToDisk, TransferPage, WritePage
<1>2. /\ f \in Frames /\ slot \in Slots \ {0}
      /\ PagesIn(slot) = {}
  BY <1>1, WrittenPage, WrittenSlotIsFree
<1>3. /\ pfnDiskIndex \in [Frames -> Slots] /\ standbyList \in Seq(Frames)
  BY DEF IndInv, TypeOK, SharedTypeOK
<1> HIDE DEF f, slot
<1>4. ContentsTypeOK'
  BY <1>1, <1>2 DEF ContentsInv, ContentsTypeOK
<1>5. /\ \A s \in Slots : disk'[s] = IF s = slot THEN mem[f] ELSE disk[s]
      /\ \A s : s # slot => disk'[s] = disk[s]
  BY <1>1, <1>2 DEF ContentsInv, ContentsTypeOK
<1>6. \A va \in VAs : InTransit(va)' <=> InTransit(va)
  BY DEF InTransit
<1>7. ASSUME NEW va \in VAs, ~ InTransit(va)
      PROVE  ContentsOf(va)' = ContentsOf(va)
  <2>1. CASE Resident(pageTable[va])
    BY <1>1, <2>1 DEF ContentsOf
  <2>2. CASE ~ Resident(pageTable[va])
    <3>1. pageTable[va].index # slot
      BY <1>2, <1>7, <2>2 DEF PagesIn, InTransit
    <3> QED  BY <1>1, <1>5, <2>2, <3>1 DEF ContentsOf
  <2> QED  BY <2>1, <2>2
<1>8. \A va \in VAs :
        (IF InTransit(va) THEN mem[uframe] ELSE ContentsOf(va))'
          = IF InTransit(va) THEN mem[uframe] ELSE ContentsOf(va)
  BY <1>1, <1>6, <1>7
<1>9. ASSUME ~ stray, NEW g \in Frames, On(standbyList', g)
      PROVE  disk'[pfnDiskIndex'[g]] = mem'[g]
  <2>1. On(standbyList, g) \/ g = f
    BY <1>1, <1>2, <1>3, <1>9, AddEntry
  <2>2. CASE g = f
    BY <1>1, <1>2, <1>3, <1>5, <2>2
  <2>3. CASE g # f
    <3>1. /\ On(standbyList, g) /\ pfnDiskIndex'[g] = pfnDiskIndex[g]
      BY <1>1, <1>2, <1>3, <2>1, <2>3
    <3>2. pfnDiskIndex[g] # slot
      BY <1>2, <3>1, StandbyPageIsInSlot
    <3>3. disk[pfnDiskIndex[g]] = mem[g]
      BY <1>9, <3>1 DEF ContentsInv, StandbyFramesAreClean
    <3> QED  BY <1>1, <1>5, <3>1, <3>2, <3>3
  <2> QED  BY <2>2, <2>3
<1> QED
  BY <1>1, <1>4, <1>8, <1>9
     DEF ContentsInv, ContentsAreKept, StandbyFramesAreClean
------------------------------------------------------------------------------
(* Every step of PageContents is a step of MemoryManager.                  *)
LEMMA ContentsStepsAreSteps == [CNext]_<<vars, contents>> => [Next]_vars
<1>1. CUserStep => UserStep
  BY DEF CUserStep, UserStep, Stamp, ReadFromDisk, Zero, OtherUserStep,
         UserNext, HandleFault
<1>2. CWriterStep => WriterStep
  BY DEF CWriterStep, WriterStep, CopyToDisk, OtherWriterStep, WriterNext
<1> QED  BY <1>1, <1>2 DEF CNext, CTrimmerStep, Next

(* What must be known of frames and slots for contents to be kept.         *)
Support == IndInv /\ StandbyHasSlot /\ EntriesNameSlots /\ SlotInv

(* ContentsInv is inductive beside it.                                     *)
LEMMA ContentsNextInv ==
  Support /\ ContentsInv /\ [CNext]_<<vars, contents>> => ContentsInv'
<1> SUFFICES ASSUME Support, ContentsInv, [CNext]_<<vars, contents>>
             PROVE  ContentsInv'
  OBVIOUS
<1> USE DEF Support
<1>1. CASE \E va \in VAs : Stamp(va)
  BY <1>1, AfterStamp
<1>2. CASE ReadFromDisk \/ Zero
  BY <1>2, AfterFill
<1>3. CASE OtherUserStep /\ UNCHANGED <<trimmerVars, writerVars>>
  <2>1. CASE stray
    BY <1>3, <2>1
       DEF OtherUserStep, ContentsInv, ContentsTypeOK, ContentsAreKept,
           StandbyFramesAreClean
  <2>2. CASE ~ stray
    BY <1>3, <2>2, UserMovesOn
  <2> QED  BY <2>1, <2>2
<1>4. CASE CTrimmerStep
  BY <1>4, TrimmerMovesOn DEF CTrimmerStep
<1>5. CASE CopyToDisk /\ UNCHANGED <<userVars, trimmerVars>>
  BY <1>5, AfterCopy
<1>6. CASE OtherWriterStep /\ UNCHANGED <<userVars, trimmerVars>>
  BY <1>6, WriterMovesOn
<1>7. CASE UNCHANGED <<vars, contents>>
  BY <1>7, NothingMoves DEF vars, InTransit
<1> QED
  BY <1>1, <1>2, <1>3, <1>4, <1>5, <1>6, <1>7
     DEF CNext, CUserStep, CWriterStep

LEMMA ContentsInit == CInit => ContentsInv /\ EntriesNameSlots
<1> SUFFICES ASSUME CInit PROVE ContentsInv /\ EntriesNameSlots
  OBVIOUS
<1>1. /\ \A va \in VAs : pageTable[va] = ZeroPte
      /\ upc = "access" /\ standbyList = <<>> /\ InitContents
  BY DEF CInit, Init, InitShared, InitUser
<1>2. \A va \in VAs : ~ InTransit(va)
  BY <1>1 DEF InTransit
<1>3. \A va \in VAs : ~ Resident(pageTable[va]) /\ pageTable[va].index = 0
  BY <1>1 DEF ZeroPte, Resident, IS_PTE_TRANSITION
<1>4. ContentsTypeOK
  BY <1>1 DEF InitContents, ContentsTypeOK
<1>5. ContentsAreKept
  BY <1>1, <1>2, <1>3 DEF InitContents, ContentsAreKept, ContentsOf
<1>6. StandbyFramesAreClean
  BY <1>1 DEF StandbyFramesAreClean, On
<1>7. 0 \in Slots
  BY StateAssumption DEF Slots
<1> QED  BY <1>3, <1>4, <1>5, <1>6, <1>7 DEF ContentsInv, EntriesNameSlots

(* The threads do as in MemoryManager, whatever the pages contain.         *)
LEMMA ContentsSpecIsSpec == CSpec => Spec
BY ContentsStepsAreSteps, PTL DEF CSpec, CInit, Spec

LEMMA EntriesAlwaysNameSlots == CSpec => []EntriesNameSlots
BY ContentsInit, EntriesKeepNamingSlots, ContentsStepsAreSteps,
   ContentsSpecIsSpec, IndInvariant, PTL DEF CSpec

LEMMA ContentsInvariant == CSpec /\ []SlotInv => []ContentsInv
<1>1. CInit => ContentsInv
  BY ContentsInit
<1>2. ContentsInv /\ Support /\ [CNext]_<<vars, contents>> => ContentsInv'
  BY ContentsNextInv
<1>3. CSpec /\ []SlotInv => []Support
  BY ContentsSpecIsSpec, IndInvariant, StandbyAlwaysHasSlot,
     EntriesAlwaysNameSlots, PTL DEF Support
<1> QED  BY <1>1, <1>2, <1>3, PTL DEF CSpec

(* The contents of every page are what was written to it and nothing else, *)
(* in every execution in which the search finds no slot twice (writer.c:   *)
(* 49), until a store goes through a mapping without a valid entry         *)
(* (trimmer.c:76-79).                                                      *)
THEOREM ContentsAreAlwaysKept == CSpec /\ []NoSlotTwice => []ContentsAreKept
<1>1. ContentsInv => ContentsAreKept
  BY DEF ContentsInv
<1> QED  BY <1>1, ContentsInvariant, SlotsStayInStep, ContentsSpecIsSpec, PTL

(* ... and every frame on the standby list is clean.                       *)
THEOREM StandbyFramesAreAlwaysClean ==
  CSpec /\ []NoSlotTwice => []StandbyFramesAreClean
<1>1. ContentsInv => StandbyFramesAreClean
  BY DEF ContentsInv
<1> QED  BY <1>1, ContentsInvariant, SlotsStayInStep, ContentsSpecIsSpec, PTL

(* When every search begins with room for a batch no slot is found twice   *)
(* (writer.c:49-57), and the contents are kept without that proviso.       *)
THEOREM ContentsAreKeptWithRoom ==
  CSpec /\ []RoomForABatch => [](ContentsAreKept /\ StandbyFramesAreClean)
<1>1. ContentsInv => ContentsAreKept /\ StandbyFramesAreClean
  BY DEF ContentsInv
<1> QED  BY <1>1, ContentsInvariant, SlotsStayInStepWithRoom, ContentsSpecIsSpec,
            PTL
==============================================================================
