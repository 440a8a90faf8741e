------------------------------ MODULE SlotProofs ------------------------------
(***************************************************************************)
(* Disk slots stay in step with the pages whose copies they hold, although *)
(* they are chosen, marked and cleared without a lock: SlotInv is          *)
(* inductive beside IndInv, for any pages, frames, disk size and batch     *)
(* sizes, as long as the search has not found a slot twice; and it never   *)
(* does when it begins with as many free slots as a batch.                 *)
(***************************************************************************)
EXTENDS MemoryManagerProofs, DiskSearch, FunctionTheorems,
        FiniteSetTheorems

USE DEF PFN_FREE, PFN_ACTIVE, PFN_MODIFIED, PFN_STANDBY, PFN_MIDWRITE,
        PFN_MIDRESCUE, PTE_ON_DISK, PTE_IN_TRANSITION
USE DEF shared, pages, lists, slots, events, userVars, trimmerVars, writerVars

(* A slot holds copies of pages.                                           *)
LEMMA PagesInAreVAs == \A s : PagesIn(s) \subseteq VAs
BY DEF PagesIn

(* A step that moves no page in or out of a slot, marks and clears no      *)
(* slot, and promises no more about a slot than before.                    *)
SlotsAsBefore ==
  /\ \A s \in Slots \ {0} : PagesIn(s)' = PagesIn(s)
  /\ disk_pages' = disk_pages
  /\ \A i : Pending(i)' => Pending(i) /\ wslots'[i] = wslots[i]
  /\ upc' = "clearSlot" <=> upc = "clearSlot"
  /\ upc = "clearSlot" =>
       uframe' = uframe /\ pfnDiskIndex'[uframe] = pfnDiskIndex[uframe]

LEMMA LeaksUntouched ==
  ASSUME NoSlotLeaks, SlotsAsBefore PROVE NoSlotLeaks'
BY DEF NoSlotLeaks, SlotsAsBefore

LEMMA SlotsUntouched ==
  ASSUME IndInv, SlotInv, SlotsAsBefore PROVE SlotInv'
<1> USE DEF SlotsAsBefore
<1>1. SlotsOfPagesAreInUse' /\ SlotsAreNotShared'
  BY DEF SlotInv, SlotsOfPagesAreInUse, SlotsAreNotShared
<1>2. NoSlotLeaks'
  BY LeaksUntouched DEF SlotInv
<1>3. (\A i \in DOMAIN wslots : Pending(i) => disk_pages[wslots[i]] = 0)'
  BY DEF SlotInv, Pending
<1>4. (upc = "clearSlot" =>
         LET s == pfnDiskIndex[uframe] IN
           s # 0 /\ disk_pages[s] = 1 /\ PagesIn(s) = {})'
  <2> SUFFICES ASSUME upc' = "clearSlot", NEW s, s = pfnDiskIndex'[uframe']
               PROVE  s # 0 /\ disk_pages'[s] = 1 /\ PagesIn(s)' = {}
    OBVIOUS
  <2>1. uframe \in Frames /\ pfnDiskIndex \in [Frames -> Slots]
    BY DEF IndInv, UserControl, TypeOK, SharedTypeOK, PopPC
  <2>2. pfnDiskIndex[uframe] \in Slots
    BY <2>1
  <2> QED  BY <2>2 DEF SlotInv
<1> QED  BY <1>1, <1>2, <1>3, <1>4 DEF SlotInv
------------------------------------------------------------------------------
(* Steps that change no entry, no status and no slot.                      *)

LEMMA QuietUser ==
  ASSUME IndInv,
         UNCHANGED <<pageTable, pfnStatus, pfnDiskIndex, disk_pages>>,
         UNCHANGED writerVars,
         upc \notin {"clearSlot", "setValid"}, upc' # "clearSlot",
         upc' = "setValid" =>
           /\ uva' = uva
           /\ Resident(pageTable[uva]) \/ pageTable[uva].index = 0
  PROVE  SlotsAsBefore
<1>1. \A s \in Slots \ {0} : PagesIn(s)' = PagesIn(s)
  BY DEF PagesIn
<1>2. \A i : Pending(i)' => Pending(i) /\ wslots'[i] = wslots[i]
  BY DEF Pending
<1> QED  BY <1>1, <1>2 DEF SlotsAsBefore

LEMMA QuietOther ==
  ASSUME IndInv,
         UNCHANGED <<pageTable, pfnStatus, pfnDiskIndex, disk_pages, userVars>>,
         \A i : Pending(i)' => Pending(i) /\ wslots'[i] = wslots[i]
  PROVE  SlotsAsBefore
<1>1. \A s \in Slots \ {0} : PagesIn(s)' = PagesIn(s)
  BY DEF PagesIn
<1> QED  BY <1>1 DEF SlotsAsBefore

LEMMA QuietUserSteps ==
  ASSUME IndInv, UNCHANGED <<trimmerVars, writerVars>>,
         \/ \E va \in VAs : WriteVA(va) \/ FaultOn(va)
         \/ StartFault \/ CheckModified \/ CheckMidwrite \/ CheckStandby
         \/ LockModified \/ LockStandby \/ LockPageTable \/ LockStandbyList
         \/ SignalTrimmer \/ AwaitWriter \/ ReadDisk \/ ZeroPage
         \/ PopFree \/ MapVA
  PROVE  SlotsAsBefore
<1> DEFINE Quiet ==
      /\ UNCHANGED <<pageTable, pfnStatus, pfnDiskIndex, disk_pages>>
      /\ upc \notin {"clearSlot", "setValid"} /\ upc' # "clearSlot"
      /\ upc' = "setValid" =>
           /\ uva' = uva
           /\ Resident(pageTable[uva]) \/ pageTable[uva].index = 0
<1>1. (\E va \in VAs : WriteVA(va) \/ FaultOn(va)) => Quiet
  BY DEF WriteVA, FaultOn, Accessing
<1>2. StartFault \/ ReadDisk \/ ZeroPage => Quiet
  BY DEF StartFault, ReadDisk, ZeroPage
<1>3. CheckModified \/ CheckMidwrite => Quiet
  BY DEF CheckModified, CheckMidwrite, CheckStatus
<1>4. CheckStandby => Quiet
  BY DEF CheckStandby, CheckStatus, IndInv, UserControl, RescuePC, Resident,
         IS_PTE_TRANSITION
<1>5. LockModified \/ LockStandby \/ LockPageTable \/ LockStandbyList => Quiet
  BY DEF LockModified, LockStandby, LockPageTable, LockStandbyList, Lock
<1>6. SignalTrimmer \/ AwaitWriter \/ PopFree \/ MapVA => Quiet
  BY DEF SignalTrimmer, AwaitWriter, PopFree, MapVA
<1>7. Quiet
  BY <1>1, <1>2, <1>3, <1>4, <1>5, <1>6
<1> QED  BY <1>7, QuietUser

LEMMA QuietOtherSteps ==
  ASSUME IndInv, UNCHANGED userVars,
         \/ /\ UNCHANGED writerVars
            /\ \/ AwaitTrimmer \/ PopVictims \/ TrimLockPageTable
               \/ TrimLockModified \/ UnmapVictims \/ SignalWriter
         \/ CheckModifiedList \/ AwaitStart \/ WriteLockModified \/ EndPop
         \/ CheckVictim \/ WriteLockStandby \/ SkipRescued \/ SignalUser
  PROVE  SlotsAsBefore
<1> DEFINE Same == UNCHANGED <<pageTable, pfnStatus, pfnDiskIndex, disk_pages>>
           Fewer == \A i : Pending(i)' => Pending(i) /\ wslots'[i] = wslots[i]
<1>0. /\ wslots \in Seq(Slots \ {0}) /\ wi \in Nat
      /\ wpc \in {"check", "wait"} => DOMAIN wslots = {}
  BY EmptySeq DEF IndInv, TypeOK, WriterTypeOK, WriterControl
<1>1. UNCHANGED writerVars /\
      (\/ AwaitTrimmer \/ PopVictims \/ TrimLockPageTable
       \/ TrimLockModified \/ UnmapVictims \/ SignalWriter) => Same /\ Fewer
  BY DEF AwaitTrimmer, PopVictims, TrimLockPageTable, TrimLockModified,
         TrimLock, UnmapVictims, SignalWriter, Pending
<1>2. CheckModifiedList \/ AwaitStart => Same /\ Fewer
  BY <1>0 DEF CheckModifiedList, AwaitStart, Pending
<1>3. WriteLockModified \/ WriteLockStandby => Same /\ Fewer
  BY DEF WriteLockModified, WriteLockStandby, WriteLock, Pending
<1>4. EndPop \/ SignalUser => Same /\ Fewer
  BY DEF EndPop, SignalUser, Pending
<1>5. CheckVictim \/ SkipRescued => Same /\ Fewer
  BY <1>0 DEF CheckVictim, SkipRescued, NextVictim, Pending
<1>6. Same /\ Fewer
  BY <1>1, <1>2, <1>3, <1>4, <1>5
<1> QED  BY <1>6, QuietOther
------------------------------------------------------------------------------
(* Steps that change entries, statuses or slots.                           *)

(* At most one page is in transition in a frame.                           *)
LEMMA OnePagePerFrame ==
  ASSUME IndInv, NEW f \in Frames, NEW va \in VAs,
         Resident(pageTable[va]), pageTable[va].index = f
  PROVE  pfnPte[f] = va
BY DEF IndInv, PagesNameFrames

(* A change of one status that neither takes a page's copy nor makes one.  *)
LEMMA OtherStatus ==
  ASSUME IndInv, NEW f \in Frames,
         UNCHANGED <<pageTable, pfnDiskIndex, disk_pages, uva>>,
         \A g \in Frames \ {f} : pfnStatus'[g] = pfnStatus[g],
         pfnStatus'[f] # PFN_STANDBY,
         \/ pfnStatus[f] # PFN_STANDBY
         \/ ~ \E va \in VAs : /\ IS_PTE_TRANSITION(pageTable[va])
                              /\ pageTable[va].index = f,
         upc \notin {"clearSlot", "setValid"},
         upc' \notin {"clearSlot", "setValid"},
         \A i : Pending(i)' => Pending(i) /\ wslots'[i] = wslots[i]
  PROVE  SlotsAsBefore
<1>1. /\ pfnStatus \in [Frames -> PfnStatus]
      /\ \A va \in VAs : IS_PTE_TRANSITION(pageTable[va]) =>
                           pageTable[va].index \in Frames
  BY DEF IndInv, TypeOK, SharedTypeOK, PagesNameFrames, Resident,
         IS_PTE_TRANSITION
<1>2. \A va \in VAs : IS_PTE_TRANSITION(pageTable[va]) =>
        (pfnStatus'[pageTable[va].index] = PFN_STANDBY <=>
           pfnStatus[pageTable[va].index] = PFN_STANDBY)
  BY <1>1
<1>3. \A s \in Slots \ {0} : PagesIn(s)' = PagesIn(s)
  BY <1>2 DEF PagesIn
<1> QED  BY <1>3 DEF SlotsAsBefore

LEMMA SlotsAfterRescue ==
  ASSUME IndInv, UNCHANGED writerVars, RescueModified \/ RescueMidwrite
  PROVE  SlotsAsBefore
<1>1. \A i : Pending(i)' => Pending(i) /\ wslots'[i] = wslots[i]
  BY DEF Pending
<1>2. CASE pfnStatus' = pfnStatus
  <2>1. /\ UNCHANGED <<pageTable, pfnStatus, pfnDiskIndex, disk_pages>>
        /\ upc \notin {"clearSlot", "setValid"}
        /\ upc' \notin {"clearSlot", "setValid"}
    BY <1>2 DEF RescueModified, RescueMidwrite
  <2> QED  BY <2>1, QuietUser
<1>3. CASE pfnStatus' # pfnStatus
  <2>1. /\ uframe \in Frames
        /\ pfnStatus[uframe] # PFN_STANDBY
        /\ pfnStatus'[uframe] # PFN_STANDBY
        /\ \A g \in Frames \ {uframe} : pfnStatus'[g] = pfnStatus[g]
    BY <1>3 DEF RescueModified, RescueMidwrite, Still, IndInv, UserControl,
                PopPC, TypeOK, SharedTypeOK
  <2>2. /\ UNCHANGED <<pageTable, pfnDiskIndex, disk_pages, uva>>
        /\ upc \notin {"clearSlot", "setValid"}
        /\ upc' \notin {"clearSlot", "setValid"}
    BY DEF RescueModified, RescueMidwrite
  <2> QED  BY <1>1, <2>1, <2>2, OtherStatus
<1> QED  BY <1>2, <1>3

LEMMA SlotsAfterAddActive ==
  ASSUME IndInv, UNCHANGED writerVars, AddActive
  PROVE  SlotsAsBefore
<1>1. /\ uva \in VAs /\ uframe \in Frames
      /\ pageTable[uva] = ValidPte(uframe) /\ pfnPte[uframe] = uva
  BY DEF IndInv, UserControl, AddActive, PopPC
<1>2. ~ \E va \in VAs : /\ IS_PTE_TRANSITION(pageTable[va])
                        /\ pageTable[va].index = uframe
  BY <1>1, OnePagePerFrame DEF Resident, IS_PTE_TRANSITION, ValidPte
<1>3. /\ UNCHANGED <<pageTable, pfnDiskIndex, disk_pages, uva>>
      /\ pfnStatus'[uframe] # PFN_STANDBY
      /\ \A g \in Frames \ {uframe} : pfnStatus'[g] = pfnStatus[g]
      /\ upc \notin {"clearSlot", "setValid"}
      /\ upc' \notin {"clearSlot", "setValid"}
  BY <1>1 DEF AddActive, IndInv, TypeOK, SharedTypeOK
<1>4. \A i : Pending(i)' => Pending(i) /\ wslots'[i] = wslots[i]
  BY DEF Pending
<1> QED  BY <1>1, <1>2, <1>3, <1>4, OtherStatus

LEMMA SlotsAfterPopModified ==
  ASSUME IndInv, UNCHANGED userVars, PopModified
  PROVE  SlotsAsBefore
<1> DEFINE f == Head(modifiedList)
<1>1. modifiedList \in Seq(Frames) /\ modifiedList # <<>>
  BY DEF IndInv, TypeOK, SharedTypeOK, PopModified, Popping, IsListEmpty
<1>2. f \in Frames /\ On(modifiedList, f)
  BY <1>1, PopPage
<1>3. pfnStatus[f] = PFN_MODIFIED
  BY <1>2 DEF IndInv, StatusIsPlace
<1>4. /\ UNCHANGED <<pageTable, pfnDiskIndex, disk_pages, uva, upc, uframe>>
      /\ pfnStatus' = [pfnStatus EXCEPT ![f] = PFN_MIDWRITE]
      /\ wslots' = wslots /\ wpc = "pop" /\ wpc' = wpc
  BY DEF PopModified
<1>5. \A s \in Slots \ {0} : PagesIn(s)' = PagesIn(s)
  <2>1. /\ pfnStatus \in [Frames -> PfnStatus]
        /\ \A va \in VAs : IS_PTE_TRANSITION(pageTable[va]) =>
                             pageTable[va].index \in Frames
    BY DEF IndInv, TypeOK, SharedTypeOK, PagesNameFrames, Resident,
           IS_PTE_TRANSITION
  <2>2. \A g \in Frames :
          pfnStatus'[g] = PFN_STANDBY <=> pfnStatus[g] = PFN_STANDBY
    BY <1>2, <1>3, <1>4, <2>1
  <2> QED  BY <1>4, <2>1, <2>2 DEF PagesIn
<1>6. \A i : Pending(i)' => Pending(i) /\ wslots'[i] = wslots[i]
  BY <1>4 DEF Pending
<1> QED  BY <1>4, <1>5, <1>6 DEF SlotsAsBefore

LEMMA SlotsAfterSetValid ==
  ASSUME IndInv, UNCHANGED writerVars, SetValid
  PROVE  SlotsAsBefore
<1>1. /\ uva \in VAs /\ uframe \in Frames
      /\ pageTable \in [VAs -> PTE]
      /\ \A s : uva \notin PagesIn(s)
  BY DEF IndInv, UserControl, TypeOK, SharedTypeOK, SetValid, PopPC, PagesIn,
         Resident, IS_PTE_TRANSITION
<1>2. /\ pageTable' = [pageTable EXCEPT ![uva] = ValidPte(uframe)]
      /\ UNCHANGED <<pfnStatus, pfnDiskIndex, disk_pages, uva, uframe>>
      /\ upc = "setValid" /\ upc' = "addActive"
  BY DEF SetValid
<1>3. \A s \in Slots \ {0} : PagesIn(s)' = PagesIn(s)
  <2> SUFFICES ASSUME NEW s \in Slots \ {0}, NEW va \in VAs
               PROVE  va \in PagesIn(s)' <=> va \in PagesIn(s)
    BY PagesInAreVAs DEF PagesIn
  <2>1. CASE va = uva
    BY <1>1, <1>2, <2>1 DEF PagesIn, Resident, IS_PTE_TRANSITION, ValidPte
  <2>2. CASE va # uva
    BY <1>1, <1>2, <2>2 DEF PagesIn
  <2> QED  BY <2>1, <2>2
<1>4. \A i : Pending(i)' => Pending(i) /\ wslots'[i] = wslots[i]
  BY DEF Pending
<1> QED  BY <1>2, <1>3, <1>4 DEF SlotsAsBefore

LEMMA SlotsAfterMarkVictim ==
  ASSUME IndInv, UNCHANGED <<userVars, writerVars>>, MarkVictim
  PROVE  SlotsAsBefore
<1> DEFINE f == tvictims[ti]
           old == tptes[ti]
<1>1. /\ pageTable' = [pageTable EXCEPT ![old] = ToTransition(@)]
      /\ pfnStatus' = [pfnStatus EXCEPT ![f] = PFN_MODIFIED]
      /\ UNCHANGED <<pfnDiskIndex, disk_pages, uva, upc, uframe>>
  BY DEF MarkVictim
<1>2. f \in Frames /\ InTrimmerHand(f) /\ old = pfnPte[f]
  BY ElementOfSeq, LenProperties
     DEF MarkVictim, IndInv, TypeOK, TrimmerTypeOK, TrimmerControl,
         InTrimmerHand
<1> HIDE DEF f, old
<1>3. /\ old \in VAs /\ pageTable[old].valid = 1 /\ pageTable[old].index = f
      /\ pfnStatus[f] = PFN_ACTIVE
  BY <1>2 DEF IndInv, FramesNamePages, StatusIsPlace
<1>4. /\ pageTable \in [VAs -> PTE] /\ pfnStatus \in [Frames -> PfnStatus]
      /\ \A va \in VAs : IS_PTE_TRANSITION(pageTable[va]) =>
           pageTable[va].index \in Frames
  BY DEF IndInv, TypeOK, SharedTypeOK, PagesNameFrames, Resident,
         IS_PTE_TRANSITION
<1>5. \A s \in Slots \ {0} : PagesIn(s)' = PagesIn(s)
  <2> SUFFICES ASSUME NEW s \in Slots \ {0}, NEW va \in VAs
               PROVE  va \in PagesIn(s)' <=> va \in PagesIn(s)
    BY PagesInAreVAs DEF PagesIn
  <2>1. CASE va = old
    <3>1. /\ pageTable'[old].index = f /\ IS_PTE_TRANSITION(pageTable'[old])
          /\ pfnStatus'[f] = PFN_MODIFIED
      BY <1>1, <1>2, <1>3, <1>4 DEF ToTransition, IS_PTE_TRANSITION
    <3> QED  BY <1>3, <2>1, <3>1 DEF PagesIn, Resident, IS_PTE_TRANSITION
  <2>2. CASE va # old
    <3>1. pageTable'[va] = pageTable[va]
      BY <1>1, <1>4, <2>2
    <3>2. \A g \in Frames :
            pfnStatus'[g] = PFN_STANDBY <=> pfnStatus[g] = PFN_STANDBY
      BY <1>1, <1>2, <1>3, <1>4
    <3> QED  BY <1>1, <1>4, <3>1, <3>2 DEF PagesIn
  <2> QED  BY <2>1, <2>2
<1>6. \A i : Pending(i)' => Pending(i) /\ wslots'[i] = wslots[i]
  BY DEF Pending
<1> QED  BY <1>1, <1>5, <1>6 DEF SlotsAsBefore

(* The page that loses its frame keeps the slot: before through the frame, *)
(* now through its entry.                                                  *)
LEMMA SlotsAfterPopStandby ==
  ASSUME IndInv, StandbyHasSlot, UNCHANGED writerVars, PopStandby
  PROVE  SlotsAsBefore
<1>0. \A i : Pending(i)' => Pending(i) /\ wslots'[i] = wslots[i]
  BY DEF Pending
<1>1. CASE standbyList = <<>>
  <2>1. /\ UNCHANGED <<pageTable, pfnStatus, pfnDiskIndex, disk_pages>>
        /\ upc = "popStandby" /\ upc' = "signal"
    BY <1>1 DEF PopStandby, IsListEmpty
  <2> QED  BY <2>1, QuietUser
<1>2. CASE standbyList # <<>>
  <2> DEFINE f == Head(standbyList)
             old == pfnPte[f]
             slot == pfnDiskIndex[f]
  <2>1. /\ pageTable' = [pageTable EXCEPT ![old] = ToDisk(@, slot)]
        /\ pfnDiskIndex' = [pfnDiskIndex EXCEPT ![f] = 0]
        /\ UNCHANGED <<pfnStatus, disk_pages, uva>>
        /\ upc = "popStandby" /\ upc' = "fill"
    BY <1>2 DEF PopStandby, IsListEmpty
  <2>2. /\ pageTable \in [VAs -> PTE] /\ pfnDiskIndex \in [Frames -> Slots]
        /\ standbyList \in Seq(Frames)
        /\ \A va \in VAs : IS_PTE_TRANSITION(pageTable[va]) =>
             pageTable[va].index \in Frames
    BY DEF IndInv, TypeOK, SharedTypeOK, PagesNameFrames, Resident,
           IS_PTE_TRANSITION
  <2>3. f \in Frames /\ On(standbyList, f)
    BY <1>2, <2>2, PopPage
  <2> HIDE DEF f
  <2>4. /\ old \in VAs /\ IS_PTE_TRANSITION(pageTable[old])
        /\ pageTable[old].index = f /\ pfnStatus[f] = PFN_STANDBY
    BY <2>1, <2>3 DEF IndInv, FramesNamePages, StatusIsPlace
  <2> HIDE DEF old
  <2>5. \A s \in Slots \ {0} : PagesIn(s)' = PagesIn(s)
    <3> SUFFICES ASSUME NEW s \in Slots \ {0}, NEW va \in VAs
                 PROVE  va \in PagesIn(s)' <=> va \in PagesIn(s)
      BY PagesInAreVAs DEF PagesIn
    <3>1. CASE va = old
      <4>1. pageTable'[old] = ToDisk(pageTable[old], slot)
        BY <2>1, <2>2, <2>4
      <4>2. ~ Resident(pageTable'[old]) /\ pageTable'[old].index = slot
        BY <2>2, <2>4, <4>1 DEF ToDisk, Resident, IS_PTE_TRANSITION, PTE
      <4> QED  BY <2>1, <2>4, <3>1, <4>2
               DEF PagesIn, Resident, IS_PTE_TRANSITION
    <3>2. CASE va # old
      <4>1. pageTable'[va] = pageTable[va]
        BY <2>1, <2>2, <3>2
      <4>2. IS_PTE_TRANSITION(pageTable[va]) => pageTable[va].index # f
        BY <2>3, <3>2, OnePagePerFrame DEF Resident, IS_PTE_TRANSITION, old
      <4> QED  BY <2>1, <2>2, <2>3, <4>1, <4>2 DEF PagesIn
    <3> QED  BY <3>1, <3>2
  <2> QED  BY <1>0, <2>1, <2>5 DEF SlotsAsBefore
<1> QED  BY <1>1, <1>2

(* A page leaves its slot when its frame is rescued from the standby list. *)
LEMMA PagesAfterRescueStandby ==
  ASSUME IndInv, RescueStandby
  PROVE  \A s \in Slots \ {0} :
           /\ PagesIn(s)' = PagesIn(s) \ {uva}
           /\ s # pfnDiskIndex[uframe] => PagesIn(s)' = PagesIn(s)
<1>1. /\ uva \in VAs /\ uframe \in Frames
      /\ IS_PTE_TRANSITION(pageTable[uva]) /\ pageTable[uva].index = uframe
      /\ pfnStatus[uframe] = PFN_STANDBY
  BY DEF IndInv, UserControl, RescuePC, RescueStandby, RescueStatus, PopPC
<1>2. /\ UNCHANGED <<pageTable, pfnDiskIndex, disk_pages, uva, uframe>>
      /\ pfnStatus' = [pfnStatus EXCEPT ![uframe] = PFN_MIDRESCUE]
      /\ upc = "rescueStandby" /\ upc' = "clearSlot"
  BY <1>1 DEF RescueStandby, Still
<1>3. /\ pfnStatus \in [Frames -> PfnStatus]
      /\ \A va \in VAs : IS_PTE_TRANSITION(pageTable[va]) =>
           pageTable[va].index \in Frames
  BY DEF IndInv, TypeOK, SharedTypeOK, PagesNameFrames, Resident,
         IS_PTE_TRANSITION
<1>4. \A s \in Slots \ {0} : PagesIn(s)' = PagesIn(s) \ {uva}
  <2> SUFFICES ASSUME NEW s \in Slots \ {0}, NEW va \in VAs
               PROVE  va \in PagesIn(s)' <=> va \in PagesIn(s) /\ va # uva
    BY PagesInAreVAs DEF PagesIn
  <2>1. CASE va = uva
    BY <1>1, <1>2, <1>3, <2>1 DEF PagesIn, Resident, IS_PTE_TRANSITION
  <2>2. CASE va # uva
    <3>1. IS_PTE_TRANSITION(pageTable[va]) => pageTable[va].index # uframe
      BY <1>1, <2>2, OnePagePerFrame DEF Resident, IS_PTE_TRANSITION
    <3> QED  BY <1>1, <1>2, <1>3, <2>2, <3>1 DEF PagesIn
  <2> QED  BY <2>1, <2>2
<1>5. \A s \in Slots \ {0} : s # pfnDiskIndex[uframe] => uva \notin PagesIn(s)
  BY <1>1, <1>2 DEF PagesIn, Resident, IS_PTE_TRANSITION
<1> QED  BY <1>4, <1>5

(* The slot it leaves stays marked until the handler clears it.            *)
LEMMA LeaksAfterRescueStandby ==
  ASSUME IndInv, NoSlotLeaks, RescueStandby
  PROVE  NoSlotLeaks'
<1>1. /\ UNCHANGED <<pfnDiskIndex, disk_pages, uframe>>
      /\ upc = "rescueStandby" /\ upc' = "clearSlot"
  BY DEF RescueStandby
<1> QED  BY <1>1, PagesAfterRescueStandby DEF NoSlotLeaks

LEMMA SlotsAfterRescueStandby ==
  ASSUME IndInv, StandbyHasSlot, SlotInv, UNCHANGED writerVars, RescueStandby
  PROVE  SlotInv'
<1> DEFINE slot == pfnDiskIndex[uframe]
<1>1. /\ uva \in VAs /\ uframe \in Frames
      /\ IS_PTE_TRANSITION(pageTable[uva]) /\ pageTable[uva].index = uframe
      /\ pfnStatus[uframe] = PFN_STANDBY
      /\ pfnDiskIndex \in [Frames -> Slots]
  BY DEF IndInv, UserControl, RescuePC, RescueStandby, RescueStatus, PopPC,
         TypeOK, SharedTypeOK
<1>2. /\ UNCHANGED <<pageTable, pfnDiskIndex, disk_pages, uva, uframe>>
      /\ upc = "rescueStandby" /\ upc' = "clearSlot"
  BY DEF RescueStandby
<1>3. On(standbyList, uframe)
  BY <1>1, <1>2 DEF IndInv, StatusIsPlace, InUserHand
<1>4. slot \in Slots \ {0}
  BY <1>1, <1>3 DEF StandbyHasSlot
<1>5. uva \in PagesIn(slot)
  BY <1>1 DEF PagesIn
<1>6. disk_pages[slot] = 1 /\ PagesIn(slot) = {uva}
  BY <1>4, <1>5 DEF SlotInv, SlotsOfPagesAreInUse, SlotsAreNotShared
<1>7. \A s \in Slots \ {0} : PagesIn(s)' = PagesIn(s) \ {uva}
  BY PagesAfterRescueStandby
<1>8. SlotsOfPagesAreInUse' /\ SlotsAreNotShared'
  BY <1>2, <1>7 DEF SlotInv, SlotsOfPagesAreInUse, SlotsAreNotShared
<1>9. NoSlotLeaks'
  BY LeaksAfterRescueStandby DEF SlotInv
<1>10. (\A i \in DOMAIN wslots : Pending(i) => disk_pages[wslots[i]] = 0)'
  BY <1>2 DEF SlotInv, Pending
<1>11. (LET s == pfnDiskIndex[uframe] IN
          s # 0 /\ disk_pages[s] = 1 /\ PagesIn(s) = {})'
  BY <1>2, <1>4, <1>6, <1>7
<1> QED  BY <1>8, <1>9, <1>10, <1>11 DEF SlotInv

(* Clearing the slot of a rescued frame takes no page out of any slot.     *)
LEMMA PagesAfterClearSlot ==
  ASSUME IndInv, ClearSlot
  PROVE  \A s \in Slots \ {0} : PagesIn(s)' = PagesIn(s)
<1>1. uva \in VAs /\ IS_PTE_TRANSITION(pageTable[uva])
  BY DEF IndInv, UserControl, RescuePC, ClearSlot
<1>2. /\ UNCHANGED <<pageTable, pfnStatus, pfnDiskIndex, uva>>
      /\ upc = "clearSlot" /\ upc' = "setValid"
  BY DEF ClearSlot
<1> QED  BY <1>1, <1>2 DEF PagesIn, Resident, IS_PTE_TRANSITION

LEMMA LeaksAfterClearSlot ==
  ASSUME IndInv, NoSlotLeaks, ClearSlot
  PROVE  NoSlotLeaks'
<1>1. disk_pages \in [Slots -> {0, 1}]
  BY DEF IndInv, TypeOK, SharedTypeOK
<1>2. disk_pages' = [disk_pages EXCEPT ![pfnDiskIndex[uframe]] = 0]
  BY DEF ClearSlot, clearDiskSlot
<1> QED  BY <1>1, <1>2, PagesAfterClearSlot DEF NoSlotLeaks

(* The user clears the slot that no page is in any more.                   *)
LEMMA SlotsAfterClearSlot ==
  ASSUME IndInv, SlotInv, UNCHANGED writerVars, ClearSlot
  PROVE  SlotInv'
<1> DEFINE slot == pfnDiskIndex[uframe]
<1>1. /\ uframe \in Frames
      /\ pfnDiskIndex \in [Frames -> Slots]
      /\ disk_pages \in [Slots -> {0, 1}]
  BY DEF IndInv, UserControl, RescuePC, ClearSlot, PopPC, TypeOK, SharedTypeOK
<1>2. /\ disk_pages' = [disk_pages EXCEPT ![slot] = 0]
      /\ upc = "clearSlot" /\ upc' = "setValid"
  BY DEF ClearSlot, clearDiskSlot
<1>3. slot \in Slots \ {0} /\ PagesIn(slot) = {}
  BY <1>1, <1>2 DEF SlotInv
<1>4. SlotsOfPagesAreInUse' /\ SlotsAreNotShared'
  BY <1>1, <1>2, <1>3, PagesAfterClearSlot
     DEF SlotInv, SlotsOfPagesAreInUse, SlotsAreNotShared
<1>5. NoSlotLeaks'
  BY LeaksAfterClearSlot DEF SlotInv
<1>6. (\A i \in DOMAIN wslots : Pending(i) => disk_pages[wslots[i]] = 0)'
  <2>1. wslots \in Seq(Slots \ {0})
    BY DEF IndInv, TypeOK, WriterTypeOK
  <2>2. \A i \in DOMAIN wslots : wslots[i] \in Slots
    BY <2>1
  <2> QED  BY <1>1, <1>2, <2>2 DEF SlotInv, Pending
<1> QED  BY <1>2, <1>4, <1>5, <1>6 DEF SlotInv

(* A page that was read back leaves its slot when the slot is cleared,     *)
(* while the entry still names it.                                         *)
LEMMA PagesAfterFreeSlot ==
  ASSUME IndInv, FreeSlot
  PROVE  \A s \in Slots \ {0} :
           /\ PagesIn(s)' = PagesIn(s) \ {uva}
           /\ s # pageTable[uva].index => PagesIn(s)' = PagesIn(s)
           /\ s = pageTable[uva].index => uva \in PagesIn(s)
<1>1. uva \in VAs /\ ~ Resident(pageTable[uva])
  BY DEF IndInv, UserControl, FreeSlot, FillPC
<1>2. /\ UNCHANGED <<pageTable, pfnStatus, pfnDiskIndex, uva, uframe>>
      /\ upc = "freeSlot" /\ upc' = "setValid"
  BY DEF FreeSlot
<1>3. \A s \in Slots \ {0} : PagesIn(s)' = PagesIn(s) \ {uva}
  <2> SUFFICES ASSUME NEW s \in Slots \ {0}, NEW va \in VAs
               PROVE  va \in PagesIn(s)' <=> va \in PagesIn(s) /\ va # uva
    BY PagesInAreVAs DEF PagesIn
  <2>1. CASE va = uva
    BY <1>1, <1>2, <2>1 DEF PagesIn, Resident, IS_PTE_TRANSITION
  <2>2. CASE va # uva
    BY <1>2, <2>2 DEF PagesIn
  <2> QED  BY <2>1, <2>2
<1>4. \A s \in Slots \ {0} : uva \in PagesIn(s) <=> s = pageTable[uva].index
  BY <1>1, <1>2 DEF PagesIn, Resident, IS_PTE_TRANSITION
<1> QED  BY <1>3, <1>4

LEMMA LeaksAfterFreeSlot ==
  ASSUME IndInv, NoSlotLeaks, FreeSlot
  PROVE  NoSlotLeaks'
<1>1. /\ disk_pages \in [Slots -> {0, 1}]
      /\ disk_pages' = [disk_pages EXCEPT ![pageTable[uva].index] = 0]
      /\ upc = "freeSlot"
  BY DEF IndInv, TypeOK, SharedTypeOK, FreeSlot, clearDiskSlot
<1>2. \A s \in Slots \ {0} :
        disk_pages'[s] = 1 => s # pageTable[uva].index /\ disk_pages[s] = 1
  BY <1>1
<1> QED  BY <1>1, <1>2, PagesAfterFreeSlot DEF NoSlotLeaks

LEMMA SlotsAfterFreeSlot ==
  ASSUME IndInv, SlotInv, UNCHANGED writerVars, FreeSlot
  PROVE  SlotInv'
<1> DEFINE slot == pageTable[uva].index
<1>1. /\ disk_pages \in [Slots -> {0, 1}]
      /\ disk_pages' = [disk_pages EXCEPT ![slot] = 0]
      /\ upc = "freeSlot" /\ upc' = "setValid"
  BY DEF IndInv, TypeOK, SharedTypeOK, FreeSlot, clearDiskSlot
<1>2. \A s \in Slots \ {0} :
        /\ s # slot => disk_pages'[s] = disk_pages[s]
        /\ s = slot => disk_pages'[s] = 0
  BY <1>1
<1>3. \A s \in Slots \ {0} : s = slot => PagesIn(s)' = {}
  BY PagesAfterFreeSlot DEF SlotInv, SlotsAreNotShared
<1>4. SlotsOfPagesAreInUse'
  BY <1>2, <1>3, PagesAfterFreeSlot DEF SlotInv, SlotsOfPagesAreInUse
<1>5. SlotsAreNotShared'
  BY PagesAfterFreeSlot DEF SlotInv, SlotsAreNotShared
<1>6. NoSlotLeaks'
  BY LeaksAfterFreeSlot DEF SlotInv
<1>7. (\A i \in DOMAIN wslots : Pending(i) => disk_pages[wslots[i]] = 0)'
  <2>1. wslots \in Seq(Slots \ {0})
    BY DEF IndInv, TypeOK, WriterTypeOK
  <2>2. \A i \in DOMAIN wslots : wslots[i] \in Slots \ {0}
    BY <2>1
  <2> QED  BY <1>2, <2>2 DEF SlotInv, Pending
<1> QED  BY <1>1, <1>4, <1>5, <1>6, <1>7 DEF SlotInv

(* The search neither marks slots nor moves pages.                         *)
LEMMA LeaksAfterSearchSlot ==
  ASSUME NoSlotLeaks, UNCHANGED userVars, SearchSlot
  PROVE  NoSlotLeaks' /\ \A s : PagesIn(s)' = PagesIn(s)
<1>1. UNCHANGED <<pageTable, pfnStatus, pfnDiskIndex, disk_pages, userVars>>
  BY DEF SearchSlot
<1>2. \A s : PagesIn(s)' = PagesIn(s)
  BY <1>1 DEF PagesIn
<1> QED  BY <1>1, <1>2 DEF NoSlotLeaks

(* A slot is added to the batch when it is free.                           *)
LEMMA SlotsAfterSearchSlot ==
  ASSUME IndInv, SlotInv, UNCHANGED userVars, SearchSlot
  PROVE  SlotInv'
<1>1. /\ wslots \in Seq(Slots \ {0})
      /\ wpc = "search"
      /\ UNCHANGED <<pageTable, pfnStatus, pfnDiskIndex, disk_pages, userVars>>
      /\ wslots' = IF SlotIsFree(disk_page_index)
                   THEN Append(wslots, disk_page_index) ELSE wslots
  BY DEF IndInv, TypeOK, WriterTypeOK, SearchSlot
<1>2. NoSlotLeaks' /\ \A s : PagesIn(s)' = PagesIn(s)
  BY LeaksAfterSearchSlot DEF SlotInv
<1>3. \A i \in DOMAIN wslots' : disk_pages[wslots'[i]] = 0
  <2>1. \A i \in DOMAIN wslots : disk_pages[wslots[i]] = 0
    BY <1>1 DEF SlotInv, Pending
  <2>2. CASE SlotIsFree(disk_page_index)
    <3>1. /\ wslots' = Append(wslots, disk_page_index)
          /\ disk_pages[disk_page_index] = 0
          /\ disk_page_index \in Slots \ {0}
      BY <1>1, <2>2 DEF SlotIsFree, IndInv, TypeOK, SharedTypeOK
    <3> QED  BY <1>1, <2>1, <3>1, AppendProperties
  <2>3. CASE ~ SlotIsFree(disk_page_index)
    BY <1>1, <2>1, <2>3
  <2> QED  BY <2>2, <2>3
<1>4. SlotsOfPagesAreInUse' /\ SlotsAreNotShared'
  BY <1>1, <1>2 DEF SlotInv, SlotsOfPagesAreInUse, SlotsAreNotShared
<1> QED  BY <1>1, <1>2, <1>3, <1>4 DEF SlotInv, Pending

(* What the writer has in its hands when it writes a page.                 *)
LEMMA WrittenPage ==
  ASSUME IndInv, WritePage
  PROVE  LET f == wvictims[wi]
             old == pfnPte[f]
         IN /\ wi \in DOMAIN wvictims /\ wi \in DOMAIN wslots
            /\ f \in Frames /\ wslots[wi] \in Slots \ {0}
            /\ pfnStatus[f] = PFN_MIDWRITE
            /\ old \in VAs /\ IS_PTE_TRANSITION(pageTable[old])
            /\ pageTable[old].index = f
            /\ upc = "clearSlot" => uframe \in Frames /\ uframe # f
<1> DEFINE f == wvictims[wi]
           slot == wslots[wi]
           old == pfnPte[f]
<1>1. pfnStatus[f] = PFN_MIDWRITE /\ wpc = "write"
  BY DEF WritePage, StillMidwrite
<1>2. /\ wi \in 1 .. Len(wvictims) /\ Len(wvictims) <= Len(wslots)
      /\ wslots \in Seq(Slots \ {0}) /\ wvictims \in Seq(Frames)
  BY <1>1 DEF IndInv, TypeOK, WriterTypeOK, WriterControl
<1>3. /\ f \in Frames /\ slot \in Slots \ {0}
      /\ wi \in DOMAIN wslots /\ wi \in DOMAIN wvictims
  BY <1>2, ElementOfSeq, LenProperties
<1> HIDE DEF f, slot
<1>4. /\ old \in VAs /\ IS_PTE_TRANSITION(pageTable[old])
      /\ pageTable[old].index = f
  BY <1>1, <1>3 DEF IndInv, FramesNamePages, UserControl
<1>5. upc = "clearSlot" => uframe \in Frames /\ uframe # f
  BY <1>1 DEF IndInv, UserControl, RescuePC, RescueStatus, PopPC
<1> QED  BY <1>1, <1>3, <1>4, <1>5 DEF f, slot

(* The page that is written comes to be in its slot.                       *)
LEMMA PagesAfterWritePage ==
  ASSUME IndInv, UNCHANGED userVars, WritePage
  PROVE  \A s \in Slots \ {0} :
           PagesIn(s)' = PagesIn(s) \cup
             (IF s = wslots[wi] THEN {pfnPte[wvictims[wi]]} ELSE {})
<1> DEFINE f == wvictims[wi]
           slot == wslots[wi]
           old == pfnPte[f]
<1>1. /\ pfnStatus' = [pfnStatus EXCEPT ![f] = PFN_STANDBY]
      /\ pfnDiskIndex' = [pfnDiskIndex EXCEPT ![f] = slot]
      /\ UNCHANGED <<pageTable, uva, upc>>
  BY DEF WritePage
<1>2. /\ pfnStatus \in [Frames -> PfnStatus]
      /\ pfnDiskIndex \in [Frames -> Slots]
      /\ \A va \in VAs : IS_PTE_TRANSITION(pageTable[va]) =>
           pageTable[va].index \in Frames
  BY DEF IndInv, TypeOK, SharedTypeOK, PagesNameFrames, Resident,
         IS_PTE_TRANSITION
<1>3. /\ f \in Frames /\ slot \in Slots \ {0} /\ pfnStatus[f] = PFN_MIDWRITE
      /\ old \in VAs /\ IS_PTE_TRANSITION(pageTable[old])
      /\ pageTable[old].index = f
  BY WrittenPage
<1> HIDE DEF f, slot
<1> SUFFICES ASSUME NEW s \in Slots \ {0}, NEW va \in VAs
             PROVE  va \in PagesIn(s)' <=>
                      va \in PagesIn(s) \/ (s = slot /\ va = old)
  BY <1>3, PagesInAreVAs DEF PagesIn, f, slot
<1>4. CASE va = old
  <2>1. va \notin PagesIn(s)
    BY <1>3, <1>4 DEF PagesIn, Resident, IS_PTE_TRANSITION
  <2>2. va \in PagesIn(s)' <=> s = slot
    BY <1>1, <1>2, <1>3, <1>4 DEF PagesIn, Resident, IS_PTE_TRANSITION
  <2> QED  BY <1>4, <2>1, <2>2
<1>5. CASE va # old
  <2>1. IS_PTE_TRANSITION(pageTable[va]) => pageTable[va].index # f
    BY <1>3, <1>5, OnePagePerFrame DEF Resident, IS_PTE_TRANSITION
  <2>2. va \in PagesIn(s)' <=> va \in PagesIn(s)
    BY <1>1, <1>2, <1>3, <2>1 DEF PagesIn
  <2> QED  BY <1>5, <2>2
<1> QED  BY <1>4, <1>5

LEMMA LeaksAfterWritePage ==
  ASSUME IndInv, NoSlotLeaks, UNCHANGED userVars, WritePage
  PROVE  NoSlotLeaks'
<1> DEFINE f == wvictims[wi]
           slot == wslots[wi]
<1>1. /\ disk_pages' = [disk_pages EXCEPT ![slot] = 1]
      /\ pfnDiskIndex' = [pfnDiskIndex EXCEPT ![f] = slot]
      /\ UNCHANGED <<upc, uframe>>
  BY DEF WritePage
<1>2. /\ disk_pages \in [Slots -> {0, 1}] /\ pfnDiskIndex \in [Frames -> Slots]
      /\ upc = "clearSlot" => uframe \in Frames /\ uframe # f
  BY WrittenPage DEF IndInv, TypeOK, SharedTypeOK
<1> SUFFICES ASSUME NEW s \in Slots \ {0}, disk_pages'[s] = 1
             PROVE  \/ PagesIn(s)' # {}
                    \/ upc' = "clearSlot" /\ pfnDiskIndex'[uframe'] = s
  BY DEF NoSlotLeaks
<1>3. CASE s = slot
  BY <1>3, PagesAfterWritePage
<1>4. CASE s # slot
  <2>1. disk_pages[s] = 1
    BY <1>1, <1>2, <1>4
  <2>2. CASE PagesIn(s) # {}
    BY <2>2, PagesAfterWritePage
  <2>3. CASE upc = "clearSlot" /\ pfnDiskIndex[uframe] = s
    BY <1>1, <1>2, <2>3
  <2> QED  BY <2>1, <2>2, <2>3 DEF NoSlotLeaks
<1> QED  BY <1>3, <1>4

(* The slot of a victim that is about to be written holds no page.         *)
LEMMA WrittenSlotIsFree ==
  ASSUME IndInv, SlotInv, WritePage
  PROVE  disk_pages[wslots[wi]] = 0 /\ PagesIn(wslots[wi]) = {}
<1>1. wi \in DOMAIN wslots /\ wslots[wi] \in Slots \ {0}
  BY WrittenPage
<1>2. Pending(wi)
  BY <1>1 DEF WritePage, Pending, IndInv, TypeOK, WriterTypeOK
<1> QED  BY <1>1, <1>2 DEF SlotInv, SlotsOfPagesAreInUse

(* A page is copied to its slot, which was free until now.                 *)
LEMMA SlotsAfterWritePage ==
  ASSUME IndInv, SlotInv, NoSlotTwice, UNCHANGED userVars, WritePage
  PROVE  SlotInv'
<1> DEFINE f == wvictims[wi]
           slot == wslots[wi]
           old == pfnPte[f]
<1>1. /\ disk_pages' = [disk_pages EXCEPT ![slot] = 1]
      /\ pfnDiskIndex' = [pfnDiskIndex EXCEPT ![f] = slot]
      /\ UNCHANGED <<wslots, upc, uframe>>
      /\ wpc = "write"
  BY DEF WritePage
<1>2. /\ wi \in 1 .. Len(wvictims) /\ wi \in DOMAIN wslots
      /\ wslots \in Seq(Slots \ {0}) /\ wvictims \in Seq(Frames)
      /\ pfnDiskIndex \in [Frames -> Slots]
      /\ disk_pages \in [Slots -> {0, 1}]
      /\ \A i \in DOMAIN wslots : wslots[i] \in Slots \ {0}
  <2>1. /\ wslots \in Seq(Slots \ {0}) /\ wvictims \in Seq(Frames)
        /\ wi \in 1 .. Len(wvictims)
        /\ pfnDiskIndex \in [Frames -> Slots]
        /\ disk_pages \in [Slots -> {0, 1}]
    BY <1>1 DEF IndInv, TypeOK, SharedTypeOK, WriterTypeOK, WriterControl
  <2>2. wi \in DOMAIN wslots
    BY WrittenPage
  <2> QED  BY <2>1, <2>2
<1>3. \A i \in DOMAIN wslots : wslots[i] = slot => i = wi
  BY <1>2 DEF NoSlotTwice, IsInjective
<1>4. f \in Frames /\ slot \in Slots \ {0}
  BY WrittenPage
<1> HIDE DEF f, slot
<1>5. disk_pages[slot] = 0 /\ PagesIn(slot) = {}
  BY WrittenSlotIsFree DEF slot
<1>6. \A s \in Slots \ {0} :
        PagesIn(s)' = PagesIn(s) \cup (IF s = slot THEN {old} ELSE {})
  BY PagesAfterWritePage DEF f, slot
<1>7. \A s \in Slots \ {0} :
        disk_pages'[s] = IF s = slot THEN 1 ELSE disk_pages[s]
  BY <1>1, <1>2
<1>8. SlotsOfPagesAreInUse'
  BY <1>6, <1>7 DEF SlotInv, SlotsOfPagesAreInUse
<1>9. SlotsAreNotShared'
  <2> SUFFICES ASSUME NEW s \in Slots \ {0}, NEW va1 \in PagesIn(s)',
                      NEW va2 \in PagesIn(s)'
               PROVE  va1 = va2
    BY DEF SlotsAreNotShared
  <2>1. CASE s = slot
    BY <1>5, <1>6, <2>1
  <2>2. CASE s # slot
    BY <1>6, <2>2 DEF SlotInv, SlotsAreNotShared
  <2> QED  BY <2>1, <2>2
<1>10. NoSlotLeaks'
  BY LeaksAfterWritePage DEF SlotInv
<1>11. (\A i \in DOMAIN wslots : Pending(i) => disk_pages[wslots[i]] = 0)'
  <2> SUFFICES ASSUME NEW i \in DOMAIN wslots, Pending(i)'
               PROVE  disk_pages'[wslots[i]] = 0
    BY <1>1
  <2>1. i # wi /\ Pending(i)
    BY <1>1, <1>2 DEF WritePage, NextVictim, Pending
  <2>2. wslots[i] # slot
    BY <1>3, <2>1
  <2> QED  BY <1>2, <1>7, <2>1, <2>2 DEF SlotInv
<1>12. (upc = "clearSlot" =>
          LET s == pfnDiskIndex[uframe] IN
            s # 0 /\ disk_pages[s] = 1 /\ PagesIn(s) = {})'
  <2> SUFFICES ASSUME upc = "clearSlot", NEW s, s = pfnDiskIndex'[uframe]
               PROVE  s # 0 /\ disk_pages'[s] = 1 /\ PagesIn(s)' = {}
    BY <1>1
  <2>1. uframe \in Frames /\ uframe # f
    BY WrittenPage DEF f
  <2>2. /\ s = pfnDiskIndex[uframe] /\ s \in Slots \ {0}
        /\ disk_pages[s] = 1 /\ PagesIn(s) = {}
    BY <1>1, <1>2, <2>1 DEF SlotInv
  <2>3. s # slot
    BY <1>5, <2>2
  <2> QED  BY <1>6, <1>7, <2>2, <2>3
<1> QED  BY <1>8, <1>9, <1>10, <1>11, <1>12 DEF SlotInv
------------------------------------------------------------------------------
(* The steps that change what slots hold; all others leave them as before. *)
SlotSteps ==
  \/ /\ UNCHANGED writerVars
     /\ RescueStandby \/ ClearSlot \/ FreeSlot
  \/ /\ UNCHANGED userVars
     /\ SearchSlot \/ WritePage

LEMMA OtherSteps ==
  ASSUME IndInv, StandbyHasSlot, [Next]_vars, ~ SlotSteps PROVE SlotsAsBefore
<1>1. CASE UserStep
  <2>1. UNCHANGED <<trimmerVars, writerVars>> /\ UserNext
    BY <1>1 DEF UserStep
  <2> QED  BY <2>1, QuietUserSteps, SlotsAfterRescue, SlotsAfterAddActive,
              SlotsAfterSetValid, SlotsAfterPopStandby
           DEF UserNext, HandleFault, Rescue, GetFreePage, SlotSteps
<1>2. CASE TrimmerStep
  <2>1. UNCHANGED <<userVars, writerVars>> /\ TrimmerNext
    BY <1>2 DEF TrimmerStep
  <2> QED  BY <2>1, QuietOtherSteps, SlotsAfterMarkVictim DEF TrimmerNext
<1>3. CASE WriterStep
  <2>1. UNCHANGED userVars /\ WriterNext
    BY <1>3 DEF WriterStep
  <2> QED  BY <2>1, QuietOtherSteps, SlotsAfterPopModified
           DEF WriterNext, SlotSteps
<1>4. CASE UNCHANGED vars
  <2>1. /\ UNCHANGED <<pageTable, pfnStatus, pfnDiskIndex, disk_pages, userVars>>
        /\ \A i : Pending(i)' => Pending(i) /\ wslots'[i] = wslots[i]
    BY <1>4 DEF vars, Pending
  <2> QED  BY <2>1, QuietOther
<1> QED  BY <1>1, <1>2, <1>3, <1>4 DEF Next

(* NoSlotLeaks is inductive beside IndInv, even when a slot is found twice *)
(* and two pages come to share it.                                         *)
LEMMA LeaksNextInv ==
  IndInv /\ StandbyHasSlot /\ NoSlotLeaks /\ [Next]_vars => NoSlotLeaks'
<1> SUFFICES ASSUME IndInv, StandbyHasSlot, NoSlotLeaks, [Next]_vars
             PROVE  NoSlotLeaks'
  OBVIOUS
<1>1. CASE SlotSteps
  BY <1>1, LeaksAfterRescueStandby, LeaksAfterClearSlot, LeaksAfterFreeSlot,
     LeaksAfterSearchSlot, LeaksAfterWritePage DEF SlotSteps
<1>2. CASE ~ SlotSteps
  BY <1>2, OtherSteps, LeaksUntouched
<1> QED  BY <1>1, <1>2

(* SlotInv is inductive beside IndInv, as long as no slot is found twice.  *)
LEMMA SlotNextInv ==
  IndInv /\ StandbyHasSlot /\ SlotInv /\ NoSlotTwice /\ [Next]_vars => SlotInv'
<1> SUFFICES ASSUME IndInv, StandbyHasSlot, SlotInv, NoSlotTwice, [Next]_vars
             PROVE  SlotInv'
  OBVIOUS
<1>1. CASE SlotSteps
  BY <1>1, SlotsAfterRescueStandby, SlotsAfterClearSlot, SlotsAfterFreeSlot,
     SlotsAfterSearchSlot, SlotsAfterWritePage DEF SlotSteps
<1>2. CASE ~ SlotSteps
  BY <1>2, OtherSteps, SlotsUntouched
<1> QED  BY <1>1, <1>2

LEMMA SlotInit == Init => SlotInv
<1> SUFFICES ASSUME Init PROVE SlotInv
  OBVIOUS
<1>1. /\ upc = "access" /\ wslots = <<>>
      /\ \A va \in VAs : pageTable[va] = ZeroPte
      /\ \A s \in Slots : disk_pages[s] = 0
  BY DEF Init, InitShared, InitUser, InitWriter
<1>2. \A s \in Slots \ {0} : PagesIn(s) = {}
  BY <1>1 DEF PagesIn, ZeroPte, Resident, IS_PTE_TRANSITION
<1> QED  BY <1>1, <1>2 DEF SlotInv, SlotsOfPagesAreInUse, SlotsAreNotShared,
                           NoSlotLeaks

(* Slots that the writer chose without a lock stay free until it writes to *)
(* them (writer.c:51,132), slots of pages stay marked, one page each, and  *)
(* none leaks, in every execution in which no slot is found twice.         *)
THEOREM SlotsStayInStep == Spec /\ []NoSlotTwice => []SlotInv
BY SlotInit, SlotNextInv, IndInvariant, StandbyAlwaysHasSlot, PTL DEF Spec

(* Until a round is over the search comes to each slot once: how many      *)
(* looks from now, and the free ones among those it will still look at.    *)
Ahead(s) == IF s >= disk_page_index THEN s - disk_page_index
            ELSE s - disk_page_index + (DiskPages - 1)
StillToLook == {s \in Slots \ {0} : Ahead(s) < DiskPages - 1 - wi}
FreeAhead == {s \in StillToLook : disk_pages[s] = 0}

(* While a search that began with room goes on, what is free ahead of it   *)
(* completes the batch.                                                    *)
SearchHasRoom ==
  /\ wi \in 0 .. DiskPages - 1
  /\ wi = 0 => wslots = <<>>
  /\ wi > 0 => Cardinality(FreeAhead) + Len(wslots) >= MAXIMUM_WRITE_BATCH
  /\ Len(wslots) < MAXIMUM_WRITE_BATCH
  /\ \A i \in DOMAIN wslots : wslots[i] \notin StillToLook

RoomSearchInv ==
  /\ NoSlotTwice
  /\ wpc \in {"check", "wait", "signal"} => wi = 0
  /\ wpc = "search" => SearchHasRoom

LEMMA UsableSlots ==
  /\ DiskPages \in Nat /\ DiskPages >= 2 /\ MAXIMUM_WRITE_BATCH \in Nat \ {0}
  /\ Slots \ {0} = 1 .. DiskPages - 1
  /\ \A S \in SUBSET (Slots \ {0}) : IsFiniteSet(S) /\ Cardinality(S) \in Nat
<1>1. /\ DiskPages \in Nat /\ DiskPages >= 2 /\ Slots \ {0} = 1 .. DiskPages - 1
      /\ MAXIMUM_WRITE_BATCH \in Nat \ {0}
  BY StateAssumption, WriteBatchAssumption DEF Slots
<1>2. IsFiniteSet(Slots \ {0})
  <2>1. 1 \in Int /\ DiskPages - 1 \in Int
    BY <1>1
  <2>2. IsFiniteSet(1 .. DiskPages - 1)
    BY <2>1, FS_Interval
  <2> QED  BY <1>1, <2>2
<1> QED  BY <1>1, <1>2, FS_Subset, FS_CardinalityType

(* One look: the slot looked at is no longer ahead, the others still are.  *)
LEMMA OneSlotLess ==
  ASSUME disk_page_index \in Slots \ {0}, wi \in Nat, wi < DiskPages - 1,
         disk_page_index' = NextSlot(disk_page_index), wi' = wi + 1
  PROVE  /\ disk_page_index \in StillToLook
         /\ StillToLook' = StillToLook \ {disk_page_index}
<1>1. /\ DiskPages \in Nat /\ DiskPages >= 2
      /\ Slots \ {0} = 1 .. DiskPages - 1
      /\ disk_page_index \in 1 .. DiskPages - 1
  BY UsableSlots
<1>2. Ahead(disk_page_index) = 0
  BY <1>1 DEF Ahead
<1>3. ASSUME NEW s \in 1 .. DiskPages - 1
      PROVE  Ahead(s)' = IF s = disk_page_index THEN DiskPages - 2
                         ELSE Ahead(s) - 1
  <2>1. CASE disk_page_index + 1 = DiskPages
    BY <1>1, <2>1 DEF Ahead, NextSlot
  <2>2. CASE disk_page_index + 1 # DiskPages
    BY <1>1, <2>2 DEF Ahead, NextSlot
  <2> QED  BY <2>1, <2>2
<1>4. \A s \in 1 .. DiskPages - 1 : Ahead(s) \in Int
  BY <1>1 DEF Ahead
<1>5. ASSUME NEW s \in 1 .. DiskPages - 1
      PROVE  Ahead(s)' < DiskPages - 1 - wi'
               <=> Ahead(s) < DiskPages - 1 - wi /\ s # disk_page_index
  <2>1. CASE s = disk_page_index
    BY <1>1, <1>3, <2>1
  <2>2. CASE s # disk_page_index
    BY <1>1, <1>3, <1>4, <2>2
  <2> QED  BY <2>1, <2>2
<1>6. disk_page_index \in StillToLook
  BY <1>1, <1>2 DEF StillToLook
<1>7. (Slots \ {0})' = Slots \ {0}
  BY DEF Slots
<1> QED  BY <1>1, <1>5, <1>6, <1>7 DEF StillToLook

(* A look finds no slot twice, and is not the one look too many: that one  *)
(* needs a round with less than a batch to find.                           *)
LEMMA RoomAfterLook ==
  ASSUME IndInv, RoomForABatch, RoomSearchInv, SearchSlot
  PROVE  RoomSearchInv'
<1> DEFINE d == disk_page_index
           found == Append(wslots, d)
<1>1. /\ wpc = "search" /\ SearchHasRoom /\ NoSlotTwice
      /\ wslots \in Seq(Slots \ {0}) /\ Len(wslots) \in Nat
      /\ DOMAIN wslots = 1 .. Len(wslots)
      /\ d \in Slots \ {0} /\ disk_pages' = disk_pages
  BY LenProperties
     DEF SearchSlot, RoomSearchInv, IndInv, TypeOK, WriterTypeOK, SharedTypeOK
<1>2. /\ wi \in Nat /\ wi <= DiskPages - 1
      /\ DiskPages \in Nat /\ DiskPages >= 2 /\ MAXIMUM_WRITE_BATCH \in Nat \ {0}
      /\ Slots \ {0} = 1 .. DiskPages - 1
  BY <1>1, UsableSlots DEF SearchHasRoom
<1>3. FreeAhead \in SUBSET (Slots \ {0})
  BY DEF FreeAhead, StillToLook
<1>4. IsFiniteSet(FreeAhead) /\ Cardinality(FreeAhead) \in Nat
  BY <1>3, UsableSlots
<1>5. Cardinality(FreeAhead) + Len(wslots) >= MAXIMUM_WRITE_BATCH
  <2>1. CASE wi = 0
    <3>1. \A s \in Slots \ {0} : Ahead(s) < DiskPages - 1 - wi
      BY <1>1, <1>2, <2>1 DEF Ahead
    <3>2. FreeAhead = {s \in Slots \ {0} : disk_pages[s] = 0}
      BY <3>1 DEF FreeAhead, StillToLook
    <3> QED  BY <1>1, <1>2, <1>4, <2>1, <3>2 DEF RoomForABatch
  <2>2. CASE wi > 0
    BY <1>1, <2>2 DEF SearchHasRoom
  <2> QED  BY <1>2, <2>1, <2>2
<1>6. wi < DiskPages - 1
  <2> SUFFICES ASSUME wi = DiskPages - 1 PROVE FALSE
    BY <1>2
  <2>1. \A s \in Slots \ {0} : ~ Ahead(s) < DiskPages - 1 - wi
    BY <1>1, <1>2 DEF Ahead
  <2>2. FreeAhead = {}
    BY <2>1 DEF FreeAhead, StillToLook
  <2>3. Cardinality(FreeAhead) = 0
    BY <2>2, FS_EmptySet
  <2> QED  BY <1>1, <1>2, <1>5, <2>3 DEF SearchHasRoom
<1>7. /\ found \in Seq(Slots \ {0}) /\ Len(found) = Len(wslots) + 1
      /\ DOMAIN found = 1 .. Len(wslots) + 1
      /\ \A i \in 1 .. Len(wslots) : found[i] = wslots[i]
      /\ found[Len(wslots) + 1] = d
  BY <1>1, AppendProperties, LenProperties
<1>8. IsInjective(found)
  <2>1. d \in StillToLook
    <3>1. Ahead(d) = 0
      BY <1>1, <1>2 DEF Ahead
    <3> QED  BY <1>1, <1>2, <1>6, <3>1 DEF StillToLook
  <2>2. \A i \in 1 .. Len(wslots) : wslots[i] # d
    BY <1>1, <2>1 DEF SearchHasRoom
  <2> QED  BY <1>1, <1>7, <2>2 DEF NoSlotTwice, IsInjective
<1> HIDE DEF found
<1>9. NoSlotTwice'
  BY <1>1, <1>8 DEF SearchSlot, NoSlotTwice, found
<1>10. CASE wpc' # "search"
  BY <1>1, <1>9, <1>10 DEF SearchSlot, RoomSearchInv
<1>11. CASE wpc' = "search"
  <2>1. /\ wi' = wi + 1 /\ disk_page_index' = NextSlot(disk_page_index)
        /\ SlotIsFree(d) => Len(found) # MAXIMUM_WRITE_BATCH
        /\ wslots' = IF SlotIsFree(d) THEN found ELSE wslots
    BY <1>11 DEF SearchSlot, found
  <2>2. /\ d \in StillToLook /\ StillToLook' = StillToLook \ {d}
    BY <1>1, <1>2, <1>6, <2>1, OneSlotLess
  <2>3. FreeAhead' = FreeAhead \ {d}
    BY <1>1, <2>2 DEF FreeAhead
  <2>4. wi' \in 0 .. DiskPages - 1 /\ wi' > 0
    BY <1>2, <1>6, <2>1
  <2>5. CASE SlotIsFree(d)
    <3>1. wslots' = found /\ Len(found) # MAXIMUM_WRITE_BATCH
      BY <2>1, <2>5
    <3>2. d \in FreeAhead
      BY <2>2, <2>5 DEF FreeAhead, SlotIsFree
    <3>3. Cardinality(FreeAhead \ {d}) = Cardinality(FreeAhead) - 1
      BY <1>4, <3>2, FS_RemoveElement
    <3>4. Cardinality(FreeAhead') + Len(found) >= MAXIMUM_WRITE_BATCH
      BY <1>1, <1>2, <1>4, <1>5, <1>7, <2>3, <3>3
    <3>5. Len(found) < MAXIMUM_WRITE_BATCH
      BY <1>1, <1>2, <1>7, <3>1 DEF SearchHasRoom
    <3>6. \A i \in DOMAIN found : found[i] \notin StillToLook \ {d}
      BY <1>1, <1>7 DEF SearchHasRoom
    <3>7. SearchHasRoom'
      BY <2>2, <2>4, <3>1, <3>4, <3>5, <3>6 DEF SearchHasRoom
    <3> QED  BY <1>9, <1>11, <3>7 DEF RoomSearchInv
  <2>6. CASE ~ SlotIsFree(d)
    <3>1. wslots' = wslots
      BY <2>1, <2>6
    <3>2. FreeAhead' = FreeAhead
      BY <2>3, <2>6 DEF FreeAhead, SlotIsFree
    <3>3. SearchHasRoom'
      BY <1>1, <1>5, <2>2, <2>4, <3>1, <3>2 DEF SearchHasRoom
    <3> QED  BY <1>9, <1>11, <3>3 DEF RoomSearchInv
  <2> QED  BY <2>5, <2>6
<1> QED  BY <1>10, <1>11

(* The other threads clear slots, and leave the search where it is.        *)
LEMMA OthersOnlyClear ==
  ASSUME IndInv, UserStep \/ TrimmerStep
  PROVE  /\ UNCHANGED <<writerVars, disk_page_index>>
         /\ \A s \in Slots \ {0} : disk_pages[s] = 0 => disk_pages'[s] = 0
<1> DEFINE Clears == /\ UNCHANGED disk_page_index
                     /\ \/ UNCHANGED disk_pages
                        \/ \E slot : clearDiskSlot(slot)
<1>1. UNCHANGED writerVars
  BY DEF UserStep, TrimmerStep
<1>2. (\E va \in VAs : WriteVA(va) \/ FaultOn(va)) => Clears
  BY DEF WriteVA, FaultOn
<1>3. StartFault \/ ReadDisk \/ ZeroPage \/ SetValid \/ AddActive \/ MapVA => Clears
  BY DEF StartFault, ReadDisk, ZeroPage, SetValid, AddActive, MapVA
<1>4. Rescue \/ FreeSlot => Clears
  BY DEF Rescue, CheckModified, LockModified, RescueModified, CheckMidwrite,
         RescueMidwrite, CheckStandby, LockStandby, RescueStandby,
         ClearSlot, FreeSlot, CheckStatus, Lock
<1>5. GetFreePage => Clears
  BY DEF GetFreePage, PopFree, LockPageTable, LockStandbyList, PopStandby,
         SignalTrimmer, AwaitWriter, Lock
<1>6. TrimmerNext => Clears
  BY DEF TrimmerNext, AwaitTrimmer, PopVictims, TrimLockPageTable,
         TrimLockModified, TrimLock, MarkVictim, UnmapVictims, SignalWriter
<1>7. Clears
  BY <1>2, <1>3, <1>4, <1>5, <1>6 DEF UserStep, TrimmerStep, UserNext, HandleFault
<1>8. disk_pages \in [Slots -> {0, 1}]
  BY DEF IndInv, TypeOK, SharedTypeOK
<1>9. \A s \in Slots \ {0} : disk_pages[s] = 0 => disk_pages'[s] = 0
  BY <1>7, <1>8 DEF clearDiskSlot
<1> QED  BY <1>1, <1>7, <1>9

LEMMA RoomAfterOthers ==
  ASSUME IndInv, RoomSearchInv, UserStep \/ TrimmerStep
  PROVE  RoomSearchInv'
<1>1. /\ wpc' = wpc /\ wslots' = wslots /\ wi' = wi
      /\ disk_page_index' = disk_page_index
      /\ \A s \in Slots \ {0} : disk_pages[s] = 0 => disk_pages'[s] = 0
  BY OthersOnlyClear
<1>2. StillToLook' = StillToLook
  BY <1>1 DEF StillToLook, Ahead, Slots
<1>3. FreeAhead \subseteq FreeAhead' /\ FreeAhead' \in SUBSET (Slots \ {0})
  BY <1>1, <1>2 DEF FreeAhead, StillToLook
<1>4. FreeAhead \in SUBSET (Slots \ {0})
  BY DEF FreeAhead, StillToLook
<1>5. /\ IsFiniteSet(FreeAhead') /\ Cardinality(FreeAhead') \in Nat
      /\ Cardinality(FreeAhead) \in Nat
  BY <1>3, <1>4, UsableSlots
<1>6. Cardinality(FreeAhead) <= Cardinality(FreeAhead')
  BY <1>3, <1>5, FS_Subset
<1>7. Len(wslots) \in Nat /\ MAXIMUM_WRITE_BATCH \in Nat
  BY LenProperties, WriteBatchAssumption DEF IndInv, TypeOK, WriterTypeOK
<1>8. ASSUME SearchHasRoom PROVE SearchHasRoom'
  <2>1. wi > 0 =>
          Cardinality(FreeAhead') + Len(wslots) >= MAXIMUM_WRITE_BATCH
    BY <1>5, <1>6, <1>7, <1>8 DEF SearchHasRoom
  <2> QED  BY <1>1, <1>2, <1>8, <2>1 DEF SearchHasRoom
<1> QED  BY <1>1, <1>8 DEF RoomSearchInv, NoSlotTwice

LEMMA RoomNextInv ==
  IndInv /\ RoomForABatch /\ RoomSearchInv /\ [Next]_vars => RoomSearchInv'
<1> SUFFICES ASSUME IndInv, RoomForABatch, RoomSearchInv, [Next]_vars
             PROVE  RoomSearchInv'
  OBVIOUS
<1>1. /\ NoSlotTwice /\ Len(<<>>) = 0 /\ IsInjective(<<>>)
      /\ MAXIMUM_WRITE_BATCH \in Nat \ {0} /\ DiskPages \in Nat /\ DiskPages >= 2
      /\ wpc \in {"check", "wait"} => wslots = <<>>
      /\ \A i \in DOMAIN <<>> : FALSE
  BY EmptySeq, UsableSlots DEF RoomSearchInv, IndInv, WriterControl, IsInjective
<1>2. CASE UserStep \/ TrimmerStep
  BY <1>2, RoomAfterOthers
<1>3. CASE SearchSlot
  BY <1>3, RoomAfterLook
<1>4. CASE CheckModifiedList
  <2>1. /\ wslots' = <<>> /\ wi' = 0 /\ wpc' \in {"wait", "search"}
    BY <1>1, <1>4 DEF CheckModifiedList, RoomSearchInv
  <2>2. SearchHasRoom'
    BY <1>1, <2>1 DEF SearchHasRoom
  <2> QED  BY <1>1, <2>1, <2>2 DEF RoomSearchInv, NoSlotTwice
<1>5. CASE AwaitStart \/ WriteLockModified \/ PopModified
  BY <1>1, <1>5 DEF AwaitStart, WriteLockModified, WriteLock, PopModified,
                    RoomSearchInv, NoSlotTwice
<1>6. CASE EndPop \/ SignalUser
  BY <1>1, <1>6 DEF EndPop, SignalUser, RoomSearchInv, NoSlotTwice
<1>7. CASE CheckVictim \/ WriteLockStandby \/ WritePage \/ SkipRescued
  BY <1>1, <1>7 DEF CheckVictim, WriteLockStandby, WriteLock, WritePage,
                    SkipRescued, NextVictim, RoomSearchInv, NoSlotTwice
<1>8. CASE UNCHANGED vars
  BY <1>8 DEF vars, RoomSearchInv, NoSlotTwice, SearchHasRoom, FreeAhead,
              StillToLook, Ahead
<1> QED
  BY <1>2, <1>3, <1>4, <1>5, <1>6, <1>7, <1>8 DEF Next, WriterStep, WriterNext

(* A slot can be found twice only by a search that begins with fewer free  *)
(* slots than a batch: with room, the batch is full before the round is    *)
(* over (writer.c:49-57), however many slots are cleared meanwhile.        *)
THEOREM NoSlotIsTwiceWithRoom == Spec /\ []RoomForABatch => []NoSlotTwice
<1>1. Init => RoomSearchInv
  BY EmptySeq DEF Init, InitWriter, RoomSearchInv, NoSlotTwice, IsInjective
<1>2. RoomSearchInv => NoSlotTwice
  BY DEF RoomSearchInv
<1> QED  BY <1>1, <1>2, RoomNextInv, IndInvariant, PTL DEF Spec

(* So slots stay in step with pages, with batches of any size, as long as  *)
(* the disk is not nearly full when the writer goes to search.             *)
THEOREM SlotsStayInStepWithRoom == Spec /\ []RoomForABatch => []SlotInv
BY NoSlotIsTwiceWithRoom, SlotsStayInStep, PTL

(* Whatever the size of a write, no slot stays marked for nothing: even    *)
(* when a slot is found twice and two pages share it (writer.c:49), every  *)
(* slot in use holds a page's copy or is about to be cleared.              *)
THEOREM NoSlotEverLeaks == Spec => []NoSlotLeaks
<1>1. Init => NoSlotLeaks
  BY SlotInit DEF SlotInv
<1> QED  BY <1>1, LeaksNextInv, IndInvariant, StandbyAlwaysHasSlot, PTL DEF Spec
------------------------------------------------------------------------------
(* When all frames are taken, the pages left over are fewer than the slots *)
(* (initializer.h:30-32), and no slot leaks: so one is free.               *)

(* As many frames as were handed out.                                      *)
LEMMA FramesAreFinite == IsFiniteSet(Frames) /\ Cardinality(Frames) \in Nat
<1> DEFINE Order == physical_page_numbers
<1>1. Order \in Seq(Frames) /\ Len(Order) \in Nat /\ DOMAIN Order = 1 .. Len(Order)
  BY StateAssumption, LenProperties
<1>2. IsFiniteSet(DOMAIN Order)
  BY <1>1, FS_Interval
<1>3. Order \in [DOMAIN Order -> Frames]
  BY <1>1, ElementOfSeq
<1>4. \A f \in Frames : \E i \in DOMAIN Order : Order[i] = f
  BY StateAssumption DEF ToSet
<1>5. Order \in Surjection(DOMAIN Order, Frames)
  BY <1>3, <1>4, Fun_IsSurj
<1> QED  BY <1>2, <1>5, FS_Surjection, FS_CardinalityType

(* A set of pages whose entries name every member of a set is as large.    *)
LEMMA PagesEnough ==
  ASSUME NEW P \in SUBSET VAs, NEW T,
         \A va \in P : pageTable[va].index \in T,
         \A t \in T : \E va \in P : pageTable[va].index = t
  PROVE  /\ IsFiniteSet(P) /\ Cardinality(P) \in Nat
         /\ Cardinality(T) <= Cardinality(P)
<1> DEFINE index == [va \in P |-> pageTable[va].index]
<1>1. IsFiniteSet(P) /\ Cardinality(P) \in Nat
  BY SizeAssumption, FS_Subset, FS_CardinalityType
<1>2. index \in Surjection(P, T)
  BY Fun_IsSurj
<1> QED  BY <1>1, <1>2, FS_Surjection

(* When the user waits and no frame is free or on standby, every frame     *)
(* backs a page.                                                           *)
LEMMA EveryFrameBacksAPage ==
  ASSUME IndInv, upc = "await", freeList = <<>>, standbyList = <<>>
  PROVE  \A f \in Frames : \E va \in VAs :
           Resident(pageTable[va]) /\ pageTable[va].index = f
<1> SUFFICES ASSUME NEW f \in Frames
             PROVE  \E va \in VAs : /\ Resident(pageTable[va])
                                    /\ pageTable[va].index = f
  OBVIOUS
<1>1. ~ On(freeList, f) /\ ~ On(standbyList, f)
  BY DEF On
<1>2. uframe # f
  BY StateAssumption DEF IndInv, UserControl, PopPC
<1>3. ~ InUserHand(f)
  BY <1>2 DEF InUserHand
<1>4. pfnStatus[f] \in {PFN_ACTIVE, PFN_MODIFIED, PFN_MIDWRITE}
  BY <1>1, <1>3 DEF IndInv, StatusIsPlace, TypeOK, SharedTypeOK, PfnStatus
<1>5. /\ pfnPte[f] \in VAs /\ pageTable[pfnPte[f]].index = f
      /\ \/ pageTable[pfnPte[f]].valid = 1
         \/ IS_PTE_TRANSITION(pageTable[pfnPte[f]])
  <2>1. CASE pfnStatus[f] = PFN_ACTIVE
    BY <2>1 DEF IndInv, StatusIsPlace, FramesNamePages
  <2>2. CASE pfnStatus[f] \in {PFN_MODIFIED, PFN_MIDWRITE}
    BY <2>2 DEF IndInv, FramesNamePages
  <2> QED  BY <1>4, <2>1, <2>2
<1> QED  BY <1>5 DEF Resident, IS_PTE_TRANSITION

(* When no page is on standby, a slot in use is named by a page on disk.   *)
LEMMA EverySlotHoldsAPage ==
  ASSUME IndInv, NoSlotLeaks, upc = "await", standbyList = <<>>,
         NEW s \in Slots \ {0}, disk_pages[s] = 1
  PROVE  \E va \in VAs : ~ Resident(pageTable[va]) /\ pageTable[va].index = s
<1>1. PICK va \in VAs : va \in PagesIn(s)
  BY PagesInAreVAs DEF NoSlotLeaks
<1>2. CASE /\ IS_PTE_TRANSITION(pageTable[va])
           /\ pfnStatus[pageTable[va].index] = PFN_STANDBY
  <2>1. pfnStatus[pageTable[va].index] \notin
          {PFN_MODIFIED, PFN_MIDWRITE, PFN_MIDRESCUE}
    BY <1>2
  <2>2. On(standbyList, pageTable[va].index)
    BY <1>2, <2>1 DEF IndInv, PagesNameFrames
  <2> QED  BY <2>2 DEF On
<1> QED  BY <1>1, <1>2 DEF PagesIn

LEMMA RoomInv == IndInv /\ NoSlotLeaks => RoomWhenBlocked
<1> SUFFICES ASSUME IndInv, NoSlotLeaks, upc = "await",
                    freeList = <<>>, standbyList = <<>>,
                    \A s \in Slots \ {0} : disk_pages[s] # 0
             PROVE  FALSE
  BY DEF RoomWhenBlocked, IsListEmpty
<1> DEFINE InFrames == {va \in VAs : Resident(pageTable[va])}
           OnDisk == {va \in VAs : /\ ~ Resident(pageTable[va])
                                   /\ pageTable[va].index \in Slots \ {0}}
<1>1. \A s \in Slots \ {0} : disk_pages[s] = 1
  BY DEF IndInv, TypeOK, SharedTypeOK
<1>2. /\ IsFiniteSet(InFrames) /\ Cardinality(InFrames) \in Nat
      /\ Cardinality(Frames) <= Cardinality(InFrames)
  <2>1. \A va \in InFrames : pageTable[va].index \in Frames
    BY DEF IndInv, PagesNameFrames
  <2>2. \A f \in Frames : \E va \in InFrames : pageTable[va].index = f
    BY EveryFrameBacksAPage
  <2> QED  BY <2>1, <2>2, PagesEnough
<1>3. /\ IsFiniteSet(OnDisk) /\ Cardinality(OnDisk) \in Nat
      /\ Cardinality(Slots \ {0}) <= Cardinality(OnDisk)
  <2>1. \A s \in Slots \ {0} : \E va \in OnDisk : pageTable[va].index = s
    BY <1>1, EverySlotHoldsAPage
  <2> QED  BY <2>1, PagesEnough
<1>4. Cardinality(Slots \ {0}) = DiskPages - 1
  <2>1. Slots \ {0} = 1 .. DiskPages - 1
    BY StateAssumption DEF Slots
  <2>2. 1 \in Int /\ DiskPages - 1 \in Int /\ ~ 1 > DiskPages - 1
    BY StateAssumption
  <2>3. Cardinality(1 .. DiskPages - 1) = (DiskPages - 1) - 1 + 1
    BY <2>2, FS_Interval
  <2>4. (DiskPages - 1) - 1 + 1 = DiskPages - 1
    BY StateAssumption
  <2> QED  BY <2>1, <2>3, <2>4
<1>5. Cardinality(InFrames \cup OnDisk)
        = Cardinality(InFrames) + Cardinality(OnDisk)
  <2>1. InFrames \cap OnDisk = {}
    OBVIOUS
  <2>2. Cardinality(InFrames \cap OnDisk) = 0
    BY <2>1, FS_EmptySet
  <2> HIDE DEF InFrames, OnDisk
  <2>3. Cardinality(InFrames \cup OnDisk)
          = Cardinality(InFrames) + Cardinality(OnDisk)
              - Cardinality(InFrames \cap OnDisk)
    BY <1>2, <1>3, FS_Union
  <2> QED  BY <1>2, <1>3, <2>2, <2>3
<1>6. Cardinality(InFrames \cup OnDisk) <= Cardinality(VAs)
  <2>1. InFrames \cup OnDisk \in SUBSET VAs
    OBVIOUS
  <2> HIDE DEF InFrames, OnDisk
  <2> QED  BY <2>1, SizeAssumption, FS_Subset
<1> HIDE DEF InFrames, OnDisk
<1> QED
  BY <1>2, <1>3, <1>4, <1>5, <1>6, SizeAssumption, StateAssumption,
     FramesAreFinite

(* Whenever the user waits for a page to be written and no frame can be    *)
(* had, there is a slot to write one to, for every number of frames and    *)
(* disk pages and every size of a batch: the pages outnumber the frames by *)
(* one less than the slots (initializer.h:30-32), and no slot leaks.       *)
THEOREM AlwaysRoomWhenBlocked == Spec => []RoomWhenBlocked
BY RoomInv, NoSlotEverLeaks, IndInvariant, PTL
------------------------------------------------------------------------------
(* The search for free slots (module DiskSearch), for every size of disk   *)
(* and batch.                                                              *)

(* How many looks after the first one the search comes to a slot.          *)
Distance(s) == IF s >= first THEN s - first ELSE s - first + (DiskPages - 1)

SearchTypeOK ==
  /\ disk_pages \in [Slots -> {0, 1}]
  /\ disk_page_index \in Slots \ {0}
  /\ wslots \in Seq(Slots \ {0})
  /\ wpc \in {"search", "lockModified"}
  /\ wi \in 0 .. DiskPages - 1
  /\ first \in Slots \ {0}
  /\ freeAtFirst \in SUBSET (Slots \ {0})

(* Where the search is after wi looks: after as many as there are slots it *)
(* is back at the first.                                                   *)
SearchPosition ==
  /\ wi < DiskPages - 1 => Distance(disk_page_index) = wi
  /\ wi = DiskPages - 1 => disk_page_index = first

(* While it goes on, the slots found are in the order of the looks, and    *)
(* every slot that was free and has been looked at is among them.          *)
SearchGoesRound ==
  /\ SearchPosition
  /\ \A i, j \in DOMAIN wslots : i < j => Distance(wslots[i]) < Distance(wslots[j])
  /\ \A i \in DOMAIN wslots : Distance(wslots[i]) < wi
  /\ \A s \in freeAtFirst : disk_pages[s] = 0
  /\ \A s \in freeAtFirst : Distance(s) < wi => On(wslots, s)
  /\ Len(wslots) < MAXIMUM_WRITE_BATCH

SearchIndInv ==
  /\ SearchTypeOK
  /\ NoFreeSlotIsMissed /\ OnlyFirstSlotTwice
  /\ wpc = "search" => SearchGoesRound
  /\ wpc = "lockModified" => wi = 0

(* Distances are different for different slots, and less than the number   *)
(* of slots.                                                               *)
LEMMA Distances ==
  ASSUME SearchTypeOK
  PROVE  /\ \A s \in Slots \ {0} : Distance(s) \in 0 .. DiskPages - 2
         /\ \A s, t \in Slots \ {0} : Distance(s) = Distance(t) => s = t
         /\ Distance(first) = 0
<1>1. Slots \ {0} = 1 .. DiskPages - 1 /\ DiskPages \in Nat
  BY StateAssumption DEF Slots
<1>2. first \in 1 .. DiskPages - 1
  BY <1>1 DEF SearchTypeOK
<1> QED  BY <1>1, <1>2 DEF Distance

(* One look on, the search is one slot further round.                      *)
LEMMA OneSlotFurther ==
  ASSUME SearchTypeOK, wi < DiskPages - 1, Distance(disk_page_index) = wi
  PROVE  LET next == NextSlot(disk_page_index) IN
           /\ next \in Slots \ {0}
           /\ wi + 1 < DiskPages - 1 => Distance(next) = wi + 1
           /\ wi + 1 = DiskPages - 1 => next = first
<1>1. Slots \ {0} = 1 .. DiskPages - 1 /\ DiskPages \in Nat
  BY StateAssumption DEF Slots
<1>2. /\ first \in 1 .. DiskPages - 1
      /\ disk_page_index \in 1 .. DiskPages - 1
      /\ wi \in Nat
  BY <1>1 DEF SearchTypeOK
<1>3. CASE disk_page_index + 1 = DiskPages
  BY <1>1, <1>2, <1>3 DEF Distance, NextSlot
<1>4. CASE disk_page_index + 1 # DiskPages
  BY <1>1, <1>2, <1>4 DEF Distance, NextSlot
<1> QED  BY <1>3, <1>4

LEMMA OnIsToSet == \A list, e : On(list, e) <=> e \in ToSet(list)
BY DEF On, ToSet

(* When a slot is found: where it goes in the batch.                       *)
LEMMA FoundSlot ==
  ASSUME SearchTypeOK, NEW e \in Slots \ {0}
  PROVE  LET found == Append(wslots, e) IN
           /\ found \in Seq(Slots \ {0}) /\ Len(found) = Len(wslots) + 1
           /\ Len(wslots) \in Nat
           /\ DOMAIN wslots = 1 .. Len(wslots)
           /\ DOMAIN found = 1 .. Len(wslots) + 1
           /\ \A i \in 1 .. Len(wslots) : found[i] = wslots[i]
           /\ found[Len(wslots) + 1] = e
           /\ \A s : On(found, s) <=> On(wslots, s) \/ s = e
<1>1. wslots \in Seq(Slots \ {0})
  BY DEF SearchTypeOK
<1>2. \A s : On(Append(wslots, e), s) <=> On(wslots, s) \/ s = e
  BY <1>1, AddEntry DEF add_entry
<1> QED  BY <1>1, <1>2, AppendProperties, LenProperties

(* What a look does, whatever it finds: the batch, and where the search    *)
(* goes on.                                                                *)
LEMMA OneLook ==
  ASSUME SearchTypeOK, SearchSlot
  PROVE  \E found \in Seq(Slots \ {0}) :
           /\ wpc = "search" /\ wslots' = found /\ disk_pages' = disk_pages
           /\ \A s : On(found, s) <=> On(wslots, s) \/ (disk_pages[disk_page_index] = 0 /\ s = disk_page_index)
           /\ \A i \in 1 .. Len(found) :
                \/ i \in 1 .. Len(wslots) /\ found[i] = wslots[i]
                \/ /\ i = Len(found) /\ i = Len(wslots) + 1
                   /\ found[i] = disk_page_index /\ disk_pages[disk_page_index] = 0
           /\ IF disk_pages[disk_page_index] = 0 THEN Len(found) = Len(wslots) + 1 ELSE found = wslots
           /\ \/ /\ disk_pages[disk_page_index] = 0 /\ Len(found) = MAXIMUM_WRITE_BATCH
                 /\ wpc' = "lockModified" /\ wi' = 0
                 /\ disk_page_index' = disk_page_index
              \/ /\ ~ (disk_pages[disk_page_index] = 0 /\ Len(found) = MAXIMUM_WRITE_BATCH)
                 /\ wi + 1 = DiskPages
                 /\ wpc' = "lockModified" /\ wi' = 0
                 /\ disk_page_index' = NextSlot(disk_page_index)
              \/ /\ ~ (disk_pages[disk_page_index] = 0 /\ Len(found) = MAXIMUM_WRITE_BATCH)
                 /\ wi + 1 # DiskPages
                 /\ wpc' = "search" /\ wi' = wi + 1
                 /\ disk_page_index' = NextSlot(disk_page_index)
<1>1. /\ wslots \in Seq(Slots \ {0}) /\ Len(wslots) \in Nat
      /\ DOMAIN wslots = 1 .. Len(wslots) /\ disk_page_index \in Slots \ {0}
  BY LenProperties DEF SearchTypeOK
<1>2. CASE SlotIsFree(disk_page_index)
  <2>1. PICK found : found = Append(wslots, disk_page_index)
    OBVIOUS
  <2>2. /\ found \in Seq(Slots \ {0}) /\ Len(found) = Len(wslots) + 1
        /\ \A i \in 1 .. Len(wslots) : found[i] = wslots[i]
        /\ found[Len(wslots) + 1] = disk_page_index
        /\ \A s : On(found, s) <=> On(wslots, s) \/ s = disk_page_index
    BY <1>1, <2>1, FoundSlot
  <2>3. \A i \in 1 .. Len(found) :
          \/ i \in 1 .. Len(wslots) /\ found[i] = wslots[i]
          \/ /\ i = Len(found) /\ i = Len(wslots) + 1
             /\ found[i] = disk_page_index
    BY <1>1, <2>2
  <2>4. /\ disk_pages[disk_page_index] = 0
        /\ wpc = "search" /\ wslots' = found /\ disk_pages' = disk_pages
    BY <1>2, <2>1 DEF SearchSlot, SlotIsFree
  <2>5. \/ /\ Len(found) = MAXIMUM_WRITE_BATCH
           /\ wpc' = "lockModified" /\ wi' = 0
           /\ disk_page_index' = disk_page_index
        \/ /\ Len(found) # MAXIMUM_WRITE_BATCH /\ wi + 1 = DiskPages
           /\ wpc' = "lockModified" /\ wi' = 0
           /\ disk_page_index' = NextSlot(disk_page_index)
        \/ /\ Len(found) # MAXIMUM_WRITE_BATCH /\ wi + 1 # DiskPages
           /\ wpc' = "search" /\ wi' = wi + 1
           /\ disk_page_index' = NextSlot(disk_page_index)
    BY <1>2, <2>1 DEF SearchSlot
  <2> found \in Seq(Slots \ {0})
    BY <2>2
  <2> WITNESS found \in Seq(Slots \ {0})
  <2> QED  BY <2>2, <2>3, <2>4, <2>5
<1>3. CASE ~ SlotIsFree(disk_page_index)
  <2>1. /\ disk_pages[disk_page_index] # 0
        /\ wpc = "search" /\ wslots' = wslots /\ disk_pages' = disk_pages
    BY <1>3 DEF SearchSlot, SlotIsFree
  <2>2. \/ /\ wi + 1 = DiskPages
           /\ wpc' = "lockModified" /\ wi' = 0
           /\ disk_page_index' = NextSlot(disk_page_index)
        \/ /\ wi + 1 # DiskPages
           /\ wpc' = "search" /\ wi' = wi + 1
           /\ disk_page_index' = NextSlot(disk_page_index)
    BY <1>3 DEF SearchSlot
  <2>3. ~ (disk_pages[disk_page_index] = 0 /\ Len(wslots) = MAXIMUM_WRITE_BATCH)
    BY <2>1
  <2>4. \A s : On(wslots, s) <=>
          On(wslots, s) \/ (disk_pages[disk_page_index] = 0 /\ s = disk_page_index)
    BY <2>1
  <2>5. \A i \in 1 .. Len(wslots) :
          \/ i \in 1 .. Len(wslots) /\ wslots[i] = wslots[i]
          \/ /\ i = Len(wslots) /\ i = Len(wslots) + 1
             /\ wslots[i] = disk_page_index /\ disk_pages[disk_page_index] = 0
    OBVIOUS
  <2> wslots \in Seq(Slots \ {0})
    BY <1>1
  <2> WITNESS wslots \in Seq(Slots \ {0})
  <2> QED  BY <2>1, <2>2, <2>3, <2>4, <2>5
<1> QED  BY <1>2, <1>3

(* A look at a slot before the round is over.                              *)
LEMMA LookAhead ==
  ASSUME SearchIndInv, SearchSlot, UNCHANGED <<first, freeAtFirst>>,
         wi < DiskPages - 1
  PROVE  SearchIndInv'
<1>1. /\ SearchTypeOK /\ SearchGoesRound
      /\ disk_page_index \in Slots \ {0} /\ wi \in Nat
      /\ DiskPages \in Nat /\ MAXIMUM_WRITE_BATCH \in Nat
  BY StateAssumption, WriteBatchAssumption
     DEF SearchIndInv, SearchTypeOK, SearchSlot
<1>2. PICK found \in Seq(Slots \ {0}) :
        /\ wpc = "search" /\ wslots' = found /\ disk_pages' = disk_pages
        /\ \A s : On(found, s) <=> On(wslots, s) \/ (disk_pages[disk_page_index] = 0 /\ s = disk_page_index)
        /\ \A i \in 1 .. Len(found) :
             \/ i \in 1 .. Len(wslots) /\ found[i] = wslots[i]
             \/ /\ i = Len(found) /\ i = Len(wslots) + 1
                /\ found[i] = disk_page_index /\ disk_pages[disk_page_index] = 0
        /\ IF disk_pages[disk_page_index] = 0 THEN Len(found) = Len(wslots) + 1 ELSE found = wslots
        /\ \/ /\ disk_pages[disk_page_index] = 0 /\ Len(found) = MAXIMUM_WRITE_BATCH
              /\ wpc' = "lockModified" /\ wi' = 0
              /\ disk_page_index' = disk_page_index
           \/ /\ ~ (disk_pages[disk_page_index] = 0 /\ Len(found) = MAXIMUM_WRITE_BATCH)
              /\ wi + 1 = DiskPages
              /\ wpc' = "lockModified" /\ wi' = 0
              /\ disk_page_index' = NextSlot(disk_page_index)
           \/ /\ ~ (disk_pages[disk_page_index] = 0 /\ Len(found) = MAXIMUM_WRITE_BATCH)
              /\ wi + 1 # DiskPages
              /\ wpc' = "search" /\ wi' = wi + 1
              /\ disk_page_index' = NextSlot(disk_page_index)
  BY <1>1, OneLook
<1>3. /\ wslots \in Seq(Slots \ {0}) /\ Len(wslots) \in Nat
      /\ Len(found) \in Nat
      /\ DOMAIN wslots = 1 .. Len(wslots) /\ DOMAIN found = 1 .. Len(found)
      /\ \A i \in 1 .. Len(wslots) : wslots[i] \in Slots \ {0}
      /\ \A i \in 1 .. Len(found) : found[i] \in Slots \ {0}
  <2>1. wslots \in Seq(Slots \ {0}) /\ found \in Seq(Slots \ {0})
    BY <1>1 DEF SearchTypeOK
  <2> QED  BY <2>1, LenProperties, ElementOfSeq
<1>4. Distance(disk_page_index) = wi
  BY <1>1 DEF SearchGoesRound, SearchPosition
<1>5. /\ NextSlot(disk_page_index) \in Slots \ {0}
      /\ wi + 1 < DiskPages - 1 => Distance(NextSlot(disk_page_index)) = wi + 1
      /\ wi + 1 = DiskPages - 1 => NextSlot(disk_page_index) = first
  BY <1>1, <1>4, OneSlotFurther
<1>6. \A s : Distance(s)' = Distance(s)
  BY DEF Distance
<1>7. SearchTypeOK'
  <2>1. wi' \in 0 .. DiskPages - 1
    BY <1>1, <1>2
  <2>2. disk_page_index' \in Slots \ {0} /\ wpc' \in {"search", "lockModified"}
    BY <1>1, <1>2, <1>5
  <2> QED  BY <1>1, <1>2, <2>1, <2>2 DEF SearchTypeOK
<1>9. \A s \in Slots \ {0} : Distance(s) \in Int
  BY <1>1, Distances
<1>10. \A i \in 1 .. Len(wslots) : Distance(wslots[i]) < wi
  BY <1>1, <1>3 DEF SearchGoesRound
<1>11. \A i, j \in 1 .. Len(wslots) :
         i < j => Distance(wslots[i]) < Distance(wslots[j])
  BY <1>1, <1>3 DEF SearchGoesRound
<1>12. ASSUME NEW i \in 1 .. Len(found), NEW j \in 1 .. Len(found), i < j
       PROVE  Distance(found[i]) < Distance(found[j])
  <2>1. i \in 1 .. Len(wslots) /\ found[i] = wslots[i]
    <3>1. Len(found) \in Nat /\ i \in Int /\ j \in Int /\ j <= Len(found)
      BY <1>3
    <3>2. i # Len(found)
      BY <1>12, <3>1
    <3> QED  BY <1>2, <3>2
  <2>2. CASE j \in 1 .. Len(wslots) /\ found[j] = wslots[j]
    BY <1>11, <1>12, <2>1, <2>2
  <2>3. CASE found[j] = disk_page_index
    BY <1>4, <1>10, <2>1, <2>3
  <2> QED  BY <1>2, <2>2, <2>3
<1>13. ASSUME NEW i \in 1 .. Len(found)
       PROVE  Distance(found[i]) < wi + 1
  <2>1. CASE i \in 1 .. Len(wslots) /\ found[i] = wslots[i]
    <3>1. Distance(wslots[i]) \in Int /\ Distance(wslots[i]) < wi
      BY <1>3, <1>9, <1>10, <2>1
    <3> QED  BY <1>1, <2>1, <3>1
  <2>2. CASE found[i] = disk_page_index
    BY <1>1, <1>4, <2>2
  <2> QED  BY <1>2, <2>1, <2>2
<1>14. ASSUME NEW s \in freeAtFirst, Distance(s) < wi + 1
       PROVE  On(found, s)
  <2>1. s \in Slots \ {0} /\ Distance(s) \in Int
    BY <1>1, <1>9 DEF SearchTypeOK
  <2>2. CASE Distance(s) = wi
    <3>1. s = disk_page_index
      BY <1>1, <1>4, <2>1, <2>2, Distances
    <3>2. disk_pages[disk_page_index] = 0
      BY <1>1, <1>2, <3>1 DEF SearchGoesRound
    <3> QED  BY <1>2, <3>1, <3>2
  <2>3. CASE Distance(s) < wi
    BY <1>1, <1>2, <2>3 DEF SearchGoesRound
  <2> QED  BY <1>1, <1>14, <2>1, <2>2, <2>3
<1>15. \A i, j \in 1 .. Len(found) : i < j => found[i] # found[j]
  <2> SUFFICES ASSUME NEW i \in 1 .. Len(found), NEW j \in 1 .. Len(found), i < j
               PROVE  found[i] # found[j]
    OBVIOUS
  <2>1. Distance(found[i]) < Distance(found[j])
    BY <1>12
  <2>2. Distance(found[i]) \in Int
    BY <1>3, <1>9
  <2>3. CASE found[i] = found[j]
    BY <2>1, <2>2, <2>3
  <2> QED  BY <2>3
<1>16. OnlyFirstSlotTwice'
  <2>1. wslots' = found
    BY <1>2
  <2> QED  BY <1>3, <1>15, <2>1 DEF OnlyFirstSlotTwice
<1>17. CASE wpc' = "lockModified"
  <2>1. wi' = 0 /\ Len(found) = MAXIMUM_WRITE_BATCH
    BY <1>1, <1>2, <1>17
  <2> QED  BY <1>1, <1>2, <1>3, <1>7, <1>16, <1>17, <2>1
           DEF SearchIndInv, NoFreeSlotIsMissed
<1>18. CASE wpc' # "lockModified"
  <2>1. /\ wpc' = "search" /\ wi' = wi + 1
        /\ disk_page_index' = NextSlot(disk_page_index)
        /\ ~ (disk_pages[disk_page_index] = 0 /\ Len(found) = MAXIMUM_WRITE_BATCH)
    BY <1>2, <1>18
  <2>2. Len(found) < MAXIMUM_WRITE_BATCH
    <3>1. Len(wslots) < MAXIMUM_WRITE_BATCH
      BY <1>1 DEF SearchGoesRound
    <3>2. CASE disk_pages[disk_page_index] = 0
      <4>1. Len(found) = Len(wslots) + 1 /\ Len(found) # MAXIMUM_WRITE_BATCH
        BY <1>2, <2>1, <3>2
      <4> QED  BY <1>1, <1>3, <3>1, <4>1
    <3>3. CASE disk_pages[disk_page_index] # 0
      BY <1>2, <3>1, <3>3
    <3> QED  BY <3>2, <3>3
  <2>3. SearchPosition'
    <3>1. Distance(disk_page_index)' = Distance(NextSlot(disk_page_index))
      BY <2>1 DEF Distance
    <3>2. DiskPages - 1 \in Int /\ wi + 1 \in Int
      BY <1>1
    <3> QED  BY <1>5, <2>1, <3>1, <3>2 DEF SearchPosition
  <2>4. /\ \A i, j \in DOMAIN found :
             i < j => Distance(found[i])' < Distance(found[j])'
        /\ \A i \in DOMAIN found : Distance(found[i])' < wi + 1
    BY <1>3, <1>6, <1>12, <1>13
  <2>5. /\ \A s \in freeAtFirst' : disk_pages'[s] = 0
        /\ \A s \in freeAtFirst' : Distance(s)' < wi' => On(wslots', s)
    BY <1>1, <1>2, <1>6, <1>14, <2>1 DEF SearchGoesRound
  <2>6. SearchGoesRound'
    BY <1>2, <2>1, <2>2, <2>3, <2>4, <2>5 DEF SearchGoesRound
  <2> QED  BY <1>7, <1>16, <2>1, <2>6 DEF SearchIndInv, NoFreeSlotIsMissed
<1> QED  BY <1>17, <1>18

(* The look that is one too many: back at the first slot, which is found   *)
(* again if it was found, and found if it was cleared meanwhile.           *)
LEMMA LookAgain ==
  ASSUME SearchIndInv, SearchSlot, UNCHANGED <<first, freeAtFirst>>,
         wi = DiskPages - 1
  PROVE  SearchIndInv'
<1> DEFINE d == disk_page_index
           free == SlotIsFree(d)
           found == IF free THEN Append(wslots, d) ELSE wslots
           full == free /\ Len(found) = MAXIMUM_WRITE_BATCH
<1>1. /\ wpc = "search" /\ wslots' = found /\ UNCHANGED <<disk_pages>>
      /\ d' = IF full THEN d ELSE NextSlot(d)
      /\ wpc' = "lockModified" /\ wi' = 0
  BY StateAssumption DEF SearchSlot
<1>2. /\ SearchTypeOK /\ SearchGoesRound
      /\ d \in Slots \ {0} /\ DiskPages \in Nat /\ DiskPages >= 2
  BY <1>1, StateAssumption DEF SearchIndInv, SearchTypeOK
<1>3. d = first
  BY <1>2 DEF SearchGoesRound, SearchPosition
<1>4. NextSlot(d) \in Slots \ {0}
  BY <1>2 DEF NextSlot, Slots
<1>5. /\ found \in Seq(Slots \ {0}) /\ Len(found) \in Nat
      /\ \A s : On(found, s) <=> On(wslots, s) \/ (free /\ s = d)
      /\ \A i \in DOMAIN found :
           \/ i \in DOMAIN wslots /\ found[i] = wslots[i]
           \/ free /\ i = Len(found) /\ found[i] = d
      /\ DOMAIN wslots = 1 .. Len(wslots) /\ DOMAIN found = 1 .. Len(found)
      /\ \A i \in DOMAIN wslots : wslots[i] \in Slots \ {0}
      /\ Len(wslots) \in Nat
  <2>1. /\ wslots \in Seq(Slots \ {0}) /\ Len(wslots) \in Nat
        /\ DOMAIN wslots = 1 .. Len(wslots)
    BY <1>2, LenProperties DEF SearchTypeOK
  <2>2. CASE free
    BY <1>2, <2>1, <2>2, FoundSlot
  <2>3. CASE ~ free
    BY <2>1, <2>3
  <2> QED  BY <2>1, <2>2, <2>3
<1> HIDE DEF found, free, d, full
<1>6. SearchTypeOK'
  BY <1>1, <1>2, <1>4, <1>5 DEF SearchTypeOK, d
<1>8. \A s \in freeAtFirst : On(wslots, s)
  <2>1. \A s \in freeAtFirst : Distance(s) < wi
    BY <1>2, Distances DEF SearchTypeOK
  <2> QED  BY <1>2, <2>1 DEF SearchGoesRound
<1>9. freeAtFirst \subseteq ToSet(found)
  BY <1>5, <1>8, OnIsToSet
<1>10. ASSUME NEW i \in DOMAIN found, NEW j \in DOMAIN found,
              i < j, found[i] = found[j]
       PROVE  i = 1 /\ j = Len(found) /\ found[i] = first
  <2>1. \A k \in DOMAIN wslots : Distance(wslots[k]) \in Int
                                 /\ Distance(wslots[k]) >= 0
    BY <1>2, <1>5, Distances
  <2>2. i \in DOMAIN wslots /\ found[i] = wslots[i]
    BY <1>5, <1>10
  <2>3. ~ (j \in DOMAIN wslots /\ found[j] = wslots[j])
    BY <1>2, <1>10, <2>1, <2>2 DEF SearchGoesRound
  <2>4. j = Len(found) /\ found[j] = first
    BY <1>3, <1>5, <2>3
  <2>5. Distance(wslots[i]) = 0
    BY <1>2, <1>10, <2>2, <2>4, Distances
  <2>6. ~ 1 < i
    BY <1>2, <1>5, <2>1, <2>2, <2>5 DEF SearchGoesRound
  <2> QED  BY <1>5, <1>10, <2>4, <2>6
<1> QED
  BY <1>1, <1>6, <1>9, <1>10
     DEF SearchIndInv, NoFreeSlotIsMissed, OnlyFirstSlotTwice

(* Clearing a slot disturbs nothing: those that were free from the first   *)
(* are clear already.                                                      *)
LEMMA ClearingKeepsSearch ==
  ASSUME SearchIndInv, UserClears
  PROVE  SearchIndInv'
<1>1. PICK slot \in Slots \ {0} : disk_pages' = [disk_pages EXCEPT ![slot] = 0]
  BY DEF UserClears, clearDiskSlot
<1>2. /\ wslots' = wslots /\ wpc' = wpc /\ wi' = wi /\ first' = first
      /\ freeAtFirst' = freeAtFirst /\ disk_page_index' = disk_page_index
  BY DEF UserClears, writerVars
<1>3. SearchTypeOK
  BY DEF SearchIndInv
<1>4. disk_pages' \in [Slots -> {0, 1}]
  BY <1>1, <1>3 DEF SearchTypeOK
<1>5. \A s \in Slots \ {0} : disk_pages[s] = 0 => disk_pages'[s] = 0
  BY <1>1, <1>3 DEF SearchTypeOK
<1>6. SearchTypeOK'
  BY <1>2, <1>3, <1>4 DEF SearchTypeOK
<1>8. NoFreeSlotIsMissed' /\ OnlyFirstSlotTwice'
  BY <1>2 DEF SearchIndInv, NoFreeSlotIsMissed, OnlyFirstSlotTwice
<1>9. ASSUME wpc = "search"
      PROVE  SearchGoesRound'
  <2>1. SearchGoesRound
    BY <1>9 DEF SearchIndInv
  <2>2. \A s : Distance(s)' = Distance(s)
    BY <1>2 DEF Distance
  <2>3. SearchPosition'
    BY <1>2, <2>1 DEF SearchGoesRound, SearchPosition, Distance
  <2>4. \A s \in freeAtFirst : disk_pages'[s] = 0
    BY <1>3, <1>5, <2>1 DEF SearchGoesRound, SearchTypeOK
  <2> QED  BY <1>2, <2>1, <2>2, <2>3, <2>4 DEF SearchGoesRound
<1> QED  BY <1>2, <1>6, <1>8, <1>9 DEF SearchIndInv

(* A search starts with an empty batch, wherever the last one ended.       *)
SearchStart ==
  /\ disk_pages \in [Slots -> {0, 1}]
  /\ disk_page_index \in Slots \ {0}
  /\ wpc = "search" /\ wslots = <<>> /\ wi = 0
  /\ first = disk_page_index
  /\ freeAtFirst = FreeSlots

LEMMA SearchStarts == SearchStart => SearchIndInv
<1> SUFFICES ASSUME SearchStart
             PROVE  SearchIndInv
  OBVIOUS
<1> USE DEF SearchStart, FreeSlots
<1>1. /\ wslots \in Seq(Slots \ {0}) /\ Len(wslots) = 0
      /\ \A i \in DOMAIN wslots : FALSE
  BY EmptySeq
<1>2. SearchTypeOK
  BY <1>1, StateAssumption DEF SearchTypeOK
<1>3. NoFreeSlotIsMissed /\ OnlyFirstSlotTwice
  BY <1>1 DEF NoFreeSlotIsMissed, OnlyFirstSlotTwice
<1>4. SearchPosition
  <2>1. wi < DiskPages - 1 /\ Distance(disk_page_index) = 0
    BY <1>2, StateAssumption, Distances
  <2> QED  BY <2>1 DEF SearchPosition
<1>5. \A s \in freeAtFirst : ~ Distance(s) < wi
  BY <1>2, Distances DEF SearchTypeOK
<1> QED
  BY <1>1, <1>2, <1>3, <1>4, <1>5, WriteBatchAssumption
     DEF SearchIndInv, SearchGoesRound

LEMMA SearchBegins == SearchInit => SearchIndInv
BY SearchStarts, StateAssumption
   DEF SearchInit, InitShared, SearchStart, Slots

LEMMA SearchBeginsAgain ==
  ASSUME SearchIndInv, WriteAndSearchAgain
  PROVE  SearchIndInv'
<1>1. PICK used \in SUBSET ToSet(wslots) :
        disk_pages' = [s \in Slots |-> IF s \in used THEN 1 ELSE disk_pages[s]]
  BY DEF WriteAndSearchAgain
<1>2. SearchTypeOK
  BY DEF SearchIndInv
<1>3. disk_pages' \in [Slots -> {0, 1}]
  BY <1>1, <1>2 DEF SearchTypeOK
<1>4. /\ disk_page_index' \in Slots \ {0}
      /\ wpc' = "search" /\ wslots' = <<>> /\ wi' = 0
      /\ first' = disk_page_index'
      /\ freeAtFirst' = {s \in Slots \ {0} : disk_pages'[s] = 0}
  BY <1>2 DEF WriteAndSearchAgain, SearchIndInv, SearchTypeOK
<1>5. SearchStart'
  BY <1>3, <1>4 DEF SearchStart, FreeSlots
<1> QED  BY <1>5, SearchStarts, PTL

(* Every step of a search keeps SearchIndInv.                                 *)
LEMMA SearchNextInv == SearchIndInv /\ [SearchNext]_searchVars => SearchIndInv'
<1> SUFFICES ASSUME SearchIndInv, [SearchNext]_searchVars
             PROVE  SearchIndInv'
  OBVIOUS
<1>1. CASE Look
  <2>1. SearchSlot /\ UNCHANGED <<first, freeAtFirst>>
    BY <1>1 DEF Look
  <2>2. wi \in Nat /\ wi <= DiskPages - 1 /\ DiskPages \in Nat
    BY StateAssumption DEF SearchIndInv, SearchTypeOK
  <2>3. wi < DiskPages - 1 \/ wi = DiskPages - 1
    BY <2>2
  <2> QED  BY <2>1, <2>3, LookAhead, LookAgain
<1>2. CASE UserClears
  BY <1>2, ClearingKeepsSearch
<1>3. CASE WriteAndSearchAgain
  BY <1>3, SearchBeginsAgain
<1>4. CASE UNCHANGED searchVars
  <2>1. /\ wslots' = wslots /\ wpc' = wpc /\ wi' = wi /\ first' = first
        /\ freeAtFirst' = freeAtFirst /\ disk_page_index' = disk_page_index
        /\ disk_pages' = disk_pages
    BY <1>4 DEF searchVars, shared, slots, writerVars
  <2> QED  BY <2>1 DEF SearchIndInv, SearchTypeOK,
                       NoFreeSlotIsMissed, OnlyFirstSlotTwice,
                       SearchGoesRound, SearchPosition, Distance
<1> QED  BY <1>1, <1>2, <1>3, <1>4 DEF SearchNext

LEMMA SearchInvariant == SearchSpec => []SearchIndInv
<1>1. SearchInit => SearchIndInv
  BY SearchBegins
<1>2. SearchIndInv /\ [SearchNext]_searchVars => SearchIndInv'
  BY SearchNextInv
<1> QED  BY <1>1, <1>2, PTL DEF SearchSpec

(* A search with less than a batch to show for it has been all the way     *)
(* round: it starts anywhere, wraps around past slot 0 (writer.c:59-64)    *)
(* and misses no slot that was free throughout.                            *)
THEOREM NoFreeSlotIsEverMissed == SearchSpec => []NoFreeSlotIsMissed
<1>1. SearchIndInv => NoFreeSlotIsMissed
  BY DEF SearchIndInv
<1> QED  BY <1>1, SearchInvariant, PTL

(* The one look too many (writer.c:49) can find a slot a second time, but  *)
(* only the first one, as the last of the batch.                           *)
THEOREM OnlyFirstSlotIsEverTwice == SearchSpec => []OnlyFirstSlotTwice
<1>1. SearchIndInv => OnlyFirstSlotTwice
  BY DEF SearchIndInv
<1> QED  BY <1>1, SearchInvariant, PTL
==============================================================================
