------------------------- MODULE MemoryManagerProofs -------------------------
(***************************************************************************)
(* The properties of MemoryManager that speak of frames, lists and page    *)
(* table entries, proved from the inductive invariant of module Ownership, *)
(* for any pages, frames, disk size and batch sizes; among them that the   *)
(* threads together implement PageLists and PageLifecycle, and what this   *)
(* means for the whole program (module Lifecycle).                         *)
(***************************************************************************)
EXTENDS OwnershipProofs, Lifecycle

USE DEF PFN_FREE, PFN_ACTIVE, PFN_MODIFIED, PFN_STANDBY, PFN_MIDWRITE,
        PFN_MIDRESCUE, PTE_ON_DISK, PTE_IN_TRANSITION
USE DEF shared, pages, lists, slots, events, userVars, trimmerVars, writerVars

(* Every variable keeps its type: no list ever holds NULL, and the search  *)
(* for slots never leaves the disk (writer.c:62-64, 137).                  *)
THEOREM TypeCorrect == Spec => []TypeOK
BY IndInvariant, PTL DEF IndInv
------------------------------------------------------------------------------
(* What IndInv says of the place of one frame.                             *)
LEMMA PlaceOf ==
  ASSUME IndInv, NEW f \in Frames
  PROVE  /\ \/ On(freeList, f) \/ On(activeList, f) \/ On(modifiedList, f)
            \/ On(standbyList, f) \/ InUserHand(f) \/ InTrimmerHand(f)
            \/ InWriterHand(f)
         /\ InUserHand(f) =>
              pfnStatus[f] \in {PFN_FREE, PFN_STANDBY, PFN_MIDRESCUE}
         /\ InWriterHand(f) <=> pfnStatus[f] = PFN_MIDWRITE
         /\ On(modifiedList, f) <=> pfnStatus[f] = PFN_MODIFIED
<1>1. pfnStatus[f] \in PfnStatus
  BY DEF IndInv, TypeOK, SharedTypeOK
<1>2. InUserHand(f) => pfnStatus[f] \in {PFN_FREE, PFN_STANDBY, PFN_MIDRESCUE}
  BY DEF IndInv, InUserHand, UserControl, PopPC, FillPC
<1> QED  BY <1>1, <1>2 DEF IndInv, StatusIsPlace, InWriterHand, PfnStatus

(* No frame is lost and none is in two places, however the rescues of the  *)
(* user thread race with trimmer and writer (pagefaulthandler.c:56-92).    *)
LEMMA OnePlace == IndInv => FrameInOnePlace
<1> SUFFICES ASSUME IndInv PROVE FrameInOnePlace
  OBVIOUS
<1>1. /\ Places[1] = {f \in Frames : On(freeList, f)}
      /\ Places[2] = {f \in Frames : On(activeList, f)}
      /\ Places[3] = {f \in Frames : On(modifiedList, f)}
      /\ Places[4] = {f \in Frames : On(standbyList, f)}
      /\ Places[5] = {f \in Frames : InUserHand(f)}
      /\ Places[6] = {f \in Frames : InTrimmerHand(f)}
      /\ Places[7] = {f \in Frames : InWriterHand(f)}
  BY DEF Places
<1>2. \A i \in 1 .. 7 :
        i = 1 \/ i = 2 \/ i = 3 \/ i = 4 \/ i = 5 \/ i = 6 \/ i = 7
  OBVIOUS
<1>3. ASSUME NEW f \in Frames PROVE \E i \in 1 .. 7 : f \in Places[i]
  <2>1. \/ f \in Places[1] \/ f \in Places[2] \/ f \in Places[3]
        \/ f \in Places[4] \/ f \in Places[5] \/ f \in Places[6]
        \/ f \in Places[7]
    BY <1>1, PlaceOf
  <2> QED  BY <2>1
<1>4. ASSUME NEW f \in Frames
      PROVE  /\ f \in Places[1] => f \notin Places[5] /\ pfnStatus[f] = PFN_FREE
             /\ f \in Places[2] =>
                  f \notin Places[6] /\ pfnStatus[f] = PFN_ACTIVE
             /\ f \in Places[3] => pfnStatus[f] = PFN_MODIFIED
             /\ f \in Places[4] =>
                  f \notin Places[5] /\ pfnStatus[f] = PFN_STANDBY
             /\ f \in Places[5] =>
                  pfnStatus[f] \in {PFN_FREE, PFN_STANDBY, PFN_MIDRESCUE}
             /\ f \in Places[6] => pfnStatus[f] = PFN_ACTIVE
             /\ f \in Places[7] => pfnStatus[f] = PFN_MIDWRITE
  BY <1>1, PlaceOf DEF IndInv, StatusIsPlace
<1>5. \A i \in 1 .. 7 : Places[i] \subseteq Frames
  BY <1>1, <1>2
<1> HIDE DEF Places
<1>6. ASSUME NEW i \in 1 .. 7, NEW j \in 1 .. 7, i # j, NEW f \in Frames,
             f \in Places[i], f \in Places[j]
      PROVE  FALSE
  <2>1. CASE i \in {1, 4, 5}
    BY <1>2, <1>4, <1>6, <2>1
  <2>2. CASE i \in {2, 6}
    BY <1>2, <1>4, <1>6, <2>2
  <2>3. CASE i \in {3, 7}
    BY <1>2, <1>4, <1>6, <2>3
  <2> QED  BY <1>2, <2>1, <2>2, <2>3
<1>7. NoListRepeats
  BY DEF IndInv
<1> QED  BY <1>3, <1>5, <1>6, <1>7 DEF FrameInOnePlace, NoListRepeats

(* The same, as a property of every behaviour.                             *)
THEOREM EveryFrameInOnePlace == Spec => []FrameInOnePlace
BY IndInvariant, OnePlace, PTL

(* The status of a frame tells where it is (pfn.h:33), so the choice of a  *)
(* lock by status is right.                                                *)
THEOREM StatusTellsTruth == Spec => []StatusTellsPlace
<1>1. IndInv => StatusTellsPlace
  BY PlaceOf DEF IndInv, StatusIsPlace, StatusTellsPlace
<1> QED  BY <1>1, IndInvariant, PTL

(* Resident entries and frames name each other: no two pages share a frame *)
(* and a repurposed frame's page is found (lists.c:83-91).                 *)
THEOREM FramesAndPagesAlwaysAgree == Spec => []FramesAndPagesAgree
<1>1. IndInv => FramesAndPagesAgree
  <2> SUFFICES ASSUME IndInv PROVE FramesAndPagesAgree
    OBVIOUS
  <2>1. ASSUME NEW va \in VAs, Resident(pageTable[va])
        PROVE  /\ pageTable[va].index \in Frames
               /\ pfnPte[pageTable[va].index] = va
    BY <2>1 DEF IndInv, PagesNameFrames
  <2>2. ASSUME NEW f \in Frames, ~ On(freeList, f), ~ InUserHand(f)
        PROVE  /\ pfnPte[f] \in VAs
               /\ Resident(pageTable[pfnPte[f]])
               /\ pageTable[pfnPte[f]].index = f
    <3>1. \/ On(activeList, f) \/ InTrimmerHand(f) \/ On(standbyList, f)
          \/ pfnStatus[f] \in {PFN_MODIFIED, PFN_MIDWRITE}
      BY <2>2, PlaceOf
    <3>2. ~ (uframe = f /\ upc = "addActive")
      BY <2>2 DEF InUserHand
    <3> QED  BY <3>1, <3>2
             DEF IndInv, FramesNamePages, Resident, IS_PTE_TRANSITION
  <2> QED  BY <2>1, <2>2 DEF FramesAndPagesAgree
<1> QED  BY <1>1, IndInvariant, PTL

(* The format of an entry agrees with the status of its frame, as the      *)
(* ASSERTs at lists.c:85 and trimmer.c:69 expect.                          *)
THEOREM FormatAlwaysTellsStatus == Spec => []FormatTellsStatus
<1>1. IndInv => FormatTellsStatus
  <2> SUFFICES ASSUME IndInv, NEW va \in VAs PROVE FormatTellsStatus!(va)
    BY DEF FormatTellsStatus
  <2>1. Resident(pageTable[va]) => pageTable[va].index \in Frames
    BY DEF IndInv, PagesNameFrames
  <2>2. IS_PTE_TRANSITION(pageTable[va]) /\ On(standbyList, pageTable[va].index)
          => pfnStatus[pageTable[va].index] = PFN_STANDBY
    BY <2>1 DEF IndInv, StatusIsPlace, Resident, IS_PTE_TRANSITION
  <2> QED  BY <2>1, <2>2 DEF IndInv, PagesNameFrames
<1> QED  BY <1>1, IndInvariant, PTL

(* One of the three unlocked looks of a rescue catches the frame           *)
(* (pagefaulthandler.c:56-92), whatever trimmer and writer do meanwhile.   *)
THEOREM RescuesAlwaysSucceed == Spec => []RescueSucceeds
<1>1. IndInv => RescueSucceeds
  BY DEF IndInv, RescueSucceeds, UserControl, Resident, IS_PTE_TRANSITION
<1> QED  BY <1>1, IndInvariant, PTL
------------------------------------------------------------------------------
(* The steps that write the page table or a status.                        *)
LEMMA UserWrites ==
  UserStep =>
    \/ UNCHANGED <<pageTable, pfnStatus>>
    \/ PopStandby \/ SetValid
    \/ /\ RescueModified \/ RescueMidwrite \/ RescueStandby \/ AddActive
       /\ UNCHANGED pageTable
<1>1. (\E va \in VAs : WriteVA(va) \/ FaultOn(va))
        => UNCHANGED <<pageTable, pfnStatus>>
  BY DEF WriteVA, FaultOn
<1>2. StartFault \/ ReadDisk \/ ZeroPage => UNCHANGED <<pageTable, pfnStatus>>
  BY DEF StartFault, ReadDisk, ZeroPage
<1>3. CheckModified \/ CheckMidwrite \/ CheckStandby
        => UNCHANGED <<pageTable, pfnStatus>>
  BY DEF CheckModified, CheckMidwrite, CheckStandby, CheckStatus
<1>4. LockModified \/ LockStandby \/ LockPageTable \/ LockStandbyList
        => UNCHANGED <<pageTable, pfnStatus>>
  BY DEF LockModified, LockStandby, LockPageTable, LockStandbyList, Lock
<1>5. ClearSlot \/ FreeSlot \/ SignalTrimmer \/ AwaitWriter
        => UNCHANGED <<pageTable, pfnStatus>>
  BY DEF ClearSlot, FreeSlot, SignalTrimmer, AwaitWriter
<1>6. PopFree \/ MapVA => UNCHANGED <<pageTable, pfnStatus>>
  BY DEF PopFree, MapVA
<1>7. RescueModified \/ RescueMidwrite \/ RescueStandby \/ AddActive
        => UNCHANGED pageTable
  BY DEF RescueModified, RescueMidwrite, RescueStandby, AddActive
<1> QED  BY <1>1, <1>2, <1>3, <1>4, <1>5, <1>6, <1>7
         DEF UserStep, UserNext, HandleFault, Rescue, GetFreePage

(* Of the trimmer, only the marking loop does.                             *)
LEMMA TrimmerWrites ==
  TrimmerStep => UNCHANGED <<pageTable, pfnStatus>> \/ MarkVictim
<1>1. AwaitTrimmer \/ PopVictims \/ UnmapVictims \/ SignalWriter
        => UNCHANGED <<pageTable, pfnStatus>>
  BY DEF AwaitTrimmer, PopVictims, UnmapVictims, SignalWriter
<1>2. TrimLockPageTable \/ TrimLockModified
        => UNCHANGED <<pageTable, pfnStatus>>
  BY DEF TrimLockPageTable, TrimLockModified, TrimLock
<1> QED  BY <1>1, <1>2 DEF TrimmerStep, TrimmerNext

(* The writer writes statuses only, when it pops and when it writes a      *)
(* page.                                                                   *)
LEMMA WriterWrites ==
  WriterStep =>
    \/ UNCHANGED <<pageTable, pfnStatus>>
    \/ (PopModified \/ WritePage) /\ UNCHANGED pageTable
<1>1. CheckModifiedList \/ AwaitStart \/ CheckVictim \/ SignalUser
        => UNCHANGED <<pageTable, pfnStatus>>
  BY DEF CheckModifiedList, AwaitStart, CheckVictim, SignalUser
<1>2. SearchSlot => UNCHANGED <<pageTable, pfnStatus>>
  BY DEF SearchSlot
<1>3. WriteLockModified \/ WriteLockStandby \/ EndPop \/ SkipRescued
        => UNCHANGED <<pageTable, pfnStatus>>
  BY DEF WriteLockModified, WriteLockStandby, WriteLock, EndPop, SkipRescued
<1>4. PopModified \/ WritePage => UNCHANGED pageTable
  BY DEF PopModified, WritePage
<1> QED  BY <1>1, <1>2, <1>3, <1>4 DEF WriterStep, WriterNext

(* The same for every step.                                                *)
LEMMA Writes ==
  [Next]_vars =>
    \/ UNCHANGED <<pageTable, pfnStatus>>
    \/ PopStandby \/ SetValid \/ MarkVictim
    \/ /\ RescueModified \/ RescueMidwrite \/ RescueStandby \/ AddActive
          \/ PopModified \/ WritePage
       /\ UNCHANGED pageTable
BY UserWrites, TrimmerWrites, WriterWrites DEF Next, vars

(* The entry that the handler read without a lock (pagefaulthandler.c:     *)
(* 51-54, 98) stays as it was until the handler makes it valid.            *)
THEOREM FaultingEntryStaysStable == Spec => FaultingEntryIsStable
<1> DEFINE A == Resolving =>
                  /\ pageTable[uva].valid = 0
                  /\ upc' # "addActive" => pageTable'[uva] = pageTable[uva]
<1>1. ASSUME IndInv, [Next]_vars PROVE A
  <2> SUFFICES ASSUME Resolving PROVE A
    OBVIOUS
  <2>1. /\ uva \in VAs /\ map[uva] = NoFrame /\ pageTable[uva] \in PTE
        /\ upc \in UserPC \ {"access", "addActive", "mapVA"}
    BY <1>1 DEF IndInv, TypeOK, SharedTypeOK, UserTypeOK, UserControl, Resolving
  <2>2. pageTable[uva].valid = 0
    BY <1>1, <2>1
       DEF IndInv, UserControl, Resident, IS_PTE_TRANSITION, PTE, UserPC,
           PopPC, RescuePC, FillPC
  <2>3. CASE pageTable' = pageTable
    BY <2>2, <2>3
  <2>4. CASE PopStandby
    <3>1. CASE standbyList = <<>>
      BY <2>2, <2>4, <3>1 DEF PopStandby, IsListEmpty
    <3>2. CASE standbyList # <<>>
      <4> DEFINE f == Head(standbyList)
                 p == ToDisk(pageTable[pfnPte[f]], pfnDiskIndex[f])
      <4>1. pageTable' = [pageTable EXCEPT ![pfnPte[f]] = p]
        BY <2>4, <3>2 DEF PopStandby, IsListEmpty
      <4>2. f \in Frames /\ On(standbyList, f)
        BY <1>1, <3>2, PopPage DEF IndInv, TypeOK, SharedTypeOK
      <4> HIDE DEF f, p
      <4>3. Resident(pageTable[pfnPte[f]])
        BY <1>1, <2>4, <4>2
           DEF IndInv, FramesNamePages, Resident, IS_PTE_TRANSITION, PopStandby
      <4>4. ~ Resident(pageTable[uva])
        BY <1>1, <2>4 DEF IndInv, UserControl, PopPC, PopStandby
      <4>5. pfnPte[f] # uva
        BY <4>3, <4>4
      <4> QED  BY <2>1, <2>2, <4>1, <4>5 DEF IndInv, TypeOK, SharedTypeOK
    <3> QED  BY <3>1, <3>2
  <2>5. CASE SetValid
    BY <2>2, <2>5 DEF SetValid
  <2>6. CASE MarkVictim
    <3>1. ti \in 1 .. Len(tvictims) /\ Mapped(tptes[ti])
      BY <1>1, <2>6 DEF IndInv, TrimmerControl, MarkVictim
    <3>2. tptes[ti] # uva
      BY <2>1, <3>1 DEF Mapped
    <3>3. pageTable' = [pageTable EXCEPT ![tptes[ti]] = ToTransition(@)]
      BY <2>6 DEF MarkVictim
    <3> QED  BY <1>1, <2>1, <2>2, <3>2, <3>3 DEF IndInv, TypeOK, SharedTypeOK
  <2> QED  BY <1>1, <2>3, <2>4, <2>5, <2>6, Writes
<1> QED  BY <1>1, IndInvariant, PTL DEF Spec, FaultingEntryIsStable
------------------------------------------------------------------------------
(* Although statuses are assigned without a look at the old one            *)
(* (pagefaulthandler.c:26, trimmer.c:66), each change of a frame's status  *)
(* is one its life allows.                                                 *)
THEOREM FramesAlwaysFollowLifeCycle == Spec => FramesFollowLifeCycle
<1> DEFINE A == \A f \in Frames :
                  pfnStatus'[f] # pfnStatus[f]
                    => <<pfnStatus[f], pfnStatus'[f]>> \in LifeCycle
<1>1. ASSUME IndInv, [Next]_vars PROVE A
  <2>1. ASSUME NEW e, NEW s,
               pfnStatus' = [pfnStatus EXCEPT ![e] = s],
               e \in Frames => <<pfnStatus[e], s>> \in LifeCycle
        PROVE  A
    <3>1. pfnStatus \in [Frames -> PfnStatus]
      BY <1>1 DEF IndInv, TypeOK, SharedTypeOK
    <3>2. ASSUME NEW f \in Frames, pfnStatus'[f] # pfnStatus[f]
          PROVE  f = e /\ pfnStatus'[f] = s
      BY <2>1, <3>1, <3>2
    <3> QED  BY <2>1, <3>2
  <2>2. CASE pfnStatus' = pfnStatus
    BY <2>2
  <2>3. CASE RescueModified \/ RescueMidwrite \/ RescueStandby
    <3>1. CASE pfnStatus' = [pfnStatus EXCEPT ![uframe] = PFN_MIDRESCUE]
               /\ pfnStatus[uframe] \in {PFN_MODIFIED, PFN_MIDWRITE, PFN_STANDBY}
      BY <2>1, <3>1 DEF LifeCycle
    <3> QED  BY <2>2, <2>3, <3>1
             DEF RescueModified, RescueMidwrite, RescueStandby, Still
  <2>4. CASE AddActive
    <3>1. /\ pfnStatus' = [pfnStatus EXCEPT ![uframe] = PFN_ACTIVE]
          /\ pfnStatus[uframe] \in {PFN_FREE, PFN_STANDBY, PFN_MIDRESCUE}
      BY <1>1, <2>4 DEF IndInv, UserControl, AddActive
    <3> QED  BY <2>1, <3>1 DEF LifeCycle
  <2>5. CASE MarkVictim
    <3>1. /\ pfnStatus' = [pfnStatus EXCEPT ![tvictims[ti]] = PFN_MODIFIED]
          /\ InTrimmerHand(tvictims[ti])
      BY <1>1, <2>5 DEF IndInv, TrimmerControl, InTrimmerHand, MarkVictim
    <3>2. tvictims[ti] \in Frames => pfnStatus[tvictims[ti]] = PFN_ACTIVE
      BY <1>1, <3>1 DEF IndInv, StatusIsPlace
    <3> QED  BY <2>1, <3>1, <3>2 DEF LifeCycle
  <2>6. CASE PopModified
    <3> DEFINE f == Head(modifiedList)
    <3>1. /\ pfnStatus' = [pfnStatus EXCEPT ![f] = PFN_MIDWRITE]
          /\ modifiedList # <<>>
      BY <2>6 DEF PopModified, Popping, IsListEmpty
    <3>2. f \in Frames /\ On(modifiedList, f)
      BY <1>1, <3>1, PopPage DEF IndInv, TypeOK, SharedTypeOK
    <3> HIDE DEF f
    <3>3. pfnStatus[f] = PFN_MODIFIED
      BY <1>1, <3>2 DEF IndInv, StatusIsPlace
    <3> QED  BY <2>1, <3>1, <3>3 DEF LifeCycle
  <2>7. CASE WritePage
    BY <2>1, <2>7 DEF WritePage, StillMidwrite, LifeCycle
  <2>8. CASE PopStandby \/ SetValid
    BY <2>2, <2>8 DEF PopStandby, SetValid
  <2> QED  BY <1>1, <2>2, <2>3, <2>4, <2>5, <2>6, <2>7, <2>8, Writes
<1> QED  BY <1>1, IndInvariant, PTL DEF Spec, FramesFollowLifeCycle
------------------------------------------------------------------------------
(* The threads together implement PageLists.  By IndInv, program counters  *)
(* and statuses tell who has which frames in hand.                         *)
UserHand ==
  IF \/ upc \in FillPC \cup {"setValid", "addActive"}
     \/ upc \in RescuePC /\ pfnStatus[uframe] = PFN_MIDRESCUE
  THEN {uframe} ELSE {}
TrimmerHand ==
  IF tpc \in {"lockPageTable", "lockModified", "mark"}
  THEN {tvictims[i] : i \in ti .. Len(tvictims)} ELSE {}
WriterHand == {f \in Frames : pfnStatus[f] = PFN_MIDWRITE}

Hands == [user |-> UserHand, trimmer |-> TrimmerHand, writer |-> WriterHand]

LEMMA HandsByStatus == IndInv => FramesInHand = Hands
<1> SUFFICES ASSUME IndInv PROVE FramesInHand = Hands
  OBVIOUS
<1>1. {f \in Frames : InUserHand(f)} = UserHand
  <2>1. UserControl /\ upc \in UserPC /\ NoFrame \notin Frames
    BY StateAssumption DEF IndInv, TypeOK, UserTypeOK
  <2>2. CASE upc \in FillPC \cup {"setValid", "addActive"}
    BY <2>1, <2>2 DEF UserControl, InUserHand, UserHand, FillPC, PopPC
  <2>3. CASE upc \in RescuePC
    BY <2>1, <2>3 DEF UserControl, InUserHand, UserHand, RescuePC, FillPC, PopPC
  <2>4. CASE upc = "mapVA"
    BY <2>1, <2>4 DEF UserControl, InUserHand, UserHand, RescuePC, FillPC, PopPC
  <2>5. CASE upc \in PopPC \cup {"access", "fault"}
    BY <2>1, <2>5 DEF UserControl, InUserHand, UserHand, RescuePC, FillPC, PopPC
  <2> QED  BY <2>1, <2>2, <2>3, <2>4, <2>5 DEF UserPC, RescuePC, FillPC, PopPC
<1>2. {f \in Frames : InTrimmerHand(f)} = TrimmerHand
  <2>1. ti \in Nat /\ Len(tvictims) \in Nat
    BY LenProperties DEF IndInv, TypeOK, TrimmerTypeOK
  <2>2. \A i \in 1 .. Len(tvictims) : tvictims[i] \in Frames
    BY ElementOfSeq, LenProperties DEF IndInv, TypeOK, TrimmerTypeOK
  <2>3. tpc \in {"lockPageTable", "lockModified", "mark"} => ti >= 1
    BY DEF IndInv, TrimmerControl
  <2> QED  BY <2>1, <2>2, <2>3 DEF InTrimmerHand, TrimmerHand
<1>3. {f \in Frames : InWriterHand(f)} = WriterHand
  BY DEF IndInv, StatusIsPlace, InWriterHand, WriterHand
<1> QED  BY <1>1, <1>2, <1>3 DEF FramesInHand, Hands

(* A step that changes no list and leaves every frame in its hand is a     *)
(* stutter.                                                                *)
Unmoved == UNCHANGED <<lists, UserHand, TrimmerHand, WriterHand>>

LEMMA UnmovedIsStutter ==
  ASSUME Unmoved, FramesInHand = Hands, FramesInHand' = Hands'
  PROVE  UNCHANGED <<ListsByName, FramesInHand>>
BY DEF Unmoved, ListsByName, Hands

(* The steps of the user thread that move no frame: those that go on with  *)
(* the same frame in hand, or with none.                                   *)
LEMMA UserUnmoved ==
  ASSUME IndInv, IndInv', UserStep
  PROVE  \/ Unmoved
         \/ PopFree /\ freeList # <<>>
         \/ PopStandby /\ standbyList # <<>>
         \/ RescueModified /\ Still(PFN_MODIFIED)
         \/ RescueMidwrite /\ Still(PFN_MIDWRITE)
         \/ RescueStandby /\ Still(PFN_STANDBY)
         \/ AddActive
<1>1. UserControl /\ UserControl'
  BY DEF IndInv
<1>2. TrimmerHand' = TrimmerHand
  BY DEF UserStep, TrimmerHand
<1>3. ASSUME UNCHANGED <<lists, pfnStatus>>, UserHand' = UserHand
      PROVE  Unmoved
  BY <1>2, <1>3 DEF Unmoved, WriterHand
<1> USE DEF UserHand, FillPC, RescuePC, PopPC
<1>4. CASE \E va \in VAs : WriteVA(va) \/ FaultOn(va)
  BY <1>3, <1>4 DEF WriteVA, FaultOn, Accessing
<1>5. CASE StartFault
  BY <1>1, <1>3, <1>5 DEF StartFault, UserControl, RescueStatus
<1>6. CASE CheckModified \/ CheckMidwrite \/ CheckStandby
  BY <1>1, <1>3, <1>6 DEF CheckModified, CheckMidwrite, CheckStandby,
                          CheckStatus, UserControl, RescueStatus
<1>7. CASE LockModified \/ LockStandby \/ LockPageTable \/ LockStandbyList
  BY <1>3, <1>7 DEF LockModified, LockStandby, LockPageTable, LockStandbyList,
                    Lock
<1>8. CASE RescueModified
  BY <1>3, <1>8 DEF RescueModified
<1>9. CASE RescueMidwrite
  BY <1>3, <1>9 DEF RescueMidwrite
<1>10. CASE RescueStandby
  BY <1>3, <1>10 DEF RescueStandby
<1>11. CASE ClearSlot
  BY <1>1, <1>3, <1>11 DEF ClearSlot, UserControl, RescueStatus
<1>12. CASE PopFree
  BY <1>3, <1>12 DEF PopFree, IsListEmpty
<1>13. CASE PopStandby
  BY <1>3, <1>13 DEF PopStandby, IsListEmpty
<1>14. CASE SignalTrimmer \/ AwaitWriter
  BY <1>3, <1>14 DEF SignalTrimmer, AwaitWriter
<1>15. CASE ReadDisk \/ ZeroPage \/ FreeSlot
  BY <1>3, <1>15 DEF ReadDisk, ZeroPage, FreeSlot
<1>16. CASE SetValid
  BY <1>3, <1>16 DEF SetValid
<1>17. CASE MapVA
  BY <1>3, <1>17 DEF MapVA
<1> QED
  BY <1>4, <1>5, <1>6, <1>7, <1>8, <1>9, <1>10, <1>11, <1>12, <1>13, <1>14,
     <1>15, <1>16, <1>17
     DEF UserStep, UserNext, HandleFault, Rescue, GetFreePage

(* Taking the head of a list, as PageLists has it.                         *)
LEMMA TakeHead ==
  ASSUME NEW S, NEW s \in Seq(S), s # <<>>
  PROVE  /\ 1 \in 1 .. Len(s)
         /\ ToSet(SubSeq(s, 1, 1)) = {Head(s)}
         /\ SubSeq(s, 1 + 1, Len(s)) = Tail(s)
<1>1. /\ Len(s) \in Nat \ {0} /\ Head(s) = s[1] /\ s[1] \in S
      /\ DOMAIN s = 1 .. Len(s)
  BY LenProperties, EmptySeq, HeadTailProperties, ElementOfSeq
<1>2. /\ Len(SubSeq(s, 1, 1)) = 1 /\ SubSeq(s, 1, 1) \in Seq(S)
      /\ SubSeq(s, 1, 1)[1] = s[1]
  <2>1. 1 \in 0 .. Len(s)
    BY <1>1
  <2> QED  BY <2>1, PopBatch
<1>3. ToSet(SubSeq(s, 1, 1)) = {Head(s)}
  <2>1. DOMAIN SubSeq(s, 1, 1) = {1}
    BY <1>2, LenProperties
  <2> QED  BY <1>1, <1>2, <2>1 DEF ToSet
<1> QED  BY <1>1, <1>3

(* The user thread takes a frame from the free or the standby list.        *)
LEMMA UserTakes ==
  ASSUME IndInv, IndInv', UserStep,
         FramesInHand = Hands, FramesInHand' = Hands',
         \/ PopFree /\ freeList # <<>>
         \/ PopStandby /\ standbyList # <<>>
  PROVE  L!Next
<1>1. /\ freeList \in Seq(Frames) /\ standbyList \in Seq(Frames)
      /\ UserControl /\ TrimmerHand' = TrimmerHand
  BY DEF IndInv, TypeOK, SharedTypeOK, UserStep, TrimmerHand
<1>2. ASSUME NEW n \in {"free", "standby"}, ListsByName[n] \in Seq(Frames),
             ListsByName[n] # <<>>, upc \in PopPC, upc' = "fill",
             uframe' = Head(ListsByName[n]), pfnStatus' = pfnStatus,
             ListsByName' = [ListsByName EXCEPT ![n] = Tail(@)]
      PROVE  L!Next
  <2>0. PICK f : f = Head(ListsByName[n])
    OBVIOUS
  <2>1. UserHand = {} /\ UserHand' = {f}
    BY <1>2, <2>0 DEF UserHand, PopPC, FillPC, RescuePC
  <2>2. WriterHand' = WriterHand
    BY <1>2 DEF WriterHand
  <2>3. /\ Hands["user"] = {}
        /\ Hands' = [Hands EXCEPT !["user"] = {f}]
    <3>1. PICK hand : hand = {f}
      OBVIOUS
    <3>2. UserHand' = hand /\ TrimmerHand' = TrimmerHand
      BY <1>1, <2>1, <3>1
    <3>3. Hands' = [Hands EXCEPT !["user"] = hand]
      BY <2>2, <3>2 DEF Hands
    <3>4. Hands["user"] = UserHand
      BY DEF Hands
    <3> QED  BY <2>1, <3>1, <3>3, <3>4
  <2>4. /\ 1 \in 1 .. Len(ListsByName[n])
        /\ ToSet(SubSeq(ListsByName[n], 1, 1)) = {f}
        /\ SubSeq(ListsByName[n], 1 + 1, Len(ListsByName[n]))
             = Tail(ListsByName[n])
    BY <1>2, <2>0, TakeHead
  <2>5. L!Take("user", n)
    BY <1>2, <2>3, <2>4 DEF L!Take, L!TakesFrom, L!ToSet, ToSet
  <2>6. FramesInHand' # FramesInHand
    BY <2>3 DEF Hands
  <2> QED  BY <2>5, <2>6 DEF L!Next, L!Names, L!Threads
<1>3. CASE PopFree /\ freeList # <<>>
  <2>1. ListsByName["free"] = freeList
    BY DEF ListsByName
  <2>2. ListsByName' = [ListsByName EXCEPT !["free"] = Tail(@)]
    BY <1>3 DEF PopFree, IsListEmpty, ListsByName
  <2> QED  BY <1>1, <1>2, <1>3, <2>1, <2>2 DEF PopFree, IsListEmpty, PopPC
<1>4. CASE PopStandby /\ standbyList # <<>>
  <2>1. ListsByName["standby"] = standbyList
    BY DEF ListsByName
  <2>2. ListsByName' = [ListsByName EXCEPT !["standby"] = Tail(@)]
    <3>1. /\ standbyList' = Tail(standbyList)
          /\ UNCHANGED <<freeList, activeList, modifiedList>>
      BY <1>4 DEF PopStandby, IsListEmpty
    <3>2. PICK left : left = Tail(standbyList)
      OBVIOUS
    <3>3. standbyList' = left /\ UNCHANGED <<freeList, activeList, modifiedList>>
      BY <3>1, <3>2
    <3>4. ListsByName' = [ListsByName EXCEPT !["standby"] = left]
      BY <3>3 DEF ListsByName
    <3> QED  BY <2>1, <3>2, <3>4
  <2> QED  BY <1>1, <1>2, <1>4, <2>1, <2>2 DEF PopStandby, IsListEmpty, PopPC
<1> QED  BY <1>3, <1>4

(* The user thread rescues a frame from a list or from the writer.         *)
LEMMA UserRescues ==
  ASSUME IndInv, IndInv', UserStep,
         FramesInHand = Hands, FramesInHand' = Hands',
         \/ RescueModified /\ Still(PFN_MODIFIED)
         \/ RescueMidwrite /\ Still(PFN_MIDWRITE)
         \/ RescueStandby /\ Still(PFN_STANDBY)
  PROVE  L!Next
<1> DEFINE f == uframe
<1>1. /\ UserControl /\ TrimmerHand' = TrimmerHand
      /\ pfnStatus \in [Frames -> PfnStatus] /\ f \in Frames
      /\ pfnStatus' = [pfnStatus EXCEPT ![f] = PFN_MIDRESCUE]
      /\ upc \in RescuePC /\ upc' \in RescuePC /\ uframe' = f
      /\ pfnStatus[f] \in {PFN_MODIFIED, PFN_MIDWRITE, PFN_STANDBY}
  BY DEF IndInv, TypeOK, SharedTypeOK, UserStep, TrimmerHand, UserControl,
         RescueModified, RescueMidwrite, RescueStandby, Still, RescuePC, PopPC
<1>2. UserHand = {} /\ UserHand' = {f}
  BY <1>1 DEF UserHand, RescuePC, FillPC
<1>3. /\ WriterHand' = WriterHand \ {f}
      /\ f \in WriterHand <=> pfnStatus[f] = PFN_MIDWRITE
  BY <1>1 DEF WriterHand
<1>4. FramesInHand["user"] = {} /\ FramesInHand' # FramesInHand
  BY <1>2 DEF Hands
<1>5. ASSUME NEW n \in {"modified", "standby"},
             NEW i \in DOMAIN ListsByName[n], ListsByName[n][i] = f,
             pfnStatus[f] # PFN_MIDWRITE,
             ListsByName' = [ListsByName EXCEPT ![n] = RemoveAt(@, i)]
      PROVE  L!Next
  <2>1. FramesInHand' = [FramesInHand EXCEPT !["user"] = {f}]
    BY <1>1, <1>2, <1>3, <1>5 DEF Hands
  <2>2. L!Rescue(n, f)
    BY <1>4, <1>5, <2>1 DEF L!Rescue, L!RescuedFrom, L!RemoveAt, RemoveAt
  <2> QED  BY <1>1, <1>4, <2>2 DEF L!Next, L!Names
<1>6. CASE RescueModified /\ Still(PFN_MODIFIED)
  <2>1. On(modifiedList, f) /\ pfnStatus[f] = PFN_MODIFIED
    BY <1>1, <1>6 DEF IndInv, StatusIsPlace, Still
  <2>2. PICK i \in DOMAIN modifiedList :
          /\ modifiedList[i] = f
          /\ removePage(modifiedList, f) = RemoveAt(modifiedList, i)
    BY <2>1 DEF On, removePage
  <2>3. ListsByName["modified"] = modifiedList
    BY DEF ListsByName
  <2>4. ListsByName' = [ListsByName EXCEPT !["modified"] = RemoveAt(@, i)]
    BY <1>6, <2>2 DEF RescueModified, ListsByName
  <2>5. /\ i \in DOMAIN ListsByName["modified"] /\ ListsByName["modified"][i] = f
        /\ pfnStatus[f] # PFN_MIDWRITE
    BY <2>1, <2>2, <2>3
  <2> HIDE DEF f
  <2> QED  BY <1>5, <2>4, <2>5
<1>7. CASE RescueStandby /\ Still(PFN_STANDBY)
  <2>1. On(standbyList, f) /\ pfnStatus[f] = PFN_STANDBY
    BY <1>1, <1>7 DEF IndInv, StatusIsPlace, Still, InUserHand, RescueStandby
  <2>2. PICK i \in DOMAIN standbyList :
          /\ standbyList[i] = f
          /\ removePage(standbyList, f) = RemoveAt(standbyList, i)
    BY <2>1 DEF On, removePage
  <2>3. ListsByName["standby"] = standbyList
    BY DEF ListsByName
  <2>4. ListsByName' = [ListsByName EXCEPT !["standby"] = RemoveAt(@, i)]
    BY <1>7, <2>2 DEF RescueStandby, ListsByName
  <2>5. /\ i \in DOMAIN ListsByName["standby"] /\ ListsByName["standby"][i] = f
        /\ pfnStatus[f] # PFN_MIDWRITE
    BY <2>1, <2>2, <2>3
  <2> HIDE DEF f
  <2> QED  BY <1>5, <2>4, <2>5
<1>8. CASE RescueMidwrite /\ Still(PFN_MIDWRITE)
  <2>1. pfnStatus[f] = PFN_MIDWRITE
    BY <1>8 DEF Still
  <2>2. ListsByName' = ListsByName
    BY <1>8 DEF RescueMidwrite, ListsByName
  <2>3. /\ FramesInHand' = [FramesInHand EXCEPT !["user"] = {f},
                                                !["writer"] = @ \ {f}]
        /\ f \in FramesInHand["writer"]
    BY <1>1, <1>2, <1>3, <2>1 DEF Hands
  <2>4. L!RescueFromWriter(f)
    BY <1>4, <2>2, <2>3 DEF L!RescueFromWriter
  <2> QED  BY <1>1, <1>4, <2>4 DEF L!Next
<1> QED  BY <1>6, <1>7, <1>8

(* The user thread puts its frame on the active list.                      *)
LEMMA UserPuts ==
  ASSUME IndInv, IndInv', UserStep, AddActive,
         FramesInHand = Hands, FramesInHand' = Hands'
  PROVE  L!Next
<1>1. /\ uframe \in Frames /\ TrimmerHand' = TrimmerHand
      /\ pfnStatus \in [Frames -> PfnStatus]
      /\ pfnStatus[uframe] # PFN_MIDWRITE
      /\ pfnStatus' = [pfnStatus EXCEPT ![uframe] = PFN_ACTIVE]
  BY DEF IndInv, TypeOK, SharedTypeOK, UserStep, TrimmerHand, UserControl,
         AddActive, PopPC
<1>2. UserHand = {uframe} /\ UserHand' = {} /\ WriterHand' = WriterHand
  BY <1>1 DEF AddActive, UserHand, WriterHand, RescuePC, FillPC
<1>3. /\ FramesInHand' = [FramesInHand EXCEPT !["user"] = @ \ {uframe}]
      /\ uframe \in FramesInHand["user"]
      /\ FramesInHand' # FramesInHand
  BY <1>1, <1>2 DEF Hands
<1>4. ListsByName' = [ListsByName EXCEPT !["active"] = Append(@, uframe)]
  <2>1. /\ activeList' = Append(activeList, uframe)
        /\ UNCHANGED <<freeList, modifiedList, standbyList>>
    BY DEF AddActive, add_entry
  <2>2. PICK longer : longer = Append(activeList, uframe)
    OBVIOUS
  <2>3. activeList' = longer /\ UNCHANGED <<freeList, modifiedList, standbyList>>
    BY <2>1, <2>2
  <2>4. ListsByName' = [ListsByName EXCEPT !["active"] = longer]
    BY <2>3 DEF ListsByName
  <2>5. ListsByName["active"] = activeList
    BY DEF ListsByName
  <2> QED  BY <2>2, <2>4, <2>5
<1>5. L!Put("user", uframe)
  BY <1>3, <1>4 DEF L!Put, L!PutsOn
<1> QED  BY <1>1, <1>3, <1>5 DEF L!Next, L!Threads

LEMMA UserFollowsLists ==
  ASSUME IndInv, IndInv', UserStep,
         FramesInHand = Hands, FramesInHand' = Hands'
  PROVE  [L!Next]_<<ListsByName, FramesInHand>>
BY UserUnmoved, UnmovedIsStutter, UserTakes, UserRescues, UserPuts

(* While no frame becomes or ceases to be midrescue, the user's hand stays *)
(* as it is.                                                               *)
LEMMA UserHandStays ==
  ASSUME UNCHANGED userVars, IndInv,
         \A g \in Frames : pfnStatus'[g] = PFN_MIDRESCUE
                              <=> pfnStatus[g] = PFN_MIDRESCUE
  PROVE  UserHand' = UserHand
<1>1. upc' = upc /\ uframe' = uframe
  OBVIOUS
<1>2. upc \in RescuePC => uframe \in Frames
  BY DEF IndInv, UserControl, RescuePC, PopPC
<1> QED  BY <1>1, <1>2 DEF UserHand

(* The trimmer takes a batch from the active list.                         *)
LEMMA TrimmerTakes ==
  ASSUME IndInv, IndInv', TrimmerStep, PopVictims, activeList # <<>>,
         FramesInHand = Hands, FramesInHand' = Hands'
  PROVE  L!Next
<1>1. PICK k : k = TrimBatch
  OBVIOUS
<1>2. /\ activeList \in Seq(Frames) /\ Len(activeList) \in Nat \ {0}
      /\ ti = 1 /\ tpc = "pop"
  BY LenProperties, EmptySeq
     DEF IndInv, TypeOK, SharedTypeOK, TrimmerControl, PopVictims
<1>3. k \in 1 .. Len(activeList) /\ k \in 0 .. Len(activeList)
  BY <1>1, <1>2, TrimBatchAssumption DEF TrimBatch
<1>4. /\ tvictims' = SubSeq(activeList, 1, k)
      /\ tpc' = "lockPageTable" /\ ti' = 1
      /\ UNCHANGED <<freeList, modifiedList, standbyList, pfnStatus>>
  BY <1>1, <1>2 DEF PopVictims, IsListEmpty
<1>5. activeList' = SubSeq(activeList, k + 1, Len(activeList))
  BY <1>1 DEF PopVictims
<1>6. /\ Len(tvictims') = k /\ DOMAIN tvictims' = 1 .. k
      /\ tvictims' \in Seq(Frames)
  BY <1>2, <1>3, <1>4, PopBatch, LenProperties
<1>7. TrimmerHand = {} /\ TrimmerHand' = ToSet(SubSeq(activeList, 1, k))
  <2>1. ToSet(tvictims') = {tvictims'[i] : i \in 1 .. k}
    BY <1>6 DEF ToSet
  <2> QED  BY <1>2, <1>4, <1>6, <2>1 DEF TrimmerHand
<1>8. tvictims'[1] \in TrimmerHand'
  BY <1>3, <1>4, <1>6 DEF TrimmerHand
<1>9. PICK taken : taken = ToSet(SubSeq(activeList, 1, k))
  OBVIOUS
<1>10. /\ Hands["trimmer"] = {}
       /\ Hands' = [Hands EXCEPT !["trimmer"] = taken]
       /\ Hands' # Hands
  <2>1. UserHand' = UserHand /\ WriterHand' = WriterHand
    BY <1>4 DEF TrimmerStep, UserHand, WriterHand
  <2>2. TrimmerHand' = taken
    BY <1>7, <1>9
  <2>3. Hands' = [Hands EXCEPT !["trimmer"] = taken]
    BY <2>1, <2>2 DEF Hands
  <2>4. Hands["trimmer"] = TrimmerHand /\ Hands'["trimmer"] = TrimmerHand'
    BY DEF Hands
  <2> QED  BY <1>7, <1>8, <2>3, <2>4
<1>11. PICK left : left = SubSeq(activeList, k + 1, Len(activeList))
  OBVIOUS
<1>12. ListsByName' = [ListsByName EXCEPT !["active"] = left]
  <2>1. activeList' = left
    BY <1>5, <1>11
  <2>2. UNCHANGED <<freeList, modifiedList, standbyList>>
    BY <1>4
  <2> QED  BY <2>1, <2>2 DEF ListsByName
<1>13. ListsByName["active"] = activeList
  BY DEF ListsByName
<1>14. FramesInHand["trimmer"] \cup ToSet(SubSeq(activeList, 1, k)) = taken
  BY <1>9, <1>10
<1>15. L!Take("trimmer", "active")
  <2>1. k \in 1 .. Len(ListsByName["active"])
    BY <1>3, <1>13
  <2>2. FramesInHand' = [FramesInHand EXCEPT !["trimmer"] =
                           @ \cup L!ToSet(SubSeq(ListsByName["active"], 1, k))]
    BY <1>10, <1>13, <1>14 DEF L!ToSet, ToSet
  <2>3. ListsByName' = [ListsByName EXCEPT !["active"] =
                          SubSeq(@, k + 1, Len(@))]
    BY <1>11, <1>12, <1>13
  <2> QED  BY <2>1, <2>2, <2>3 DEF L!Take, L!TakesFrom
<1> QED  BY <1>10, <1>15 DEF L!Next, L!Names, L!Threads

(* The trimmer puts a victim on the modified list.                         *)
LEMMA TrimmerPuts ==
  ASSUME IndInv, IndInv', TrimmerStep, MarkVictim,
         FramesInHand = Hands, FramesInHand' = Hands'
  PROVE  L!Next
<1>1. PICK f : f = tvictims[ti]
  OBVIOUS
<1>2. /\ tvictims \in Seq(Frames) /\ Len(tvictims) \in Nat
      /\ DOMAIN tvictims = 1 .. Len(tvictims)
      /\ ti \in 1 .. Len(tvictims) /\ f \in Frames
      /\ IsInjective(tvictims) /\ tpc = "mark" /\ tvictims' = tvictims
  <2>1. tvictims \in Seq(Frames) /\ IsInjective(tvictims)
    BY DEF IndInv, TypeOK, TrimmerTypeOK, NoListRepeats
  <2>2. ti \in 1 .. Len(tvictims) /\ tpc = "mark" /\ tvictims' = tvictims
    BY DEF IndInv, TrimmerControl, MarkVictim
  <2> QED  BY <1>1, <2>1, <2>2, LenProperties, ElementOfSeq
<1>3. InTrimmerHand(f)
  BY <1>1, <1>2 DEF InTrimmerHand
<1>4. pfnStatus[f] = PFN_ACTIVE /\ pfnStatus \in [Frames -> PfnStatus]
  BY <1>2, <1>3 DEF IndInv, StatusIsPlace, TypeOK, SharedTypeOK
<1>5. pfnStatus' = [pfnStatus EXCEPT ![f] = PFN_MODIFIED]
  BY <1>1 DEF MarkVictim
<1>6. UserHand' = UserHand
  <2>1. UNCHANGED userVars
    BY DEF TrimmerStep
  <2>2. \A g \in Frames : pfnStatus'[g] = PFN_MIDRESCUE
                             <=> pfnStatus[g] = PFN_MIDRESCUE
    BY <1>4, <1>5
  <2> QED  BY <2>1, <2>2, UserHandStays
<1>7. WriterHand' = WriterHand
  BY <1>2, <1>4, <1>5 DEF WriterHand
<1>8. TrimmerHand' = TrimmerHand \ {f} /\ f \in TrimmerHand
  <2>1. TrimmerHand = {tvictims[i] : i \in ti .. Len(tvictims)}
    BY <1>2 DEF TrimmerHand
  <2>2. TrimmerHand' = {tvictims[i] : i \in ti + 1 .. Len(tvictims)}
    <3>1. CASE ti = Len(tvictims)
      BY <1>2, <3>1 DEF MarkVictim, TrimmerHand
    <3>2. CASE ti # Len(tvictims)
      <4>1. ti' = ti + 1 /\ tpc' = tpc
        BY <3>2, Zenon DEF MarkVictim
      <4> QED  BY <1>2, <4>1 DEF TrimmerHand
    <3> QED  BY <3>1, <3>2
  <2>3. \A i \in ti + 1 .. Len(tvictims) : tvictims[i] # f
    BY <1>1, <1>2 DEF IsInjective
  <2>4. \A i \in ti .. Len(tvictims) : i = ti \/ i \in ti + 1 .. Len(tvictims)
    BY <1>2
  <2>5. \A i \in ti + 1 .. Len(tvictims) : i \in ti .. Len(tvictims)
    BY <1>2
  <2>6. ti \in ti .. Len(tvictims)
    BY <1>2
  <2> QED  BY <1>1, <2>1, <2>2, <2>3, <2>4, <2>5, <2>6
<1>9. PICK rest : rest = TrimmerHand \ {f}
  OBVIOUS
<1>10. Hands' = [Hands EXCEPT !["trimmer"] = rest]
  <2>1. TrimmerHand' = rest
    BY <1>8, <1>9
  <2> QED  BY <1>6, <1>7, <2>1 DEF Hands
<1>11. Hands["trimmer"] = TrimmerHand /\ Hands'["trimmer"] = TrimmerHand'
  BY DEF Hands
<1>12. PICK longer : longer = Append(modifiedList, f)
  OBVIOUS
<1>13. ListsByName' = [ListsByName EXCEPT !["modified"] = longer]
  <2>1. /\ modifiedList' = longer
        /\ UNCHANGED <<freeList, activeList, standbyList>>
    BY <1>1, <1>12 DEF MarkVictim, add_entry
  <2> QED  BY <2>1 DEF ListsByName
<1>14. ListsByName["modified"] = modifiedList
  BY DEF ListsByName
<1>15. L!Put("trimmer", f)
  BY <1>8, <1>9, <1>10, <1>11, <1>12, <1>13, <1>14 DEF L!Put, L!PutsOn
<1>16. FramesInHand' # FramesInHand
  BY <1>8, <1>11
<1> QED  BY <1>2, <1>15, <1>16 DEF L!Next, L!Threads

LEMMA TrimmerFollowsLists ==
  ASSUME IndInv, IndInv', TrimmerStep,
         FramesInHand = Hands, FramesInHand' = Hands'
  PROVE  [L!Next]_<<ListsByName, FramesInHand>>
<1>1. UNCHANGED userVars
  BY DEF TrimmerStep
<1>2. ASSUME UNCHANGED <<lists, pfnStatus>>, TrimmerHand' = TrimmerHand
      PROVE  UNCHANGED <<ListsByName, FramesInHand>>
  BY <1>1, <1>2, UnmovedIsStutter DEF Unmoved, WriterHand, UserHand
<1>3. CASE AwaitTrimmer \/ SignalWriter \/ UnmapVictims
  BY <1>2, <1>3 DEF AwaitTrimmer, SignalWriter, UnmapVictims, TrimmerHand
<1>4. CASE TrimLockPageTable \/ TrimLockModified
  BY <1>2, <1>4 DEF TrimLockPageTable, TrimLockModified, TrimLock, TrimmerHand
<1>5. CASE PopVictims /\ activeList = <<>>
  <2>1. Len(activeList) = 0 /\ activeList \in Seq(Frames) /\ TrimBatch = 0
    BY <1>5, EmptySeq, TrimBatchAssumption DEF TrimBatch
  <2>2. activeList' = SubSeq(activeList, 0 + 1, Len(activeList))
    BY <1>5, <2>1 DEF PopVictims
  <2>3. activeList' \in Seq(Frames) /\ \A f : ~ On(activeList', f)
    BY <1>5, <2>1, <2>2, PopBatch DEF On
  <2>4. activeList' = <<>>
    BY <2>1, <2>2
  <2>5. UNCHANGED <<lists, pfnStatus>>
    BY <1>5, <2>4 DEF PopVictims
  <2>6. TrimmerHand' = TrimmerHand
    BY <1>5 DEF PopVictims, IsListEmpty, TrimmerHand
  <2> QED  BY <1>2, <2>5, <2>6
<1>6. CASE PopVictims /\ activeList # <<>>
  BY <1>6, TrimmerTakes
<1>7. CASE MarkVictim
  BY <1>7, TrimmerPuts
<1> QED  BY <1>3, <1>4, <1>5, <1>6, <1>7 DEF TrimmerStep, TrimmerNext

(* The writer takes a frame from the modified list, one at a time.         *)
LEMMA WriterTakes ==
  ASSUME IndInv, IndInv', WriterStep, PopModified,
         FramesInHand = Hands, FramesInHand' = Hands'
  PROVE  L!Next
<1>1. modifiedList \in Seq(Frames) /\ modifiedList # <<>>
  BY DEF IndInv, TypeOK, SharedTypeOK, PopModified, Popping, IsListEmpty
<1>2. PICK f : f = Head(modifiedList)
  OBVIOUS
<1>3. f \in Frames /\ On(modifiedList, f)
  BY <1>1, <1>2, PopPage
<1>4. pfnStatus[f] = PFN_MODIFIED /\ pfnStatus \in [Frames -> PfnStatus]
  BY <1>3 DEF IndInv, StatusIsPlace, TypeOK, SharedTypeOK
<1>5. pfnStatus' = [pfnStatus EXCEPT ![f] = PFN_MIDWRITE]
  BY <1>2 DEF PopModified
<1>6. UserHand' = UserHand /\ TrimmerHand' = TrimmerHand
  <2>1. UNCHANGED <<userVars, trimmerVars>>
    BY DEF WriterStep
  <2>2. \A g \in Frames : pfnStatus'[g] = PFN_MIDRESCUE
                             <=> pfnStatus[g] = PFN_MIDRESCUE
    BY <1>4, <1>5
  <2> QED  BY <2>1, <2>2, UserHandStays DEF TrimmerHand
<1>7. WriterHand' = WriterHand \cup {f} /\ f \notin WriterHand
  BY <1>3, <1>4, <1>5 DEF WriterHand
<1>8. PICK more : more = WriterHand \cup {f}
  OBVIOUS
<1>9. Hands' = [Hands EXCEPT !["writer"] = more]
  <2>1. WriterHand' = more
    BY <1>7, <1>8
  <2> QED  BY <1>6, <2>1 DEF Hands
<1>10. Hands["writer"] = WriterHand /\ Hands'["writer"] = WriterHand'
  BY DEF Hands
<1>11. PICK left : left = Tail(modifiedList)
  OBVIOUS
<1>12. ListsByName' = [ListsByName EXCEPT !["modified"] = left]
  <2>1. /\ modifiedList' = left
        /\ UNCHANGED <<freeList, activeList, standbyList>>
    BY <1>11 DEF PopModified
  <2> QED  BY <2>1 DEF ListsByName
<1>13. ListsByName["modified"] = modifiedList
  BY DEF ListsByName
<1>14. /\ 1 \in 1 .. Len(modifiedList)
       /\ ToSet(SubSeq(modifiedList, 1, 1)) = {f}
       /\ SubSeq(modifiedList, 1 + 1, Len(modifiedList)) = left
  BY <1>1, <1>2, <1>11, TakeHead
<1>15. FramesInHand["writer"] \cup ToSet(SubSeq(modifiedList, 1, 1)) = more
  BY <1>8, <1>10, <1>14
<1>16. L!Take("writer", "modified")
  <2>1. 1 \in 1 .. Len(ListsByName["modified"])
    BY <1>13, <1>14
  <2>2. FramesInHand' = [FramesInHand EXCEPT !["writer"] =
                           @ \cup L!ToSet(SubSeq(ListsByName["modified"], 1, 1))]
    BY <1>9, <1>10, <1>13, <1>15 DEF L!ToSet, ToSet
  <2>3. ListsByName' = [ListsByName EXCEPT !["modified"] =
                          SubSeq(@, 1 + 1, Len(@))]
    BY <1>12, <1>13, <1>14
  <2> QED  BY <2>1, <2>2, <2>3 DEF L!Take, L!TakesFrom
<1>17. FramesInHand' # FramesInHand
  BY <1>7, <1>10
<1> QED  BY <1>16, <1>17 DEF L!Next, L!Names, L!Threads

(* The writer puts a frame it has written on the standby list.             *)
LEMMA WriterPuts ==
  ASSUME IndInv, IndInv', WriterStep, WritePage,
         FramesInHand = Hands, FramesInHand' = Hands'
  PROVE  L!Next
<1>1. PICK f : f = wvictims[wi]
  OBVIOUS
<1>2. f \in Frames
  BY <1>1, ElementOfSeq, LenProperties
     DEF IndInv, TypeOK, WriterTypeOK, WriterControl, WritePage
<1>3. pfnStatus[f] = PFN_MIDWRITE /\ pfnStatus \in [Frames -> PfnStatus]
  BY <1>1 DEF IndInv, TypeOK, SharedTypeOK, WritePage, StillMidwrite
<1>4. pfnStatus' = [pfnStatus EXCEPT ![f] = PFN_STANDBY]
  BY <1>1 DEF WritePage
<1>5. UserHand' = UserHand /\ TrimmerHand' = TrimmerHand
  <2>1. UNCHANGED <<userVars, trimmerVars>>
    BY DEF WriterStep
  <2>2. \A g \in Frames : pfnStatus'[g] = PFN_MIDRESCUE
                             <=> pfnStatus[g] = PFN_MIDRESCUE
    BY <1>3, <1>4
  <2> QED  BY <2>1, <2>2, UserHandStays DEF TrimmerHand
<1>6. WriterHand' = WriterHand \ {f} /\ f \in WriterHand
  BY <1>2, <1>3, <1>4 DEF WriterHand
<1>7. PICK rest : rest = WriterHand \ {f}
  OBVIOUS
<1>8. Hands' = [Hands EXCEPT !["writer"] = rest]
  <2>1. WriterHand' = rest
    BY <1>6, <1>7
  <2> QED  BY <1>5, <2>1 DEF Hands
<1>9. Hands["writer"] = WriterHand /\ Hands'["writer"] = WriterHand'
  BY DEF Hands
<1>10. PICK longer : longer = Append(standbyList, f)
  OBVIOUS
<1>11. ListsByName' = [ListsByName EXCEPT !["standby"] = longer]
  <2>1. /\ standbyList' = longer
        /\ UNCHANGED <<freeList, activeList, modifiedList>>
    BY <1>1, <1>10 DEF WritePage, add_entry
  <2> QED  BY <2>1 DEF ListsByName
<1>12. ListsByName["standby"] = standbyList
  BY DEF ListsByName
<1>13. L!Put("writer", f)
  BY <1>6, <1>7, <1>8, <1>9, <1>10, <1>11, <1>12 DEF L!Put, L!PutsOn
<1>14. FramesInHand' # FramesInHand
  BY <1>6, <1>9
<1> QED  BY <1>2, <1>13, <1>14 DEF L!Next, L!Threads

LEMMA WriterFollowsLists ==
  ASSUME IndInv, IndInv', WriterStep,
         FramesInHand = Hands, FramesInHand' = Hands'
  PROVE  [L!Next]_<<ListsByName, FramesInHand>>
<1>1. ASSUME UNCHANGED <<lists, pfnStatus>>
      PROVE  UNCHANGED <<ListsByName, FramesInHand>>
  BY <1>1, UnmovedIsStutter
     DEF Unmoved, WriterStep, WriterHand, UserHand, TrimmerHand
<1>2. CASE CheckModifiedList \/ AwaitStart \/ CheckVictim \/ SignalUser
  BY <1>1, <1>2 DEF CheckModifiedList, AwaitStart, CheckVictim, SignalUser
<1>3. CASE SearchSlot
  BY <1>1, <1>3 DEF SearchSlot
<1>4. CASE WriteLockModified \/ WriteLockStandby \/ EndPop \/ SkipRescued
  BY <1>1, <1>4 DEF WriteLockModified, WriteLockStandby, WriteLock, EndPop,
                    SkipRescued
<1>5. CASE PopModified
  BY <1>5, WriterTakes
<1>6. CASE WritePage
  BY <1>6, WriterPuts
<1> QED  BY <1>2, <1>3, <1>4, <1>5, <1>6 DEF WriterStep, WriterNext

(* Frames are taken from the lists oldest first, go from thread to thread  *)
(* only through a list, and leave it out of turn, or leave the writer's    *)
(* hands, only when the user rescues them (trimmer.c:37, lists.c:77,       *)
(* pagefaulthandler.c:57-88): the threads implement PageLists.             *)
THEOREM ImplementsPageLists == Spec => FramesMoveThroughLists
<1>1. Init => L!Init
  <2> SUFFICES ASSUME Init PROVE L!Init
    OBVIOUS
  <2>1. FramesInHand = Hands /\ IndInv
    BY InitIndInv, HandsByStatus
  <2>2. UserHand = {} /\ TrimmerHand = {}
    BY DEF Init, InitUser, InitTrimmer, UserHand, TrimmerHand, FillPC, RescuePC
  <2>3. WriterHand = {}
    BY DEF Init, InitShared, WriterHand
  <2>4. FramesInHand = [t \in L!Threads |-> {}]
    BY <2>1, <2>2, <2>3 DEF Hands, L!Threads
  <2>5. ListsByName = [n \in L!Names |-> IF n = "free" THEN physical_page_numbers
                                         ELSE <<>>]
    BY DEF Init, InitShared, ListsByName, L!Names
  <2> QED  BY <2>4, <2>5 DEF L!Init
<1>2. ASSUME IndInv, [Next]_vars
      PROVE  [L!Next]_<<ListsByName, FramesInHand>>
  <2>1. IndInv'
    BY <1>2, NextInv
  <2>2. FramesInHand = Hands
    BY <1>2, HandsByStatus
  <2>3. FramesInHand' = Hands'
    <3>1. (FramesInHand = Hands)'
      BY <2>1, HandsByStatus, PTL
    <3> QED  BY <3>1
  <2>4. CASE UNCHANGED vars
    <3>1. UNCHANGED <<lists, UserHand, TrimmerHand, WriterHand>>
      BY <2>4 DEF vars, UserHand, TrimmerHand, WriterHand
    <3> QED  BY <2>2, <2>3, <3>1, UnmovedIsStutter DEF Unmoved
  <2> QED  BY <1>2, <2>1, <2>2, <2>3, <2>4, UserFollowsLists,
              TrimmerFollowsLists, WriterFollowsLists DEF Next
<1> QED  BY <1>1, <1>2, IndInvariant, PTL
         DEF Spec, FramesMoveThroughLists, L!Spec
------------------------------------------------------------------------------
(* The threads together implement PageLifecycle.  Beside IndInv the proof  *)
(* needs that a standby frame has a slot: otherwise the page that loses    *)
(* the frame would read as never touched.                                  *)
StandbyHasSlot ==
  \A f \in Frames : On(standbyList, f) => pfnDiskIndex[f] # 0

(* The steps that change the standby list or the slot of a frame.          *)
LEMMA StandbyWrites ==
  [Next]_vars =>
    \/ UNCHANGED <<standbyList, pfnDiskIndex>>
    \/ PopStandby \/ RescueStandby \/ WritePage
<1> DEFINE Same == UNCHANGED <<standbyList, pfnDiskIndex>>
<1>1. (\E va \in VAs : WriteVA(va) \/ FaultOn(va)) => Same
  BY DEF WriteVA, FaultOn
<1>2. StartFault \/ ReadDisk \/ ZeroPage \/ ClearSlot \/ FreeSlot => Same
  BY DEF StartFault, ReadDisk, ZeroPage, ClearSlot, FreeSlot
<1>3. CheckModified \/ CheckMidwrite \/ CheckStandby => Same
  BY DEF CheckModified, CheckMidwrite, CheckStandby, CheckStatus
<1>4. LockModified \/ LockStandby \/ LockPageTable \/ LockStandbyList => Same
  BY DEF LockModified, LockStandby, LockPageTable, LockStandbyList, Lock
<1>5. SignalTrimmer \/ AwaitWriter \/ PopFree \/ MapVA => Same
  BY DEF SignalTrimmer, AwaitWriter, PopFree, MapVA
<1>6. RescueModified \/ RescueMidwrite \/ SetValid \/ AddActive => Same
  BY DEF RescueModified, RescueMidwrite, SetValid, AddActive
<1>7. UserStep => Same \/ PopStandby \/ RescueStandby
  BY <1>1, <1>2, <1>3, <1>4, <1>5, <1>6
     DEF UserStep, UserNext, HandleFault, Rescue, GetFreePage
<1>8. TrimmerStep => Same
  BY DEF TrimmerStep, TrimmerNext, AwaitTrimmer, PopVictims, TrimLockPageTable,
         TrimLockModified, TrimLock, MarkVictim, UnmapVictims, SignalWriter
<1>9. CheckModifiedList \/ AwaitStart \/ CheckVictim \/ SignalUser => Same
  BY DEF CheckModifiedList, AwaitStart, CheckVictim, SignalUser
<1>10. SearchSlot \/ PopModified \/ EndPop \/ SkipRescued => Same
  BY DEF SearchSlot, PopModified, EndPop, SkipRescued
<1>11. WriteLockModified \/ WriteLockStandby => Same
  BY DEF WriteLockModified, WriteLockStandby, WriteLock
<1>12. WriterStep => Same \/ WritePage
  BY <1>9, <1>10, <1>11 DEF WriterStep, WriterNext
<1> QED  BY <1>7, <1>8, <1>12 DEF Next, vars

(* A frame comes to the standby list with a slot (writer.c:135) and loses  *)
(* the slot when it has left the list (lists.c:78-90).                     *)
LEMMA StandbySlotInv ==
  IndInv /\ StandbyHasSlot /\ [Next]_vars => StandbyHasSlot'
<1> SUFFICES ASSUME IndInv, StandbyHasSlot, [Next]_vars PROVE StandbyHasSlot'
  OBVIOUS
<1>1. /\ standbyList \in Seq(Frames) /\ IsInjective(standbyList)
      /\ pfnDiskIndex \in [Frames -> Slots]
  BY DEF IndInv, TypeOK, SharedTypeOK, NoListRepeats
<1>2. CASE UNCHANGED <<standbyList, pfnDiskIndex>>
  BY <1>2 DEF StandbyHasSlot
<1>3. CASE PopStandby
  <2>1. CASE standbyList = <<>>
    BY <1>3, <2>1 DEF PopStandby, IsListEmpty, StandbyHasSlot
  <2>2. CASE standbyList # <<>>
    <3>1. /\ standbyList' = Tail(standbyList)
          /\ pfnDiskIndex' = [pfnDiskIndex EXCEPT ![Head(standbyList)] = 0]
      BY <1>3, <2>2 DEF PopStandby, IsListEmpty
    <3>2. \A f : On(standbyList', f) <=>
                   On(standbyList, f) /\ f # Head(standbyList)
      BY <1>1, <2>2, <3>1, PopPage
    <3> QED  BY <1>1, <3>1, <3>2 DEF StandbyHasSlot
  <2> QED  BY <2>1, <2>2
<1>4. CASE RescueStandby
  <2>1. \A f : On(standbyList', f) => On(standbyList, f)
    BY <1>1, <1>4, RemovePage DEF RescueStandby
  <2> QED  BY <1>4, <2>1 DEF StandbyHasSlot, RescueStandby
<1>5. CASE WritePage
  <2>1. /\ wslots[wi] \in Slots \ {0}
        /\ wvictims[wi] \in Frames
    BY <1>5, ElementOfSeq, LenProperties
       DEF IndInv, TypeOK, WriterTypeOK, WriterControl, WritePage
  <2>2. /\ \A f : On(standbyList', f) <=>
                    On(standbyList, f) \/ f = wvictims[wi]
        /\ pfnDiskIndex' = [pfnDiskIndex EXCEPT ![wvictims[wi]] = wslots[wi]]
    BY <1>1, <1>5, <2>1, AddEntry DEF WritePage
  <2> QED  BY <1>1, <2>1, <2>2 DEF StandbyHasSlot
<1> QED  BY <1>2, <1>3, <1>4, <1>5, StandbyWrites

(* So every standby frame has a slot, always.                              *)
LEMMA StandbyAlwaysHasSlot == Spec => []StandbyHasSlot
<1>1. Init => StandbyHasSlot
  BY DEF Init, InitShared, StandbyHasSlot, On
<1> QED  BY <1>1, StandbySlotInv, IndInvariant, PTL DEF Spec
------------------------------------------------------------------------------
(* Where an entry says its page is.                                        *)
LEMMA WhereBy ==
  ASSUME NEW p \in PTE
  PROVE  /\ p.valid = 1 => WhereIs(p) = "resident" /\ FrameOf(p) = p.index
         /\ IS_PTE_TRANSITION(p) =>
              WhereIs(p) = "leaving" /\ FrameOf(p) = p.index
         /\ ~ Resident(p) => FrameOf(p) = NoFrame
         /\ ~ Resident(p) /\ p.index # 0 => WhereIs(p) = "on disk"
         /\ ~ Resident(p) /\ p.index = 0 => WhereIs(p) = "untouched"
<1> USE DEF WhereIs, FrameOf, Resident, IS_PTE_TRANSITION, PTE
<1>1. CASE p.valid = 1
  BY <1>1
<1>2. CASE p.valid = 0 /\ p.status = 1
  BY <1>2
<1>3. CASE p.valid = 0 /\ p.status = 0 /\ p.index # 0
  BY <1>3
<1>4. CASE p.valid = 0 /\ p.status = 0 /\ p.index = 0
  BY <1>4
<1> QED  BY <1>1, <1>2, <1>3, <1>4

(* A step that rewrites one entry moves one page.                          *)
LEMMA OneEntry ==
  ASSUME NEW va \in VAs, NEW p, pageTable \in [VAs -> PTE],
         pageTable' = [pageTable EXCEPT ![va] = p]
  PROVE  /\ Where' = [Where EXCEPT ![va] = WhereIs(p)]
         /\ Backing' = [Backing EXCEPT ![va] = FrameOf(p)]
BY DEF Where, Backing

(* ... and is no stutter when the page was elsewhere.                      *)
LEMMA PageMoves ==
  ASSUME NEW va \in VAs, NEW place, Where' = [Where EXCEPT ![va] = place],
         Where[va] # place
  PROVE  Where' # Where
<1>1. Where'[va] = place
  BY DEF Where
<1> QED  BY <1>1

(* Every step is a step of PageLifecycle or leaves all pages where they    *)
(* are.                                                                    *)
LEMMA StepsFollowLifecycle ==
  IndInv /\ StandbyHasSlot /\ [Next]_vars => [Life!Next]_<<Where, Backing>>
<1> SUFFICES ASSUME IndInv, StandbyHasSlot, [Next]_vars
             PROVE  [Life!Next]_<<Where, Backing>>
  OBVIOUS
<1>1. /\ pageTable \in [VAs -> PTE] /\ pfnDiskIndex \in [Frames -> Slots]
      /\ standbyList \in Seq(Frames)
  BY DEF IndInv, TypeOK, SharedTypeOK
<1>2. CASE pageTable' = pageTable
  BY <1>2 DEF Where, Backing
<1>3. CASE PopStandby
  <2>1. CASE standbyList = <<>>
    BY <1>2, <1>3, <2>1 DEF PopStandby, IsListEmpty
  <2>2. CASE standbyList # <<>>
    <3> DEFINE f == Head(standbyList)
               va == pfnPte[f]
               p == ToDisk(pageTable[va], pfnDiskIndex[f])
    <3>1. f \in Frames /\ On(standbyList, f)
      BY <1>1, <2>2, PopPage
    <3>2. pageTable' = [pageTable EXCEPT ![va] = p]
      BY <1>3, <2>2 DEF PopStandby, IsListEmpty
    <3> HIDE DEF f
    <3>3. va \in VAs /\ IS_PTE_TRANSITION(pageTable[va])
      BY <1>3, <3>1 DEF IndInv, FramesNamePages, PopStandby
    <3>4. pfnDiskIndex[f] # 0 /\ pfnDiskIndex[f] \in Nat
      BY <1>1, <3>1 DEF StandbyHasSlot, Slots
    <3>5. p \in PTE /\ ~ Resident(p) /\ p.index # 0
      BY <1>1, <3>3, <3>4 DEF ToDisk, PTE, IS_PTE_TRANSITION, Resident
    <3> HIDE DEF va, p
    <3>6. /\ Where' = [Where EXCEPT ![va] = "on disk"]
          /\ Backing' = [Backing EXCEPT ![va] = NoFrame]
      <4>1. WhereIs(p) = "on disk" /\ FrameOf(p) = NoFrame
        BY <3>5, WhereBy
      <4>2. /\ Where' = [Where EXCEPT ![va] = WhereIs(p)]
            /\ Backing' = [Backing EXCEPT ![va] = FrameOf(p)]
        BY <1>1, <3>2, <3>3, OneEntry
      <4> QED  BY <4>1, <4>2
    <3>7. Where[va] = "leaving"
      BY <1>1, <3>3, WhereBy DEF Where
    <3>8. Life!Evict(va)
      BY <3>6, <3>7 DEF Life!Evict, Life!Leaving, Life!OnDisk
    <3>9. Where' # Where
      BY <3>3, <3>6, <3>7, PageMoves
    <3> QED  BY <3>3, <3>8, <3>9 DEF Life!Next
  <2> QED  BY <2>1, <2>2
<1>4. CASE SetValid
  <2>1. uva \in VAs /\ uframe \in Frames /\ InUserHand(uframe)
        /\ pageTable' = [pageTable EXCEPT ![uva] = ValidPte(uframe)]
    BY <1>4 DEF SetValid, IndInv, UserControl, InUserHand, PopPC
  <2>2. ValidPte(uframe) \in PTE /\ ValidPte(uframe).valid = 1
        /\ ValidPte(uframe).index = uframe
    BY <2>1, StateAssumption DEF ValidPte, PTE
  <2>3. /\ Where' = [Where EXCEPT ![uva] = "resident"]
        /\ Backing' = [Backing EXCEPT ![uva] = uframe]
    <3> DEFINE p == ValidPte(uframe)
    <3>1. WhereIs(p) = "resident" /\ FrameOf(p) = uframe
      BY <2>2, WhereBy
    <3>2. /\ Where' = [Where EXCEPT ![uva] = WhereIs(p)]
          /\ Backing' = [Backing EXCEPT ![uva] = FrameOf(p)]
      BY <1>1, <2>1, OneEntry
    <3> QED  BY <3>1, <3>2
  <2>4. CASE IS_PTE_TRANSITION(pageTable[uva])
    <3>1. pageTable[uva].index = uframe
      BY <1>4, <2>4 DEF SetValid, IndInv, UserControl, Resident,
                        IS_PTE_TRANSITION
    <3>2. Where[uva] = "leaving" /\ Backing[uva] = uframe
      BY <1>1, <2>1, <2>4, <3>1, WhereBy DEF Where, Backing
    <3>3. Backing' = Backing
      BY <2>3, <3>2 DEF Backing
    <3>4. Where' # Where
      BY <2>1, <2>3, <3>2, PageMoves
    <3> QED  BY <2>1, <2>3, <3>2, <3>3, <3>4
             DEF Life!Next, Life!Rescue, Life!Leaving, Life!Resident
  <2>5. CASE ~ IS_PTE_TRANSITION(pageTable[uva])
    <3>1. /\ ~ Resident(pageTable[uva])
          /\ pfnStatus[uframe] \in {PFN_FREE, PFN_STANDBY}
      BY <1>4, <2>5 DEF SetValid, IndInv, UserControl
    <3>2. ASSUME NEW va \in VAs PROVE Backing[va] # uframe
      <4>1. CASE ~ Resident(pageTable[va])
        BY <2>1, <4>1, StateAssumption DEF Backing, FrameOf
      <4>2. CASE Resident(pageTable[va])
        <5>1. ~ On(standbyList, uframe) /\ ~ On(activeList, uframe)
              /\ ~ InTrimmerHand(uframe)
          BY <2>1, <3>1 DEF IndInv, StatusIsPlace
        <5>2. pageTable[va].index # uframe
          BY <1>1, <1>4, <3>1, <4>2, <5>1
             DEF SetValid, IndInv, PagesNameFrames, Resident,
                 IS_PTE_TRANSITION, PTE
        <5> QED  BY <4>2, <5>2 DEF Backing, FrameOf
      <4> QED  BY <4>1, <4>2
    <3>3. Where[uva] \notin {"resident", "leaving"}
      BY <1>1, <2>1, <3>1, WhereBy DEF Where, PTE
    <3>4. Life!FaultIn(uva, uframe)
      BY <2>3, <3>2, <3>3
         DEF Life!FaultIn, Life!Backed, Life!Resident, Life!Leaving
    <3>5. Where' # Where
      BY <2>1, <2>3, <3>3, PageMoves
    <3> QED  BY <2>1, <3>4, <3>5 DEF Life!Next
  <2> QED  BY <2>4, <2>5
<1>5. CASE MarkVictim
  <2> DEFINE va == tptes[ti]
             p == ToTransition(pageTable[va])
  <2>1. pageTable' = [pageTable EXCEPT ![va] = p]
    BY <1>5 DEF MarkVictim
  <2>2. /\ tvictims[ti] \in Frames /\ InTrimmerHand(tvictims[ti])
        /\ va = pfnPte[tvictims[ti]]
    BY <1>5, ElementOfSeq, LenProperties
       DEF MarkVictim, IndInv, TypeOK, TrimmerTypeOK, TrimmerControl,
           InTrimmerHand
  <2>3. va \in VAs /\ pageTable[va].valid = 1
    BY <2>2 DEF IndInv, FramesNamePages
  <2> HIDE DEF va
  <2>4. /\ p \in PTE /\ IS_PTE_TRANSITION(p) /\ p.valid = 0
        /\ p.index = pageTable[va].index
    BY <1>1, <2>3 DEF ToTransition, PTE, IS_PTE_TRANSITION
  <2> HIDE DEF p
  <2>5. /\ Where' = [Where EXCEPT ![va] = "leaving"]
        /\ Backing' = [Backing EXCEPT ![va] = pageTable[va].index]
    <3>1. WhereIs(p) = "leaving" /\ FrameOf(p) = pageTable[va].index
      BY <2>4, WhereBy
    <3>2. /\ Where' = [Where EXCEPT ![va] = WhereIs(p)]
          /\ Backing' = [Backing EXCEPT ![va] = FrameOf(p)]
      BY <1>1, <2>1, <2>3, OneEntry
    <3> QED  BY <3>1, <3>2
  <2>6. Where[va] = "resident" /\ Backing[va] = pageTable[va].index
    BY <1>1, <2>3, WhereBy DEF Where, Backing
  <2>7. Backing' = Backing
    BY <2>5, <2>6 DEF Backing
  <2>8. Where' # Where
    BY <2>3, <2>5, <2>6, PageMoves
  <2> QED  BY <2>3, <2>5, <2>6, <2>7, <2>8
           DEF Life!Next, Life!Trim, Life!Resident, Life!Leaving
<1> QED  BY <1>2, <1>3, <1>4, <1>5, Writes

(* A page that was touched is always somewhere, only pages in transition   *)
(* lose their frames, and a frame backs one page at a time                 *)
(* (lists.c:83-91, pagefaulthandler.c:15-17, trimmer.c:67-68): the threads *)
(* implement PageLifecycle.                                                *)
THEOREM ImplementsPageLifecycle == Spec => PagesFollowLifecycle
<1>1. Init => Life!Init
  <2>1. ZeroPte \in PTE /\ ~ Resident(ZeroPte) /\ ZeroPte.index = 0
    BY DEF ZeroPte, PTE, Resident
  <2> QED  BY <2>1, WhereBy DEF Init, InitShared, Life!Init, Life!Untouched,
                                Where, Backing
<1> QED  BY <1>1, StepsFollowLifecycle, IndInvariant, StandbyAlwaysHasSlot, PTL
         DEF Spec, PagesFollowLifecycle, Life!Spec
------------------------------------------------------------------------------
(* The whole program (module Lifecycle) runs the threads of MemoryManager,  *)
(* so what is proved of them holds of it, and it frees the memory only     *)
(* when the user thread is done, for any number of accesses.               *)

(* What a step of the program is for its threads.                          *)
LEMMA ProgramSteps ==
  [ProgramNext]_programVars => [Next]_vars
<1> SUFFICES ASSUME [ProgramNext]_programVars PROVE [Next]_vars
  OBVIOUS
<1>1. CASE UNCHANGED programVars
  BY <1>1 DEF programVars
<1>2. CASE MainNext
  BY <1>2 DEF MainNext, MainOnly, SetUpPart, SetUpFails, CreateThreads,
              StartThreads, Join, SetExitEvent, ResetExitEvent, TearDown, Return
<1>3. CASE ReturnUser \/ ReturnIdle \/ Crash
  BY <1>3 DEF ReturnUser, ReturnIdle, Crash
<1>4. CASE RunUser \/ RunTrimmer \/ RunWriter
  BY <1>4 DEF RunUser, RunTrimmer, RunWriter, Next
<1> QED  BY <1>1, <1>2, <1>3, <1>4 DEF ProgramNext

(* Setting up, starting and ending the program leave the threads' state    *)
(* alone (main.c:297-335): every behaviour of the program is one of the    *)
(* threads together.                                                       *)
THEOREM ProgramRunsTheThreads == ProgramSpec => Spec
<1>1. ProgramInit => Init
  BY DEF ProgramInit
<1> QED  BY <1>1, ProgramSteps, PTL DEF ProgramSpec, Spec

(* So page table, frame records and lists are consistent at all times, the *)
(* moments between exitEvent and the end included.                         *)
THEOREM ProgramKeepsInvariant == ProgramSpec => []IndInv
BY ProgramRunsTheThreads, IndInvariant, PTL
------------------------------------------------------------------------------
(* When the user thread is done.                                           *)

Joined == {"setExit", "resetExit", "tearDown", "return", "ended"}

EndInv ==
  /\ accesses \in Nat
  /\ accesses = Accesses => upc = "access" /\ uva = NoVA
  /\ "user" \in returned => accesses = Accesses
  /\ mpc \in Joined => "user" \in returned

(* The step that completes an access is the store.                         *)
LEMMA StoreCompletes ==
  UserStep /\ CompletesAccess => uva' = NoVA
<1> SUFFICES ASSUME UserNext, CompletesAccess PROVE uva' = NoVA
  BY DEF UserStep
<1>1. ASSUME NEW va \in VAs, WriteVA(va) PROVE uva' = NoVA
  BY <1>1 DEF WriteVA
<1>2. ASSUME NEW va \in VAs PROVE ~ FaultOn(va)
  BY DEF FaultOn, CompletesAccess
<1>3. ~ (StartFault \/ ReadDisk \/ ZeroPage \/ FreeSlot \/ SetValid
           \/ AddActive \/ MapVA)
  BY DEF StartFault, ReadDisk, ZeroPage, FreeSlot, SetValid, AddActive, MapVA,
         CompletesAccess
<1>4. ~ Rescue
  BY DEF Rescue, CheckModified, LockModified, RescueModified, CheckMidwrite,
         RescueMidwrite, CheckStandby, LockStandby, RescueStandby, ClearSlot,
         CheckStatus, Lock, CompletesAccess
<1>5. ~ GetFreePage
  BY DEF GetFreePage, PopFree, LockPageTable, LockStandbyList, PopStandby,
         SignalTrimmer, AwaitWriter, Lock, CompletesAccess
<1> QED  BY <1>1, <1>2, <1>3, <1>4, <1>5 DEF UserNext, HandleFault

LEMMA EndInvariant == ProgramSpec => []EndInv
<1>1. ProgramInit => EndInv
  BY DEF ProgramInit, EndInv, Init, InitUser, Joined
<1>2. EndInv /\ [ProgramNext]_programVars => EndInv'
  <2> SUFFICES ASSUME EndInv, [ProgramNext]_programVars PROVE EndInv'
    OBVIOUS
  <2> USE DEF EndInv, Joined
  <2>1. CASE UNCHANGED programVars
    BY <2>1 DEF programVars, mainVars, vars
  <2>2. CASE MainNext
    <3>1. UNCHANGED <<accesses, upc, uva>>
      BY <2>2 DEF MainNext, MainOnly, SetUpPart, SetUpFails, CreateThreads,
                  StartThreads, Join, SetExitEvent, ResetExitEvent, TearDown,
                  Return, vars
    <3>2. CASE SetExitEvent
      BY <3>1, <3>2 DEF SetExitEvent, Idle
    <3>3. CASE MainNext /\ ~ SetExitEvent
      BY <3>1, <3>3
         DEF MainNext, SetUpPart, SetUpFails, CreateThreads, StartThreads, Join,
             UserHasReturned, ResetExitEvent, TearDown, Return
    <3> QED  BY <2>2, <3>2, <3>3
  <2>3. CASE RunUser
    <3>1. "user" \notin returned /\ UNCHANGED <<mpc, returned>>
      BY <2>3 DEF RunUser, Runs, mainVars
    <3>2. CASE CompletesAccess
      <4>1. accesses' = accesses + 1 /\ upc' = "access" /\ uva' = NoVA
        BY <2>3, <3>2, StoreCompletes DEF RunUser, CompletesAccess
      <4> QED  BY <3>1, <4>1
    <3>3. CASE ~ CompletesAccess
      <4>1. accesses' = accesses /\ accesses # Accesses
        BY <2>3, <3>3, AccessesAssumption DEF RunUser
      <4> QED  BY <3>1, <4>1
    <3> QED  BY <3>2, <3>3
  <2>4. CASE ReturnUser
    BY <2>4 DEF ReturnUser, mainVars, vars
  <2>5. CASE RunTrimmer \/ RunWriter
    BY <2>5 DEF RunTrimmer, RunWriter, TrimmerStep, WriterStep, mainVars
  <2>6. CASE ReturnIdle
    BY <2>6 DEF ReturnIdle, Idle, mainVars, vars
  <2>7. CASE Crash
    BY <2>7 DEF Crash, vars
  <2> QED  BY <2>1, <2>2, <2>3, <2>4, <2>5, <2>6, <2>7 DEF ProgramNext
<1> QED  BY <1>1, <1>2, PTL DEF ProgramSpec

(* The memory is freed between two accesses of the user thread, never      *)
(* under a fault it handles (main.c:318-333), and the user thread does     *)
(* nothing after that.                                                     *)
THEOREM UserIsAlwaysDoneWhenFreed == ProgramSpec => UserIsDoneWhenFreed
<1> DEFINE Done == Freed => upc = "access" /\ uva = NoVA /\ UNCHANGED userVars
<1>1. EndInv /\ [ProgramNext]_programVars => [Done]_programVars
  <2> SUFFICES ASSUME EndInv, ProgramNext, Freed PROVE Done
    OBVIOUS
  <2>1. "user" \in returned /\ upc = "access" /\ uva = NoVA
    BY DEF EndInv, Freed, Joined
  <2>2. CASE MainNext \/ ReturnUser \/ ReturnIdle \/ Crash
    BY <2>1, <2>2
       DEF MainNext, MainOnly, SetUpPart, SetUpFails, CreateThreads,
           StartThreads, Join, SetExitEvent, ResetExitEvent, TearDown, Return,
           ReturnUser, ReturnIdle, Crash, vars
  <2>3. ~ RunUser
    BY <2>1 DEF RunUser, Runs
  <2>4. CASE RunTrimmer \/ RunWriter
    BY <2>1, <2>4 DEF RunTrimmer, RunWriter, TrimmerStep, WriterStep
  <2> QED  BY <2>2, <2>3, <2>4 DEF ProgramNext
<1> QED  BY <1>1, EndInvariant, PTL DEF ProgramSpec, UserIsDoneWhenFreed
==============================================================================
