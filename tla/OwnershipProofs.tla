--------------------------- MODULE OwnershipProofs ---------------------------
(***************************************************************************)
(* IndInv is inductive: it holds initially and every step of every thread  *)
(* preserves it.  Most steps are quiet, that is, they only move a thread   *)
(* on; a quiet step preserves IndInv when it preserves the thread's own    *)
(* control state and leaves its frames in its hand.  The other steps are   *)
(* taken one by one, each conjunct of IndInv in a step of its own.         *)
(***************************************************************************)
EXTENDS Ownership, ListTheorems

USE DEF PFN_FREE, PFN_ACTIVE, PFN_MODIFIED, PFN_STANDBY, PFN_MIDWRITE,
        PFN_MIDRESCUE, PTE_ON_DISK, PTE_IN_TRANSITION, NoThread
USE DEF shared, pages, lists, slots, events, userVars, trimmerVars, writerVars
------------------------------------------------------------------------------
(* Initially every frame is free.                                          *)
LEMMA InitIndInv == Init => IndInv
<1> SUFFICES ASSUME Init PROVE IndInv
  OBVIOUS
<1> USE DEF Init, InitShared, InitUser, InitTrimmer, InitWriter
<1>1. TypeOK
  <2>1. 0 \in Slots /\ 1 \in Slots \ {0}
    BY StateAssumption DEF Slots
  <2>2. ZeroPte \in PTE
    BY DEF ZeroPte, PTE
  <2>3. \A S : <<>> \in Seq(S)
    BY EmptySeq
  <2>4. SharedTypeOK
    BY <2>1, <2>2, <2>3, StateAssumption DEF SharedTypeOK, PfnStatus
  <2>5. UserTypeOK /\ TrimmerTypeOK /\ WriterTypeOK
    BY <2>3 DEF UserTypeOK, TrimmerTypeOK, WriterTypeOK, UserPC, TrimmerPC,
                WriterPC
  <2> QED  BY <2>4, <2>5 DEF TypeOK
<1>2. UserControl /\ TrimmerControl /\ WriterControl
  BY DEF UserControl, TrimmerControl, WriterControl, PopPC, RescuePC, FillPC
<1>3. \A f \in Frames : On(freeList, f)
  <2> SUFFICES ASSUME NEW f \in Frames PROVE On(freeList, f)
    OBVIOUS
  <2>1. f \in ToSet(physical_page_numbers)
    BY StateAssumption
  <2> QED  BY <2>1 DEF ToSet, On
<1>4. \A f : ~ On(<<>>, f)
  BY DEF On
<1>5. StatusIsPlace
  BY <1>3, <1>4, StateAssumption
     DEF StatusIsPlace, InUserHand, InTrimmerHand, InWriterHand
<1>6. NoListRepeats
  BY StateAssumption DEF NoListRepeats, IsInjective
<1>7. FramesNamePages /\ PagesNameFrames /\ ValidIsMapped
  BY <1>4 DEF FramesNamePages, PagesNameFrames, ValidIsMapped, InTrimmerHand,
              ZeroPte, Resident, IS_PTE_TRANSITION
<1> QED  BY <1>1, <1>2, <1>5, <1>6, <1>7 DEF IndInv
------------------------------------------------------------------------------
(* Locks are held by threads.                                              *)

LockTypeOK == lock \in [Locks -> Threads \cup {NoThread}]

(* Entering a critical section keeps every lock held by a thread or free.  *)
LEMMA EnterTyped ==
  \A l \in Locks, t \in Threads :
    LockTypeOK /\ EnterCriticalSection(l, t) => LockTypeOK'
BY DEF LockTypeOK, EnterCriticalSection

(* Leaving critical sections keeps every lock held by a thread or free.    *)
LEMMA LeaveTyped ==
  \A ls : LockTypeOK /\ LeaveCriticalSection(ls) => LockTypeOK'
BY DEF LockTypeOK, LeaveCriticalSection
------------------------------------------------------------------------------
(* Quiet steps.                                                            *)

(* The user thread moves on with the same frame in its hand.               *)
LEMMA UserQuiet ==
  /\ IndInv
  /\ UNCHANGED <<pages, lists, map, trimmerVars, writerVars>>
  /\ upc \notin {"addActive", "mapVA"} /\ upc' \notin {"addActive", "mapVA"}
  /\ uva' = uva \/ upc = "access"
  /\ \A f \in Frames : InUserHand(f)' <=> InUserHand(f)
  /\ TypeOK' /\ UserControl'
  => IndInv'
<1> SUFFICES ASSUME IndInv,
                    UNCHANGED <<pages, lists, map, trimmerVars, writerVars>>,
                    upc \notin {"addActive", "mapVA"},
                    upc' \notin {"addActive", "mapVA"},
                    uva' = uva \/ upc = "access",
                    \A f \in Frames : InUserHand(f)' <=> InUserHand(f),
                    TypeOK', UserControl'
             PROVE  IndInv'
  OBVIOUS
<1>1. TrimmerControl' /\ WriterControl' /\ NoListRepeats'
  BY DEF IndInv, TrimmerControl, Mapped, WriterControl, NoListRepeats
<1>2. StatusIsPlace'
  BY DEF IndInv, StatusIsPlace, InTrimmerHand, InWriterHand
<1>3. FramesNamePages'
  BY DEF IndInv, FramesNamePages, InTrimmerHand
<1>4. PagesNameFrames'
  <2>1. \A f \in Frames : pfnStatus[f] = PFN_MIDRESCUE => upc # "access"
    BY StateAssumption
       DEF IndInv, StatusIsPlace, InUserHand, UserControl
  <2> QED  BY <2>1 DEF IndInv, PagesNameFrames, InTrimmerHand, Resident,
                       IS_PTE_TRANSITION
<1>5. ValidIsMapped'
  BY DEF IndInv, ValidIsMapped
<1> QED  BY <1>1, <1>2, <1>3, <1>4, <1>5 DEF IndInv

(* The trimmer thread moves on with the same frames in its hand.           *)
LEMMA TrimmerQuiet ==
  /\ IndInv
  /\ UNCHANGED <<pages, lists, map, userVars, writerVars, tvictims>>
  /\ \A f \in Frames : InTrimmerHand(f)' <=> InTrimmerHand(f)
  /\ TypeOK' /\ TrimmerControl'
  => IndInv'
<1> SUFFICES ASSUME IndInv,
                    UNCHANGED <<pages, lists, map, userVars, writerVars,
                                tvictims>>,
                    \A f \in Frames : InTrimmerHand(f)' <=> InTrimmerHand(f),
                    TypeOK', TrimmerControl'
             PROVE  IndInv'
  OBVIOUS
<1>1. UserControl' /\ WriterControl' /\ NoListRepeats'
  BY DEF IndInv, UserControl, WriterControl, NoListRepeats
<1>2. StatusIsPlace'
  BY DEF IndInv, StatusIsPlace, InUserHand, InWriterHand
<1>3. FramesNamePages'
  BY DEF IndInv, FramesNamePages
<1>4. PagesNameFrames'
  BY DEF IndInv, PagesNameFrames, Resident, IS_PTE_TRANSITION
<1>5. ValidIsMapped'
  BY DEF IndInv, ValidIsMapped
<1> QED  BY <1>1, <1>2, <1>3, <1>4, <1>5 DEF IndInv

(* The writer thread moves on with the same frames in its hand.            *)
LEMMA WriterQuiet ==
  /\ IndInv
  /\ UNCHANGED <<pages, lists, map, userVars, trimmerVars>>
  /\ \A f \in Frames : InWriterHand(f)' <=> InWriterHand(f)
  /\ TypeOK' /\ WriterControl'
  => IndInv'
<1> SUFFICES ASSUME IndInv,
                    UNCHANGED <<pages, lists, map, userVars, trimmerVars>>,
                    \A f \in Frames : InWriterHand(f)' <=> InWriterHand(f),
                    TypeOK', WriterControl'
             PROVE  IndInv'
  OBVIOUS
<1>1. UserControl' /\ TrimmerControl' /\ NoListRepeats'
  BY DEF IndInv, UserControl, TrimmerControl, Mapped, NoListRepeats
<1>2. StatusIsPlace'
  BY DEF IndInv, StatusIsPlace, InUserHand, InTrimmerHand
<1>3. FramesNamePages'
  BY DEF IndInv, FramesNamePages, InTrimmerHand
<1>4. PagesNameFrames'
  BY DEF IndInv, PagesNameFrames, InTrimmerHand, Resident, IS_PTE_TRANSITION
<1>5. ValidIsMapped'
  BY DEF IndInv, ValidIsMapped
<1> QED  BY <1>1, <1>2, <1>3, <1>4, <1>5 DEF IndInv
------------------------------------------------------------------------------
(* Quiet steps of the user thread.                                         *)

(* An access to a mapped page preserves IndInv.                            *)
LEMMA WriteVAInv ==
  \A va \in VAs :
    IndInv /\ WriteVA(va) /\ UNCHANGED <<trimmerVars, writerVars>> => IndInv'
<1> SUFFICES ASSUME IndInv, NEW va \in VAs, WriteVA(va),
                    UNCHANGED <<trimmerVars, writerVars>>
             PROVE  IndInv'
  OBVIOUS
<1> USE DEF WriteVA, Accessing
<1>1. TypeOK'
  BY DEF IndInv, TypeOK, SharedTypeOK, UserTypeOK, TrimmerTypeOK, WriterTypeOK
<1>2. UserControl'
  BY DEF IndInv, UserControl, PopPC, RescuePC, FillPC
<1>3. \A f \in Frames : InUserHand(f)' <=> InUserHand(f)
  BY DEF InUserHand
<1> QED  BY <1>1, <1>2, <1>3, UserQuiet

(* A fault preserves IndInv: a page that is not mapped is not valid.       *)
LEMMA FaultOnInv ==
  \A va \in VAs :
    IndInv /\ FaultOn(va) /\ UNCHANGED <<trimmerVars, writerVars>> => IndInv'
<1> SUFFICES ASSUME IndInv, NEW va \in VAs, FaultOn(va),
                    UNCHANGED <<trimmerVars, writerVars>>
             PROVE  IndInv'
  OBVIOUS
<1> USE DEF FaultOn, Accessing
<1>1. TypeOK'
  BY DEF IndInv, TypeOK, SharedTypeOK, UserTypeOK, TrimmerTypeOK, WriterTypeOK,
         UserPC
<1>2. pageTable[va].valid = 0
  <2>1. pageTable[va].valid # 1
    BY DEF IndInv, ValidIsMapped
  <2>2. pageTable[va] \in PTE
    BY DEF IndInv, TypeOK, SharedTypeOK
  <2> QED  BY <2>1, <2>2 DEF PTE
<1>3. UserControl'
  BY <1>2 DEF IndInv, UserControl, PopPC, RescuePC, FillPC
<1>4. \A f \in Frames : InUserHand(f)' <=> InUserHand(f)
  BY DEF InUserHand
<1> QED  BY <1>1, <1>3, <1>4, UserQuiet

(* The frame a transition entry names is on its way to the standby list.   *)
LEMMA TransitionFrame ==
  ASSUME NEW va \in VAs
  PROVE  IndInv /\ IS_PTE_TRANSITION(pageTable[va]) /\ upc = "fault"
           => /\ pageTable[va].index \in Frames
              /\ pfnStatus[pageTable[va].index]
                   \in {PFN_MODIFIED, PFN_MIDWRITE, PFN_STANDBY}
<1> SUFFICES ASSUME IndInv, IS_PTE_TRANSITION(pageTable[va]), upc = "fault"
             PROVE  /\ pageTable[va].index \in Frames
                    /\ pfnStatus[pageTable[va].index]
                         \in {PFN_MODIFIED, PFN_MIDWRITE, PFN_STANDBY}
  OBVIOUS
<1> DEFINE f == pageTable[va].index
<1>1. f \in Frames
  BY DEF IndInv, PagesNameFrames, Resident, IS_PTE_TRANSITION
<1>2. pfnStatus[f] # PFN_MIDRESCUE
  BY <1>1, StateAssumption
     DEF IndInv, StatusIsPlace, InUserHand, UserControl
<1>3. On(standbyList, f) => pfnStatus[f] = PFN_STANDBY
  BY <1>1 DEF IndInv, StatusIsPlace
<1> QED  BY <1>1, <1>2, <1>3 DEF IndInv, PagesNameFrames

(* The unlocked look at the entry of the faulting page preserves IndInv.   *)
LEMMA StartFaultInv ==
  IndInv /\ StartFault /\ UNCHANGED <<trimmerVars, writerVars>> => IndInv'
<1> SUFFICES ASSUME IndInv, StartFault, UNCHANGED <<trimmerVars, writerVars>>
             PROVE  IndInv'
  OBVIOUS
<1> USE DEF StartFault
<1>1. uva \in VAs /\ map[uva] = NoFrame /\ uframe = NoFrame
  BY DEF IndInv, UserControl
<1>2. IS_PTE_TRANSITION(pageTable[uva]) =>
        /\ pageTable[uva].index \in Frames
        /\ pfnStatus[pageTable[uva].index]
             \in {PFN_MODIFIED, PFN_MIDWRITE, PFN_STANDBY}
  BY <1>1, TransitionFrame
<1>3. TypeOK'
  BY <1>1, <1>2
     DEF IndInv, TypeOK, SharedTypeOK, UserTypeOK, TrimmerTypeOK,
         WriterTypeOK, UserPC
<1>4. UserControl'
  <2>1. pageTable[uva] \in PTE /\ pageTable[uva].valid = 0
    BY <1>1 DEF IndInv, TypeOK, SharedTypeOK, UserControl
  <2>2. CASE IS_PTE_TRANSITION(pageTable[uva])
    BY <1>1, <1>2, <2>2
       DEF UserControl, PopPC, RescuePC, FillPC, RescueStatus
  <2>3. CASE ~ IS_PTE_TRANSITION(pageTable[uva])
    <3>1. ~ Resident(pageTable[uva])
      BY <2>1, <2>3 DEF Resident, IS_PTE_TRANSITION
    <3> QED  BY <1>1, <2>3, <3>1 DEF UserControl, PopPC, RescuePC, FillPC
  <2> QED  BY <2>2, <2>3
<1>5. \A f \in Frames : InUserHand(f)' <=> InUserHand(f)
  BY <1>1, <1>2, StateAssumption DEF InUserHand
<1> QED  BY <1>3, <1>4, <1>5, UserQuiet

(* The looks of a rescue: a frame that one look missed is where the next   *)
(* look expects it.                                                        *)
LEMMA LooksInv ==
  /\ IndInv
  /\ CheckModified \/ CheckMidwrite \/ CheckStandby
  /\ UNCHANGED <<trimmerVars, writerVars>>
  => IndInv'
<1> SUFFICES ASSUME IndInv,
                    CheckModified \/ CheckMidwrite \/ CheckStandby,
                    UNCHANGED <<trimmerVars, writerVars>>
             PROVE  IndInv'
  OBVIOUS
<1> USE DEF CheckModified, CheckMidwrite, CheckStandby, CheckStatus
<1>1. TypeOK'
  BY DEF IndInv, TypeOK, SharedTypeOK, UserTypeOK, TrimmerTypeOK, WriterTypeOK,
         UserPC
<1>2. UserControl'
  BY DEF IndInv, UserControl, PopPC, RescuePC, FillPC, RescueStatus
<1>3. \A f \in Frames : InUserHand(f)' <=> InUserHand(f)
  BY DEF IndInv, UserControl, InUserHand, RescuePC, RescueStatus
<1> QED  BY <1>1, <1>2, <1>3, UserQuiet

(* Waiting for and entering a critical section preserves IndInv.           *)
LEMMA UserLocksInv ==
  /\ IndInv
  /\ LockModified \/ LockStandby \/ LockPageTable \/ LockStandbyList
  /\ UNCHANGED <<trimmerVars, writerVars>>
  => IndInv'
<1> SUFFICES ASSUME IndInv,
                    LockModified \/ LockStandby \/ LockPageTable \/ LockStandbyList,
                    UNCHANGED <<trimmerVars, writerVars>>
             PROVE  IndInv'
  OBVIOUS
<1> USE DEF LockModified, LockStandby, LockPageTable, LockStandbyList, Lock
<1>1. TypeOK'
  <2>1. LockTypeOK'
    BY EnterTyped DEF IndInv, TypeOK, SharedTypeOK, LockTypeOK, Locks, Threads
  <2>2. SharedTypeOK'
    BY <2>1 DEF IndInv, TypeOK, SharedTypeOK, LockTypeOK
  <2> QED  BY <2>2 DEF IndInv, TypeOK, UserTypeOK, TrimmerTypeOK, WriterTypeOK,
                       UserPC
<1>2. UserControl'
  BY DEF IndInv, UserControl, PopPC, RescuePC, FillPC, RescueStatus
<1>3. \A f \in Frames : InUserHand(f)' <=> InUserHand(f)
  BY DEF IndInv, UserControl, InUserHand, RescuePC, RescueStatus
<1> QED  BY <1>1, <1>2, <1>3, UserQuiet

(* Clearing a slot, signalling, awaiting and filling preserve IndInv.      *)
LEMMA OtherUserQuietInv ==
  /\ IndInv
  /\ ClearSlot \/ SignalTrimmer \/ AwaitWriter \/ ReadDisk \/ ZeroPage \/ FreeSlot
  /\ UNCHANGED <<trimmerVars, writerVars>>
  => IndInv'
<1> SUFFICES ASSUME IndInv,
                    \/ ClearSlot \/ SignalTrimmer \/ AwaitWriter
                    \/ ReadDisk \/ ZeroPage \/ FreeSlot,
                    UNCHANGED <<trimmerVars, writerVars>>
             PROVE  IndInv'
  OBVIOUS
<1> USE DEF ClearSlot, SignalTrimmer, AwaitWriter, ReadDisk, ZeroPage, FreeSlot,
            clearDiskSlot
<1>1. TypeOK'
  BY DEF IndInv, TypeOK, SharedTypeOK, UserTypeOK, TrimmerTypeOK, WriterTypeOK,
         UserPC
<1>2. UserControl'
  BY DEF IndInv, UserControl, PopPC, RescuePC, FillPC, RescueStatus
<1>3. \A f \in Frames : InUserHand(f)' <=> InUserHand(f)
  BY DEF IndInv, UserControl, InUserHand, RescuePC, RescueStatus
<1> QED  BY <1>1, <1>2, <1>3, UserQuiet
------------------------------------------------------------------------------
(* Quiet steps of the trimmer thread.                                      *)

(* The trimmer's critical sections preserve IndInv when entered.           *)
LEMMA TrimmerLocksInv ==
  /\ IndInv
  /\ TrimLockPageTable \/ TrimLockModified
  /\ UNCHANGED <<userVars, writerVars>>
  => IndInv'
<1> SUFFICES ASSUME IndInv,
                    TrimLockPageTable \/ TrimLockModified,
                    UNCHANGED <<userVars, writerVars>>
             PROVE  IndInv'
  OBVIOUS
<1> USE DEF TrimLockPageTable, TrimLockModified, TrimLock
<1>1. TypeOK'
  <2>1. LockTypeOK'
    BY EnterTyped DEF IndInv, TypeOK, SharedTypeOK, LockTypeOK, Locks, Threads
  <2>2. SharedTypeOK'
    BY <2>1 DEF IndInv, TypeOK, SharedTypeOK, LockTypeOK
  <2> QED  BY <2>2 DEF IndInv, TypeOK, UserTypeOK, TrimmerTypeOK,
                       WriterTypeOK, TrimmerPC
<1>2. TrimmerControl'
  BY DEF IndInv, TrimmerControl, Mapped
<1>3. \A f \in Frames : InTrimmerHand(f)' <=> InTrimmerHand(f)
  BY DEF InTrimmerHand
<1> QED  BY <1>1, <1>2, <1>3, TrimmerQuiet

(* The trimmer's waits and signals preserve IndInv.                        *)
LEMMA TrimmerSignalsInv ==
  /\ IndInv
  /\ AwaitTrimmer \/ SignalWriter
  /\ UNCHANGED <<userVars, writerVars>>
  => IndInv'
<1> SUFFICES ASSUME IndInv,
                    AwaitTrimmer \/ SignalWriter,
                    UNCHANGED <<userVars, writerVars>>
             PROVE  IndInv'
  OBVIOUS
<1> USE DEF AwaitTrimmer, SignalWriter
<1>1. TypeOK'
  BY DEF IndInv, TypeOK, SharedTypeOK, UserTypeOK, TrimmerTypeOK, WriterTypeOK,
         TrimmerPC
<1>2. TrimmerControl'
  BY DEF IndInv, TrimmerControl, Mapped
<1>3. \A f \in Frames : InTrimmerHand(f)' <=> InTrimmerHand(f)
  BY DEF InTrimmerHand
<1> QED  BY <1>1, <1>2, <1>3, TrimmerQuiet
------------------------------------------------------------------------------
(* Quiet steps of the writer thread.                                       *)

(* The writer's critical sections preserve IndInv when entered.            *)
LEMMA WriterLocksInv ==
  /\ IndInv
  /\ WriteLockModified \/ WriteLockStandby
  /\ UNCHANGED <<userVars, trimmerVars>>
  => IndInv'
<1> SUFFICES ASSUME IndInv,
                    WriteLockModified \/ WriteLockStandby,
                    UNCHANGED <<userVars, trimmerVars>>
             PROVE  IndInv'
  OBVIOUS
<1> USE DEF WriteLockModified, WriteLockStandby, WriteLock
<1>1. TypeOK'
  <2>1. LockTypeOK'
    BY EnterTyped DEF IndInv, TypeOK, SharedTypeOK, LockTypeOK, Locks, Threads
  <2>2. SharedTypeOK'
    BY <2>1 DEF IndInv, TypeOK, SharedTypeOK, LockTypeOK
  <2> QED  BY <2>2 DEF IndInv, TypeOK, UserTypeOK, TrimmerTypeOK,
                       WriterTypeOK, WriterPC
<1>2. WriterControl' /\ \A f \in Frames : InWriterHand(f)' <=> InWriterHand(f)
  <2>1. CASE WriteLockModified
    <3>1. wvictims = <<>> /\ wvictims' = <<>> /\ Len(wvictims) = 0
          /\ wslots' = wslots /\ Len(wslots) \in Nat
      BY <2>1, EmptySeq, LenProperties
         DEF IndInv, WriterControl, TypeOK, WriterTypeOK
    <3> QED  BY <2>1, <3>1 DEF WriterControl, InWriterHand
  <2>2. CASE WriteLockStandby
    BY <2>2 DEF IndInv, WriterControl, InWriterHand
  <2> QED  BY <2>1, <2>2
<1> QED  BY <1>1, <1>2, WriterQuiet

(* The search for slots preserves IndInv and stays on the disk.            *)
LEMMA SearchInv ==
  IndInv /\ SearchSlot /\ UNCHANGED <<userVars, trimmerVars>> => IndInv'
<1> SUFFICES ASSUME IndInv, SearchSlot, UNCHANGED <<userVars, trimmerVars>>
             PROVE  IndInv'
  OBVIOUS
<1>1. /\ wpc = "search" /\ wpc' \in {"search", "lockModified"}
      /\ wslots' \in {wslots, Append(wslots, disk_page_index)}
      /\ disk_page_index' \in {disk_page_index, NextSlot(disk_page_index)}
      /\ wi' \in {0, wi + 1}
      /\ UNCHANGED <<wvictims, pages, lists, disk_pages, map, lock, events>>
  BY DEF SearchSlot
<1>2. disk_page_index \in Slots \ {0}
  BY DEF IndInv, TypeOK, SharedTypeOK
<1>3. NextSlot(disk_page_index) \in Slots \ {0}
  BY <1>2, StateAssumption DEF NextSlot, Slots
<1>4. wslots' \in Seq(Slots \ {0})
  BY <1>1, <1>2, AppendProperties DEF IndInv, TypeOK, WriterTypeOK
<1>5. TypeOK'
  <2>1. SharedTypeOK'
    BY <1>1, <1>2, <1>3 DEF IndInv, TypeOK, SharedTypeOK
  <2>2. WriterTypeOK'
    BY <1>1, <1>4 DEF IndInv, TypeOK, WriterTypeOK, WriterPC
  <2> QED  BY <2>1, <2>2 DEF IndInv, TypeOK, UserTypeOK, TrimmerTypeOK
<1>6. WriterControl'
  BY <1>1 DEF IndInv, WriterControl
<1>7. \A f \in Frames : InWriterHand(f)' <=> InWriterHand(f)
  BY <1>1 DEF InWriterHand
<1> QED  BY <1>1, <1>5, <1>6, <1>7, WriterQuiet

(* The writer's waits and signals preserve IndInv.                         *)
LEMMA WriterSignalsInv ==
  /\ IndInv
  /\ CheckModifiedList \/ AwaitStart \/ SignalUser
  /\ UNCHANGED <<userVars, trimmerVars>>
  => IndInv'
<1> SUFFICES ASSUME IndInv,
                    CheckModifiedList \/ AwaitStart \/ SignalUser,
                    UNCHANGED <<userVars, trimmerVars>>
             PROVE  IndInv'
  OBVIOUS
<1> USE DEF CheckModifiedList, AwaitStart, SignalUser
<1>1. TypeOK'
  BY EmptySeq
     DEF IndInv, TypeOK, SharedTypeOK, UserTypeOK, TrimmerTypeOK, WriterTypeOK,
         WriterPC
<1>2. WriterControl'
  BY DEF IndInv, WriterControl
<1>3. \A f \in Frames : InWriterHand(f)' <=> InWriterHand(f)
  BY DEF InWriterHand
<1> QED  BY <1>1, <1>2, <1>3, WriterQuiet

(* Between two victims: the one just dealt with is not the writer's.       *)
LEMMA NextVictimQuiet ==
  /\ IndInv
  /\ wpc \in {"victim", "lockStandby", "write"}
  /\ NextVictim
  /\ UNCHANGED <<wslots, wvictims>>
  => /\ wpc' \in WriterPC /\ wi' \in Nat
     /\ WriterControl'
     /\ \A f \in Frames :
          /\ pfnStatus'[f] = pfnStatus[f]
          /\ f # wvictims[wi] \/ pfnStatus[f] # PFN_MIDWRITE
          => (InWriterHand(f)' <=> InWriterHand(f))
<1> SUFFICES ASSUME IndInv,
                    wpc \in {"victim", "lockStandby", "write"},
                    NextVictim,
                    UNCHANGED <<wslots, wvictims>>
             PROVE  /\ wpc' \in WriterPC /\ wi' \in Nat
                    /\ WriterControl'
                    /\ \A f \in Frames :
                         /\ pfnStatus'[f] = pfnStatus[f]
                         /\ f # wvictims[wi] \/ pfnStatus[f] # PFN_MIDWRITE
                         => (InWriterHand(f)' <=> InWriterHand(f))
  OBVIOUS
<1>1. /\ Len(wvictims) \in Nat /\ Len(wslots) \in Nat
      /\ Len(wvictims) <= Len(wslots) /\ wi \in 1 .. Len(wvictims)
  BY LenProperties DEF IndInv, WriterControl, TypeOK, WriterTypeOK
<1>2. CASE wi = Len(wvictims)
  BY <1>1, <1>2 DEF NextVictim, WriterControl, InWriterHand, WriterPC
<1>3. CASE wi # Len(wvictims)
  BY <1>1, <1>3 DEF NextVictim, WriterControl, InWriterHand, WriterPC
<1> QED  BY <1>2, <1>3

(* The unlocked look at a victim preserves IndInv.                         *)
LEMMA CheckVictimInv ==
  IndInv /\ CheckVictim /\ UNCHANGED <<userVars, trimmerVars>> => IndInv'
<1> SUFFICES ASSUME IndInv, CheckVictim, UNCHANGED <<userVars, trimmerVars>>
             PROVE  IndInv'
  OBVIOUS
<1> USE DEF CheckVictim, StillMidwrite
<1>1. /\ wpc' \in WriterPC /\ wi' \in Nat
      /\ WriterControl'
      /\ \A f \in Frames : InWriterHand(f)' <=> InWriterHand(f)
  <2>1. CASE StillMidwrite
    BY <2>1 DEF IndInv, WriterControl, InWriterHand, WriterPC, TypeOK,
                WriterTypeOK
  <2>2. CASE ~ StillMidwrite
    <3>1. NextVictim /\ pfnStatus' = pfnStatus /\ wpc = "victim"
      BY <2>2
    <3> QED  BY <2>2, <3>1, NextVictimQuiet
  <2> QED  BY <2>1, <2>2
<1>2. TypeOK'
  BY <1>1 DEF IndInv, TypeOK, SharedTypeOK, UserTypeOK, TrimmerTypeOK,
              WriterTypeOK
<1> QED  BY <1>1, <1>2, WriterQuiet

(* Leaving out a victim that was rescued preserves IndInv.                 *)
LEMMA SkipRescuedInv ==
  IndInv /\ SkipRescued /\ UNCHANGED <<userVars, trimmerVars>> => IndInv'
<1> SUFFICES ASSUME IndInv, SkipRescued, UNCHANGED <<userVars, trimmerVars>>
             PROVE  IndInv'
  OBVIOUS
<1> USE DEF SkipRescued, StillMidwrite
<1>1. /\ wpc' \in WriterPC /\ wi' \in Nat
      /\ WriterControl'
      /\ \A f \in Frames : InWriterHand(f)' <=> InWriterHand(f)
  <2>1. NextVictim /\ pfnStatus' = pfnStatus /\ wpc = "write"
    OBVIOUS
  <2> QED  BY <2>1, NextVictimQuiet
<1>2. LockTypeOK'
  BY LeaveTyped DEF IndInv, TypeOK, SharedTypeOK, LockTypeOK
<1>3. TypeOK'
  BY <1>1, <1>2 DEF IndInv, TypeOK, SharedTypeOK, UserTypeOK, TrimmerTypeOK,
                    WriterTypeOK, LockTypeOK
<1> QED  BY <1>1, <1>3, WriterQuiet

(* The end of the pop loop preserves IndInv.                               *)
LEMMA EndPopInv ==
  IndInv /\ EndPop /\ UNCHANGED <<userVars, trimmerVars>> => IndInv'
<1> SUFFICES ASSUME IndInv, EndPop, UNCHANGED <<userVars, trimmerVars>>
             PROVE  IndInv'
  OBVIOUS
<1> USE DEF EndPop
<1>1. /\ wvictims \in Seq(Frames) /\ wslots \in Seq(Slots \ {0})
      /\ Len(wvictims) \in Nat /\ Len(wvictims) <= Len(wslots)
  BY LenProperties DEF IndInv, TypeOK, WriterTypeOK, WriterControl
<1>2. wvictims # <<>> => Len(wvictims) > 0
  BY <1>1, EmptySeq
<1>3. WriterControl'
  BY <1>1, <1>2 DEF WriterControl
<1>4. \A f \in Frames : InWriterHand(f)' <=> InWriterHand(f)
  <2>1. wvictims = <<>> => Len(wvictims) = 0
    BY EmptySeq
  <2> QED  BY <1>1, <2>1 DEF InWriterHand
<1>5. LockTypeOK'
  BY LeaveTyped DEF IndInv, TypeOK, SharedTypeOK, LockTypeOK
<1>6. TypeOK'
  BY <1>1, <1>5, EmptySeq
     DEF IndInv, TypeOK, SharedTypeOK, UserTypeOK, TrimmerTypeOK, WriterTypeOK,
         LockTypeOK, WriterPC
<1> QED  BY <1>3, <1>4, <1>6, WriterQuiet
------------------------------------------------------------------------------
(* Rescues.                                                                *)

(* The frame of the faulting page leaves its list and is the user's.       *)
LEMMA Rescued ==
  /\ IndInv
  /\ upc \in {"rescueModified", "rescueMidwrite", "rescueStandby"}
  /\ pfnStatus[uframe] # PFN_MIDRESCUE
  /\ pfnStatus' = [pfnStatus EXCEPT ![uframe] = PFN_MIDRESCUE]
  /\ \A f : On(modifiedList', f) <=> On(modifiedList, f) /\ f # uframe
  /\ \A f : On(standbyList', f) <=> On(standbyList, f) /\ f # uframe
  /\ IsInjective(modifiedList') /\ IsInjective(standbyList')
  /\ UNCHANGED <<uva, uframe, pageTable, pfnPte, freeList, activeList, map,
                 trimmerVars, writerVars>>
  /\ TypeOK' /\ UserControl'
  /\ upc' # "mapVA"
  => IndInv'
<1> SUFFICES ASSUME IndInv,
                    upc \in {"rescueModified", "rescueMidwrite", "rescueStandby"},
                    pfnStatus[uframe] # PFN_MIDRESCUE,
                    pfnStatus' = [pfnStatus EXCEPT ![uframe] = PFN_MIDRESCUE],
                    \A f : On(modifiedList', f)
                             <=> On(modifiedList, f) /\ f # uframe,
                    \A f : On(standbyList', f)
                             <=> On(standbyList, f) /\ f # uframe,
                    IsInjective(modifiedList') /\ IsInjective(standbyList'),
                    UNCHANGED <<uva, uframe, pageTable, pfnPte, freeList,
                                activeList, map, trimmerVars, writerVars>>,
                    TypeOK', UserControl', upc' # "mapVA"
             PROVE  IndInv'
  OBVIOUS
<1>1. /\ uva \in VAs /\ uframe \in Frames /\ pfnPte[uframe] = uva
      /\ IS_PTE_TRANSITION(pageTable[uva]) /\ pageTable[uva].index = uframe
      /\ pfnStatus[uframe] \in {PFN_MODIFIED, PFN_MIDWRITE, PFN_STANDBY}
  BY DEF IndInv, UserControl, PopPC, RescuePC, RescueStatus, PagesNameFrames,
         Resident, IS_PTE_TRANSITION
<1>2. pfnStatus \in [Frames -> PfnStatus]
  BY DEF IndInv, TypeOK, SharedTypeOK
<1>3. TrimmerControl' /\ WriterControl' /\ NoListRepeats'
  BY DEF IndInv, TrimmerControl, Mapped, WriterControl, NoListRepeats
<1>4. StatusIsPlace'
  <2> SUFFICES ASSUME NEW f \in Frames PROVE StatusIsPlace!(f)'
    BY DEF StatusIsPlace
  <2>1. CASE f = uframe
    BY <2>1, <1>1, <1>2
       DEF IndInv, StatusIsPlace, InUserHand, InTrimmerHand, InWriterHand
  <2>2. CASE f # uframe
    BY <2>2, <1>1, <1>2
       DEF IndInv, StatusIsPlace, InUserHand, InTrimmerHand, InWriterHand
  <2> QED  BY <2>1, <2>2
<1>5. FramesNamePages'
  BY <1>1, <1>2 DEF IndInv, FramesNamePages, InTrimmerHand
<1>6. PagesNameFrames'
  BY <1>1, <1>2
     DEF IndInv, PagesNameFrames, InTrimmerHand, Resident, IS_PTE_TRANSITION
<1>7. ValidIsMapped'
  BY DEF IndInv, ValidIsMapped
<1> QED  BY <1>3, <1>4, <1>5, <1>6, <1>7 DEF IndInv

(* A frame on its way to the standby list is on the list its status tells. *)
LEMMA RescueFrame ==
  IndInv /\ upc \in {"rescueModified", "rescueMidwrite", "rescueStandby"}
    => /\ uva \in VAs /\ uframe \in Frames
       /\ pfnStatus \in [Frames -> PfnStatus]
       /\ pfnStatus[uframe] # PFN_MODIFIED => ~ On(modifiedList, uframe)
       /\ pfnStatus[uframe] # PFN_STANDBY => ~ On(standbyList, uframe)
       /\ IsInjective(modifiedList) /\ IsInjective(standbyList)
       /\ modifiedList \in Seq(Frames) /\ standbyList \in Seq(Frames)
BY DEF IndInv, TypeOK, SharedTypeOK, UserControl, PopPC, StatusIsPlace,
       NoListRepeats

(* A rescue from the modified list preserves IndInv.                       *)
LEMMA RescueModifiedInv ==
  IndInv /\ RescueModified /\ UNCHANGED <<trimmerVars, writerVars>> => IndInv'
<1> SUFFICES ASSUME IndInv, RescueModified, UNCHANGED <<trimmerVars, writerVars>>
             PROVE  IndInv'
  OBVIOUS
<1> USE DEF RescueModified, Still
<1>1. LockTypeOK'
  BY LeaveTyped DEF IndInv, TypeOK, SharedTypeOK, LockTypeOK
<1>2. CASE pfnStatus[uframe] = PFN_MODIFIED
  <2>1. /\ modifiedList' \in Seq(Frames) /\ IsInjective(modifiedList')
        /\ \A f : On(modifiedList', f) <=> On(modifiedList, f) /\ f # uframe
    BY <1>2, RescueFrame, RemovePage
  <2>2. pfnStatus' \in [Frames -> PfnStatus]
    BY <1>2, RescueFrame DEF PfnStatus
  <2>3. TypeOK'
    BY <1>1, <2>1, <2>2
       DEF IndInv, TypeOK, SharedTypeOK, UserTypeOK, TrimmerTypeOK,
           WriterTypeOK, LockTypeOK, UserPC
  <2>4. UserControl'
    BY <1>2, RescueFrame
       DEF IndInv, UserControl, PopPC, RescuePC, FillPC, RescueStatus
  <2>5. /\ \A f : On(standbyList', f) <=> On(standbyList, f) /\ f # uframe
        /\ IsInjective(standbyList')
    BY <1>2, RescueFrame
  <2> QED  BY <1>2, <2>1, <2>3, <2>4, <2>5, Rescued
<1>3. CASE pfnStatus[uframe] # PFN_MODIFIED
  <2>1. TypeOK'
    BY <1>1, <1>3
       DEF IndInv, TypeOK, SharedTypeOK, UserTypeOK, TrimmerTypeOK,
           WriterTypeOK, LockTypeOK, UserPC
  <2>2. UserControl'
    BY <1>3 DEF IndInv, UserControl, PopPC, RescuePC, FillPC, RescueStatus
  <2>3. \A f \in Frames : InUserHand(f)' <=> InUserHand(f)
    BY <1>3 DEF InUserHand
  <2> QED  BY <1>3, <2>1, <2>2, <2>3, UserQuiet
<1> QED  BY <1>2, <1>3

(* A rescue from the writer preserves IndInv.                              *)
LEMMA RescueMidwriteInv ==
  IndInv /\ RescueMidwrite /\ UNCHANGED <<trimmerVars, writerVars>> => IndInv'
<1> SUFFICES ASSUME IndInv, RescueMidwrite, UNCHANGED <<trimmerVars, writerVars>>
             PROVE  IndInv'
  OBVIOUS
<1> USE DEF RescueMidwrite, Still
<1>1. pfnStatus' \in [Frames -> PfnStatus]
  BY RescueFrame DEF PfnStatus
<1>2. TypeOK'
  BY <1>1 DEF IndInv, TypeOK, SharedTypeOK, UserTypeOK, TrimmerTypeOK,
              WriterTypeOK, UserPC
<1>3. UserControl'
  BY RescueFrame
     DEF IndInv, UserControl, PopPC, RescuePC, FillPC, RescueStatus
<1>4. CASE pfnStatus[uframe] = PFN_MIDWRITE
  <2>1. /\ \A f : On(modifiedList', f) <=> On(modifiedList, f) /\ f # uframe
        /\ \A f : On(standbyList', f) <=> On(standbyList, f) /\ f # uframe
        /\ IsInjective(modifiedList') /\ IsInjective(standbyList')
    BY <1>4, RescueFrame
  <2> QED  BY <1>2, <1>3, <1>4, <2>1, Rescued
<1>5. CASE pfnStatus[uframe] # PFN_MIDWRITE
  <2>1. \A f \in Frames : InUserHand(f)' <=> InUserHand(f)
    BY <1>5 DEF InUserHand
  <2> QED  BY <1>2, <1>3, <1>5, <2>1, UserQuiet
<1> QED  BY <1>4, <1>5

(* A rescue from the standby list preserves IndInv.                        *)
LEMMA RescueStandbyInv ==
  IndInv /\ RescueStandby /\ UNCHANGED <<trimmerVars, writerVars>> => IndInv'
<1> SUFFICES ASSUME IndInv, RescueStandby, UNCHANGED <<trimmerVars, writerVars>>
             PROVE  IndInv'
  OBVIOUS
<1> USE DEF RescueStandby, Still
<1>1. LockTypeOK'
  BY LeaveTyped DEF IndInv, TypeOK, SharedTypeOK, LockTypeOK
<1>2. pfnStatus[uframe] = PFN_STANDBY
  BY DEF IndInv, UserControl, RescuePC, RescueStatus
<1>3. /\ standbyList' \in Seq(Frames) /\ IsInjective(standbyList')
      /\ \A f : On(standbyList', f) <=> On(standbyList, f) /\ f # uframe
  BY <1>2, RescueFrame, RemovePage
<1>4. pfnStatus' \in [Frames -> PfnStatus]
  BY <1>2, RescueFrame DEF PfnStatus
<1>5. TypeOK'
  BY <1>1, <1>3, <1>4
     DEF IndInv, TypeOK, SharedTypeOK, UserTypeOK, TrimmerTypeOK,
         WriterTypeOK, LockTypeOK, UserPC
<1>6. UserControl'
  BY <1>2, RescueFrame
     DEF IndInv, UserControl, PopPC, RescuePC, FillPC, RescueStatus
<1>7. /\ \A f : On(modifiedList', f) <=> On(modifiedList, f) /\ f # uframe
      /\ IsInjective(modifiedList')
  BY <1>2, RescueFrame
<1> QED  BY <1>2, <1>3, <1>5, <1>6, <1>7, Rescued
------------------------------------------------------------------------------
(* Getting a free page.                                                    *)

(* Taking a frame from the free list preserves IndInv.                     *)
LEMMA PopFreeInv ==
  IndInv /\ PopFree /\ UNCHANGED <<trimmerVars, writerVars>> => IndInv'
<1> SUFFICES ASSUME IndInv, PopFree, UNCHANGED <<trimmerVars, writerVars>>
             PROVE  IndInv'
  OBVIOUS
<1> USE DEF PopFree, IsListEmpty
<1>1. freeList \in Seq(Frames) /\ IsInjective(freeList) /\ uframe = NoFrame
  BY DEF IndInv, TypeOK, SharedTypeOK, NoListRepeats, UserControl, PopPC
<1>2. CASE freeList = <<>>
  <2>1. TypeOK'
    BY <1>2 DEF IndInv, TypeOK, SharedTypeOK, UserTypeOK, TrimmerTypeOK,
                WriterTypeOK, UserPC
  <2>2. UserControl'
    BY <1>2 DEF IndInv, UserControl, PopPC, RescuePC, FillPC, RescueStatus
  <2>3. \A f \in Frames : InUserHand(f)' <=> InUserHand(f)
    BY <1>2 DEF InUserHand
  <2> QED  BY <1>2, <2>1, <2>2, <2>3, UserQuiet
<1>3. CASE freeList # <<>>
  <2>1. /\ uframe' \in Frames /\ On(freeList, uframe')
        /\ freeList' \in Seq(Frames) /\ IsInjective(freeList')
        /\ \A f : On(freeList', f) <=> On(freeList, f) /\ f # uframe'
    <3>1. uframe' = Head(freeList) /\ freeList' = Tail(freeList)
      BY <1>3
    <3> QED  BY <1>1, <1>3, <3>1, PopPage
  <2>2. pfnStatus[uframe'] = PFN_FREE
    BY <2>1 DEF IndInv, StatusIsPlace
  <2>3. TypeOK'
    BY <1>3, <2>1 DEF IndInv, TypeOK, SharedTypeOK, UserTypeOK, TrimmerTypeOK,
                      WriterTypeOK, UserPC
  <2>4. UserControl'
    BY <1>3, <2>1, <2>2
       DEF IndInv, UserControl, PopPC, RescuePC, FillPC, RescueStatus
  <2>5. TrimmerControl' /\ WriterControl' /\ NoListRepeats'
    BY <1>3, <2>1
       DEF IndInv, TrimmerControl, Mapped, WriterControl, NoListRepeats
  <2>6. StatusIsPlace'
    <3> SUFFICES ASSUME NEW f \in Frames PROVE StatusIsPlace!(f)'
      BY DEF StatusIsPlace
    <3>1. CASE f = uframe'
      BY <3>1, <1>1, <1>3, <2>1, <2>2, StateAssumption
         DEF IndInv, StatusIsPlace, InUserHand, InTrimmerHand, InWriterHand
    <3>2. CASE f # uframe'
      BY <3>2, <1>1, <1>3, <2>1, StateAssumption
         DEF IndInv, StatusIsPlace, InUserHand, InTrimmerHand, InWriterHand
    <3> QED  BY <3>1, <3>2
  <2>7. FramesNamePages'
    BY <1>3 DEF IndInv, FramesNamePages, InTrimmerHand
  <2>8. PagesNameFrames' /\ ValidIsMapped'
    BY <1>3 DEF IndInv, PagesNameFrames, InTrimmerHand, Resident,
                IS_PTE_TRANSITION, ValidIsMapped
  <2> QED  BY <2>3, <2>4, <2>5, <2>6, <2>7, <2>8 DEF IndInv
<1> QED  BY <1>2, <1>3

(* Repurposing the oldest standby frame: its old page goes to disk.        *)
LEMMA PopStandbyInv ==
  IndInv /\ PopStandby /\ UNCHANGED <<trimmerVars, writerVars>> => IndInv'
<1> SUFFICES ASSUME IndInv, PopStandby, UNCHANGED <<trimmerVars, writerVars>>
             PROVE  IndInv'
  OBVIOUS
<1> USE DEF PopStandby, IsListEmpty
<1>1. /\ standbyList \in Seq(Frames) /\ IsInjective(standbyList)
      /\ uframe = NoFrame /\ uva \in VAs /\ ~ Resident(pageTable[uva])
      /\ pageTable \in [VAs -> PTE] /\ pfnDiskIndex \in [Frames -> Slots]
  BY DEF IndInv, TypeOK, SharedTypeOK, NoListRepeats, UserControl, PopPC
<1>2. LockTypeOK'
  BY LeaveTyped DEF IndInv, TypeOK, SharedTypeOK, LockTypeOK
<1>3. CASE standbyList = <<>>
  <2>1. TypeOK'
    BY <1>2, <1>3
       DEF IndInv, TypeOK, SharedTypeOK, UserTypeOK, TrimmerTypeOK,
           WriterTypeOK, LockTypeOK, UserPC
  <2>2. UserControl'
    BY <1>3 DEF IndInv, UserControl, PopPC, RescuePC, FillPC, RescueStatus
  <2>3. \A f \in Frames : InUserHand(f)' <=> InUserHand(f)
    BY <1>3 DEF InUserHand
  <2> QED  BY <1>3, <2>1, <2>2, <2>3, UserQuiet
<1>4. CASE standbyList # <<>>
  <2> DEFINE f == Head(standbyList)
             old == pfnPte[f]
             p == ToDisk(pageTable[old], pfnDiskIndex[f])
  <2>1. /\ uframe' = f /\ f \in Frames /\ On(standbyList, f)
        /\ standbyList' \in Seq(Frames) /\ IsInjective(standbyList')
        /\ \A g : On(standbyList', g) <=> On(standbyList, g) /\ g # f
    <3>1. uframe' = f /\ standbyList' = Tail(standbyList)
      BY <1>4
    <3> QED  BY <1>1, <1>4, <3>1, PopPage
  <2>2. pageTable' = [pageTable EXCEPT ![old] = p] /\ upc' = "fill"
    BY <1>4
  <2> HIDE DEF f
  <2>3. /\ pfnStatus[f] = PFN_STANDBY /\ ~ InUserHand(f)
        /\ old \in VAs /\ IS_PTE_TRANSITION(pageTable[old])
        /\ pageTable[old].index = f
    BY <2>1, <1>1, StateAssumption DEF IndInv, StatusIsPlace, FramesNamePages
  <2>4. /\ p \in PTE /\ p.valid = 0 /\ ~ Resident(p)
        /\ pageTable[old].valid = 0
    BY <1>1, <2>1, <2>3
       DEF ToDisk, PTE, Resident, IS_PTE_TRANSITION, Slots
  <2> HIDE DEF old, p
  <2>5. /\ \A va \in VAs : pageTable'[va] = IF va = old THEN p ELSE pageTable[va]
        /\ pageTable' \in [VAs -> PTE]
    BY <1>1, <2>2, <2>3, <2>4
  <2>6. pfnDiskIndex' \in [Frames -> Slots]
    BY <1>1, <1>4, StateAssumption DEF Slots
  <2>7. TypeOK'
    BY <1>2, <1>4, <2>1, <2>5, <2>6
       DEF IndInv, TypeOK, SharedTypeOK, UserTypeOK, TrimmerTypeOK,
           WriterTypeOK, LockTypeOK, UserPC
  <2>8. UserControl'
    BY <1>1, <1>4, <2>1, <2>2, <2>3, <2>4, <2>5
       DEF IndInv, UserControl, PopPC, RescuePC, FillPC
  <2>9. TrimmerControl'
    <3>1. \A i \in 1 .. Len(tvictims) :
            tptes[i] \in VAs
      BY ElementOfSeq DEF IndInv, TypeOK, TrimmerTypeOK
    <3> QED  BY <1>4, <2>4, <2>5, <3>1 DEF IndInv, TrimmerControl, Mapped
  <2>10. WriterControl' /\ NoListRepeats'
    BY <2>1 DEF IndInv, WriterControl, NoListRepeats
  <2>11. StatusIsPlace'
    <3> SUFFICES ASSUME NEW g \in Frames PROVE StatusIsPlace!(g)'
      BY DEF StatusIsPlace
    <3>1. CASE g = f
      BY <3>1, <1>1, <1>4, <2>1, <2>2, <2>3, StateAssumption
         DEF IndInv, StatusIsPlace, InUserHand, InTrimmerHand, InWriterHand
    <3>2. CASE g # f
      BY <3>2, <1>1, <1>4, <2>1, StateAssumption
         DEF IndInv, StatusIsPlace, InUserHand, InTrimmerHand, InWriterHand
    <3> QED  BY <3>1, <3>2
  <2>12. FramesNamePages'
    <3> SUFFICES ASSUME NEW g \in Frames PROVE FramesNamePages!(g)'
      BY DEF FramesNamePages
    <3>1. UNCHANGED <<pfnPte, pfnStatus, activeList, trimmerVars>>
          /\ upc = "popStandby"
      BY <1>4
    <3>2. CASE g = f
      <4>1. ~ On(activeList, f) /\ ~ InTrimmerHand(f) /\ ~ On(standbyList', f)
        BY <2>1, <2>3 DEF IndInv, StatusIsPlace
      <4> QED  BY <3>1, <3>2, <4>1, <2>3 DEF InTrimmerHand
    <3>3. CASE g # f
      <4>1. pfnPte[g] \in VAs /\ pageTable[pfnPte[g]].index = g
              => pageTable'[pfnPte[g]] = pageTable[pfnPte[g]]
        BY <3>3, <2>3, <2>5
      <4> QED  BY <3>1, <3>3, <4>1, <2>1
                  DEF IndInv, FramesNamePages, InTrimmerHand, IS_PTE_TRANSITION
    <3> QED  BY <3>2, <3>3
  <2>13. PagesNameFrames'
    <3> SUFFICES ASSUME NEW va \in VAs PROVE PagesNameFrames!(va)'
      BY DEF PagesNameFrames
    <3>1. CASE va = old
      BY <3>1, <2>4, <2>5 DEF Resident, IS_PTE_TRANSITION
    <3>2. CASE va # old
      BY <3>2, <2>1, <2>5 DEF IndInv, PagesNameFrames,
         InTrimmerHand, Resident, IS_PTE_TRANSITION, old
    <3> QED  BY <3>1, <3>2
  <2>14. ValidIsMapped'
    BY <2>2, <2>4, <2>5 DEF IndInv, ValidIsMapped
  <2> QED  BY <2>7, <2>8, <2>9, <2>10, <2>11, <2>12, <2>13, <2>14 DEF IndInv
<1> QED  BY <1>3, <1>4
------------------------------------------------------------------------------
(* makePTEValid.                                                           *)

(* No resident page has the frame that is about to be made valid, but for  *)
(* the faulting page itself when its frame was rescued.                    *)
LEMMA SetValidInv ==
  IndInv /\ SetValid /\ UNCHANGED <<trimmerVars, writerVars>> => IndInv'
<1> SUFFICES ASSUME IndInv, SetValid, UNCHANGED <<trimmerVars, writerVars>>
             PROVE  IndInv'
  OBVIOUS
<1> USE DEF SetValid
<1>1. /\ uva \in VAs /\ map[uva] = NoFrame /\ uframe \in Frames
      /\ pageTable \in [VAs -> PTE] /\ pfnPte \in [Frames -> VAs \cup {NoVA}]
      /\ pfnStatus[uframe] \in {PFN_FREE, PFN_STANDBY, PFN_MIDRESCUE}
      /\ ~ On(standbyList, uframe) /\ ~ On(activeList, uframe)
      /\ ~ InTrimmerHand(uframe)
  BY DEF IndInv, TypeOK, SharedTypeOK, UserControl, PopPC, StatusIsPlace,
         InUserHand
<1>2. pageTable[uva].valid = 0
  BY <1>1 DEF IndInv, UserControl, Resident, IS_PTE_TRANSITION, PTE
<1>3. ASSUME NEW va \in VAs, va # uva
      PROVE  /\ Resident(pageTable[va]) => pageTable[va].index # uframe
             /\ pageTable'[va] = pageTable[va]
  <2>1. ~ (pageTable[va].valid = 1 /\ pageTable[va].index = uframe)
    BY <1>1 DEF IndInv, PagesNameFrames
  <2>2. ~ (IS_PTE_TRANSITION(pageTable[va]) /\ pageTable[va].index = uframe)
    BY <1>1, <1>3 DEF IndInv, PagesNameFrames
  <2> QED  BY <1>1, <1>3, <2>1, <2>2 DEF Resident, IS_PTE_TRANSITION, PTE
<1>4. /\ pageTable'[uva] = ValidPte(uframe) /\ pfnPte'[uframe] = uva
      /\ \A f \in Frames : f # uframe => pfnPte'[f] = pfnPte[f]
      /\ ValidPte(uframe) \in PTE
  BY <1>1, StateAssumption DEF ValidPte, PTE
<1>5. TypeOK'
  BY <1>1, <1>4 DEF IndInv, TypeOK, SharedTypeOK, UserTypeOK, TrimmerTypeOK,
                    WriterTypeOK, UserPC
<1>6. UserControl'
  BY <1>1, <1>4 DEF UserControl, PopPC, RescuePC, FillPC
<1>7. TrimmerControl'
  <2>1. \A i \in 1 .. Len(tvictims) : tptes[i] \in VAs /\ tvictims[i] \in Frames
    BY ElementOfSeq DEF IndInv, TypeOK, TrimmerTypeOK
  <2>2. ASSUME NEW i \in 1 .. Len(tvictims), Mapped(tptes[i])
        PROVE  Mapped(tptes[i])' /\ pageTable'[tptes[i]] = pageTable[tptes[i]]
    BY <1>1, <1>3, <2>1, <2>2 DEF Mapped
  <2>3. ASSUME tpc \in {"lockPageTable", "lockModified", "mark"},
               NEW i \in ti .. Len(tvictims), i \in 1 .. Len(tvictims)
        PROVE  pfnPte'[tvictims[i]] = pfnPte[tvictims[i]]
    <3>1. tvictims[i] # uframe
      BY <1>1, <2>3 DEF InTrimmerHand
    <3> QED  BY <1>4, <2>1, <2>3, <3>1
  <2>4. ti \in 1 .. Len(tvictims) /\ Len(tvictims) \in Nat =>
          /\ \A i \in ti .. Len(tvictims) : i \in 1 .. Len(tvictims)
          /\ \A i \in 1 .. ti - 1 : i \in 1 .. Len(tvictims)
    OBVIOUS
  <2>5. Len(tvictims) \in Nat
    BY LenProperties DEF IndInv, TypeOK, TrimmerTypeOK
  <2> QED  BY <2>2, <2>3, <2>4, <2>5 DEF IndInv, TrimmerControl
<1>8. WriterControl' /\ NoListRepeats'
  BY DEF IndInv, WriterControl, NoListRepeats
<1>9. StatusIsPlace'
  BY DEF IndInv, StatusIsPlace, InUserHand, InTrimmerHand, InWriterHand
<1>10. FramesNamePages'
  <2> SUFFICES ASSUME NEW f \in Frames PROVE FramesNamePages!(f)'
    BY DEF FramesNamePages
  <2>1. CASE f = uframe
    BY <1>1, <1>4, <2>1
       DEF InTrimmerHand, ValidPte, IS_PTE_TRANSITION
  <2>2. CASE f # uframe
    <3>1. On(activeList, f) \/ InTrimmerHand(f) => pfnPte[f] # uva
      BY <1>2 DEF IndInv, FramesNamePages
    <3>2. IS_PTE_TRANSITION(pageTable[uva]) => pageTable[uva].index = uframe
      BY DEF IndInv, UserControl, Resident, IS_PTE_TRANSITION
    <3>3. pfnStatus[f] \in {PFN_MODIFIED, PFN_MIDWRITE, PFN_MIDRESCUE}
            \/ On(standbyList, f) => pfnPte[f] # uva
      BY <2>2, <3>2 DEF IndInv, FramesNamePages
    <3> QED  BY <1>3, <1>4, <2>2, <3>1, <3>3
                DEF IndInv, FramesNamePages, InTrimmerHand
  <2> QED  BY <2>1, <2>2
<1>11. PagesNameFrames'
  <2> SUFFICES ASSUME NEW va \in VAs PROVE PagesNameFrames!(va)'
    BY DEF PagesNameFrames
  <2>1. CASE va = uva
    BY <1>1, <1>4, <2>1
       DEF ValidPte, Resident, IS_PTE_TRANSITION, InTrimmerHand
  <2>2. CASE va # uva
    BY <1>3, <1>4, <2>2
       DEF IndInv, PagesNameFrames, Resident, IS_PTE_TRANSITION, InTrimmerHand
  <2> QED  BY <2>1, <2>2
<1>12. ValidIsMapped'
  BY <1>3 DEF IndInv, ValidIsMapped
<1> QED  BY <1>5, <1>6, <1>7, <1>8, <1>9, <1>10, <1>11, <1>12 DEF IndInv

(* The frame of the new valid page becomes active, and IndInv is           *)
(* preserved.                                                              *)
LEMMA AddActiveInv ==
  IndInv /\ AddActive /\ UNCHANGED <<trimmerVars, writerVars>> => IndInv'
<1> SUFFICES ASSUME IndInv, AddActive, UNCHANGED <<trimmerVars, writerVars>>
             PROVE  IndInv'
  OBVIOUS
<1> USE DEF AddActive
<1>1. /\ uva \in VAs /\ map[uva] = NoFrame /\ uframe \in Frames
      /\ pageTable[uva] = ValidPte(uframe) /\ pfnPte[uframe] = uva
      /\ pfnStatus \in [Frames -> PfnStatus]
      /\ pfnStatus[uframe] \in {PFN_FREE, PFN_STANDBY, PFN_MIDRESCUE}
  BY DEF IndInv, TypeOK, SharedTypeOK, UserControl, PopPC
<1>2. /\ ~ On(freeList, uframe) /\ ~ On(activeList, uframe)
      /\ ~ On(modifiedList, uframe) /\ ~ On(standbyList, uframe)
      /\ ~ InTrimmerHand(uframe)
  BY <1>1 DEF IndInv, StatusIsPlace, InUserHand
<1>3. /\ pfnStatus'[uframe] = PFN_ACTIVE
      /\ \A f \in Frames : f # uframe => pfnStatus'[f] = pfnStatus[f]
      /\ pfnStatus' \in [Frames -> PfnStatus]
  BY <1>1 DEF PfnStatus
<1>4. /\ activeList' \in Seq(Frames) /\ IsInjective(activeList')
      /\ \A f : On(activeList', f) <=> On(activeList, f) \/ f = uframe
  BY <1>1, <1>2, AddEntry DEF IndInv, TypeOK, SharedTypeOK, NoListRepeats
<1>5. TypeOK'
  BY <1>3, <1>4 DEF IndInv, TypeOK, SharedTypeOK, UserTypeOK, TrimmerTypeOK,
                    WriterTypeOK, UserPC
<1>6. UserControl'
  BY <1>1, <1>3 DEF UserControl, PopPC, RescuePC, FillPC
<1>7. TrimmerControl' /\ WriterControl' /\ NoListRepeats'
  BY <1>4 DEF IndInv, TrimmerControl, Mapped, WriterControl, NoListRepeats
<1>8. StatusIsPlace'
  <2> SUFFICES ASSUME NEW f \in Frames PROVE StatusIsPlace!(f)'
    BY DEF StatusIsPlace
  <2>1. CASE f = uframe
    BY <1>2, <1>3, <1>4, <2>1 DEF InTrimmerHand, InWriterHand
  <2>2. CASE f # uframe
    BY <1>3, <1>4, <2>2
       DEF IndInv, StatusIsPlace, InUserHand, InTrimmerHand, InWriterHand
  <2> QED  BY <2>1, <2>2
<1>9. FramesNamePages'
  <2> SUFFICES ASSUME NEW f \in Frames PROVE FramesNamePages!(f)'
    BY DEF FramesNamePages
  <2>1. CASE f = uframe
    BY <1>1, <1>2, <1>3, <2>1 DEF ValidPte
  <2>2. CASE f # uframe
    BY <1>3, <1>4, <2>2 DEF IndInv, FramesNamePages, InTrimmerHand
  <2> QED  BY <2>1, <2>2
<1>10. PagesNameFrames'
  <2> SUFFICES ASSUME NEW va \in VAs PROVE PagesNameFrames!(va)'
    BY DEF PagesNameFrames
  <2>1. CASE va = uva
    BY <1>1, <1>4, <2>1 DEF ValidPte, Resident, IS_PTE_TRANSITION
  <2>2. CASE va # uva
    <3>1. Resident(pageTable[va]) => pageTable[va].index # uframe
      BY <1>1, <2>2, StateAssumption DEF IndInv, PagesNameFrames
    <3> QED  BY <1>3, <1>4, <2>2, <3>1
                DEF IndInv, PagesNameFrames, Resident, IS_PTE_TRANSITION,
                    InTrimmerHand
  <2> QED  BY <2>1, <2>2
<1>11. ValidIsMapped'
  BY DEF IndInv, ValidIsMapped
<1> QED  BY <1>5, <1>6, <1>7, <1>8, <1>9, <1>10, <1>11 DEF IndInv

(* Mapping the page, be it valid still or not, preserves IndInv.           *)
LEMMA MapVAInv ==
  IndInv /\ MapVA /\ UNCHANGED <<trimmerVars, writerVars>> => IndInv'
<1> SUFFICES ASSUME IndInv, MapVA, UNCHANGED <<trimmerVars, writerVars>>
             PROVE  IndInv'
  OBVIOUS
<1> USE DEF MapVA
<1>1. /\ uva \in VAs /\ uframe \in Frames /\ uframe # NoFrame
      /\ pfnStatus[uframe] # PFN_MIDRESCUE
      /\ map \in [VAs -> Frames \cup {NoFrame}]
  BY StateAssumption DEF IndInv, TypeOK, SharedTypeOK, UserControl, PopPC
<1>2. map'[uva] = uframe /\ \A va \in VAs : va # uva => map'[va] = map[va]
  BY <1>1
<1>3. TypeOK'
  BY <1>1 DEF IndInv, TypeOK, SharedTypeOK, UserTypeOK, TrimmerTypeOK,
              WriterTypeOK, UserPC
<1>4. UserControl'
  BY DEF UserControl, PopPC, RescuePC, FillPC
<1>5. TrimmerControl'
  <2>1. \A i \in 1 .. Len(tvictims) : tptes[i] \in VAs
    BY ElementOfSeq DEF IndInv, TypeOK, TrimmerTypeOK
  <2>2. ASSUME NEW i \in 1 .. Len(tvictims), Mapped(tptes[i])
        PROVE  Mapped(tptes[i])'
    BY <1>1, <1>2, <2>1, <2>2 DEF Mapped
  <2> QED  BY <2>2 DEF IndInv, TrimmerControl
<1>6. WriterControl' /\ NoListRepeats'
  BY DEF IndInv, WriterControl, NoListRepeats
<1>7. \A f \in Frames : ~ InUserHand(f) /\ ~ InUserHand(f)'
  BY <1>1, StateAssumption DEF InUserHand
<1>8. StatusIsPlace'
  BY <1>7 DEF IndInv, StatusIsPlace, InTrimmerHand, InWriterHand
<1>9. FramesNamePages'
  BY DEF IndInv, FramesNamePages, InTrimmerHand
<1>10. PagesNameFrames'
  BY DEF IndInv, PagesNameFrames, InTrimmerHand, Resident, IS_PTE_TRANSITION
<1>11. ValidIsMapped'
  BY <1>1, <1>2 DEF IndInv, ValidIsMapped
<1> QED  BY <1>3, <1>4, <1>5, <1>6, <1>8, <1>9, <1>10, <1>11 DEF IndInv
------------------------------------------------------------------------------
(* The trimmer takes, marks and unmaps its victims.                        *)

(* The batch moves from the active list to the trimmer's hand.             *)
LEMMA PopVictimsInv ==
  IndInv /\ PopVictims /\ UNCHANGED <<userVars, writerVars>> => IndInv'
<1> SUFFICES ASSUME IndInv, PopVictims, UNCHANGED <<userVars, writerVars>>
             PROVE  IndInv'
  OBVIOUS
<1> USE DEF PopVictims, IsListEmpty
<1>1. /\ activeList \in Seq(Frames) /\ IsInjective(activeList)
      /\ Len(activeList) \in Nat /\ ti = 1
      /\ DOMAIN activeList = 1 .. Len(activeList)
  BY LenProperties
     DEF IndInv, TypeOK, SharedTypeOK, NoListRepeats, TrimmerControl
<1>2. /\ TrimBatch \in 0 .. Len(activeList)
      /\ activeList # <<>> => TrimBatch > 0
      /\ activeList = <<>> => TrimBatch = 0
  BY <1>1, EmptySeq, TrimBatchAssumption DEF TrimBatch
<1>3. /\ tvictims' \in Seq(Frames) /\ Len(tvictims') = TrimBatch
      /\ \A i \in 1 .. TrimBatch : tvictims'[i] = activeList[i]
      /\ activeList' \in Seq(Frames)
      /\ \A f : On(activeList, f) <=> On(tvictims', f) \/ On(activeList', f)
      /\ IsInjective(tvictims') /\ IsInjective(activeList')
      /\ \A f : ~ (On(tvictims', f) /\ On(activeList', f))
  <2>1. /\ tvictims' = SubSeq(activeList, 1, TrimBatch)
        /\ activeList' = SubSeq(activeList, TrimBatch + 1, Len(activeList))
    OBVIOUS
  <2> QED  BY <1>1, <1>2, <2>1, PopBatch
<1>4. DOMAIN tvictims' = 1 .. TrimBatch
  BY <1>3, LenProperties
<1>5. ASSUME NEW i \in 1 .. TrimBatch
      PROVE  /\ tvictims'[i] \in Frames /\ On(activeList, tvictims'[i])
             /\ tptes'[i] = pfnPte[tvictims'[i]] /\ tptes'[i] \in VAs
             /\ Mapped(tptes'[i])
  <2> DEFINE f == tvictims'[i]
  <2>1. f \in Frames /\ On(activeList, f) /\ tptes'[i] = pfnPte[f]
    <3>1. tptes'[i] = pfnPte[activeList[i]] /\ f = activeList[i]
      BY <1>3
    <3>2. f \in Frames
      BY <1>3, ElementOfSeq
    <3>3. On(tvictims', f)
      BY <1>4 DEF On
    <3> QED  BY <1>3, <3>1, <3>2, <3>3
  <2> HIDE DEF f
  <2>2. /\ pfnStatus[f] = PFN_ACTIVE /\ pfnPte[f] \in VAs
        /\ pageTable[pfnPte[f]].valid = 1 /\ pageTable[pfnPte[f]].index = f
    BY <2>1 DEF IndInv, StatusIsPlace, FramesNamePages
  <2>3. upc = "addActive" => pfnPte[f] # uva
    BY <2>2 DEF IndInv, UserControl, ValidPte
  <2>4. Mapped(pfnPte[f])
    BY <2>2, <2>3 DEF IndInv, ValidIsMapped, Mapped
  <2> QED  BY <2>1, <2>2, <2>4 DEF f
<1>6. tptes' \in Seq(VAs) /\ Len(tptes') = TrimBatch
  <2>1. tptes' = [i \in 1 .. TrimBatch |-> tptes'[i]]
    OBVIOUS
  <2>2. tptes' \in [1 .. TrimBatch -> VAs]
    BY <1>5, <2>1
  <2> QED  BY <1>2, <2>2, SeqDef, LenProperties
<1>7. TypeOK'
  BY <1>1, <1>3, <1>6
     DEF IndInv, TypeOK, SharedTypeOK, UserTypeOK, TrimmerTypeOK,
         WriterTypeOK, TrimmerPC
<1>8. UserControl' /\ WriterControl' /\ NoListRepeats'
  BY <1>3 DEF IndInv, UserControl, WriterControl, NoListRepeats
<1>9. TrimmerControl'
  <2>1. CASE activeList = <<>>
    <3>1. tvictims' = <<>> /\ tpc' = "wait" /\ ti' = 1
      BY <1>1, <1>2, <1>3, <2>1, EmptySeq
    <3> QED  BY <3>1 DEF TrimmerControl
  <2>2. CASE activeList # <<>>
    <3>1. tpc' = "lockPageTable" /\ ti' = 1 /\ TrimBatch \in Nat \ {0}
      BY <1>1, <1>2, <2>2
    <3>2. \A i \in 1 .. TrimBatch : Mapped(tptes[i])'
      BY <1>5 DEF Mapped
    <3> QED  BY <1>3, <1>5, <3>1, <3>2 DEF TrimmerControl
  <2> QED  BY <2>1, <2>2
<1>10. \A f : /\ ~ InTrimmerHand(f)
              /\ InTrimmerHand(f)' <=> On(tvictims', f)
  <2>1. CASE activeList = <<>>
    BY <1>2, <1>3, <1>4, <2>1 DEF InTrimmerHand, On
  <2>2. CASE activeList # <<>>
    BY <1>1, <1>3, <1>4, <2>2 DEF InTrimmerHand, On
  <2> QED  BY <2>1, <2>2
<1>11. StatusIsPlace'
  BY <1>3, <1>10 DEF IndInv, StatusIsPlace, InUserHand, InWriterHand
<1>12. FramesNamePages'
  BY <1>3, <1>10 DEF IndInv, FramesNamePages
<1>13. PagesNameFrames'
  BY <1>3, <1>10
     DEF IndInv, PagesNameFrames, Resident, IS_PTE_TRANSITION
<1>14. ValidIsMapped'
  BY DEF IndInv, ValidIsMapped
<1> QED  BY <1>7, <1>8, <1>9, <1>11, <1>12, <1>13, <1>14 DEF IndInv

(* The frame leaves the trimmer's hand for the modified list, and the      *)
(* entry of its page, which is not the faulting page, loses its valid bit. *)
LEMMA MarkVictimInv ==
  IndInv /\ MarkVictim /\ UNCHANGED <<userVars, writerVars>> => IndInv'
<1> SUFFICES ASSUME IndInv, MarkVictim, UNCHANGED <<userVars, writerVars>>
             PROVE  IndInv'
  OBVIOUS
<1> DEFINE f == tvictims[ti]
           va == tptes[ti]
           p == ToTransition(pageTable[va])
<1>1. /\ tvictims \in Seq(Frames) /\ tptes \in Seq(VAs)
      /\ Len(tvictims) \in Nat /\ Len(tptes) = Len(tvictims)
      /\ DOMAIN tvictims = 1 .. Len(tvictims)
      /\ ti \in 1 .. Len(tvictims) /\ IsInjective(tvictims)
      /\ \A i \in 1 .. Len(tvictims) : tvictims[i] \in Frames /\ tptes[i] \in VAs
  BY LenProperties, ElementOfSeq
     DEF IndInv, TypeOK, TrimmerTypeOK, TrimmerControl, NoListRepeats,
         MarkVictim
<1>2. f \in Frames /\ va \in VAs /\ va = pfnPte[f] /\ InTrimmerHand(f)
  BY <1>1 DEF IndInv, TrimmerControl, InTrimmerHand, MarkVictim
<1>3. /\ pageTable' = [pageTable EXCEPT ![va] = p]
      /\ pfnStatus' = [pfnStatus EXCEPT ![f] = PFN_MODIFIED]
      /\ modifiedList' = add_entry(modifiedList, f)
  BY DEF MarkVictim
<1> HIDE DEF f, va
<1>4. /\ pfnStatus[f] = PFN_ACTIVE
      /\ pageTable[va].valid = 1 /\ pageTable[va].index = f
      /\ Mapped(va)
  <2>1. Mapped(va)
    BY <1>1 DEF IndInv, TrimmerControl, MarkVictim, va
  <2> QED  BY <1>2, <2>1 DEF IndInv, StatusIsPlace, FramesNamePages
<1>5. /\ p \in PTE /\ p.valid = 0 /\ IS_PTE_TRANSITION(p) /\ p.index = f
      /\ pageTable \in [VAs -> PTE] /\ pfnStatus \in [Frames -> PfnStatus]
  <2>1. pageTable \in [VAs -> PTE] /\ pfnStatus \in [Frames -> PfnStatus]
    BY DEF IndInv, TypeOK, SharedTypeOK
  <2> QED  BY <1>2, <1>4, <2>1 DEF ToTransition, PTE, IS_PTE_TRANSITION
<1> HIDE DEF p
<1>6. /\ pageTable'[va] = p
      /\ \A v \in VAs : v # va => pageTable'[v] = pageTable[v]
      /\ pageTable' \in [VAs -> PTE]
      /\ pfnStatus'[f] = PFN_MODIFIED
      /\ \A g \in Frames : g # f => pfnStatus'[g] = pfnStatus[g]
      /\ pfnStatus' \in [Frames -> PfnStatus]
  <2>1. PFN_MODIFIED \in PfnStatus
    BY DEF PfnStatus
  <2>2. /\ pageTable'[va] = p
        /\ \A v \in VAs : v # va => pageTable'[v] = pageTable[v]
        /\ pageTable' \in [VAs -> PTE]
    BY <1>2, <1>3, <1>5
  <2>3. /\ pfnStatus'[f] = PFN_MODIFIED
        /\ \A g \in Frames : g # f => pfnStatus'[g] = pfnStatus[g]
        /\ pfnStatus' \in [Frames -> PfnStatus]
    BY <1>2, <1>3, <1>5, <2>1
  <2> QED  BY <2>2, <2>3
<1>7. /\ ~ On(freeList, f) /\ ~ On(activeList, f) /\ ~ On(modifiedList, f)
      /\ ~ On(standbyList, f) /\ ~ InUserHand(f)
  <2>1. ~ InUserHand(f)
    BY <1>2, <1>4 DEF IndInv, InUserHand, UserControl, PopPC, FillPC, RescuePC
  <2> QED  BY <1>2, <1>4, <2>1 DEF IndInv, StatusIsPlace
<1>8. /\ modifiedList' \in Seq(Frames) /\ IsInjective(modifiedList')
      /\ \A g : On(modifiedList', g) <=> On(modifiedList, g) \/ g = f
  BY <1>2, <1>3, <1>7, AddEntry
     DEF IndInv, TypeOK, SharedTypeOK, NoListRepeats
<1>9. /\ LockTypeOK'
      /\ ti = Len(tvictims) => ti' = 1 /\ tpc' = "unmap"
      /\ ti # Len(tvictims) => ti' = ti + 1 /\ tpc' = tpc
  <2>1. LockTypeOK
    BY DEF IndInv, TypeOK, SharedTypeOK, LockTypeOK
  <2>2. CASE ti = Len(tvictims)
    <3>1. ti' = 1 /\ tpc' = "unmap"
          /\ LeaveCriticalSection({"pageTableLock", "modifiedListLock"})
      BY <2>2 DEF MarkVictim
    <3>2. LockTypeOK'
      BY <2>1, <3>1, LeaveTyped
    <3> QED  BY <2>2, <3>1, <3>2
  <2>3. CASE ti # Len(tvictims)
    BY <2>1, <2>3 DEF LockTypeOK, MarkVictim
  <2> QED  BY <2>2, <2>3
<1>10. UNCHANGED <<tvictims, tptes, pfnPte, pfnDiskIndex, freeList, activeList,
                   standbyList, slots, map, events>> /\ tpc = "mark"
  BY DEF MarkVictim
<1>11. TypeOK'
  BY <1>1, <1>6, <1>8, <1>9, <1>10
     DEF IndInv, TypeOK, SharedTypeOK, UserTypeOK, TrimmerTypeOK,
         WriterTypeOK, LockTypeOK, TrimmerPC
<1>12. UserControl'
  <2>1. upc \notin {"access", "mapVA"} => uva \in VAs /\ uva # va
    BY <1>4 DEF IndInv, UserControl, Mapped
  <2>2. upc \in RescuePC \cup FillPC \cup {"setValid", "addActive"}
          => uframe # f
    BY <1>4 DEF IndInv, UserControl, RescuePC, FillPC, RescueStatus
  <2>3. upc = "mapVA" => uframe \in Frames
    BY DEF IndInv, UserControl, PopPC
  <2> QED  BY <1>6, <1>10, <2>1, <2>2, <2>3
           DEF IndInv, UserControl, PopPC, RescuePC, FillPC
<1>13. TrimmerControl'
  <2>1. \A i \in 1 .. Len(tvictims) : Mapped(tptes[i])'
    BY <1>10 DEF IndInv, TrimmerControl, Mapped
  <2>2. \A i \in 1 .. ti : pageTable'[tptes[i]].valid = 0
    <3>1. \A i \in 1 .. ti - 1 : pageTable[tptes[i]].valid = 0
      BY <1>10 DEF IndInv, TrimmerControl
    <3> QED  BY <1>1, <1>5, <1>6, <3>1 DEF va
  <2>3. \A i \in ti .. Len(tvictims) : tptes[i] = pfnPte'[tvictims[i]]
    BY <1>10 DEF IndInv, TrimmerControl
  <2> QED  BY <1>1, <1>9, <1>10, <2>1, <2>2, <2>3 DEF TrimmerControl
<1>14. WriterControl' /\ NoListRepeats'
  BY <1>8, <1>10 DEF IndInv, WriterControl, NoListRepeats
<1>15. \A g : InTrimmerHand(g)' <=> InTrimmerHand(g) /\ g # f
  <2>1. \A i \in ti .. Len(tvictims) : tvictims[i] = f <=> i = ti
    BY <1>1 DEF IsInjective, f
  <2> QED  BY <1>1, <1>9, <1>10, <2>1 DEF InTrimmerHand
<1>16. StatusIsPlace'
  <2> SUFFICES ASSUME NEW g \in Frames PROVE StatusIsPlace!(g)'
    BY DEF StatusIsPlace
  <2>1. CASE g = f
    BY <1>6, <1>7, <1>8, <1>10, <1>15, <2>1
  <2>2. CASE g # f
    BY <1>6, <1>8, <1>10, <1>15, <2>2
       DEF IndInv, StatusIsPlace, InUserHand, InWriterHand
  <2> QED  BY <2>1, <2>2
<1>17. FramesNamePages'
  <2> SUFFICES ASSUME NEW g \in Frames PROVE FramesNamePages!(g)'
    BY DEF FramesNamePages
  <2>1. CASE g = f
    BY <1>2, <1>5, <1>6, <1>7, <1>10, <1>15, <2>1
  <2>2. CASE g # f
    <3>1. pfnPte[g] \in VAs /\ pageTable[pfnPte[g]].index = g
            => pageTable'[pfnPte[g]] = pageTable[pfnPte[g]]
      BY <1>4, <1>6, <2>2
    <3> QED  BY <1>6, <1>8, <1>10, <1>15, <2>2, <3>1
                DEF IndInv, FramesNamePages, IS_PTE_TRANSITION
  <2> QED  BY <2>1, <2>2
<1>18. PagesNameFrames'
  <2> SUFFICES ASSUME NEW v \in VAs PROVE PagesNameFrames!(v)'
    BY DEF PagesNameFrames
  <2>1. CASE v = va
    BY <1>2, <1>5, <1>6, <1>10, <2>1 DEF IS_PTE_TRANSITION
  <2>2. CASE v # va
    <3>1. Resident(pageTable[v]) => pageTable[v].index # f
      BY <1>2, <2>2 DEF IndInv, PagesNameFrames
    <3> QED  BY <1>6, <1>8, <1>10, <1>15, <2>2, <3>1
                DEF IndInv, PagesNameFrames, Resident, IS_PTE_TRANSITION
  <2> QED  BY <2>1, <2>2
<1>19. ValidIsMapped'
  BY <1>2, <1>5, <1>6, <1>10 DEF IndInv, ValidIsMapped
<1> QED  BY <1>11, <1>12, <1>13, <1>14, <1>16, <1>17, <1>18, <1>19 DEF IndInv

(* What is unmapped is no longer valid, and the faulting page was not      *)
(* mapped anyway.                                                          *)
LEMMA UnmapVictimsInv ==
  IndInv /\ UnmapVictims /\ UNCHANGED <<userVars, writerVars>> => IndInv'
<1> SUFFICES ASSUME IndInv, UnmapVictims, UNCHANGED <<userVars, writerVars>>
             PROVE  IndInv'
  OBVIOUS
<1> USE DEF UnmapVictims
<1>1. /\ map \in [VAs -> Frames \cup {NoFrame}] /\ ti = 1
      /\ DOMAIN tptes = 1 .. Len(tvictims)
      /\ \A i \in 1 .. Len(tvictims) : pageTable[tptes[i]].valid = 0
  BY LenProperties
     DEF IndInv, TypeOK, SharedTypeOK, TrimmerTypeOK, TrimmerControl
<1>2. \A va \in VAs : map'[va] = map[va] \/ map'[va] = NoFrame
  OBVIOUS
<1>3. \A va \in VAs : pageTable[va].valid = 1 => map'[va] = map[va]
  BY <1>1 DEF ToSet
<1>4. map' \in [VAs -> Frames \cup {NoFrame}]
  BY <1>1
<1>5. TypeOK'
  BY <1>4, EmptySeq
     DEF IndInv, TypeOK, SharedTypeOK, UserTypeOK, TrimmerTypeOK,
         WriterTypeOK, TrimmerPC
<1>6. UserControl'
  BY <1>2 DEF IndInv, UserControl
<1>7. TrimmerControl'
  BY <1>1 DEF TrimmerControl
<1>8. WriterControl' /\ NoListRepeats'
  BY DEF IndInv, WriterControl, NoListRepeats, IsInjective
<1>9. \A f : ~ InTrimmerHand(f) /\ ~ InTrimmerHand(f)'
  BY DEF InTrimmerHand
<1>10. StatusIsPlace'
  BY <1>9 DEF IndInv, StatusIsPlace, InUserHand, InWriterHand
<1>11. FramesNamePages'
  BY <1>9 DEF IndInv, FramesNamePages
<1>12. PagesNameFrames'
  BY <1>9 DEF IndInv, PagesNameFrames, Resident, IS_PTE_TRANSITION
<1>13. ValidIsMapped'
  BY <1>3 DEF IndInv, ValidIsMapped
<1> QED  BY <1>5, <1>6, <1>7, <1>8, <1>10, <1>11, <1>12, <1>13 DEF IndInv
------------------------------------------------------------------------------
(* The writer takes its victims and writes them.                           *)

(* The oldest modified frame moves to the writer's hand.                   *)
LEMMA PopModifiedInv ==
  IndInv /\ PopModified /\ UNCHANGED <<userVars, trimmerVars>> => IndInv'
<1> SUFFICES ASSUME IndInv, PopModified, UNCHANGED <<userVars, trimmerVars>>
             PROVE  IndInv'
  OBVIOUS
<1> DEFINE f == Head(modifiedList)
<1>1. /\ wpc = "pop" /\ wpc' = "pop" /\ modifiedList # <<>>
      /\ Len(wvictims) < Len(wslots)
      /\ wvictims' = Append(wvictims, f) /\ modifiedList' = Tail(modifiedList)
      /\ pfnStatus' = [pfnStatus EXCEPT ![f] = PFN_MIDWRITE]
      /\ UNCHANGED <<wslots, wi, pageTable, pfnPte, pfnDiskIndex, freeList,
                     activeList, standbyList, slots, map, lock, events>>
  BY DEF PopModified, Popping, IsListEmpty
<1>2. /\ f \in Frames /\ On(modifiedList, f)
      /\ modifiedList' \in Seq(Frames) /\ IsInjective(modifiedList')
      /\ \A g : On(modifiedList', g) <=> On(modifiedList, g) /\ g # f
  BY <1>1, PopPage DEF IndInv, TypeOK, SharedTypeOK, NoListRepeats
<1> HIDE DEF f
<1>3. /\ wvictims' \in Seq(Frames) /\ Len(wvictims') = Len(wvictims) + 1
      /\ wvictims'[Len(wvictims) + 1] = f
      /\ \A i \in 1 .. Len(wvictims) : wvictims'[i] = wvictims[i]
      /\ Len(wvictims) \in Nat /\ Len(wslots) \in Nat
  BY <1>1, <1>2, AppendProperties, LenProperties
     DEF IndInv, TypeOK, WriterTypeOK
<1>4. /\ pfnStatus[f] = PFN_MODIFIED /\ pfnStatus'[f] = PFN_MIDWRITE
      /\ \A g \in Frames : g # f => pfnStatus'[g] = pfnStatus[g]
      /\ pfnStatus' \in [Frames -> PfnStatus]
  BY <1>1, <1>2
     DEF IndInv, TypeOK, SharedTypeOK, StatusIsPlace, PfnStatus
<1>5. TypeOK'
  BY <1>1, <1>2, <1>3, <1>4
     DEF IndInv, TypeOK, SharedTypeOK, UserTypeOK, TrimmerTypeOK,
         WriterTypeOK, WriterPC
<1>6. UserControl'
  <2>1. uframe \in Frames =>
          \/ pfnStatus'[uframe] = pfnStatus[uframe]
          \/ /\ pfnStatus[uframe] = PFN_MODIFIED
             /\ pfnStatus'[uframe] = PFN_MIDWRITE
    BY <1>4
  <2> QED  BY <1>1, <2>1
           DEF IndInv, UserControl, PopPC, RescuePC, FillPC, RescueStatus
<1>7. TrimmerControl' /\ NoListRepeats'
  BY <1>1, <1>2 DEF IndInv, TrimmerControl, Mapped, NoListRepeats
<1>8. WriterControl'
  BY <1>1, <1>3 DEF IndInv, WriterControl
<1>9. \A g \in Frames : InWriterHand(g)' <=> InWriterHand(g) \/ g = f
  BY <1>1, <1>3, <1>4 DEF InWriterHand
<1>10. StatusIsPlace'
  <2> SUFFICES ASSUME NEW g \in Frames PROVE StatusIsPlace!(g)'
    BY DEF StatusIsPlace
  <2>1. CASE g = f
    BY <1>1, <1>2, <1>4, <1>9, <2>1
       DEF IndInv, StatusIsPlace, InTrimmerHand
  <2>2. CASE g # f
    BY <1>1, <1>2, <1>4, <1>9, <2>2
       DEF IndInv, StatusIsPlace, InUserHand, InTrimmerHand
  <2> QED  BY <2>1, <2>2
<1>11. FramesNamePages'
  BY <1>1, <1>4 DEF IndInv, FramesNamePages, InTrimmerHand
<1>12. PagesNameFrames'
  <2> SUFFICES ASSUME NEW va \in VAs PROVE PagesNameFrames!(va)'
    BY DEF PagesNameFrames
  <2> QED  BY <1>1, <1>4
           DEF IndInv, PagesNameFrames, Resident, IS_PTE_TRANSITION,
               InTrimmerHand
<1>13. ValidIsMapped'
  BY <1>1 DEF IndInv, ValidIsMapped
<1> QED  BY <1>5, <1>6, <1>7, <1>8, <1>10, <1>11, <1>12, <1>13 DEF IndInv

(* A victim that was not rescued moves to the standby list.                *)
LEMMA WritePageInv ==
  IndInv /\ WritePage /\ UNCHANGED <<userVars, trimmerVars>> => IndInv'
<1> SUFFICES ASSUME IndInv, WritePage, UNCHANGED <<userVars, trimmerVars>>
             PROVE  IndInv'
  OBVIOUS
<1>0. PICK f \in Frames : f = wvictims[wi]
  BY ElementOfSeq, LenProperties
     DEF IndInv, TypeOK, WriterTypeOK, WriterControl, WritePage
<1>1. /\ wpc = "write" /\ pfnStatus[f] = PFN_MIDWRITE /\ NextVictim
      /\ disk_pages' = [disk_pages EXCEPT ![wslots[wi]] = 1]
      /\ pfnStatus' = [pfnStatus EXCEPT ![f] = PFN_STANDBY]
      /\ pfnDiskIndex' = [pfnDiskIndex EXCEPT ![f] = wslots[wi]]
      /\ standbyList' = add_entry(standbyList, f)
      /\ LeaveCriticalSection({"standbyListLock"})
      /\ UNCHANGED <<wslots, wvictims, pageTable, pfnPte, freeList, activeList,
                     modifiedList, disk_page_index, map, events>>
  BY <1>0 DEF WritePage, StillMidwrite
<1>2. wslots[wi] \in Slots
  BY <1>1, ElementOfSeq, LenProperties
     DEF IndInv, TypeOK, WriterTypeOK, WriterControl
<1>3. /\ pfnStatus'[f] = PFN_STANDBY
      /\ \A g \in Frames : g # f => pfnStatus'[g] = pfnStatus[g]
      /\ pfnStatus' \in [Frames -> PfnStatus]
  BY <1>1, <1>2 DEF IndInv, TypeOK, SharedTypeOK, PfnStatus
<1>4. /\ ~ On(freeList, f) /\ ~ On(activeList, f) /\ ~ On(modifiedList, f)
      /\ ~ On(standbyList, f) /\ ~ InTrimmerHand(f)
  BY <1>1, <1>2 DEF IndInv, StatusIsPlace
<1>5. ~ InUserHand(f) /\ ~ InUserHand(f)' /\ ~ InTrimmerHand(f)'
  <2>1. ~ InUserHand(f)
    BY <1>1, <1>2
       DEF IndInv, InUserHand, UserControl, PopPC, FillPC, RescuePC
  <2>2. ~ InUserHand(f)'
    BY <1>1, <1>3, <2>1 DEF InUserHand
  <2> QED  BY <1>4, <2>1, <2>2 DEF InTrimmerHand
<1>6. /\ standbyList' \in Seq(Frames) /\ IsInjective(standbyList')
      /\ \A g : On(standbyList', g) <=> On(standbyList, g) \/ g = f
  BY <1>1, <1>2, <1>4, AddEntry
     DEF IndInv, TypeOK, SharedTypeOK, NoListRepeats
<1>7. /\ wpc' \in WriterPC /\ wi' \in Nat /\ WriterControl'
      /\ \A g \in Frames : g # f => (InWriterHand(g)' <=> InWriterHand(g))
  BY <1>0, <1>1, <1>3, NextVictimQuiet
<1>8. LockTypeOK'
  BY <1>1, LeaveTyped DEF IndInv, TypeOK, SharedTypeOK, LockTypeOK
<1>9. TypeOK'
  <2>1. pfnDiskIndex' \in [Frames -> Slots]
        /\ disk_pages' \in [Slots -> {0, 1}]
    BY <1>1, <1>2 DEF IndInv, TypeOK, SharedTypeOK
  <2> QED  BY <1>1, <1>3, <1>6, <1>7, <1>8, <2>1
           DEF IndInv, TypeOK, SharedTypeOK, UserTypeOK, TrimmerTypeOK,
               WriterTypeOK, LockTypeOK
<1>10. UserControl'
  <2>1. uframe \in Frames =>
          \/ pfnStatus'[uframe] = pfnStatus[uframe]
          \/ /\ pfnStatus[uframe] = PFN_MIDWRITE
             /\ pfnStatus'[uframe] = PFN_STANDBY
    BY <1>1, <1>3
  <2> QED  BY <1>1, <2>1
           DEF IndInv, UserControl, PopPC, RescuePC, FillPC, RescueStatus
<1>11. TrimmerControl' /\ NoListRepeats'
  BY <1>1, <1>6 DEF IndInv, TrimmerControl, Mapped, NoListRepeats
<1>12. StatusIsPlace'
  <2> SUFFICES ASSUME NEW g \in Frames PROVE StatusIsPlace!(g)'
    BY DEF StatusIsPlace
  <2>1. CASE g = f
    BY <1>1, <1>3, <1>4, <1>5, <1>6, <2>1
  <2>2. CASE g # f
    BY <1>1, <1>3, <1>6, <1>7, <2>2
       DEF IndInv, StatusIsPlace, InUserHand, InTrimmerHand
  <2> QED  BY <2>1, <2>2
<1>13. FramesNamePages'
  <2> SUFFICES ASSUME NEW g \in Frames PROVE FramesNamePages!(g)'
    BY DEF FramesNamePages
  <2> QED  BY <1>1, <1>3, <1>6 DEF IndInv, FramesNamePages, InTrimmerHand
<1>14. PagesNameFrames'
  <2> SUFFICES ASSUME NEW va \in VAs PROVE PagesNameFrames!(va)'
    BY DEF PagesNameFrames
  <2> QED  BY <1>1, <1>3, <1>6
           DEF IndInv, PagesNameFrames, Resident, IS_PTE_TRANSITION,
               InTrimmerHand
<1>15. ValidIsMapped'
  BY <1>1 DEF IndInv, ValidIsMapped
<1> QED  BY <1>7, <1>9, <1>10, <1>11, <1>12, <1>13, <1>14, <1>15 DEF IndInv
------------------------------------------------------------------------------
(* Every step of every thread preserves IndInv.                            *)
LEMMA NextInv == IndInv /\ [Next]_vars => IndInv'
<1> SUFFICES ASSUME IndInv, [Next]_vars PROVE IndInv'
  OBVIOUS
<1>1. CASE UserStep
  <2> USE <1>1 DEF UserStep
  <2>1. CASE \E va \in VAs : WriteVA(va) \/ FaultOn(va)
    BY <2>1, WriteVAInv, FaultOnInv
  <2>2. CASE StartFault
    BY <2>2, StartFaultInv
  <2>3. CASE Rescue
    BY <2>3, LooksInv, UserLocksInv, RescueModifiedInv, RescueMidwriteInv,
       RescueStandbyInv, OtherUserQuietInv DEF Rescue
  <2>4. CASE GetFreePage
    BY <2>4, PopFreeInv, UserLocksInv, PopStandbyInv, OtherUserQuietInv
       DEF GetFreePage
  <2>5. CASE ReadDisk \/ ZeroPage \/ FreeSlot
    BY <2>5, OtherUserQuietInv
  <2>6. CASE SetValid \/ AddActive \/ MapVA
    BY <2>6, SetValidInv, AddActiveInv, MapVAInv
  <2> QED  BY <2>1, <2>2, <2>3, <2>4, <2>5, <2>6 DEF UserNext, HandleFault
<1>2. CASE TrimmerStep
  BY <1>2, TrimmerSignalsInv, PopVictimsInv, TrimmerLocksInv, MarkVictimInv,
     UnmapVictimsInv DEF TrimmerStep, TrimmerNext
<1>3. CASE WriterStep
  BY <1>3, WriterSignalsInv, SearchInv, WriterLocksInv, PopModifiedInv,
     EndPopInv, CheckVictimInv, WritePageInv, SkipRescuedInv
     DEF WriterStep, WriterNext
<1>4. CASE UNCHANGED vars
  <2>1. UNCHANGED <<pages, lists, map, trimmerVars, userVars>>
        /\ UNCHANGED <<slots, lock, events, writerVars>>
    BY <1>4 DEF vars
  <2>2. TypeOK'
    BY <2>1 DEF IndInv, TypeOK, SharedTypeOK, UserTypeOK, TrimmerTypeOK,
                WriterTypeOK
  <2>3. WriterControl' /\ \A f \in Frames : InWriterHand(f)' <=> InWriterHand(f)
    BY <2>1 DEF IndInv, WriterControl, InWriterHand
  <2> QED  BY <2>1, <2>2, <2>3, WriterQuiet
<1> QED  BY <1>1, <1>2, <1>3, <1>4 DEF Next

(* The threads share frames by their status alone, whatever the order of   *)
(* their steps, for any number of pages, frames, disk slots and victims in *)
(* a batch.                                                                *)
THEOREM IndInvariant == Spec => []IndInv
<1>1. Init => IndInv
  BY InitIndInv
<1>2. IndInv /\ [Next]_vars => IndInv'
  BY NextInv
<1> QED  BY <1>1, <1>2, PTL DEF Spec
==============================================================================
