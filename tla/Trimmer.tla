------------------------------- MODULE Trimmer -------------------------------
(***************************************************************************)
(* The trimmer thread (trimmer.c): each time the user thread asks for      *)
(* pages it takes a batch of the oldest active frames, puts their pages in *)
(* transition and on the modified list, and only then unmaps them.         *)
(***************************************************************************)
EXTENDS VMState

CONSTANT MAXIMUM_TRIM_BATCH

ASSUME TrimBatchAssumption == MAXIMUM_TRIM_BATCH \in Nat \ {0}

VARIABLES
  tpc,       (* control state of the trimmer thread                        *)
  tvictims,  (* victims[0 .. numVictims-1]                                 *)
  tptes,     (* ptes[] and virtualAddresses[]: the victims' pages          *)
  ti         (* index of the victim the marking loop comes to next         *)

trimmerVars == <<tpc, tvictims, tptes, ti>>

TrimmerPC == {"wait", "pop", "lockPageTable", "lockModified", "mark", "unmap",
              "signal"}

InitTrimmer == tpc = "wait" /\ tvictims = <<>> /\ tptes = <<>> /\ ti = 1

AwaitTrimmer ==
  /\ tpc = "wait"
  /\ startTrimmer
  /\ startTrimmer' = FALSE
  /\ tpc' = "pop"
  /\ UNCHANGED <<tvictims, tptes, ti, pages, lists, slots, map, lock,
                 startWriter, finishWriter>>

TrimBatch == IF Len(activeList) < MAXIMUM_TRIM_BATCH THEN Len(activeList)
             ELSE MAXIMUM_TRIM_BATCH

PopVictims ==
  /\ tpc = "pop"
  /\ tvictims' = SubSeq(activeList, 1, TrimBatch)
  /\ tptes' = [i \in 1 .. TrimBatch |-> pfnPte[activeList[i]]]
  /\ activeList' = SubSeq(activeList, TrimBatch + 1, Len(activeList))
  /\ tpc' = IF IsListEmpty(activeList) THEN "wait" ELSE "lockPageTable"
  /\ UNCHANGED <<ti, pages, freeList, modifiedList, standbyList, slots, map,
                 lock, events>>

TrimLock(pc, l, next) ==
  /\ tpc = pc
  /\ EnterCriticalSection(l, "trimmer")
  /\ tpc' = next
  /\ UNCHANGED <<tvictims, tptes, ti, pages, lists, slots, map, events>>

TrimLockPageTable == TrimLock("lockPageTable", "pageTableLock", "lockModified")
TrimLockModified == TrimLock("lockModified", "modifiedListLock", "mark")

(* One iteration of the marking loop; the last one releases both locks.    *)
MarkVictim ==
  /\ tpc = "mark"
  /\ pfnStatus' = [pfnStatus EXCEPT ![tvictims[ti]] = PFN_MODIFIED]
  /\ pageTable' = [pageTable EXCEPT ![tptes[ti]] = ToTransition(@)]
  /\ modifiedList' = add_entry(modifiedList, tvictims[ti])
  /\ IF ti = Len(tvictims)
     THEN /\ ti' = 1
          /\ tpc' = "unmap"
          /\ LeaveCriticalSection({"pageTableLock", "modifiedListLock"})
     ELSE /\ ti' = ti + 1
          /\ UNCHANGED <<tpc, lock>>
  /\ UNCHANGED <<tvictims, tptes, pfnPte, pfnDiskIndex, freeList, activeList,
                 standbyList, slots, map, events>>

(* MapUserPhysicalPagesScatter unmaps the whole batch.                     *)
UnmapVictims ==
  /\ tpc = "unmap"
  /\ map' = [va \in VAs |-> IF va \in ToSet(tptes) THEN NoFrame ELSE map[va]]
  /\ tvictims' = <<>>
  /\ tptes' = <<>>
  /\ tpc' = "signal"
  /\ UNCHANGED <<ti, pages, lists, slots, lock, events>>

SignalWriter ==
  /\ tpc = "signal"
  /\ startWriter' = TRUE
  /\ tpc' = "wait"
  /\ UNCHANGED <<tvictims, tptes, ti, pages, lists, slots, map, lock,
                 startTrimmer, finishWriter>>

TrimmerNext == \/ AwaitTrimmer \/ PopVictims
               \/ TrimLockPageTable \/ TrimLockModified \/ MarkVictim
               \/ UnmapVictims \/ SignalWriter

TrimmerTypeOK ==
  /\ tpc \in TrimmerPC
  /\ tvictims \in Seq(Frames)
  /\ tptes \in Seq(VAs)
  /\ Len(tptes) = Len(tvictims)
  /\ ti \in Nat
==============================================================================
