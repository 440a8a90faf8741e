--------------------------- MODULE MCMemoryManager ---------------------------
(* Model-checking values for MemoryManager and Ownership.                  *)
EXTENDS Ownership

Frames2 == {1, 2}
Order2 == <<2, 1>>
Frames3 == {1, 2, 3}
Order3 == <<2, 1, 3>>

VASymmetry == Permutations(VAs)

(* PFN.diskIndex is not reset when a frame leaves the standby list, but it *)
(* is only looked at while the frame is a standby frame or is rescued from *)
(* there: states that differ in a stale diskIndex behave alike.            *)
LiveDiskIndex ==
  [f \in Frames |->
     IF \/ pfnStatus[f] = PFN_STANDBY
        \/ f = uframe /\ upc \in {"lockStandby", "rescueStandby", "clearSlot"}
     THEN pfnDiskIndex[f] ELSE 0]

LiveView ==
  <<pageTable, pfnPte, pfnStatus, LiveDiskIndex, lists, slots, map, lock,
    events, userVars, trimmerVars, writerVars>>
==============================================================================
