------------------------------ MODULE DiskSearch ------------------------------
(***************************************************************************)
(* The writer's search for free disk slots (writer.c:49-65), one search    *)
(* after another, among threads that may clear slots at any moment.  The   *)
(* other steps of the threads are reduced to what they do to slots: the    *)
(* user thread clears some, and the writer marks those it has written to.  *)
(***************************************************************************)
EXTENDS Writer

VARIABLES
  first,        (* history: the slot the search began with                 *)
  freeAtFirst   (* history: the slots that were free then                  *)

searchVars == <<shared, writerVars, first, freeAtFirst>>

FreeSlots == {s \in Slots \ {0} : disk_pages[s] = 0}

SearchInit ==
  /\ InitShared
  /\ wpc = "search" /\ wslots = <<>> /\ wvictims = <<>> /\ wi = 0
  /\ first = disk_page_index
  /\ freeAtFirst = FreeSlots

Look == SearchSlot /\ UNCHANGED <<first, freeAtFirst>>

UserClears ==
  /\ \E slot \in Slots \ {0} : disk_pages[slot] = 1 /\ clearDiskSlot(slot)
  /\ UNCHANGED <<pages, lists, disk_page_index, map, lock, events, writerVars,
                 first, freeAtFirst>>

(* Some of the slots are written to, and the writer comes back to search.  *)
WriteAndSearchAgain ==
  /\ wpc = "lockModified"
  /\ \E used \in SUBSET ToSet(wslots) :
       disk_pages' = [s \in Slots |-> IF s \in used THEN 1 ELSE disk_pages[s]]
  /\ wpc' = "search"
  /\ wslots' = <<>>
  /\ first' = disk_page_index
  /\ freeAtFirst' = {s \in Slots \ {0} : disk_pages'[s] = 0}
  /\ UNCHANGED <<wvictims, wi, pages, lists, disk_page_index, map, lock, events>>

SearchNext == Look \/ UserClears \/ WriteAndSearchAgain

SearchSpec == SearchInit /\ [][SearchNext]_searchVars
------------------------------------------------------------------------------
(* A search that comes back with less than a batch has not missed a slot   *)
(* that was free all the time, wherever it began (writer.c:59-64): so a    *)
(* writer that finds nothing has found the disk full (67).                 *)
NoFreeSlotIsMissed ==
  wpc = "lockModified" /\ Len(wslots) < MAXIMUM_WRITE_BATCH
    => freeAtFirst \subseteq ToSet(wslots)

(* The round is one look too long (writer.c:49): the one slot that can be  *)
(* in a batch twice is the one the search began with, first and last of    *)
(* the batch, and then the batch holds every slot that was free.           *)
OnlyFirstSlotTwice ==
  \A i, j \in DOMAIN wslots :
    i < j /\ wslots[i] = wslots[j] =>
      /\ i = 1 /\ j = Len(wslots) /\ wslots[i] = first
      /\ freeAtFirst \subseteq ToSet(wslots)
==============================================================================
