----------------------------- MODULE LinkedLists -----------------------------
(***************************************************************************)
(* The page lists as lists.c keeps them: circles of Flink and Blink        *)
(* pointers through a head and the entries of the frames on it, changed    *)
(* one store at a time, by three threads that hold the lock of one list    *)
(* and the lock of one frame.  A frame's status and diskIndex are bit      *)
(* fields of one word, so a store to either reads the word, changes it and *)
(* writes it back.                                                         *)
(*                                                                         *)
(* Each thread is in one locked region at a time, and goes through its     *)
(* steps.  Which frame the user thread looks at comes from a page table    *)
(* entry: here it is any frame.                                            *)
(***************************************************************************)
EXTENDS VMTypes

CONSTANTS
  Frames,
  physical_page_numbers,  (* the frames in the order they were handed out  *)
  MAXIMUM_TRIM_BATCH, MAXIMUM_WRITE_BATCH,
  NoFrame

Lists == {"free", "active", "modified", "standby"}
Nodes == Lists \cup Frames

ASSUME ListsAssumption ==
  /\ physical_page_numbers \in Seq(Frames)
  /\ ToSet(physical_page_numbers) = Frames
  /\ IsInjective(physical_page_numbers)
  /\ Frames \cap Lists = {}
  /\ NoFrame \notin Frames
  /\ {MAXIMUM_TRIM_BATCH, MAXIMUM_WRITE_BATCH} \subseteq Nat \ {0}

VARIABLES
  Flink, Blink,  (* node -> node                                           *)
  word,          (* frame -> the word that holds its status and diskIndex  *)
  listLock,      (* list -> thread                                         *)
  pageLocks,     (* frame -> thread                                        *)
  region,        (* thread -> the locked region it is in                   *)
  pc,            (* thread -> the step of the region that comes next       *)
  left,          (* thread -> how often the loop in it goes round again    *)
  stores,        (* thread -> the stores to links that come before that    *)
  frame,         (* thread -> the frame its region is about                *)
  reg,           (* thread -> the word it has read and not written yet     *)
  victims        (* thread -> the frames it has taken, oldest first        *)

links == <<Flink, Blink>>
locks == <<listLock, pageLocks>>
control == <<region, pc, left, stores>>
local == <<frame, reg, victims>>
vars == <<links, word, locks, control, local>>

(* The entries that are on the free list at first: a circle through its    *)
(* head.  (initialize_lists, then an add_entry for each frame.)            *)
Circle == <<"free">> \o physical_page_numbers
Next1(i) == IF i = Len(Circle) THEN 1 ELSE i + 1
Position(node) == CHOOSE i \in DOMAIN Circle : Circle[i] = node
InCircle(node) == node \in ToSet(Circle)
NoWord == [status |-> PFN_FREE, diskIndex |-> 0]

Init ==
  /\ Flink = [n \in Nodes |-> IF InCircle(n) THEN Circle[Next1(Position(n))]
                              ELSE n]
  /\ Blink = [n \in Nodes |->
                IF InCircle(n)
                THEN CHOOSE m \in ToSet(Circle) : Circle[Next1(Position(m))] = n
                ELSE n]
  /\ word = [f \in Frames |-> NoWord]
  /\ listLock = [l \in Lists |-> NoThread]
  /\ pageLocks = [f \in Frames |-> NoThread]
  /\ region = [t \in Threads |-> "none"]
  /\ pc = [t \in Threads |-> "idle"]
  /\ left = [t \in Threads |-> 0]
  /\ stores = [t \in Threads |-> <<>>]
  /\ frame = [t \in Threads |-> NoFrame]
  /\ reg = [t \in Threads |-> NoWord]
  /\ victims = [t \in Threads |-> <<>>]
------------------------------------------------------------------------------
(* The regions, and the step after each step of a region.  A store to a    *)
(* bit field is two steps: status is read and written at "read", "write",  *)
(* diskIndex at "readSlot", "writeSlot".                                   *)

After ==
  [popFree |-> [enter |-> "pop", pop |-> "loop"],
   popStandby |->
     [enter |-> "pop", pop |-> "enterPage", enterPage |-> "readSlot",
      readSlot |-> "writeSlot", writeSlot |-> "leavePage", leavePage |-> "loop"],
   rescueModified |->
     [enter |-> "enterPage", enterPage |-> "still", still |-> "remove",
      remove |-> "read", read |-> "write", write |-> "leavePage",
      leavePage |-> "loop"],
   rescueStandby |->
     [enter |-> "enterPage", enterPage |-> "still", still |-> "remove",
      remove |-> "read", read |-> "write", write |-> "leavePage",
      leavePage |-> "loop"],
   rescueMidwrite |->
     [enterPage |-> "still", still |-> "read", read |-> "write",
      write |-> "leavePage", leavePage |-> "loop"],
   addActive |->
     [enter |-> "victim", victim |-> "enterPage", enterPage |-> "read",
      read |-> "write", write |-> "add", add |-> "leavePage",
      leavePage |-> "loop"],
   popVictims |-> [enter |-> "pop", pop |-> "loop"],
   markVictims |->
     [enter |-> "victim", victim |-> "enterPage", enterPage |-> "read",
      read |-> "write", write |-> "add", add |-> "leavePage",
      leavePage |-> "loop"],
   popModified |->
     [enter |-> "pop", pop |-> "enterPage", enterPage |-> "read",
      read |-> "write", write |-> "leavePage", leavePage |-> "loop"],
   writePage |->
     [enter |-> "victim", victim |-> "enterPage", enterPage |-> "still",
      still |-> "read", read |-> "write", write |-> "readSlot",
      readSlot |-> "writeSlot", writeSlot |-> "add", add |-> "leavePage",
      leavePage |-> "loop"]]

(* The list that is locked, the status that is looked for under the locks, *)
(* and the one that is stored.                                             *)
ListOf ==
  [popFree |-> "free", popStandby |-> "standby", rescueModified |-> "modified",
   rescueStandby |-> "standby", addActive |-> "active", popVictims |-> "active",
   markVictims |-> "modified", popModified |-> "modified",
   writePage |-> "standby"]
OldStatus ==
  [rescueModified |-> PFN_MODIFIED, rescueStandby |-> PFN_STANDBY,
   rescueMidwrite |-> PFN_MIDWRITE, writePage |-> PFN_MIDWRITE]
NewStatus ==
  [rescueModified |-> PFN_MIDRESCUE, rescueStandby |-> PFN_MIDRESCUE,
   rescueMidwrite |-> PFN_MIDRESCUE, addActive |-> PFN_ACTIVE,
   markVictims |-> PFN_MODIFIED, popModified |-> PFN_MIDWRITE,
   writePage |-> PFN_STANDBY]
NewDiskIndex == [popStandby |-> 0, writePage |-> 1]

At(t, step) == pc[t] = step /\ stores[t] = <<>>
GoTo(t, step) == pc' = [pc EXCEPT ![t] = step]

(* The step that follows; a loop that has been round its last time ends.   *)
Then(t) ==
  LET after == After[region[t]] IN
    GoTo(t, IF after[pc[t]] # "loop" THEN after[pc[t]]
            ELSE IF left[t] = 0 THEN "leave" ELSE after["enter"])

EnterCriticalSection(t) ==
  /\ At(t, "enter")
  /\ listLock[ListOf[region[t]]] = NoThread
  /\ listLock' = [listLock EXCEPT ![ListOf[region[t]]] = t]
  /\ Then(t)
  /\ UNCHANGED <<links, word, pageLocks, region, left, stores, local>>

(* Seeded fault: the lock of the frame is not waited for.                  *)
PageIsFreeUnchecked(f) == f \in Frames
PageIsFree(f) == pageLocks[f] = NoThread

EnterPageLock(t) ==
  /\ At(t, "enterPage")
  /\ PageIsFree(frame[t])
  /\ pageLocks' = [pageLocks EXCEPT ![frame[t]] = t]
  /\ Then(t)
  /\ UNCHANGED <<links, word, listLock, region, left, stores, local>>

(* Leaves the lock of the frame, and then that of the list.                *)
LeavePageLock(t) ==
  /\ At(t, "leavePage")
  /\ pageLocks' = [pageLocks EXCEPT ![frame[t]] = NoThread]
  /\ frame' = [frame EXCEPT ![t] = NoFrame]
  /\ Then(t)
  /\ UNCHANGED <<links, word, listLock, region, left, stores, reg, victims>>

LeaveCriticalSection(t) ==
  /\ At(t, "leave")
  /\ listLock' = [l \in Lists |-> IF listLock[l] = t THEN NoThread
                                  ELSE listLock[l]]
  /\ region' = [region EXCEPT ![t] = "none"]
  /\ GoTo(t, "idle")
  /\ left' = [left EXCEPT ![t] = 0]
  /\ frame' = [frame EXCEPT ![t] = NoFrame]
  /\ UNCHANGED <<links, word, pageLocks, stores, reg, victims>>

Store(node, field, value) == [node |-> node, field |-> field, value |-> value]

(* An empty list ends the region.                                          *)
pop_page(t) ==
  LET head == ListOf[region[t]]
      freePage == Flink[head]
      nextPage == Flink[freePage]
  IN /\ At(t, "pop")
     /\ IF freePage = head
        THEN GoTo(t, "leave") /\ UNCHANGED <<left, stores, frame, victims>>
        ELSE /\ GoTo(t, IF After[region[t]]["pop"] # "loop" THEN "enterPage"
                        ELSE IF left[t] = 1 THEN "leave" ELSE "pop")
             /\ left' = [left EXCEPT ![t] = @ - 1]
             /\ stores' = [stores EXCEPT ![t] =
                             << Store(head, "Flink", nextPage),
                                Store(nextPage, "Blink", head),
                                Store(freePage, "Flink", freePage),
                                Store(freePage, "Blink", freePage) >>]
             /\ frame' = [frame EXCEPT ![t] = freePage]
             /\ victims' = [victims EXCEPT ![t] = Append(@, freePage)]
     /\ UNCHANGED <<links, word, locks, region, reg>>

(* Seeded fault: the new entry does not lead on to the head.               *)
AddStoresUnclosed(head, new) ==
  << Store(new, "Blink", Blink[head]), Store(Blink[head], "Flink", new),
     Store(head, "Blink", new) >>
AddStores(head, new) ==
  << Store(new, "Blink", Blink[head]), Store(Blink[head], "Flink", new),
     Store(new, "Flink", head), Store(head, "Blink", new) >>

add_entry_linked(t) ==
  /\ At(t, "add")
  /\ stores' = [stores EXCEPT ![t] = AddStores(ListOf[region[t]], frame[t])]
  /\ victims' = [victims EXCEPT ![t] = Tail(@)]
  /\ Then(t)
  /\ UNCHANGED <<links, word, locks, region, left, frame, reg>>

(* Seeded fault: the entry is left pointing into the list.                 *)
RemoveStoresOnly(removed) ==
  << Store(Flink[removed], "Blink", Blink[removed]),
     Store(Blink[removed], "Flink", Flink[removed]) >>
RemoveStores(removed) ==
  << Store(Flink[removed], "Blink", Blink[removed]),
     Store(Blink[removed], "Flink", Flink[removed]),
     Store(removed, "Flink", removed), Store(removed, "Blink", removed) >>

removePage_linked(t) ==
  /\ At(t, "remove")
  /\ stores' = [stores EXCEPT ![t] = RemoveStores(frame[t])]
  /\ Then(t)
  /\ UNCHANGED <<links, word, locks, region, left, local>>

StoreLink(t) ==
  /\ stores[t] # <<>>
  /\ LET s == Head(stores[t]) IN
       IF s.field = "Flink"
       THEN Flink' = [Flink EXCEPT ![s.node] = s.value] /\ Blink' = Blink
       ELSE Blink' = [Blink EXCEPT ![s.node] = s.value] /\ Flink' = Flink
  /\ stores' = [stores EXCEPT ![t] = Tail(@)]
  /\ UNCHANGED <<word, locks, region, pc, left, local>>

ReadWord(t) ==
  /\ At(t, "read") \/ At(t, "readSlot")
  /\ reg' = [reg EXCEPT ![t] = word[frame[t]]]
  /\ Then(t)
  /\ UNCHANGED <<links, word, locks, region, left, stores, frame, victims>>

WriteWord(t) ==
  /\ \/ /\ At(t, "write")
        /\ word' = [word EXCEPT ![frame[t]] =
                      [reg[t] EXCEPT !.status = NewStatus[region[t]]]]
     \/ /\ At(t, "writeSlot")
        /\ word' = [word EXCEPT ![frame[t]] =
                      [reg[t] EXCEPT !.diskIndex = NewDiskIndex[region[t]]]]
  /\ reg' = [reg EXCEPT ![t] = NoWord]
  /\ Then(t)
  /\ UNCHANGED <<links, locks, region, left, stores, frame, victims>>

(* The loop over a batch comes to its next frame.                          *)
TakeVictim(t) ==
  /\ At(t, "victim")
  /\ frame' = [frame EXCEPT ![t] = Head(victims[t])]
  /\ left' = [left EXCEPT ![t] = @ - 1]
  /\ Then(t)
  /\ UNCHANGED <<links, word, locks, region, stores, reg, victims>>

(* Seeded fault: the frame is taken whatever its status is by now.         *)
StatusIsUnchecked(f, status) == f \in Frames
StatusIs(f, status) == word[f].status = status

(* The second look at the status, under the locks.  Where it succeeds the  *)
(* user thread has rescued the frame; where it fails the region ends, and  *)
(* the writer is done with its victim.                                     *)
SecondLook(t) ==
  /\ At(t, "still")
  /\ IF StatusIs(frame[t], OldStatus[region[t]])
     THEN /\ Then(t)
          /\ victims' = IF t = "user"
                        THEN [victims EXCEPT ![t] = <<frame[t]>>] ELSE victims
     ELSE /\ GoTo(t, "leavePage")
          /\ victims' = IF t = "user"
                        THEN victims ELSE [victims EXCEPT ![t] = Tail(@)]
  /\ UNCHANGED <<links, word, locks, region, left, stores, frame, reg>>
------------------------------------------------------------------------------
(* The regions of each thread begin.                                       *)

Idle(t) == pc[t] = "idle"
Empty(t) == Idle(t) /\ victims[t] = <<>>
Full(t) == Idle(t) /\ victims[t] # <<>>

Start(t, r, step, rounds, f) ==
  /\ region' = [region EXCEPT ![t] = r]
  /\ GoTo(t, step)
  /\ left' = [left EXCEPT ![t] = rounds]
  /\ frame' = [frame EXCEPT ![t] = f]
  /\ UNCHANGED <<links, word, locks, stores, reg, victims>>

PopFree == Empty("user") /\ Start("user", "popFree", "enter", 1, NoFrame)
PopStandby == Empty("user") /\ Start("user", "popStandby", "enter", 1, NoFrame)
PopVictims ==
  /\ Empty("trimmer")
  /\ Start("trimmer", "popVictims", "enter", MAXIMUM_TRIM_BATCH, NoFrame)
(* The writer pops as many frames as it has found slots.                   *)
PopModified ==
  /\ Empty("writer")
  /\ \E slots \in 1 .. MAXIMUM_WRITE_BATCH :
       Start("writer", "popModified", "enter", slots, NoFrame)

(* The first look of a rescue is not locked.                               *)
RescueFromList(f, r) ==
  /\ Empty("user")
  /\ word[f].status = OldStatus[r]
  /\ Start("user", r, "enter", 0, f)
RescueMidwrite(f) ==
  /\ Empty("user")
  /\ word[f].status = PFN_MIDWRITE
  /\ Start("user", "rescueMidwrite", "enterPage", 0, f)

AddActive == Full("user") /\ Start("user", "addActive", "enter", 1, NoFrame)
MarkVictims ==
  /\ Full("trimmer")
  /\ Start("trimmer", "markVictims", "enter", Len(victims["trimmer"]), NoFrame)

(* The writer looks without a lock first; a rescued victim is left alone.  *)
SkipVictim ==
  /\ Full("writer")
  /\ word[Head(victims["writer"])].status # PFN_MIDWRITE
  /\ victims' = [victims EXCEPT !["writer"] = Tail(@)]
  /\ UNCHANGED <<links, word, locks, control, frame, reg>>
WritePage ==
  /\ Full("writer")
  /\ word[Head(victims["writer"])].status = PFN_MIDWRITE
  /\ Start("writer", "writePage", "enter", 1, NoFrame)

Step(t) ==
  \/ EnterCriticalSection(t) \/ EnterPageLock(t)
  \/ LeavePageLock(t) \/ LeaveCriticalSection(t)
  \/ pop_page(t) \/ add_entry_linked(t) \/ removePage_linked(t)
  \/ StoreLink(t) \/ ReadWord(t) \/ WriteWord(t)
  \/ TakeVictim(t) \/ SecondLook(t)

Next ==
  \/ \E t \in Threads : Step(t)
  \/ PopFree \/ PopStandby \/ PopVictims \/ PopModified
  \/ \E f \in Frames : \/ RescueFromList(f, "rescueModified")
                       \/ RescueFromList(f, "rescueStandby")
                       \/ RescueMidwrite(f)
  \/ AddActive \/ MarkVictims \/ SkipVictim \/ WritePage

Spec == Init /\ [][Next]_vars
------------------------------------------------------------------------------
(* The links as they will be once every store still to be made is made.    *)

Pending == UNION {ToSet(stores[t]) : t \in Threads}
Settled(link, field, n) ==
  LET last == {s \in Pending : s.node = n /\ s.field = field}
  IN IF last = {} THEN link[n] ELSE (CHOOSE s \in last : TRUE).value
SettledFlink(n) == Settled(Flink, "Flink", n)
SettledBlink(n) == Settled(Blink, "Blink", n)

(* The frames from the head of a list along Flink until it is back.        *)
FramesOn ==
  LET node[l \in Lists, i \in 0 .. Cardinality(Frames)] ==
        IF i = 0 THEN l ELSE SettledFlink(node[l, i - 1])
      Before(l) == { i \in 1 .. Cardinality(Frames) :
                       \A j \in 1 .. i : node[l, j] # l }
  IN [l \in Lists |-> [i \in Before(l) |-> node[l, i]]]

(* The writer still has a victim if its status says so, or while it changes *)
(* the status under the frame's lock.                                      *)
WriterHas(f) ==
  /\ f \in ToSet(victims["writer"]) \ ToSet(victims["user"])
  /\ \/ word[f].status = PFN_MIDWRITE
     \/ /\ frame["writer"] = f
        /\ \/ listLock["modified"] = "writer"
           \/ pageLocks[f] = "writer" /\ pc["writer"] # "still"

FramesHeld ==
  [t \in Threads |-> IF t = "writer" THEN { f \in Frames : WriterHas(f) }
                     ELSE IF pc[t] = "remove" THEN {}
                     ELSE ToSet(victims[t])]

P == INSTANCE PageLists WITH
       list <- FramesOn, hand <- FramesHeld,
       Order <- physical_page_numbers

(* The linked entries behave like the queues of PageLists, whichever       *)
(* stores of other threads fall between the stores of an operation         *)
(* (lists.c:8-39, 106-117): no frame is lost, doubled or put out of turn,  *)
(* and no rescue takes a frame that another thread has.                    *)
ListsAreQueues == P!Spec

(* Going back along Blink is the inverse of going along Flink, and the     *)
(* frames on different lists are different.                                *)
LinksAreInverse ==
  \A n \in Nodes : /\ SettledBlink(SettledFlink(n)) = n
                   /\ SettledFlink(SettledBlink(n)) = n

(* "Make page we removed point towards itself as it doesn't belong to any  *)
(* list at the moment" (lists.c:35): a frame in the user thread's hands    *)
(* does, also when the writer popped it (ASSERTs pagefaulthandler.c:10,    *)
(* 25, 113, which look at it without a lock).                              *)
HandledFrameIsUnlinked ==
  \A f \in ToSet(victims["user"]) :
    Idle("user") => Flink[f] = f /\ Blink[f] = f

(* No store to a status or a diskIndex is lost because another thread      *)
(* writes the other field of the word back, or the same: frames that are   *)
(* linked to each other have one status, those next to a head have that of *)
(* the list, frames on the standby list have a slot, and those on the free *)
(* list have none.  (On the other lists an old slot may be left.)          *)
StatusOfList == [free |-> PFN_FREE, active |-> PFN_ACTIVE,
                 modified |-> PFN_MODIFIED, standby |-> PFN_STANDBY]
Tells(n) == IF n \in Lists THEN StatusOfList[n] ELSE word[n].status

WordTellsList ==
  \A n \in Nodes : SettledFlink(n) # n =>
    /\ Tells(SettledFlink(n)) = Tells(n)
    /\ n \in Frames /\ Tells(n) \in {PFN_FREE, PFN_STANDBY} =>
         word[n].diskIndex = IF Tells(n) = PFN_STANDBY THEN 1 ELSE 0
==============================================================================
