------------------------------ MODULE PTEFormat ------------------------------
(***************************************************************************)
(* A page table entry as pte.h has it: a word of 64 bits with three        *)
(* formats that overlay each other, changed one bit field at a time under  *)
(* pageTableLock.  The threads change an entry where VMTypes has one       *)
(* operation on a record.                                                  *)
(***************************************************************************)
EXTENDS VMTypes, Integers

CONSTANTS
  IndexValues, (* how many frameNumber and diskIndex tell apart: 2 ^ 40     *)
  Frames,      (* frame numbers                                            *)
  UsedSlots    (* disk slots a page can be in                              *)

ASSUME FormatAssumption ==
  /\ IndexValues \in Nat \ {0}
  /\ Frames \subseteq 0 .. IndexValues - 1
  /\ UsedSlots \subseteq 1 .. IndexValues - 1

VARIABLES
  word,    (* entireFormat                                                 *)
  stores,  (* <<field, value>>: the stores still to be made under the lock *)
  entry    (* the record that the stores made under the lock are to give   *)

vars == <<word, stores, entry>>

(* The fields of validPte, DiskPTE and transitionPte lie alike: valid and  *)
(* invalid in bit 0, status in bit 1, frameNumber and diskIndex after it.  *)
Fields == {"valid", "status", "index"}
Weight == [valid |-> 1, status |-> 2, index |-> 4]
Values == [valid |-> 2, status |-> 2, index |-> IndexValues]

Get(w, field) == (w \div Weight[field]) % Values[field]

(* Keeps as much of the value as the field can hold.                       *)
Put(w, field, value) ==
  w + ((value % Values[field]) - Get(w, field)) * Weight[field]

EntryOf(w) ==
  [valid |-> Get(w, "valid"), status |-> Get(w, "status"),
   index |-> Get(w, "index")]

Init == word = 0 /\ stores = <<>> /\ entry = ZeroPte

(* Takes the lock and begins to make the stores.                           *)
Begin(fields, result) ==
  /\ stores = <<>>
  /\ stores' = fields
  /\ entry' = result
  /\ word' = word

(* A page that faulted gets a frame: its own one while it is in transition *)
(* (seeded fault: the status bit is left from the other format).           *)
ValidStoresKept(frame) == << <<"valid", 1>>, <<"index", frame>> >>
ValidStores(frame) == << <<"valid", 1>>, <<"status", 0>>, <<"index", frame>> >>

makePTEValid ==
  \E frame \in Frames :
    /\ entry.valid = 0
    /\ IS_PTE_TRANSITION(entry) => entry.index = frame
    /\ Begin(ValidStores(frame), ValidPte(frame))

trimPage ==
  /\ entry.valid = 1
  /\ Begin(<< <<"valid", 0>>, <<"status", PTE_IN_TRANSITION>> >>,
           ToTransition(entry))

(* The frame of a page in transition is repurposed.                        *)
getFreePage ==
  \E slot \in UsedSlots :
    /\ IS_PTE_TRANSITION(entry)
    /\ Begin(<< <<"index", slot>>, <<"status", PTE_ON_DISK>> >>,
             ToDisk(entry, slot))

Store ==
  /\ stores # <<>>
  /\ word' = Put(word, Head(stores)[1], Head(stores)[2])
  /\ stores' = Tail(stores)
  /\ entry' = entry

Next == makePTEValid \/ trimPage \/ getFreePage \/ Store

Spec == Init /\ [][Next]_vars
------------------------------------------------------------------------------
(* Whenever the lock is free, the word reads as the record of VMTypes: no  *)
(* store to one field reaches another one, a frame number that was kept    *)
(* through trim and rescue is still whole, and the status bit of one       *)
(* format, or the frame number under a disk index, does not survive into   *)
(* the next format (pagefaulthandler.c:15-17, trimmer.c:67-68, lists.c:    *)
(* 88-91).  Between two stores the word may read as something else: a page *)
(* that is being trimmed as one on disk, one that loses its frame as one   *)
(* in the frame with its slot's number.  That entries are still read       *)
(* without the lock is the business of FaultingEntryIsStable.              *)
WordIsEntry == stores = <<>> => EntryOf(word) = entry
==============================================================================
