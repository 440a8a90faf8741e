------------------------------- MODULE VMTypes -------------------------------
(***************************************************************************)
(* What the modules share that has no state: the threads, the status of a  *)
(* page frame record, the operations on page lists, which are sequences of *)
(* frames, head first, and the formats of a page table entry.  Module      *)
(* LinkedLists shows that the linked entries of lists.c behave like these  *)
(* sequences, and PTEFormat that the bit fields of pte.h behave like these *)
(* records.                                                                *)
(***************************************************************************)
EXTENDS Naturals, SequencesExt

Threads == {"user", "trimmer", "writer"}
NoThread == "none"
------------------------------------------------------------------------------
(* Page frame records.                                                     *)

PFN_FREE == 0
PFN_ACTIVE == 1
PFN_MODIFIED == 2
PFN_STANDBY == 3
PFN_MIDWRITE == 4
PFN_MIDRESCUE == 5

PfnStatus == {PFN_FREE, PFN_ACTIVE, PFN_MODIFIED, PFN_STANDBY, PFN_MIDWRITE,
              PFN_MIDRESCUE}
------------------------------------------------------------------------------
(* Page lists.                                                             *)

IsListEmpty(list) == list = <<>>
On(list, frame) == \E i \in DOMAIN list : list[i] = frame

(* Appends at the tail: the head of a list is its oldest entry.  (An       *)
(* operator after "Seeded fault" is not part of the model: it stands for a *)
(* plausible bug in the definition it precedes, to show which property     *)
(* would catch it.)  Seeded fault: linked in after the head.               *)
add_entryAtHead(list, frame) == <<frame>> \o list
add_entry(list, frame) == Append(list, frame)

(* Unlinks an entry wherever it is.  An entry that is on no list points to *)
(* itself, and unlinking it changes nothing.                               *)
removePageForgotten(list, frame) == list  (* seeded fault: not unlinked *)
removePage(list, frame) ==
  IF On(list, frame)
  THEN RemoveAt(list, CHOOSE i \in DOMAIN list : list[i] = frame)
  ELSE list
------------------------------------------------------------------------------
(* Page table entries.  frameNumber (valid and transition formats) and     *)
(* diskIndex (disk format) are the same 40 bits of the union: "index".     *)

PTE_ON_DISK == 0
PTE_IN_TRANSITION == 1

PTE == [valid : {0, 1}, status : {0, 1}, index : Nat]

ZeroPte == [valid |-> 0, status |-> PTE_ON_DISK, index |-> 0]
ValidPte(frame) == [valid |-> 1, status |-> 0, index |-> frame]

(* Seeded faults: the valid bit is not cleared; the slot is not saved in   *)
(* the entry; the entry's status is not looked at.                         *)
ToTransitionStillValid(p) == [p EXCEPT !.status = PTE_IN_TRANSITION]
ToDiskForgotten(p, slot) == p
ToTransition(p) ==
  [valid |-> 0, status |-> PTE_IN_TRANSITION, index |-> p.index]
ToDisk(p, slot) == [valid |-> p.valid, status |-> PTE_ON_DISK, index |-> slot]

TransitionMistaken(p) == p.status = PTE_IN_TRANSITION /\ p.valid = 1
IS_PTE_TRANSITION(p) == p.status = PTE_IN_TRANSITION /\ p.valid = 0
==============================================================================
