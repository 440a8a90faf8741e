----------------------------- MODULE PageContents -----------------------------
(***************************************************************************)
(* What frames and disk slots contain.  Every access stamps a word of the  *)
(* page with its own address, so the contents of a page are the set of     *)
(* pages whose stamps are in it; the accesses of one page all go to the    *)
(* same word.  The steps of MemoryManager that touch contents are given    *)
(* here with what they do to them; every other step leaves contents alone. *)
(***************************************************************************)
EXTENDS MemoryManager

VARIABLES
  mem,      (* frame -> contents                                           *)
  disk,     (* slot -> contents                                            *)
  written,  (* the pages accessed so far: what the user may expect to find *)
  stray     (* history: a store went through a mapping without valid entry *)

contents == <<mem, disk, written, stray>>

Backed(va) == pageTable[va].valid = 1 /\ map[va] = pageTable[va].index

InitContents ==
  /\ mem = [f \in Frames |-> {}]
  /\ disk = [s \in Slots |-> {}]
  /\ written = {}
  /\ stray = FALSE

(* The store goes to whatever frame the page is mapped to.                 *)
Stamp(va) ==
  /\ WriteVA(va)
  /\ mem' = [mem EXCEPT ![map[va]] = @ \cup {va}]
  /\ written' = written \cup {va}
  /\ stray' = (stray \/ ~ Backed(va))
  /\ UNCHANGED disk

(* read_disk                                                               *)
ReadFromDisk ==
  /\ ReadDisk
  /\ mem' = [mem EXCEPT ![uframe] = disk[pageTable[uva].index]]
  /\ UNCHANGED <<disk, written, stray>>

(* zeroPage.  Seeded fault: the frame keeps the contents of the page it    *)
(* was taken from.                                                         *)
ZeroForgotten == ZeroPage /\ UNCHANGED contents
Zero ==
  /\ ZeroPage
  /\ mem' = [mem EXCEPT ![uframe] = {}]
  /\ UNCHANGED <<disk, written, stray>>

(* The page of victim wi in the transfer area.  Seeded fault: always the   *)
(* first page.                                                             *)
FirstPage(i) == mem[wvictims[1]]
TransferPage(i) == mem[wvictims[i]]

CopyToDisk ==
  /\ WritePage
  /\ disk' = [disk EXCEPT ![wslots[wi]] = TransferPage(wi)]
  /\ UNCHANGED <<mem, written, stray>>

OtherUserStep ==
  /\ \/ \E va \in VAs : FaultOn(va)
     \/ StartFault \/ Rescue \/ GetFreePage \/ FreeSlot
     \/ SetValid \/ AddActive \/ MapVA
  /\ UNCHANGED contents

OtherWriterStep ==
  /\ \/ CheckModifiedList \/ AwaitStart \/ SearchSlot
     \/ WriteLockModified \/ PopModified \/ EndPop
     \/ CheckVictim \/ WriteLockStandby \/ SkipRescued \/ SignalUser
  /\ UNCHANGED contents

CUserStep ==
  /\ (\E va \in VAs : Stamp(va)) \/ ReadFromDisk \/ Zero \/ OtherUserStep
  /\ UNCHANGED <<trimmerVars, writerVars>>
CTrimmerStep == TrimmerStep /\ UNCHANGED contents
CWriterStep == /\ CopyToDisk \/ OtherWriterStep
               /\ UNCHANGED <<userVars, trimmerVars>>

CInit == Init /\ InitContents
CNext == CUserStep \/ CTrimmerStep \/ CWriterStep
CSpec == CInit /\ [][CNext]_<<vars, contents>>
------------------------------------------------------------------------------
(* Where the contents of a page are: in its frame, in its slot, or nowhere *)
(* when it was never touched.                                              *)
ContentsOf(va) ==
  LET p == pageTable[va] IN
    IF Resident(p) THEN mem[p.index]
    ELSE IF p.index # 0 THEN disk[p.index] ELSE {}

(* The page that is just moving from its slot to a frame, or is about to   *)
(* get a frame of zeroes.                                                  *)
InTransit(va) == va = uva /\ upc \in {"freeSlot", "setValid"}

(* Through any number of trims, writes, rescues, reads and frames changing *)
(* pages, the contents of every page are what was written to it and        *)
(* nothing else, as long as no store goes through a mapping that the       *)
(* trimmer is late to remove (trimmer.c:76-79) or the handler late to make *)
(* (pagefaulthandler.c:32-34).  The writer must not have found a slot      *)
(* twice either (writer.c:49); the run leaves that out by a constraint.    *)
ContentsAreKept ==
  ~ stray => \A va \in VAs :
    {va} \cap written = IF InTransit(va) THEN mem[uframe] ELSE ContentsOf(va)

(* A frame that may be repurposed is clean: its slot holds what it holds.  *)
(* The copy is made under locks that no store takes (writer.c:130), and    *)
(* the frame keeps its contents on the standby list until it is rescued    *)
(* or given to another page, whose entry then names the slot (lists.c:     *)
(* 83-90).                                                                 *)
StandbyFramesAreClean ==
  ~ stray => \A f \in Frames :
    On(standbyList, f) => disk[pfnDiskIndex[f]] = mem[f]
------------------------------------------------------------------------------
(* The user looks between two accesses.                                    *)
Looking(va) == upc = "access" /\ uva = NoVA /\ map[va] # NoFrame

(* checkVa (util.c:12-20): every word of a page is 0 or its own address.   *)
CheckVa == \A va \in VAs : Looking(va) => mem[map[va]] \subseteq {va}

(* "this pte is not active (=0), meaning pte is not mapped into physical   *)
(* memory" (pte.h:32): with the trimmer at rest and the user between two   *)
(* accesses, only valid pages are mapped, each to the frame of its entry.  *)
OnlyValidPagesAreMapped ==
  \A va \in VAs : Looking(va) /\ tpc = "wait" => Backed(va)
==============================================================================
