------------------------------ MODULE Lifecycle ------------------------------
(***************************************************************************)
(* The whole program (full_virtual_memory_test): the main thread sets up   *)
(* the memory manager, starts the threads of MemoryManager, waits for the  *)
(* user thread to make its accesses, sets and resets exitEvent, frees the  *)
(* memory and returns, which ends the process with every thread in it.     *)
(***************************************************************************)
EXTENDS MemoryManager

CONSTANT Accesses  (* how many accesses the user thread makes: 1000000     *)

ASSUME AccessesAssumption == Accesses \in Nat

VARIABLES
  mpc,         (* control state of the main thread                         *)
  built,       (* how many of Parts are set up                             *)
  transferVAs, (* the threads whose transfer address is not NULL           *)
  startEvent,  (* manual-reset: what every thread waits for first          *)
  exitEvent,   (* manual-reset                                             *)
  accesses,    (* accesses the user thread has completed                   *)
  returned     (* the threads that have returned from their function       *)

mainVars == <<mpc, built, transferVAs, startEvent, exitEvent>>
programVars == <<vars, mainVars, accesses, returned>>

(* What initializeVirtualMemory sets up, in this order.                    *)
Parts == <<"privilege", "section", "physical_page_numbers", "frames",
           "all frames", "vaBase", "transferVAs", "PFN_base", "pfnarray",
           "lists", "pageTable", "disk">>

(* The parts whose absence makes it return; without one of the others it   *)
(* goes on to use what is not there, or stops in DebugBreak (initializer.  *)
(* c:26-30, 41-51, 191-197, and the arrays of 247, 257 and 267).           *)
Checked == {"privilege", "section", "physical_page_numbers", "frames",
            "vaBase", "pfnarray", "pageTable"}

Has(part) == \E i \in 1 .. built : Parts[i] = part
Ready == built = Len(Parts)

MainPC == {"setUp", "createThreads", "start", "join", "setExit", "resetExit",
           "tearDown", "return", "ended", "crashed"}

(* Returning from main ends the process, and so does an exception.         *)
Over == mpc \in {"ended", "crashed"}

ProgramInit ==
  /\ Init
  /\ mpc = "setUp"
  /\ built = 0
  /\ transferVAs = {}
  /\ startEvent = FALSE
  /\ exitEvent = FALSE
  /\ accesses = 0
  /\ returned = {}
------------------------------------------------------------------------------
(* The main thread.                                                        *)

MainOnly == UNCHANGED <<vars, accesses>>

(* Nobody looks whether a transfer address could be had.                   *)
SetUpPart ==
  /\ mpc = "setUp"
  /\ built' = built + 1
  /\ IF Parts[built'] = "transferVAs"
     THEN transferVAs' \in SUBSET {"user", "writer"}
     ELSE UNCHANGED transferVAs
  /\ mpc' = IF built' = Len(Parts) THEN "createThreads" ELSE mpc
  /\ MainOnly /\ UNCHANGED <<startEvent, exitEvent, returned>>

(* The caller is not told that the set-up ended early.                     *)
SetUpFails ==
  /\ mpc = "setUp"
  /\ mpc' = IF Parts[built + 1] \in Checked THEN "createThreads" ELSE "crashed"
  /\ MainOnly /\ UNCHANGED <<built, transferVAs, startEvent, exitEvent, returned>>

(* Gives each thread its transfer address, and stops in DebugBreak when a  *)
(* thread cannot be had.                                                   *)
CreateThreads ==
  /\ mpc = "createThreads"
  /\ \/ mpc' = "start" /\ Has("transferVAs")
     \/ mpc' = "crashed"
  /\ MainOnly /\ UNCHANGED <<built, transferVAs, startEvent, exitEvent, returned>>

StartThreads ==
  /\ mpc = "start"
  /\ startEvent' = TRUE
  /\ mpc' = "join"
  /\ MainOnly /\ UNCHANGED <<built, transferVAs, exitEvent, returned>>

(* What the main thread waits for.  Seeded fault: that the user thread     *)
(* exists.                                                                 *)
UserWasCreated == Has("transferVAs")
UserHasReturned == "user" \in returned

Join ==
  /\ mpc = "join"
  /\ UserHasReturned
  /\ mpc' = "setExit"
  /\ MainOnly /\ UNCHANGED <<built, transferVAs, startEvent, exitEvent, returned>>

(* The threads about to wait for their next job.  Of two events that are   *)
(* set, the wait reports the first, which is not the exit event.           *)
Idle == {t \in {"trimmer", "writer"} :
           \/ t = "trimmer" /\ tpc = "wait" /\ ~ startTrimmer
           \/ t = "writer" /\ wpc = "wait" /\ ~ startWriter}

(* Releases those that wait already.                                       *)
SetExitEvent ==
  /\ mpc = "setExit"
  /\ exitEvent' = TRUE
  /\ \E released \in SUBSET Idle : returned' = returned \cup released
  /\ mpc' = "resetExit"
  /\ MainOnly /\ UNCHANGED <<built, transferVAs, startEvent>>

ResetExitEvent ==
  /\ mpc = "resetExit"
  /\ exitEvent' = FALSE
  /\ mpc' = "tearDown"
  /\ MainOnly /\ UNCHANGED <<built, transferVAs, startEvent, returned>>

(* Frees vaBase and the page table.                                        *)
TearDown ==
  /\ mpc = "tearDown"
  /\ mpc' = "return"
  /\ MainOnly /\ UNCHANGED <<built, transferVAs, startEvent, exitEvent, returned>>

Return ==
  /\ mpc = "return"
  /\ mpc' = "ended"
  /\ MainOnly /\ UNCHANGED <<built, transferVAs, startEvent, exitEvent, returned>>

MainNext == \/ SetUpPart \/ SetUpFails \/ CreateThreads \/ StartThreads \/ Join
            \/ SetExitEvent \/ ResetExitEvent \/ TearDown \/ Return
------------------------------------------------------------------------------
(* The other threads.                                                      *)

(* The user fills frames and the writer copies victims through a transfer  *)
(* address, which stops in DebugBreak when it is NULL (util.c:23-24,       *)
(* reader.c:7-8, writer.c:116-118); the trimmer never uses its own.        *)
LacksTransferVA(thread) ==
  /\ thread \notin transferVAs
  /\ \/ thread = "user" /\ upc = "fill"
     \/ thread = "writer" /\ wpc = "victim"

Runs(thread) ==
  startEvent /\ ~ Over /\ thread \notin returned /\ ~ LacksTransferVA(thread)

(* A store that does not fault completes an access.                        *)
CompletesAccess == upc = "access" /\ upc' = "access"

RunUser ==
  /\ Runs("user") /\ Ready /\ accesses < Accesses
  /\ UserStep
  /\ accesses' = IF CompletesAccess THEN accesses + 1 ELSE accesses
  /\ UNCHANGED <<mainVars, returned>>

ReturnUser ==
  /\ Runs("user") /\ Ready /\ accesses = Accesses
  /\ returned' = returned \cup {"user"}
  /\ UNCHANGED <<vars, mainVars, accesses>>

RunTrimmer ==
  /\ Runs("trimmer") /\ Ready
  /\ TrimmerStep
  /\ UNCHANGED <<mainVars, accesses, returned>>

RunWriter ==
  /\ Runs("writer") /\ Ready
  /\ WriterStep
  /\ UNCHANGED <<mainVars, accesses, returned>>

ReturnIdle ==
  \E t \in Idle :
    /\ Runs(t) /\ Ready /\ exitEvent
    /\ returned' = returned \cup {t}
    /\ UNCHANGED <<vars, mainVars, accesses>>

(* Without page table or disk slots, the user's first fault or the         *)
(* writer's first search reads through a null pointer; without a transfer  *)
(* address, the first use stops.                                           *)
Crash ==
  /\ startEvent /\ ~ Over
  /\ ~ Ready \/ \E thread \in Threads : LacksTransferVA(thread)
  /\ mpc' = "crashed"
  /\ UNCHANGED <<vars, built, transferVAs, startEvent, exitEvent, accesses, returned>>

ProgramNext == \/ MainNext \/ RunUser \/ ReturnUser \/ RunTrimmer \/ RunWriter
               \/ ReturnIdle \/ Crash

ProgramSpec == ProgramInit /\ [][ProgramNext]_programVars

ProgramFairness ==
  /\ WF_programVars(MainNext)
  /\ SF_programVars(RunUser) /\ WF_programVars(ReturnUser)
  /\ SF_programVars(RunTrimmer) /\ SF_programVars(RunWriter)
  /\ WF_programVars(Crash)

FairProgramSpec == ProgramSpec /\ ProgramFairness
------------------------------------------------------------------------------
(* The program ends.  Unless its set-up stops it, every access completes:  *)
(* the user never waits for ever for a frame (lists.c:98-101), whatever    *)
(* signals were lost or left over, and does not fault on the same page for *)
(* ever.  The main thread waits for nobody else (main.c:318), so a trimmer *)
(* that missed exitEvent or a writer that searches a full disk for ever    *)
(* (writer.c:95) does not keep the process alive.                          *)
ProgramEnds ==
  <>(mpc = "crashed" \/ (mpc = "ended" /\ accesses = Accesses /\ uva = NoVA))

Freed == mpc \in {"return", "ended"}

(* "Now that we're done with our memory we can be a good citizen and free  *)
(* it" (main.c:331-332): no thread writes the page table or maps and       *)
(* unmaps pages of the range when both are freed.                          *)
FreedMemoryIsNotUsed == [][ Freed => UNCHANGED <<pageTable, map>> ]_vars

(* The user thread is between two accesses when the memory is freed, and   *)
(* stays there: neither its page table entry nor its mapping is pulled     *)
(* away under a fault that is being handled, even though the trimmer and   *)
(* the writer may still run (main.c:318-333).                              *)
UserIsDoneWhenFreed ==
  [][ Freed => upc = "access" /\ uva = NoVA /\ UNCHANGED userVars ]_programVars
==============================================================================
