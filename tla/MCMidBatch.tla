------------------------------ MODULE MCMidBatch ------------------------------
(* PageContents on an instance in which one victim of a batch is rescued   *)
(* while another one is copied, and slots are cleared during a search.     *)
(* That takes three frames, writes of two and seven accesses that fault,   *)
(* so the run is bounded to as many.                                       *)
EXTENDS MCPageContents

CONSTANT MaxFaults

VARIABLE faults  (* accesses that faulted so far                           *)

NewFault == upc = "access" /\ uva = NoVA /\ upc' = "fault"

FewInit == CInit /\ faults = 0

FewNext ==
  \/ NewFault /\ faults < MaxFaults /\ faults' = faults + 1 /\ CNext
  \/ CNext /\ ~ NewFault /\ faults' = faults

FewSpec == FewInit /\ [][FewNext]_<<vars, contents, faults>>

FewView == <<LiveContentsView, faults>>
==============================================================================
