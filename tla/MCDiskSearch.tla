----------------------------- MODULE MCDiskSearch -----------------------------
(* Model-checking values for DiskSearch.                                   *)
EXTENDS DiskSearch

Frames1 == {1}
Order1 == <<1>>
==============================================================================
