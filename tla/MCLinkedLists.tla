---------------------------- MODULE MCLinkedLists ----------------------------
(* Model-checking values for LinkedLists.  Frames are model values, so     *)
(* that a node can be compared with the name of a list.                    *)
EXTENDS LinkedLists

CONSTANTS f1, f2

Frames2 == {f1, f2}
Order2 == <<f2, f1>>

(* Only the initial state tells frames apart, by their order.              *)
FrameSymmetry == Permutations(Frames)
==============================================================================
