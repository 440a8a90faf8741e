----------------------------- MODULE MCPTEFormat -----------------------------
(* Model-checking values for PTEFormat.                                    *)
EXTENDS PTEFormat

AllFrames == 0 .. IndexValues - 1
AllSlots == 1 .. IndexValues - 1
==============================================================================
