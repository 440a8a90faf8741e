----------------------------- MODULE MCLifecycle -----------------------------
(* Model-checking values for Lifecycle.                                    *)
EXTENDS Lifecycle

Frames2 == {1, 2}
Order2 == <<2, 1>>
==============================================================================
