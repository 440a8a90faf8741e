---------------------------- MODULE MCPageContents ----------------------------
(* Model-checking values for PageContents.                                 *)
EXTENDS MCMemoryManager, PageContents

(* After a stray store nothing is claimed about contents, and the user     *)
(* could have accessed its next page instead of making it: the search ends *)
(* there.                                                                  *)
NoStrayStore == ~ stray

LiveContentsView == <<LiveView, contents>>
==============================================================================
