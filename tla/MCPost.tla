------------------------------- MODULE MCPost -------------------------------
(* Three commits: two findings on patch lines with room for one comment a   *)
(* review, one outside the patch, and a commit with nothing to find.        *)
EXTENDS Post

MCFound == [c \in Commit |-> CASE c = 1 -> {1, 2} [] c = 2 -> {3} [] OTHER -> {}]
=============================================================================
