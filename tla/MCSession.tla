----------------------------- MODULE MCSession -----------------------------
(* One session: a finding that needs its defaults, one that does not, one *)
(* that is not valid; two Bash calls at once.                               *)
EXTENDS Session

Call(what, start, end) == [what |-> what, start |-> start, end |-> end, anchor |-> "", severity |-> "note", id |-> NoID]
MCArgs == {Call("a", 1, 0), Call("b", 2, 2), Call("b", 2, 1)}
=============================================================================
