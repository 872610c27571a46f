----------------------------- MODULE MCFocused -----------------------------
(***************************************************************************)
(* Focused with few lenses, findings and locations.                        *)
(***************************************************************************)
EXTENDS Focused, TLC

(* One finding was reported before. *)
OneKnown == {[id |-> 1, loc |-> 1]}

(* The lenses are interchangeable. *)
Interchangeable == Permutations(Lens)
=============================================================================
