------------------------------ MODULE MCReview ------------------------------
(***************************************************************************)
(* Review with few invocations, diffs and findings.                        *)
(***************************************************************************)
EXTENDS Review, TLC

(* Findings and diffs are interchangeable. *)
Interchangeable == Permutations(Finding) \cup Permutations(Diff)
=============================================================================
