----------------------------- MODULE Lifecycle -----------------------------
(***************************************************************************)
(* What the file named by --out promises its reader (schema/findings-v1.md, *)
(* review.Run): it holds one review at a time. A review is bound to one     *)
(* source and to one identity that no other review had; its cost only       *)
(* grows; once complete it stays as it is until a new review replaces it.   *)
(***************************************************************************)
EXTENDS Naturals

CONSTANTS Source,        \* the diffs a review can be about
          NoDiff         \* the one with nothing to review

VARIABLES review,        \* the review in the file
          used           \* history: identities reviews have had

NoReview == [id |-> 0, status |-> "none", source |-> NoDiff, cost |-> 0]

Init == review = NoReview /\ used = {}

(* A new review replaces whatever the file held, and is complete at once    *)
(* only when there is nothing to review.                                    *)
Begin ==
    /\ review'.id \notin used \cup {0}
    /\ review'.source \in Source
    /\ review'.status = IF review'.source = NoDiff THEN "complete" ELSE "running"
    /\ review'.cost = 0
    /\ used' = used \cup {review'.id}

(* An incomplete review goes on, pauses, fails or, having cost something,   *)
(* completes.                                                               *)
Proceed ==
    /\ review.status \in {"running", "failed"}
    /\ review'.status \in {"running", "failed", "complete"}
    /\ review'.id = review.id /\ review'.source = review.source
    /\ review'.cost >= review.cost
    /\ review'.status = "complete" => review'.cost > 0
    /\ UNCHANGED used

Next == Begin \/ Proceed
Spec == Init /\ [][Next]_<<review, used>>
=============================================================================
