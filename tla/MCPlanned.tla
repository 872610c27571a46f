----------------------------- MODULE MCPlanned -----------------------------
(***************************************************************************)
(* Planned on small plans. Findings are numbers, a number and a hundred more *)
(* being one identity at two places; the batches of a phase are cut from    *)
(* the candidates in ascending order and, in every other phase, in          *)
(* descending order: plannedOrder sorts each round differently.             *)
(***************************************************************************)
EXTENDS Planned, SequencesExt

CONSTANT BatchSize

Ordered(p, S) == IF p % 2 = 1 THEN SetToSortSeq(S, <) ELSE SetToSortSeq(S, >)

(* The batches of sequence s: a batch closes when it is full. *)
Cut(s) ==
    [b \in 1 .. Max({1, (Len(s) + BatchSize - 1) \div BatchSize}) |->
        {s[i] : i \in {j \in DOMAIN s : (j - 1) \div BatchSize = b - 1}}]

MCId == [f \in Finding |-> f % 100]

MCBatching ==
    [p \in BatchPhase |-> [S \in SUBSET Finding |-> Cut(Ordered(p, S))]]
=============================================================================
