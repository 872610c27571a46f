------------------------------- MODULE Review -------------------------------
(***************************************************************************)
(* review.Run (review/review.go) and the files it keeps beside --out: the   *)
(* checkpoint, and the work file the agent records into. An invocation is a *)
(* process; nothing locks the two files, and a process can be killed        *)
(* between any two of its steps.                                            *)
(*                                                                         *)
(* The agent is what agent.ReviewPipeline("single") builds. A review with a *)
(* coverage plan runs in the planned adapter, of which this module has the  *)
(* caller's side: a manifest and a ledger per review, a lock, and one       *)
(* publication (Planned.tla has the rest). A review without a plan runs in  *)
(* a harness session that appends to the work file.                         *)
(***************************************************************************)
EXTENDS Integers, FiniteSets

CONSTANTS
    Proc,          \* invocations that can be alive at once
    Diff,          \* nonempty diffs of the workspace
    NoDiff,        \* the empty diff
    Finding,       \* what can be found in a diff
    MaxReviews,    \* bound: review identities
    MaxSpend,      \* bound: spend of one planned review
    Mishaps        \* bound: kills, failures, pauses and edits of the workspace

ASSUME ReviewAssumption ==
    /\ NoDiff \notin Diff
    /\ MaxReviews \in Nat \ {0}
    /\ MaxSpend \in Nat \ {0}
    /\ Mishaps \in Nat

VARIABLES
    diff,          \* the diff the workspace shows now
    ckpt,          \* the checkpoint, --out
    work,          \* the work file, --out.work; one that is missing reads as empty
    proc,          \* proc[p]: where invocation p is and what it holds
    adapter,       \* adapter[i]: durable state of the planned adapter for review i
    recorded,      \* history: what agents wrote into the work file
    discarded,     \* history: reviews a --fresh run set out to replace
    past,          \* history: <<identity, status>> the checkpoint has had
    mishaps        \* mishaps left

history == <<recorded, discarded, past>>
vars == <<diff, ckpt, work, proc, adapter, recorded, discarded, past, mishaps>>

ID == 1 .. MaxReviews
Source == Diff \cup {NoDiff}

(* A finding as an agent records it: for a review, about a diff. *)
Item == [id : ID, source : Diff, what : Finding]
Report == [found : SUBSET Item, summary : {"none", "clean", "issues"}]

(* findings.CheckSummary: a summary says that there are no material issues  *)
(* exactly when nothing was found.                                          *)
SummaryFor(found) == IF found = {} THEN "clean" ELSE "issues"

NoWork == [found |-> {}, summary |-> "none"]
Checkpoint == [id : 0 .. MaxReviews, status : {"none", "running", "failed", "complete"},
               source : Source, cost : Nat, report : Report]
NoCheckpoint == [id |-> 0, status |-> "none", source |-> NoDiff, cost |-> 0, report |-> NoWork]

(* What an invocation holds: its choice of --fresh and of a plan, the run   *)
(* it makes or resumes, the report, and what the agent returned.            *)
Idle == [pc |-> "off", fresh |-> FALSE, planned |-> FALSE, resuming |-> FALSE,
         id |-> 0, source |-> NoDiff, cost |-> 0, report |-> NoWork,
         result |-> "none", delta |-> 0]

(* The planned adapter's durable state for one review. The verdict is what  *)
(* verification of the completed stages comes to: fixed once it is known.   *)
NoAdapter == [manifest |-> FALSE, ledger |-> 0, known |-> FALSE, verdict |-> {}]

Init ==
    /\ diff \in Diff
    /\ ckpt = NoCheckpoint /\ work = NoWork
    /\ proc = [p \in Proc |-> Idle]
    /\ adapter = [i \in ID |-> NoAdapter]
    /\ recorded = {} /\ discarded = {} /\ past = {}
    /\ mishaps = Mishaps

(* newRun draws an identity no review has had. *)
Unused == ID \ ({e[1] : e \in past} \cup {proc[p].id : p \in Proc})
NewID == CHOOSE i \in Unused : TRUE

At(p, pc) == proc[p].pc = pc
Goes(p, new) == proc' = [proc EXCEPT ![p] = new]
Mishap == mishaps > 0 /\ mishaps' = mishaps - 1

Persist(new) == ckpt' = new /\ past' = past \cup {<<new.id, new.status>>}

-----------------------------------------------------------------------------
(* Before the agent.                                                       *)

Select(p) ==
    /\ At(p, "off")
    /\ \E fresh, planned \in BOOLEAN :
          /\ fresh \/ diff = NoDiff => Unused # {}
          /\ Goes(p, [Idle EXCEPT !.pc = IF diff = NoDiff THEN "nothing" ELSE "load",
                                  !.fresh = fresh, !.planned = planned, !.source = diff])
    /\ UNCHANGED <<diff, ckpt, work, adapter, history, mishaps>>

(* Nothing to review: a complete report replaces whatever --out holds.      *)
NothingToReview(p) ==
    /\ At(p, "nothing") /\ Unused # {}
    /\ Persist([NoCheckpoint EXCEPT !.id = NewID, !.status = "complete",
                                    !.report = [found |-> {}, summary |-> "clean"]])
    /\ Goes(p, Idle)
    /\ UNCHANGED <<diff, work, adapter, recorded, discarded, mishaps>>

(* Load the checkpoint: a complete one, or one about another diff, refuses. *)
SameDiffOrNot(p) == TRUE
SameDiff(p) == ckpt.source = proc[p].source

StartNew(p) ==
    /\ At(p, "load") /\ Unused # {}
    /\ proc[p].fresh \/ ckpt.id = 0
    /\ Goes(p, [proc[p] EXCEPT !.pc = "prepare", !.id = NewID])
    /\ UNCHANGED <<diff, ckpt, work, adapter, history, mishaps>>

Resume(p) ==
    /\ At(p, "load") /\ ~proc[p].fresh /\ ckpt.id # 0
    /\ IF ckpt.status # "complete" /\ SameDiff(p)
       THEN Goes(p, [proc[p] EXCEPT !.pc = "prepare", !.resuming = TRUE, !.id = ckpt.id,
                                    !.cost = ckpt.cost, !.report = ckpt.report])
       ELSE Goes(p, Idle)
    /\ UNCHANGED <<diff, ckpt, work, adapter, history, mishaps>>

(* Open the work file, emptied unless an earlier run is resumed.            *)
KeptWork(p) == work
EmptiedWork(p) == NoWork
OpenedWork(p) == IF proc[p].resuming THEN work ELSE NoWork

Prepare(p) ==
    /\ At(p, "prepare")
    /\ work' = OpenedWork(p)
    /\ discarded' = IF proc[p].resuming THEN discarded ELSE discarded \cup ({ckpt.id} \ {0})
    /\ Goes(p, [proc[p] EXCEPT !.pc = "prior"])
    /\ UNCHANGED <<diff, ckpt, adapter, recorded, past, mishaps>>

(* What the work file holds already; an empty one that is resumed is        *)
(* restored from the checkpoint as it was loaded.                           *)
PriorWork(p) == IF proc[p].resuming /\ work = NoWork THEN proc[p].report ELSE work

ReadPrior(p) ==
    /\ At(p, "prior")
    /\ work' = PriorWork(p)
    /\ Goes(p, [proc[p] EXCEPT !.pc = "running", !.report = PriorWork(p)])
    /\ UNCHANGED <<diff, ckpt, adapter, history, mishaps>>

Saved(p, status) ==
    [id |-> proc[p].id, status |-> status, source |-> proc[p].source,
     cost |-> proc[p].cost, report |-> proc[p].report]

PersistRunning(p) ==
    /\ At(p, "running")
    /\ Persist(Saved(p, "running"))
    /\ Goes(p, [proc[p] EXCEPT !.pc = "call"])
    /\ UNCHANGED <<diff, work, adapter, recorded, discarded, mishaps>>

-----------------------------------------------------------------------------
(* The agent.                                                              *)

Ledger(p) == adapter[proc[p].id]
Returns(p, result, delta) ==
    Goes(p, [proc[p] EXCEPT !.pc = "returned", !.result = result, !.delta = delta])

(* A plan cannot be resumed without its manifest, nor a planned review      *)
(* without its plan; the lock of a plan is held while its adapter runs.     *)
Locked(p) == \E q \in Proc \ {p} : At(q, "agent") /\ proc[q].planned /\ proc[q].id = proc[p].id
Refused(p) ==
    IF proc[p].planned THEN Locked(p) \/ (proc[p].resuming /\ ~Ledger(p).manifest)
    ELSE Ledger(p).manifest

AgentRefuses(p) ==
    /\ At(p, "call") /\ Refused(p)
    /\ Returns(p, "failed", 0)
    /\ UNCHANGED <<diff, ckpt, work, adapter, history, mishaps>>

AgentStarts(p) ==
    /\ At(p, "call") /\ ~Refused(p)
    /\ Goes(p, [proc[p] EXCEPT !.pc = "agent"])
    /\ adapter' = [adapter EXCEPT ![proc[p].id].manifest = proc[p].planned]
    /\ UNCHANGED <<diff, ckpt, work, history, mishaps>>

InSession(p) == At(p, "agent") /\ ~proc[p].planned
InPlan(p) == At(p, "agent") /\ proc[p].planned

(* The session records a finding: one line appended to the work file.       *)
Record(p) ==
    /\ InSession(p)
    /\ \E f \in Finding :
          LET item == [id |-> proc[p].id, source |-> proc[p].source, what |-> f]
          IN /\ item \notin work.found
             /\ work' = [work EXCEPT !.found = @ \cup {item}]
             /\ recorded' = recorded \cup {item}
    /\ UNCHANGED <<diff, ckpt, proc, adapter, discarded, past, mishaps>>

(* The session ends with a summary that fits the findings in the work file. *)
Summarize(p) ==
    /\ InSession(p)
    /\ work' = [work EXCEPT !.summary = SummaryFor(work.found)]
    /\ \E delta \in 0 .. 1 : Returns(p, "ok", delta)
    /\ UNCHANGED <<diff, ckpt, adapter, history, mishaps>>

SessionStops(p) ==
    /\ InSession(p) /\ Mishap
    /\ \E result \in {"failed", "paused"}, delta \in 0 .. 1 : Returns(p, result, delta)
    /\ UNCHANGED <<diff, ckpt, work, adapter, history>>

(* What the adapter returns as cost: what its ledger holds beyond the cost  *)
(* the caller has counted already.                                          *)
WholeLedger(p) == Ledger(p).ledger
SwappedDelta(p) == proc[p].cost - Ledger(p).ledger
Uncounted(p) == Ledger(p).ledger - proc[p].cost

PlanSpends(p) ==
    /\ InPlan(p) /\ Ledger(p).ledger < MaxSpend
    /\ adapter' = [adapter EXCEPT ![proc[p].id].ledger = @ + 1]
    /\ UNCHANGED <<diff, ckpt, work, proc, history, mishaps>>

PlanDecides(p) ==
    /\ InPlan(p) /\ ~Ledger(p).known
    /\ \E fs \in SUBSET Finding :
          adapter' = [adapter EXCEPT ![proc[p].id].known = TRUE,
             ![proc[p].id].verdict = [id : {proc[p].id}, source : {proc[p].source}, what : fs]]
    /\ UNCHANGED <<diff, ckpt, work, proc, history, mishaps>>

(* The public report is replaced in one rename.                             *)
PlanPublishes(p) ==
    /\ InPlan(p) /\ Ledger(p).known
    /\ work' = [found |-> Ledger(p).verdict, summary |-> SummaryFor(Ledger(p).verdict)]
    /\ recorded' = recorded \cup Ledger(p).verdict
    /\ Returns(p, "ok", Uncounted(p))
    /\ UNCHANGED <<diff, ckpt, adapter, discarded, past, mishaps>>

PlanStops(p) ==
    /\ InPlan(p) /\ Mishap
    /\ \E result \in {"failed", "paused"} : Returns(p, result, Uncounted(p))
    /\ UNCHANGED <<diff, ckpt, work, adapter, history>>

-----------------------------------------------------------------------------
(* After the agent.                                                        *)

(* A planned review counts only if the workspace still shows its diff.      *)
StillThere(p) == ~proc[p].planned \/ diff = proc[p].source

Revalidate(p) ==
    /\ At(p, "returned")
    /\ Goes(p, [proc[p] EXCEPT !.pc = "read", !.cost = @ + proc[p].delta,
                               !.result = IF @ = "ok" /\ ~StillThere(p) THEN "failed" ELSE @])
    /\ UNCHANGED <<diff, ckpt, work, adapter, history, mishaps>>

ReadWork(p) ==
    /\ At(p, "read")
    /\ Goes(p, [proc[p] EXCEPT !.pc = "finish", !.report = work])
    /\ UNCHANGED <<diff, ckpt, work, adapter, history, mishaps>>

Summarized(p) == proc[p].report.summary # "none" /\ proc[p].cost > 0
Completes(p) ==
    /\ proc[p].result = "ok"
    /\ proc[p].report.summary # "none"
    /\ proc[p].cost > 0

Finish(p) ==
    /\ At(p, "finish")
    /\ IF Completes(p)
       THEN Persist(Saved(p, "complete")) /\ Goes(p, [Idle EXCEPT !.pc = "remove"])
       ELSE /\ Persist(Saved(p, IF proc[p].result = "paused" THEN "running" ELSE "failed"))
            /\ Goes(p, Idle)
    /\ UNCHANGED <<diff, work, adapter, recorded, discarded, mishaps>>

RemoveWork(p) ==
    /\ At(p, "remove")
    /\ work' = NoWork
    /\ Goes(p, Idle)
    /\ UNCHANGED <<diff, ckpt, adapter, history, mishaps>>

-----------------------------------------------------------------------------
(* The world.                                                              *)

Kill(p) ==
    /\ ~At(p, "off") /\ Mishap
    /\ Goes(p, Idle)
    /\ UNCHANGED <<diff, ckpt, work, adapter, history>>

Edit ==
    /\ Mishap
    /\ \E d \in Source \ {diff} : diff' = d
    /\ UNCHANGED <<ckpt, work, proc, adapter, history>>

Next ==
    \/ Edit
    \/ \E p \in Proc :
        \/ Select(p) \/ NothingToReview(p) \/ StartNew(p) \/ Resume(p)
        \/ Prepare(p) \/ ReadPrior(p) \/ PersistRunning(p)
        \/ AgentRefuses(p) \/ AgentStarts(p)
        \/ Record(p) \/ Summarize(p) \/ SessionStops(p)
        \/ PlanSpends(p) \/ PlanDecides(p) \/ PlanPublishes(p) \/ PlanStops(p)
        \/ Revalidate(p) \/ ReadWork(p) \/ Finish(p) \/ RemoveWork(p) \/ Kill(p)

Spec == Init /\ [][Next]_vars

-----------------------------------------------------------------------------
(* Properties.                                                             *)

(* The files, the ledgers and what an invocation has counted have their     *)
(* types; in particular no cost is ever negative (findings.Cost).           *)
TypeOK ==
    /\ diff \in Source
    /\ ckpt \in Checkpoint
    /\ work \in Report
    /\ \A p \in Proc : proc[p].cost \in Nat /\ proc[p].delta \in Nat /\ proc[p].report \in Report
    /\ \A i \in ID : adapter[i].ledger \in Nat /\ adapter[i].verdict \subseteq Item
    /\ recorded \subseteq Item
    /\ past \subseteq ID \X {"running", "failed", "complete"}
    /\ mishaps \in 0 .. Mishaps

(* Every finding of the checkpoint was made by the review it names, about   *)
(* the diff it names: whatever was interrupted, replaced by --fresh or      *)
(* edited in between, findings of another review or diff never get in       *)
(* (the source check and the truncation in review.Run).                     *)
NoMixing ==
    \A item \in ckpt.report.found : item.id = ckpt.id /\ item.source = ckpt.source

(* A complete report holds everything agents recorded for that review in    *)
(* all the invocations it took, killed ones included, unless somebody asked *)
(* to start over with --fresh in between (prepareWork and the restoration   *)
(* from the checkpoint in review.Run).                                      *)
NothingLost ==
    ckpt.status = "complete" /\ ckpt.id \notin discarded =>
        {item \in recorded : item.id = ckpt.id} \subseteq ckpt.report.found

(* A complete report's summary says "no material issues" exactly when the   *)
(* report has no findings, even when an earlier invocation left its own     *)
(* summary in the work file (readWork, the completion case of review.Run).  *)
SummaryFits ==
    ckpt.status = "complete" => ckpt.report.summary = SummaryFor(ckpt.report.found)

(* The cost of a complete planned review is its adapter's ledger: spend     *)
(* staged by killed or failed invocations is counted, once (PriorCost).     *)
LedgerCounted ==
    ckpt.status = "complete" /\ adapter[ckpt.id].manifest =>
        ckpt.cost = adapter[ckpt.id].ledger

(* A complete review is not overwritten by a run of the same review         *)
(* (features/checkpoint.md; the refusal in review.Run).                     *)
CompleteKept ==
    <<ckpt.id, "complete">> \in past => ckpt.status = "complete"

(* The file keeps the promises of Lifecycle: one review at a time, bound to *)
(* a source and an identity, a cost that never shrinks, final once complete *)
(* (review.Run and every persist it makes).                                 *)
File == INSTANCE Lifecycle WITH
    review <- [id |-> ckpt.id, status |-> ckpt.status, source |-> ckpt.source, cost |-> ckpt.cost],
    used <- {e[1] : e \in past}
KeepsLifecycle == File!Spec
=============================================================================
