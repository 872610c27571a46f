# Formal models of unreal-review

unreal-review reviews a git diff with a model-driven agent, keeps a checkpoint
file that an interrupted review resumes from, and renders the findings, on
GitHub among other places. This directory holds TLA+ models of it, TLC
configurations that check them on small instances, and TLAPS proofs.

All paths below are relative to the repository's `src/`.

1. [Inventory](#inventory)
2. [Modules, and how they correspond to the code](#modules)
3. [Runs: what each checks and shows](#runs)
4. [Fairness](#fairness)
5. [Proofs](#proofs)
6. [Disagreements between code and documentation](#disagreements)
7. [Not modelled](#not-modelled)
8. [Plan](#plan)

## Inventory

| Component | State | Operations | Talks to |
|---|---|---|---|
| review root, `review/review.go` | checkpoint (`--out`), work file (`--out.work`) | one invocation: select the diff, load or refuse the checkpoint, prepare the work file, persist *running*, call the agent, revalidate, persist the outcome, remove the work file | git, the planner, an agent |
| planned adapter, `agent/planned.go` | manifest, receipt files, one report file per stage or attempt, a lock | open, recover, allocate, worker pool, record, verify and consolidate in batches, publish | child agents, the work file, its caller's cost |
| focused adapter, `agent/focused.go` | manifest with stages, attempts and a ledger; a lock | four lenses in parallel, coalesce, verify, publish | child sessions |
| harness session, `agent/agent.go`, `observer.go`, `registry.go` | a session in an external store; cost, final text and first error in memory | turn, observe stored items, correct the summary, append it | the model, the findings file |
| source planner, `review/plan.go` | none (a function of the selection) | split a diff into fragments, pack them into local tasks, add boundary tasks, validate the plan and, after the run, its coverage | grouping, review root |
| findings file, `findings/findings.go` | JSONL files | append one record, replace by rename, parse | every component |
| git selection, diff maps | none | resolve a range, diff, fingerprint | git |
| grouping, `review/group.go` | none (pure) | cluster changed files | command line |
| GitHub renderer and resolver, `internal/github`, `internal/render`, `cmd/unreal-review/render.go`, `pull.go` | the pull request: reviews, a status comment with markers, check runs | resolve the reviewed head; post a review, update the status, create the check | GitHub |
| bounded bash, `agent/bash_boundary.go` | an atomic counter | take one call of a quota | tool calls |
| evaluation, `internal/eval` | fixtures | match findings with labels | review root |

How they interact: `review.Run` calls one `review.Agent`.
`agent.ReviewPipeline` makes that agent: a `Planned` that hands a review
without a plan to the direct agent (a harness session or `Focused`), and runs
one with a plan itself, with harness sessions or focused adapters as discovery
children and harness sessions as verifiers and consolidators. Every agent
writes the file its caller names (`FindingsPath`) and returns a cost; a
stateful one returns only what its caller has not counted (`PriorCost`).

Which behaviours are hard, and what makes each component correct:

* **Planned adapter.** Workers and the coordinator run concurrently; the
  process can be killed between any two writes; children fail, are cancelled or
  return invalid output; every invocation starts from what the last one left.
  Correct means: completed work is never repeated nor altered; what resumption
  finds is never refused; only verified findings are published, after every
  task; the ledger counts every unit once; a resumed review ends.
* **Review root.** Two files, no lock, and a workspace that may change: correct
  means that a report never mixes reviews or diffs, that a complete one lacks
  nothing that was recorded, that it has a fitting summary and a reconciled
  cost, and that it is final.
* **Focused adapter.** The hazards of the planned one, plus a verification
  stage that must be restarted under a new generation after invalid output.
* **Harness session.** A finding is in the session before it is in the file,
  and an append can be cut; tools run in parallel against one quota; the model's
  last text is the summary only if it answers the last question. Correct means:
  success implies that everything recorded is in a readable file whose verdict
  fits; a kill loses one finding at most; the quota is exact.
* **Planner, diff map, grouping.** Boundaries and coverage: every byte in
  exactly one task, every line at its place in every patch it is shown in, every
  prompt within its budget, every import looked across, every file in exactly
  one group and every group selected by its pathspecs.
* **GitHub posting.** Remote calls that are not atomic, in runs that events
  start and cancel or that are repeated by hand, against a branch that moves or is
  rewritten. Correct means: a receipt only for a head whose findings are all on
  the pull request, nothing posted twice, a cost that adds up, and no head left
  behind: it gets its receipt unless its run died or ran out of room, and then
  each further run posts a capful.

`PROJECT.json` lists every component with its status and every hazard with the
line where it bites and the properties that would catch it.

## Modules

| Module | Content |
|---|---|
| `Planned.tla` | the planned adapter and the part of its caller it depends on |
| `MCPlanned.tla` | findings as numbers, and how candidates are cut into batches |
| `PlannedProofs.tla` | inductive invariant of `Planned`: generations, ownership, reports |
| `PlannedResume.tla` | on top of it: what resumption finds, what is published, the ledger |
| `Lifecycle.tla` | abstract specification: what the file at `--out` promises |
| `Review.tla` | `review.Run`, the workspace, the caller's side of the agents |
| `MCReview.tla` | the symmetry of findings and diffs |
| `ReviewProofs.tla` | invariant of `Review` without overlap; `Review` implements `Lifecycle` |
| `Focused.tla` | the focused adapter and the part of its caller it depends on |
| `MCFocused.tla` | a finding reported before, the symmetry of lenses |
| `FocusedProofs.tla` | inductive invariant and theorems about `Focused` |
| `Session.tla` | a harness session with its observer, tools and findings file |
| `MCSession.tla` | what the model records: two valid findings, one invalid |
| `SessionProofs.tla` | inductive invariant and theorems about `Session` |
| `Post.tla` | a pull request, the jobs that review and post, the branch |
| `MCPost.tla` | what each commit contains |
| `PostProofs.tla` | inductive invariant and theorems about `Post` |
| `DiffMap.tla` | the lines a patch anchors findings on (operators) |
| `Grouping.tla` | imports, families, groups and their pathspecs (operators) |
| `SourcePlan.tla` | the source planner, on top of the two |
| `MCPlan.tla` | a small repository, hunk bodies, changes and budgets |
| `FoldLemmas.tla` | induction over naturals; what folds and concatenations compute |
| `PlanProofs.tla` | inductive invariant and theorems about `SourcePlan` |

`Planned`, `Focused`, `Session`, `Post` and `SourcePlan` are separate
specifications: each models the part of its neighbours it depends on (a child
is an answer and a cost to the adapters; the agent is an accurate reviewer to
`Post`). `Review` is composed with `Lifecycle` by refinement, `SourcePlan` is
built from `DiffMap` and `Grouping`.

### Planned

Durable state is `manifest`, `receiptFiles`, `artifact` (the newest report file
of each stage, with its generation), `childManifest` (the tasks whose focused
child has saved a manifest of its own), `public` (the report at `FindingsPath`)
and `root` (the caller's checkpoint). The rest is memory and is lost by `Crash`.

| Action | Code |
|---|---|
| `Invoke`, `Return` | `review.Run` before and after the agent call |
| `Open`, `OpenMismatch` | `Planned.Run` up to its first save, and its refusals |
| `Recover` | the receipt loop, the ledger check and `plannedCheckReceipt` |
| `AllocateTask`, `StartWorkers` | the loop over tasks, each to be continued if an attempt at it has started; the worker pool |
| `TakeJob`, `ChildOpens`, `RecordFinding`, `JobSucceeds`, `JobFails` | `execute`: up to the child's call, the child's first manifest, its findings, each way out |
| `RecordReceipt`, `RecordSave` | `record`: the receipt write, then the manifest write |
| `Collected` | the union of the discovery reports, refused when an identity is in two places |
| `SkipBatch`, `ReuseBatch`, `RunBatch`, `NextPhase` | `runVerified` and the loops around it |
| `Publish` | the summary, the write of the public report, the coverage |
| `Crash`, `Cancel` | the process is killed; the context is cancelled or timed out |

A stage is `<<0, task>>` or `<<phase, batch>>`, phase 1 being verification and
2 to 4 the three consolidation rounds. A receipt is named by stage and
generation. A report stands for its own digest, and a candidate set for the
JSON a dependency hashes. Writes are atomic (`focusedAtomic` renames a synced
temporary file); with `WriteFaults` one may also report an error, having
replaced the file or not. Batching is a constant that only has to lose and
invent nothing: sizes and orders are the model's choice, not the code's byte
arithmetic. A child call costs 0 or 1.

A finding is an identity at a place. Two findings of one identity collide: a
discovery report that holds both is rejected (`Rejected`), and so is a set of
candidates (`Collected`), on this and every later invocation. With `FocusedTasks`
a discovery child is a focused adapter: it needs a manifest of its own, which it
saves first (`ChildOpens`); one that is called to resume and has none refuses
(`Refused`), as `agent/focused.go:134-135` does.

Abstractions a reader should know: severities and texts of findings are left
out, so candidates that differ in identity only are not merged; a continued
child reports its spend less what earlier receipts of its task hold, so
`PriorCost` and `BaseCost` are not passed on; the first plan of a review normally
finds no earlier report (`review.Run` empties the work file), so runs with
`Prior = {2}` exercise the adapter's contract towards any caller. `Attempts`
bounds how often the operator resumes a task that cannot complete.

### Review and Lifecycle

`Review` has `ckpt`, `work`, `diff` (what the workspace shows) and, per
invocation, its place and what it holds. Every read and every write of a file is
a step, so that several invocations, edits of the workspace (`Edit`) and kills
(`Kill`) interleave with them:

| Action | Code in `review.Run` |
|---|---|
| `Select`, `NothingToReview` | the diff and a new identity; an empty diff |
| `StartNew`, `Resume` | the checkpoint: ignored or absent; resumed or refused |
| `Prepare`, `ReadPrior`, `PersistRunning` | the work file emptied or kept, restored if need be, status *running* |
| `AgentRefuses`, `AgentStarts` | refusals of the planned adapter; its lock and manifest |
| `Record`, `Summarize`, `SessionStops` | a harness session, as seen by its caller |
| `PlanSpends`, `PlanDecides`, `PlanPublishes`, `PlanStops` | the planned adapter, as seen by its caller |
| `Revalidate`, `ReadWork`, `Finish`, `RemoveWork` | source check and cost, the work read back, the outcome, the clean-up |

`Lifecycle` is what a reader of `--out` may rely on: one review at a time, an
identity no other review had, one source, a cost that never shrinks, and
nothing after completion but a new review. `Review!KeepsLifecycle` says that
`Review` implements it, with the report's run record as the refinement mapping.

### Focused

`manifest`, `file` (the report of each stage), `public` and `root` are durable;
`root.discoveryOnly` says whether the caller wants a review or, as the planned
adapter does, private candidates.

| Action | Code in `Focused.Run` |
|---|---|
| `Open`, `OpenMismatch`, `Check` | up to the first save, and its refusals; the saved stages |
| `Call`, `Record`, `Succeeds`, `Fails` | `run`: up to the child's call, the child, each way out |
| `RecordLens`, `Gather` | `record` for a lens; the candidates, and where to go from there |
| `Empty`, `Unflag` | starting verification over: the file, then the flag |
| `RecordVerification`, `Publish` | the verifier's answer and its generation; the public report |
| `Invoke`, `Return`, `Crash`, `Cancel` | the caller, as in `Planned` |

A finding is an identity and a location. Locations are numbers, and those within
`Window` of each other are one canonical location (`withinCanonicalSpan`). A
file also says whether an identity was recorded more than once, which an
interrupted verifier is rejected for. A child is *unruly* when it moves an
identity, answers no candidate or drops a reported finding: each such act is a
mishap, so that a run has boundedly many. Bodies are left out, so candidates
that differ in identity only are not merged; sizes are left out, so no prompt is
too long; writes do not fail.

### Session

`session` (what the store has: whether it has begun, whether a message waits for
an answer, which calls of `record_finding` are in flight, what was recorded) and
`file` survive a kill. Everything else belongs to one invocation.

| Action | Code |
|---|---|
| `Run`, `Return` | `Harness.Run` and `run`: a new observer, quota and context; the observer's error overrides the coordinator's answer |
| `Refuse` | a session that belongs to another strategy |
| `OpenTurn`, `TurnFails`, `EndTurn` | `openSession` and `turn`: the session continued, the message submitted once, the coordinator run |
| `Respond`, `RecordFinding` | what the model does; the tool of `registry.go` with `findings.Normalize` |
| `ObserveResponse`, `ObserveFinding` | `observer.Observe`: the last text, the append, the first error that stops it and cancels the run |
| `TakeCall`, `SwapCall` | `takeCall`: the load and the compare-and-swap, by calls in parallel |
| `CheckSummary` | `TakeFinalText`, `ReadFile`, `CheckSummary`, the correction or the append of the summary |
| `Kill`, `Cancel` | the process is killed, possibly in an append; the context is cancelled |

The file is the set of records its lines parse to, with two flags: some line
parses to nothing (`torn`), the last line has no newline (`half`). An append that
fails or is cut (`Cut`) stops before its text, within it, before its newline, or
after it. Cost is left out here: it is in memory until the invocation returns,
and what its loss means is modelled in `Planned`, `Focused` and `Review`.

### Post

`inline`, `dropped`, `lgtm`, `status` and `checks` are on GitHub; `head` and
`line` are the branch, whose commits have one parent; `report` is the findings
file that `run` leaves and `render` reads; `job` is what one CI job holds.

| Action | Code |
|---|---|
| `Start`, `Restart` | the CI workflow: a run for an event of the pull request; one for a head that did not change |
| `ReadPull`, `Review` | `run --pr`: `resolvePull`, `reviewedHead`, the range, the review |
| `ReadState`, `ReadFiles` | `renderGitHub`: the history, the check of the head, the patch |
| `CreateReview`, `NothingNew` | `render.GitHub`: inline up to the cap, the rest dropped with or without a marker; LGTM; the review call |
| `UpsertStatus`, `Receipt` | the status comment with its totals; the check run, when nothing was cut |
| `PostAgain`, `Die` | the posting job run again by hand; a job that ends between two calls |
| `Push` | a commit on the head or, after a rewrite, on an earlier one: an event |

`event` says that an event of the pull request waits for its run. Nothing but an
event makes the workflow run (`.github/workflows/review.yml:3-5`); a newer one
cancels the run it finds, sooner or later, so `Die` costs no mishap while an event
waits. One job runs at a time for a pull request, as the concurrency group has
it. The agent finds exactly what the commits of its range contain and gives an
issue it was told of the same identity: what remains are the protocol's own gaps.

### SourcePlan, DiffMap and Grouping

`SourcePlan` has a variable for each loop variable of `buildReviewPlan` and
`planSplitSection`; a run of it is one call, and every loop iteration a step.

| Action | Code in `review/plan.go` |
|---|---|
| `NoRoomForContext`, `BeginSection`, `SplitChunk` | `buildReviewPlan` and `planSplitSection`: a section whole, or hunk by hunk at whole lines with rebuilt headers |
| `Group` | imports and groups of the changed files |
| `Pack`, `PackLast` | the loop over groups, `pending` and `flush` |
| `NoRoomForManifest`, `AddNeighbor`, `AddEdge` | `planAddBoundaries`: one boundary for each local, then one for each import no boundary covers |
| `Validate` | `ValidatePlan` |
| `Interrupted` | the context cancelled, git failing |

A prompt is its size in bytes; each byte constant of the code is a CONSTANT, and
`PlanAssumption` relates the room the code reserves (for a frame, a rebuilt
header, two excerpt heads) to what it then takes, as the code's numbers do.
`InputsAssumption` is what every diff has: a section has metadata, a line bytes. A
hunk whose header cannot be read is marked (`unread`), and a line that starts
with anything else is of kind `"?"`; `Objection` has the refusals of a hunk in the
order of the code. A task stands for its hash. `Grouping` works on files whose
path-derived attributes (the names that headers, families and tests are matched
by, which may be empty; extension, test mark, locale, package manager) are given
as data: reading them off a path is string work on fixed tables. `DiffMap` keeps
the line with its anchor, so that a shifted anchor is seen.

The history variables `recorded`, `discarded`, `past` (`Review`), `spend`
(`Planned`), `rejected` (`Focused`), `mine`, `granted`, `answered` (`Session`),
`spent`, `counted`, `ending` (`Post`) are read by properties only; `past` also
keeps identities unique, as random UUIDs are.

## Runs

| Run | Instance | Distinct states | Shows |
|---|---|---|---|
| `planned_crash` | 2 focused tasks, 2 workers, 1 identity at 2 places, any 2 mishaps | 293k | completed reports stay, resumption is accepted, the ledger adds up; under fair scheduling a resumed review ends, or is in one of three named states that only a fresh root ends |
| `planned_batches` | 1 task, 3 candidates in batches of 2, 2 mishaps | 320k | types; only verified findings are published, through rounds of several batches, skipped single candidates, reuse in any round, none left out |
| `planned_faults` | 2 focused tasks, 2 workers, failing receipt and manifest writes | 83k | what still holds when a write fails: one success per stage, receipts never change |
| `planned_stranded` | 2 focused tasks, 1 cancellation | violated | see [Disagreements](#disagreements) |
| `planned_write_fault` | 1 task, 1 failed write | violated | see [Disagreements](#disagreements) |
| `review_alone` | 1 invocation at a time, 2 diffs and the empty one, 2 findings, 2 identities, 3 mishaps | 2.1M | the report's content, cost and life cycle |
| `focused_safe` | 2 lenses, 2 findings (1 reported before), 2 locations, 3 mishaps; review and discovery child | 1.2M | all safety properties of the focused adapter |
| `focused_live` | 2 lenses, 2 findings, 1 location, fair scheduling, 2 mishaps | 105k | a resumed focused review ends |
| `review_race` | 2 invocations, nothing failing | violated | see [Disagreements](#disagreements) |
| `session` | 2 invocations, 2 valid findings and 1 invalid, 2 parallel Bash calls with a quota of 1, 1 correction, 2 mishaps | 1.3M | success means everything is in the file; what a kill and a cut append can do; the summary loop; the quota; an invocation ends |
| `post` | 3 commits, 3 findings (1 outside the patch), 1 inline comment per review, 2 mishaps | 87k | receipts, duplicates, totals; each head that stays gets its receipt, or its newest run died or was full |
| `plan` | every hunk body of 4 lines before a second hunk, and hunks git does not write; every change of at most 3 of 12 files and larger ones of 14, under 4 sets of imports and 2 orders; changes that do not fit | 49k | coverage, coordinates, budgets, boundaries, groups |

Every passing run has, for each of its properties, a mutant of the model in
`PROJECT.json` (a dropped check, a swapped subtraction, a file emptied at the
wrong time) that TLC finds to violate it under the same configuration.

Why the bounds are enough for what they are after:

* *Mishaps* counts crashes, cancellations, failed children, failed writes,
  kills and edits. Two are needed to interrupt a recovery from an interruption;
  nothing else limits the number of invocations. `review_alone` allows three,
  so that a kill, an edit and a kill of the review that follows are possible.
  It also passes with three identities and two mishaps (11.6M states).
* *Two tasks and two workers* let one task complete while the other runs, fails
  or waits, and let an outcome wait while another is recorded.
* *Three candidates in batches of two* give a full batch, a batch of one, and
  rounds that shrink.
* *Two diffs and the empty one* let a workspace change away and back.
* *MaxSpend = 2* in `Review` lets spend be staged before and after an interruption.
* *One response with calls per turn, one correction* in `session` let a second
  turn answer without text, with calls, or with the verdict of what was recorded
  meanwhile; two invocations let the second continue what a kill left.
* *Three commits* in `post` let a commit follow the reviewed one, and a rewrite
  drop it; a cap of one lets a review be cut and its rest wait for the next run.
* In `plan` the byte constants are scaled down so that four lines overflow a
  prompt and three fragments fill one; two hunks let a shift in the first show in
  the second. Four lines hold every ordering of additions, deletions, context and
  missing newlines around one cut. Every refusal of the planner occurs but the
  three `HonestRefusals` excludes; that of a nonstandard hunk body only for
  bodies that are.
* *Attempts* in `Planned` is one more than the mishaps: every attempt at a task
  that can complete meets a mishap, but the last.
* *Two lenses* run at once, disagree, and finish or fail in either order.
* *MaxSpend* in `Focused` only stops a review whose lens is rejected over and
  over, which would spend without end; `focused_live` sets it out of reach.

`session`, `post`, `plan` and the runs of `Planned` check deadlock, with an
explicit step for a system that is done: a pull request with no run and no event
waiting, a review that is complete or given up. The runs of `Focused` and
`Review` do not: `Focused` stops at `MaxSpend`; as for `Review`, nobody has to
invoke the program again, and it stops when `MaxReviews` identities are used.

## Fairness

`Planned!FairSpec`, and `Focused!FairSpec` alike, assumes weak fairness of the
coordinator, of a worker taking a job, of a child going on and returning for each
stage, of the caller persisting what the adapter returned, and of the operator
resuming an incomplete review. The first three are goroutines that the Go runtime
schedules and calls bounded by `Timeout`; the last two are the documented way to
resume. Mishaps are not fair but bounded: a child that fails for ever, or a
process that is killed again and again, can hold any review up.
`EventuallyComplete` of `Planned` names the three
states in which resuming a review never ends it: nothing was saved by its first
invocation (`FreshRootRequired`), a focused child was called and stopped before
it saved its first manifest (`ChildStranded`), one identity was reported at two
places (`PlacesConflict`). `focused_live` has one location per finding: with two,
a lens or a pair of lenses that disagree holds the review up for good ([What the
models show beside that](#what-the-models-show-beside-that)). `Review` states no
liveness.

`Session!FairSpec` is weakly fair to the progress of a living invocation: the
model answers, tools return, the observer is called, `run` goes on.
`MaxResponses` bounds the answers with calls in one turn: a model that calls
tools for ever is only stopped by the caller's timeout. `Post!FairSpec` is
weakly fair to a run that lives making its next call and, while an event waits, to
its run starting, which is what GitHub does. No push, no event and no run by hand
is fair: a run cut by the cap exits 0, and nothing makes another one.
`SourcePlan` is a loop over finite data; it states no liveness.

## Proofs

TLC checks the instances above; the theorems hold for every value of the
constants that the named assumptions admit (`PlanAssumption` and
`BatchingAssumption` of `Planned`, `ReviewAssumption`, `FocusedAssumption`,
`SessionAssumption` and `ArgsAssumption`, `PostAssumption`,
`PlanAssumption` and `InputsAssumption` of `SourcePlan`, `GroupingAssumption`).
TLC evaluates each assumption in the runs. Each inductive invariant was checked by TLC, on several
instances, before it was proved. `PROJECT.json` lists the theorems.

| Module | Theorems, beside the invariant | Hypothesis |
|---|---|---|
| `PlannedProofs` | `TypeOK`, `OneSuccessPerStage`, `CompletedReportsIntact`, `ReceiptsImmutable` | none: writes may fail |
| `PlannedResume` | `PublishedOnlyVerified` | none: writes may fail |
| | `ResumeAccepted`, `SpendReconciled` | `ReliableWrites` |
| `ReviewProofs` | `TypeOK`, `NoMixing`, `NothingLost`, `SummaryFits`, `LedgerCounted`, `KeepsLifecycle` | `[]Alone` |
| `FocusedProofs` | `TypeOK`, `ResumeAccepted`, `SpendReconciled`, `PublishedOnlyVerified`, `VerifierNotContinued` | none |
| `SessionProofs` | `TypeOK`, `NoSilentLoss`, `KillLosesOne`, `SummaryIsAnswer`, `VerdictMatchesFile`, `QuotaExact`, `OnlyCutsDamage` | none |
| `PostProofs` | `TypeOK`, `ReceiptMeansReported`, `NoneTwice`, `TotalInBounds` | none |
| `PlanProofs` | `OwnedExactly`, `PromptsFit`, `EdgesReviewed`, `GroupsPartition`, `NoneTooLarge` | none |
| | `SpecsSelectGroup` | `NoneAbove` |
| | `HonestRefusals` | `CountsAgree` |
| | `CoordinatesPreserved` | `GitWrites` |
| | `OrderIrrelevant` | `ListsChanged` |

The code needs each of these hypotheses. `ReliableWrites` says that
`WriteFaults` is `FALSE`: with failing writes `planned_write_fault` refutes
`ResumeAccepted`. `[]Alone` says that no two invocations work on one `--out` at a
time: nothing in the code prevents it, and `review_race` shows a complete
report replaced when two do. `NoneAbove` says that no changed file has a path
under the path of another: a change that replaces a file by a directory of the
same name has both, git's pathspec of the file selects what is in the directory
too, and `groupPathspecs` does not exclude it. No run has such a change.
`CountsAgree` says that a hunk has lines and its header counts them, as git's
does: the code refuses a hunk it has to split otherwise, and rightly.
`GitWrites` says that headers count lines and number them from 1, a start of 0
standing for an empty side only: the code tells an empty side from its count, and
would move the anchors of a hunk that says otherwise. That the diff is not empty is part of
`InputsAssumption`: `buildReviewPlan` refuses an empty one before anything else, and
an empty plan would not be valid. `ListsChanged` says that the groups command
lists the files that have a section in the diff, in any order; of other files it
would make other groups.

### PlannedProofs

None of the four properties is inductive. That a success is never repeated
depends on no attempt being started for a completed stage, hence on
`m.complete` knowing every successful receipt (`CompleteKnown`), also after a
crash between the receipt and the manifest, hence on recovery from receipt
files; and on no two attempts of one stage being in flight (`JobsDistinct`,
`InFlightDistinct`, `Solo`, `Quiet`). That receipts are never overwritten
depends on generations: one is saved as used before it is used (`NextDurable`,
`GensBounded`), so everything in flight has a generation no receipt has
(`JobsFresh`, `RunningFresh`, `OutcomesFresh`, defined by `Fresh`). That a
completed report stays intact although attempts at a task share one file follows
from both: what is in flight belongs to a stage without a success. `Inv` is the
conjunction; `Invariance` proves it, one lemma per action or group of actions
and frame lemmas for what most actions leave alone.

The proof showed something the runs did not: recovery never moves a generation
counter (`NextUnmoved`). The code saves a counter before it uses the generation
*and* recomputes the counters from receipt files; either alone keeps receipts
apart.

### PlannedResume

A resumed review does not know its batches: it computes them again, from what
the receipts of earlier phases digest. `Items` is that computation, a candidate
set for each phase. `ResumeInv` says that receipts come in order
(`ReceiptsInOrder`: a batch succeeds only after every batch of the phases before
it, on the batch that `Items` determines), that the coordinator always is at
the place the receipts determine (`PlaceDetermined`), with the candidates it
holds and the results it has gathered, and that a batch in flight is the batch
of that place (`InFlightCurrent`). A phase is entered only from one before it that left more than
one candidate (`Rounds`), and publication only from the last (`LastDone`), so no
round is left out. The hard step is a receipt that succeeds
(`RecordReceiptResume`): the results of the current phase grow, and nothing that
earlier receipts depended on may change with them (`BatchGrows`, `GrowsInVain`,
`TaskGrows`, `SameResults`). From this, a batch that is skipped because it is
complete is the very batch that was completed (`Reusable`), and what is
published was found and confirmed (`OnlyVerified`), with or without failing
writes.

`LedgerInv` follows the spend of each child: in flight (`Unrecorded`), then in a
receipt, and never in both (`SpendTracked`); every receipt the manifest counts
has its file (`FilesComplete`), and so has all that the caller counted
(`CallerCovered`). This is where a failing write breaks the chain, and the only
place.

### ReviewProofs

Most of `Inv` says what an invocation may assume at each place (`Holds`): before
it persists *running*, a new review has nothing under its identity, and a
resumed one holds what the checkpoint names; from then on the checkpoint is that
of its review (`Owns`) and its cost never exceeds the adapter's ledger
(`Accounted`). `WorkBelongs` is what a kill leaves for the next invocation: as
long as the checkpoint is incomplete, the work file is its own and lacks nothing.
Each fact is about shared files between two steps of one invocation, which is
what `Alone` protects.

`LifecycleKept` is the refinement: under the mapping in `Review`, writing
*running* for a new review and an empty diff are `Begin`; writing *running*
again, the outcome and the completion are `Proceed`; every other step is a
stutter.

### FocusedProofs

The candidates a verifier sees are what lenses left in their files. `Settled`
says that every lens is done and no identity is in two places; `VerifierLast`
that a verifier has answered only when they are; from then on they never change,
since a completed stage is not run again and what is published stays within
them. `Accepted` is what resumption checks: each completed stage has the report
it digested, bound to the candidates (`OutcomesKept` while an outcome waits).

Restarting verification is the subtle part. A verifier whose answer was
recorded as invalid is never continued, because its generation is left behind
first (`RejectedEarlier`), the file emptied before the flag is cleared
(`Place`). That generations stay bounded, hence `TypeOK`, needs the reason for
each one: a tainted file, a cancelled invocation or a failed verifier, each of
which is a mishap of its own (`Paid`, `Owed`, `AnswersJudged`).

The proof found a flaw of the model, not of the code: the `CASE` of `Gather` had
overlapping guards, whose meaning TLA+ leaves open. They are disjoint now.

### SessionProofs

`NoneMissing`: while the observer knows no error, what this invocation recorded
is in the file, or is the one item that waits; hence a kill loses at most one.
`TextCurrent` and `AcceptedLast`: a held text answers the message asked last,
and it is taken when a new one is asked. `QuotaCounted`: the counter equals the
calls let through, and a call that swaps had loaded a value below the quota.
`NormalizeTwice`, that a normalized finding normalizes to itself, is what
makes the file read back what was written.

### PostProofs

What a job read of the pull request stays true until it posts (`Rendering`).
`ReportCovers` carries the range: what the reviewed commit and its ancestors
contain is in the report or was reported before; so a receipt can be given when
the whole report is on the pull request (`ReceiptDue`). It rests on the reviewed
head being a receipted ancestor or nothing at all (`ReviewedHeadChecked`).
`TotalCovers` and `TotalBounded` sandwich the total.

### FoldLemmas and PlanProofs

The planner is a loop over sequences, and its sizes are sums. The induction
theorems of the library take an operator as a parameter, which no installed
prover can instantiate. `FoldLemmas` does without: a set of naturals has a least
element (`HasLeast`), so a set that holds 0 and the successor of each of its
members holds every natural (`Induction`); `FoldLeft`, `MapThenFoldSet` and
`FlattenSeq` are read as runs, the sequence of their intermediate results
(`HasRun`, `Computes`, `FoldComputes`), and what a run keeps follows by
`Induction` over its places.

`PlanInv` has five parts: the types (`Typed`); the place of the split within its
section (`AtOK`); every fragment can be packed alone, and what waits or makes a
task fits together (`Packable`); the first boundaries are the conservative ones,
and each leaves its prompt the framing room (`Bordered`); a plan leaves no edge
uncovered, and no fragment was refused as too large (`Finished`). The sizes are the
argument. What `planSplitSection` cuts off leaves `Reserve` and `HeaderReserve`,
hence frame, path and a rebuilt header fit around it (`ChunkFits`,
`ReserveSuffices`); an excerpt fits what is left by the manifest and by its twin
(`ExcerptFits`, `BoundaryFits`); the discovery context takes at most the room
`ContextRoom` left (`ContextFits`). `AllEdgesReviewed` follows from how the next
edge is chosen: the first that no task covers (`FirstIsOne`), until there is none.

`OwnInv`, for `OwnedExactly`, says where every byte is, phase by phase. While the
diff is split, the fragments so far tile it up to the place of the split, in order
and without a gap (`Tiled`): each chunk starts where the last one ended
(`StartStep`, `HunkStep`, `ChunkOwns`), and has at least one byte, since a line
has (`LinesGrow`). Once files are grouped, the groups are a partition of the
changed files (`Parted`), which holds for whatever the imports and families are:
only files that have no group yet are put in one (`PutPiles`, `PackFilesApart`,
`ClusterApart`). While groups are packed, the concatenation of all that is packed
grows by exactly the fragments of the next group (`PackedGroupAll`, by `Induction`
along the run of the fold), which have not been packed before; so no fragment is
in it twice and it has those of the groups so far (`Held`). A byte in two places of
the tasks would be a byte in two fragments, or a fragment in two places
(`FlattenDistinct`, `OnePlace`).

`HonestInvariant` rests on it, for `HonestRefusals`. No fragment is too large is
`PlanInv`. That hunks add up is `CountsAgree`, carried from the header to the
last chunk. That a standard body is not taken for another is `CutInvariant`: a
chunk ends after a line and its mark, or before a line (`EndsBeforeAtom`), so the
line where the next one starts is never the mark of one that was cut off
(`AtAtom`). That a plan which was built is valid needs every conjunct of
`ValidPlan`: the spans of the tasks, sorted as the code sorts them
(`ByStartSorts`), adjoin and end with the diff, since together they are the spans
of the fragments, in another order; no two boundaries are the same task, since
the conservative ones differ in their first scope, one for each task, and an
import adds one only for a pair no boundary covers (`BordersDiffer`); a task has
a path, and fits.

`LinesInvariant`, for `CoordinatesPreserved`, gives every line its place in the
old and the new file, counted from the start of its hunk (`PlaceOf`, `LinesOf`),
and says that the cursors of the split are at the place of the next line
(`AtCursors`), which holds after a chunk since the chunk counts what it passed
(`CountSplits`). A rebuilt header, whose start is one less when its side is
empty, then gives its lines the places they had (`ChunkPlaces`), so what the
fragments of a section have placed grows by exactly the lines of the chunk
(`SplitPlaces`, `SplitKeepsLines`). The anchors of a merged patch are a function
of these places (`MergedIs`), hence the same.

`AllOrdersAgree`, for `OrderIrrelevant`, is about the union-find of
`applyImportEdges`. What following parents computes is determined by a rank that
falls on the way to the root (`Forest`, `RootIs`): two files that are joined get
one root, and the ranks of the one family are raised above the other's
(`JoinedForest`). After any edges both ends of each have one root, and a file
that imports nothing is one itself (`EndsMeet`, `JoinsReach`), which needs that a
file has one edge at most (`OneTarget`). These two facts determine the roots
unless imports run in a circle: were the root of a file another one for edges in
another order, so would be the root of what it imports, and so on for ever
(`SettledAgree`). The edges are those of the files, in the order of the listing
(`EdgesListed`), and nothing else of the grouping depends on it.

### What is only model-checked

* Liveness: `EventuallyComplete` of both adapters, `Settles` and
  `EventuallyConcluded`. The prover does not handle fairness and ENABLED.
* Every other property of a passing run is a theorem, under the hypotheses of the
  table.

## Disagreements

* **A failed receipt write makes a review impossible to resume**
  (`planned_write_fault`, `agent/planned.go:360`). `record` enters the spend in
  memory before it writes the receipt, and the adapter returns that spend to its
  caller even when the write failed. The checkpoint then has counted a cost that
  no receipt holds, and each later resumption is refused by the comparison of
  the two ("prior cost exceeds durable ledger"), although README.md:97 says that
  interrupted runs retain completed artifacts and cumulative cost. With reliable
  writes `ResumeAccepted` holds (`planned_crash`).
* **A complete checkpoint can be overwritten without `--fresh`** (`review_race`,
  `review/review.go:156`). The refusal of a complete checkpoint is decided once,
  on loading; nothing locks `--out`. A second invocation that loaded the
  checkpoint of a running review writes *running* over the report the first one
  completed. `.agents/skills/verify-unreal-review/features/checkpoint.md:3` says
  that a complete file refuses another `run` unless `--fresh`.
* **A cancelled review can be impossible to resume, though nothing was lost**
  (`planned_stranded`, `agent/planned.go:317`). With `--strategy focused` the
  planned adapter calls the attempt started before it calls the child, and the
  child looks at the context, takes its directory and lock, and only then saves
  its first manifest. Cancelled in between, the receipt says started; the next
  invocation therefore calls the child to resume (`agent/planned.go:268-275`,
  306), which it refuses for want of a manifest (`agent/focused.go:134-135`), now
  and every time after.
  `.agents/skills/verify-unreal-review/features/large-review.md:21` says "Resume
  with the same output, source, model, thinking level and strategy after
  cancellation", and line 35 to "repeat the identical command".

### What the models show beside that

Not disagreements with a document, but worth knowing when changing the code:

* Groups depend on the order the files are listed in when imports run in a
  circle, since the union-find makes the target of the last edge the root and an
  importer takes the key of its root. `OrderIrrelevant` excludes circles, and
  only them.
* The middle step of splitting an oversized group, by the next directory
  (`splitByNextDir`), never splits: what it is given are files of one directory.
* A posting job that is run again counts the cost of its review in the status
  comment again. `TotalInBounds` therefore bounds the total by the number of
  such repetitions.
* Findings over the inline cap get no marker and no receipt, and the job that
  left them exits 0: nothing runs it again by itself. The next run, by a push or
  by hand, reviews the same range and posts the next ones: progress costs a
  review for each capful (`EventuallyConcluded`).
* A lens that recorded one identity in two places is rejected by
  `focusedCoalesce` (`agent/focused.go:210`, 227) on every later attempt, each of
  which continues the same session on the same file. Two lenses, or
  two tasks of a plan, that each put an identity in another place conflict in the
  same way on every resumption.
* A process killed between the verifier's return and the save that records it
  continues that session once more, whatever it answered, before it is replaced.

## Not modelled

* The review's coverage check (`ValidateCoverage`): the planned adapter
  answers with every task of its own plan, which `review.Run` compares with the
  same plan.
* String work: the path of a section (`planSectionPath`), the tables of
  locales, extensions and platforms in grouping, the parser of `find` commands in
  the bash boundary, markers and bodies on GitHub, Markdown. Modelling them by
  anything but the strings themselves would be the identity.
* What the hunk context quotes: Go parsing and `git grep`, best effort. Only
  its size counts here.
* HTTP, paging and retries inside the GitHub client; comments deleted by hand;
  a pull request whose base branch is changed (its receipted head then has an
  empty range).
* A pathspec of a file that was replaced by a directory of the same name
  selects both; no instance has one.
* Prompts, command line, environment, git output: input and output without
  state of their own.
* Evaluation (`internal/eval`): scoring against labels, run by hand on fixtures;
  no part of a review.
* Floating-point sums and the tolerance of `focusedCostDelta`: costs are
  integers.
* The harness library, its session store, GitHub and git: external.

## Plan

Done: `Planned`, `Review` with `Lifecycle`, `Focused`, `Session` and `Post`, each
with proofs of its safety properties; `SourcePlan` with `Grouping` and `DiffMap`,
with proofs of all its properties.

Next, in this order:

1. Composition: `Planned` as an implementation of the caller's side that
   `Review` assumes; `Session` and `Focused` as the children of `Planned`.
2. Failing writes in `Focused` (`agent/focused.go:252`), as in `Planned`.
3. Matching of findings in the evaluation, against the reference definition of a
   best assignment.
