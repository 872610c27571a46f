------------------------------ MODULE Planned ------------------------------
(***************************************************************************)
(* The planned adapter (agent/planned.go): discovery of every task of a    *)
(* coverage plan, independent verification of what the tasks reported,     *)
(* consolidation, and one publication, with a receipt file per attempt so  *)
(* that an interrupted review resumes.                                     *)
(*                                                                         *)
(* On disk: the manifest, the receipt files, the stage reports             *)
(* ("artifacts"), the manifests of focused children, the caller's public   *)
(* report and the caller's checkpoint.                                     *)
(* In memory, lost by a crash: everything from pc down.                    *)
(***************************************************************************)
EXTENDS Integers, Sequences, FiniteSets, FiniteSetsExt

CONSTANTS
    NumTasks,      \* tasks 1..NumTasks of the plan, in plan order
    Finding,       \* findings as they are reported: an identity at a place
    Id,            \* Id[f]: the identity of finding f
    Prior,         \* findings of the caller's report when the plan first starts
    Batching,      \* Batching[p][S]: the batches of candidate set S in phase p
    MaxBatch,      \* bound: batches of one phase
    Parallel,      \* workers that run discovery tasks
    FocusedTasks,  \* TRUE when --strategy focused: discovery children are
                   \* focused adapters, FALSE when they are single sessions
    Mishaps,       \* bound: crashes, cancellations, failed children, I/O errors
    WriteFaults    \* TRUE when writing a receipt or the manifest can fail

(* Phase 0 is discovery, 1 verification, 2..4 the three consolidation rounds. *)
Phase == 0 .. 4
BatchPhase == 1 .. 4

Task == 1 .. NumTasks

ASSUME PlanAssumption ==
    /\ NumTasks \in Nat \ {0}
    /\ Prior \subseteq Finding /\ DOMAIN Id = Finding
    /\ MaxBatch \in Nat \ {0}
    /\ Parallel \in Nat \ {0} /\ FocusedTasks \in BOOLEAN
    /\ Mishaps \in Nat
    /\ WriteFaults \in BOOLEAN

(* plannedBatches cuts the ordered candidates into consecutive batches: no  *)
(* candidate is lost or invented, and an empty set still makes one batch.   *)
ASSUME BatchingAssumption ==
    /\ Batching \in [BatchPhase -> [SUBSET Finding -> Seq(SUBSET Finding)]]
    /\ \A p \in BatchPhase, S \in SUBSET Finding :
        /\ Len(Batching[p][S]) \in 1 .. MaxBatch
        /\ UNION {Batching[p][S][b] : b \in DOMAIN Batching[p][S]} = S

VARIABLES
    manifest,      \* manifest.json
    receiptFiles,  \* the receipt-*.json files
    artifact,      \* newest report file of each stage: its generation and content
    childManifest, \* the tasks whose focused child has saved a manifest of its own
    public,        \* the caller's report: its findings, and whether it has a summary
    root,          \* the caller's checkpoint: is there a run, its cost, is it complete
    pc,            \* where the invocation is; "off" when none runs
    m,             \* the manifest in memory
    cancelled,     \* the invocation's context is cancelled or timed out
    cursor,        \* the coordinator's place: phase, task or batch, candidates, results
    jobs,          \* the channel of jobs not taken by a worker
    running,       \* the jobs in workers' hands
    outcomes,      \* the channel of receipts not recorded by the coordinator
    failed,        \* some recorded outcome failed (taskErr)
    mishaps,       \* mishaps left
    spend          \* history: cost returned by children to an invocation that
                   \* lived to record it

disk == <<manifest, receiptFiles, artifact, childManifest, public, root>>
workers == <<jobs, running, outcomes>>
vars == <<manifest, receiptFiles, artifact, childManifest, public, root, pc,
          m, cancelled, cursor, jobs, running, outcomes, failed, mishaps, spend>>

(* A stage is a task or a batch of a verification or consolidation round. *)
TaskStage(t) == <<0, t>>
Stage == {<<0, t>> : t \in Task} \cup (BatchPhase \X (1 .. MaxBatch))
Discovery(s) == s[1] = 0

None == -1

(* plannedReceipt. An ID is a stage and a generation. The digest stands for *)
(* the report it digests, the dependency for the JSON it hashes. A child    *)
(* call costs nothing or one unit: what it returns, which for a continued   *)
(* child is what the earlier receipts of its task (PriorCost) do not hold.  *)
Receipt == [stage : Stage, gen : Nat, started : BOOLEAN, success : BOOLEAN,
            cost : 0 .. 1, digest : SUBSET Finding, dep : SUBSET Finding]
Job == [stage : Stage, gen : Nat, items : SUBSET Finding, keep : SUBSET Finding,
        resuming : BOOLEAN]

(* plannedManifest, less the configuration binding. complete[s] is the      *)
(* generation of the stage's successful receipt.                            *)
Manifest == [exists : BOOLEAN, prior : SUBSET Finding, next : [Stage -> Nat],
             receipts : SUBSET Receipt, complete : [Stage -> Nat \cup {None}]]

NoManifest == [exists |-> FALSE, prior |-> {}, next |-> [s \in Stage |-> 0],
               receipts |-> {}, complete |-> [s \in Stage |-> None]]
NewManifest == [NoManifest EXCEPT !.exists = TRUE, !.prior = public.findings]

(* The newest report file of each stage, and the coordinator's place.       *)
Artifacts == [Stage -> [gen : Nat, report : SUBSET Finding]]
Cursor == [phase : Phase, at : Nat \ {0}, items : SUBSET Finding, out : SUBSET Finding]

NoCursor == [phase |-> 0, at |-> 1, items |-> {}, out |-> {}]

(* Discovery continuations share one report file and one child session;     *)
(* every attempt at a batch has its own.                                    *)
FileGen(s, g) == IF Discovery(s) THEN 0 ELSE g

(* plannedCost: the spend of all receipts of a manifest. The base cost is   *)
(* that of a fresh root, zero.                                              *)
PlannedCost(receipts) == Cardinality({r \in receipts : r.cost = 1})

(* focusedCostDelta(plannedCost(m), req.PriorCost): what the adapter        *)
(* returns, the part of the ledger its caller has not counted yet.          *)
GrossCost(receipts) == PlannedCost(receipts)
NewCost(receipts) == PlannedCost(receipts) - root.cost

(* Outcome of a write by temporary file, fsync and rename: it is done; or,   *)
(* under WriteFaults, it reports an error, having replaced the file or not. *)
WriteResults == {"done"} \cup (IF WriteFaults /\ mishaps > 0
                               THEN {"landed", "lost"} ELSE {})
CountWrite(w) == mishaps' = IF w = "done" THEN mishaps ELSE mishaps - 1
Written(w, new, old) == IF w = "lost" THEN old ELSE new

Save(w, new) == manifest' = Written(w, new, manifest)

Init ==
    /\ manifest = NoManifest
    /\ receiptFiles = {}
    /\ artifact = [s \in Stage |-> [gen |-> 0, report |-> {}]]
    /\ childManifest = {}
    /\ public = [findings |-> Prior, summary |-> FALSE]
    /\ root = [run |-> FALSE, cost |-> 0, complete |-> FALSE]
    /\ pc = "off"
    /\ m = NoManifest
    /\ cancelled = FALSE
    /\ cursor = NoCursor
    /\ jobs = <<>> /\ running = {} /\ outcomes = <<>>
    /\ failed = FALSE
    /\ mishaps = Mishaps
    /\ spend = 0


-----------------------------------------------------------------------------
(* The caller: review.Run and the operator who starts it again.            *)

(* Bound: the operator gives up on a review one of whose tasks was tried     *)
(* Attempts times. No task that can complete needs more: every attempt but  *)
(* the last met a mishap.                                                   *)
Attempts == Mishaps + 1
GivenUp ==
    \E t \in Task : /\ manifest.complete[TaskStage(t)] = None
                    /\ manifest.next[TaskStage(t)] >= Attempts

(* review.Run persists the checkpoint as running and calls the adapter; it  *)
(* resumes whatever incomplete run the checkpoint holds.                    *)
Invoke ==
    /\ pc = "off" /\ ~root.complete /\ ~GivenUp
    /\ pc' = IF root.run THEN "resume" ELSE "start"
    /\ root' = [root EXCEPT !.run = TRUE]
    /\ UNCHANGED <<manifest, receiptFiles, artifact, childManifest, public, m,
                   cancelled, cursor, workers, failed, mishaps, spend>>

(* What the process held is gone. *)
Stopped ==
    /\ pc' = "off"
    /\ m' = NoManifest /\ cancelled' = FALSE /\ cursor' = NoCursor
    /\ jobs' = <<>> /\ running' = {} /\ outcomes' = <<>> /\ failed' = FALSE

(* The adapter returned, releasing its lock; review.Run adds what it        *)
(* returned to the checkpoint's cost and persists. A refusal before the     *)
(* ledger is reconciled returns no cost.                                    *)
Return ==
    /\ pc \in {"refused", "stopped", "published"}
    /\ root' = [root EXCEPT !.cost = @ + (IF pc = "refused" THEN 0 ELSE NewCost(m.receipts)),
                            !.complete = (pc = "published")]
    /\ Stopped
    /\ UNCHANGED <<manifest, receiptFiles, artifact, childManifest, public, mishaps, spend>>

(* The process is killed. Spend in outcomes that reached no receipt is lost *)
(* with it: the adapter's documented limit.                                 *)
Unrecorded ==
    LET pending == IF pc = "save" THEN Tail(outcomes) ELSE outcomes
    IN  Cardinality({i \in DOMAIN pending : pending[i].cost = 1})

Crash ==
    /\ pc # "off" /\ mishaps > 0
    /\ mishaps' = mishaps - 1
    /\ spend' = spend - Unrecorded
    /\ Stopped
    /\ UNCHANGED disk

(* The timeout expires or the caller's context ends. *)
Cancel ==
    /\ pc \notin {"off", "refused", "stopped", "published"}
    /\ ~cancelled /\ mishaps > 0
    /\ mishaps' = mishaps - 1
    /\ cancelled' = TRUE
    /\ UNCHANGED <<disk, pc, m, cursor, workers, failed, spend>>

-----------------------------------------------------------------------------
(* Opening and recovery, under the lock.                                   *)

(* Load the manifest, or make one: only a review that starts may. Save it   *)
(* before anything runs.                                                    *)
Open ==
    /\ pc \in {"start", "resume"}
    /\ \/ /\ cancelled \/ (~manifest.exists /\ pc = "resume")
          /\ pc' = "refused"
          /\ UNCHANGED <<disk, m, mishaps>>
       \/ /\ ~cancelled
          /\ manifest.exists \/ pc = "start"
          /\ m' = IF manifest.exists THEN manifest ELSE NewManifest
          /\ \E w \in WriteResults :
                /\ Save(w, m') /\ CountWrite(w)
                /\ pc' = IF w = "done" THEN "recover" ELSE "refused"
          /\ UNCHANGED <<receiptFiles, artifact, childManifest, public, root>>
    /\ UNCHANGED <<cancelled, cursor, workers, failed, spend>>

(* The configuration binding of this invocation (workspace, model, prompts, *)
(* plan, parallelism) is not the manifest's: nothing is touched.            *)
OpenMismatch ==
    /\ pc = "resume" /\ manifest.exists /\ mishaps > 0
    /\ mishaps' = mishaps - 1
    /\ pc' = "refused"
    /\ UNCHANGED <<disk, m, cancelled, cursor, workers, failed, spend>>

(* What the receipt files add to the manifest that was saved: an attempt     *)
(* recorded by a process that died before it saved, its generation used up, *)
(* its stage complete if it succeeded.                                      *)
GensOf(s, receipts) == {r.gen : r \in {q \in receipts : q.stage = s}}
SuccessesOf(s, receipts) == {r \in receipts : r.stage = s /\ r.success}

RecoveredNext(man, files) ==
    [s \in Stage |-> Max({man.next[s]} \cup {g + 1 : g \in GensOf(s, files)})]
ForgottenComplete(man, files) == man.complete
RecoveredComplete(man, files) ==
    [s \in Stage |-> IF SuccessesOf(s, files) = {} THEN man.complete[s]
                     ELSE (CHOOSE r \in SuccessesOf(s, files) : TRUE).gen]

Recovered(man, files) ==
    [man EXCEPT !.next = RecoveredNext(man, files),
                !.receipts = @ \cup files,
                !.complete = RecoveredComplete(man, files)]

SameID(r, q) == r.stage = q.stage /\ r.gen = q.gen

(* No receipt file contradicts the manifest, every receipt has its file,    *)
(* and the ledger covers what the caller already counted...                 *)
LedgerAgrees(man, files) ==
    /\ \A r \in files, q \in man.receipts : SameID(r, q) => r = q
    /\ \A q \in man.receipts : \E r \in files : SameID(r, q)
    /\ PlannedCost(man.receipts \cup files) >= root.cost

(* ...and every completed stage has its receipt and an unaltered report.    *)
ReportIntact(r) ==
    artifact[r.stage] = [gen |-> FileGen(r.stage, r.gen), report |-> r.digest]
StagesIntact(man) ==
    \A s \in Stage : man.complete[s] # None =>
        \E r \in man.receipts : /\ r.stage = s /\ r.gen = man.complete[s] /\ r.success
                                /\ ReportIntact(r)

Recover ==
    /\ pc = "recover"
    /\ m' = Recovered(m, receiptFiles)
    /\ \/ /\ ~LedgerAgrees(m, receiptFiles)
          /\ pc' = "refused"
          /\ UNCHANGED <<manifest, mishaps>>
       \/ /\ LedgerAgrees(m, receiptFiles) /\ ~StagesIntact(m')
          /\ pc' = "stopped"
          /\ UNCHANGED <<manifest, mishaps>>
       \/ /\ LedgerAgrees(m, receiptFiles) /\ StagesIntact(m')
          /\ \E w \in WriteResults :
                /\ Save(w, m') /\ CountWrite(w)
                /\ pc' = IF w = "done" THEN "allocate" ELSE "stopped"
    /\ UNCHANGED <<receiptFiles, artifact, childManifest, public, root, cancelled,
                   cursor, workers, failed, spend>>

-----------------------------------------------------------------------------
(* Discovery.                                                              *)

(* A discovery task one of whose attempts called its child is continued; a  *)
(* batch never is.                                                          *)
Continued(s) == Discovery(s) /\ \E r \in m.receipts : r.stage = s /\ r.started

AllocateZero(s, items) ==
    /\ m' = [m EXCEPT !.next[s] = @ + 1]
    /\ jobs' = Append(jobs, [stage |-> s, gen |-> 0, items |-> items,
                             keep |-> items \cap m.prior, resuming |-> Continued(s)])

(* allocate: take the stage's next generation and save before it is used.   *)
Allocate(s, items) ==
    /\ m' = [m EXCEPT !.next[s] = @ + 1]
    /\ jobs' = Append(jobs, [stage |-> s, gen |-> m.next[s], items |-> items,
                             keep |-> items \cap m.prior, resuming |-> Continued(s)])

EveryTask(t) == TRUE
Incomplete(t) == m.complete[TaskStage(t)] = None

(* One job for each task not complete yet, in plan order. *)
AllocateTask ==
    /\ pc = "allocate"
    /\ \E t \in cursor.at .. NumTasks :
          /\ Incomplete(t)
          /\ \A u \in cursor.at .. t - 1 : ~Incomplete(u)
          /\ Allocate(TaskStage(t), {})
          /\ cursor' = [cursor EXCEPT !.at = t + 1]
    /\ \E w \in WriteResults :
          /\ Save(w, m') /\ CountWrite(w)
          /\ pc' = IF w = "done" THEN "allocate" ELSE "stopped"
    /\ UNCHANGED <<receiptFiles, artifact, childManifest, public, root, cancelled,
                   running, outcomes, failed, spend>>

StartWorkers ==
    /\ pc = "allocate"
    /\ \A t \in cursor.at .. NumTasks : ~Incomplete(t)
    /\ pc' = "collect"
    /\ UNCHANGED <<disk, m, cancelled, cursor, workers, failed, mishaps, spend>>

(* Workers take jobs while the coordinator records outcomes. *)
Working == pc \in {"collect", "save"}

OutcomeOfReport(job, started, success, cost, report) ==
    [stage |-> job.stage, gen |-> job.gen, started |-> started, success |-> success,
     cost |-> cost, digest |-> report, dep |-> report]
Outcome(job, started, success, cost, report) ==
    [stage |-> job.stage, gen |-> job.gen, started |-> started, success |-> success,
     cost |-> cost, digest |-> report, dep |-> job.items]

(* execute, up to the child's call, which is what a receipt calls started. A *)
(* job that is cancelled, or whose report file cannot be prepared, ends     *)
(* before it. A discovery child goes on with the report of earlier attempts, *)
(* any other starts from an empty one.                                      *)
TakeJob ==
    /\ Working /\ jobs # <<>> /\ Cardinality(running) < Parallel
    /\ jobs' = Tail(jobs)
    /\ LET job == Head(jobs) IN
       \/ /\ cancelled \/ mishaps > 0
          /\ mishaps' = IF cancelled THEN mishaps ELSE mishaps - 1
          /\ outcomes' = Append(outcomes, Outcome(job, FALSE, FALSE, 0, {}))
          /\ UNCHANGED <<artifact, running>>
       \/ /\ ~cancelled
          /\ running' = running \cup {job}
          /\ artifact' = IF Discovery(job.stage) THEN artifact
                         ELSE [artifact EXCEPT ![job.stage] = [gen |-> job.gen, report |-> {}]]
          /\ UNCHANGED <<outcomes, mishaps>>
    /\ UNCHANGED <<manifest, receiptFiles, childManifest, public, root, pc, m,
                   cancelled, cursor, failed, spend>>

(* A focused child works only once it has saved a manifest of its own. One   *)
(* that is continued without having one refuses: "fresh root required".     *)
Equipped(job) == FocusedTasks /\ Discovery(job.stage) => job.stage \in childManifest
Refused(job) == ~Equipped(job) /\ job.resuming

ChildOpens(job) ==
    /\ ~Equipped(job) /\ ~job.resuming
    /\ childManifest' = childManifest \cup {job.stage}
    /\ UNCHANGED <<manifest, receiptFiles, artifact, public, root, pc, m, cancelled,
                   cursor, workers, failed, mishaps, spend>>

(* A discovery child records a finding in its private report. *)
RecordFinding(job, f) ==
    /\ Discovery(job.stage) /\ Equipped(job)
    /\ artifact' = [artifact EXCEPT ![job.stage].report = @ \cup {f}]
    /\ UNCHANGED <<manifest, receiptFiles, childManifest, public, root, pc, m,
                   cancelled, cursor, workers, failed, mishaps, spend>>

(* One identity at two places: no report and no set of candidates may hold  *)
(* both (focusedCoalesce, plannedCandidates), and no private report ever    *)
(* loses what it holds.                                                     *)
Collides(S) == \E f, g \in S : f # g /\ Id[f] = Id[g]
Rejected(job) == Discovery(job.stage) /\ Collides(artifact[job.stage].report)

(* plannedValidateOutput: known candidates only, and every previously        *)
(* public one; consolidation cannot discard them all.                       *)
ValidOutput(s, items, keep, report) ==
    /\ report \subseteq items
    /\ keep \subseteq report
    /\ s[1] \in 2 .. 4 => report # {}

(* execute, from the child's return: its report is complete and valid.      *)
JobSucceeds(job, report) ==
    /\ ~cancelled /\ Equipped(job) /\ ~Rejected(job)
    /\ IF Discovery(job.stage) THEN report = artifact[job.stage].report
       ELSE ValidOutput(job.stage, job.items, job.keep, report)
    /\ running' = running \ {job}
    /\ outcomes' = Append(outcomes, Outcome(job, TRUE, TRUE, 1, report))
    /\ artifact' = [artifact EXCEPT ![job.stage] =
                       [gen |-> FileGen(job.stage, job.gen), report |-> report]]
    /\ spend' = spend + 1
    /\ UNCHANGED <<manifest, receiptFiles, childManifest, public, root, pc, m,
                   cancelled, cursor, jobs, failed, mishaps>>

(* The child fails, is cancelled, refuses, breaks the summary contract,      *)
(* records no cost or an output that does not validate. What it spent still *)
(* counts; without a manifest it spent nothing.                             *)
JobFails(job, cost) ==
    /\ cancelled \/ Refused(job) \/ Rejected(job) \/ mishaps > 0
    /\ Equipped(job) \/ cost = 0
    /\ mishaps' = IF cancelled \/ Refused(job) \/ Rejected(job) THEN mishaps ELSE mishaps - 1
    /\ running' = running \ {job}
    /\ outcomes' = Append(outcomes, Outcome(job, TRUE, FALSE, cost, {}))
    /\ spend' = spend + cost
    /\ UNCHANGED <<disk, pc, m, cancelled, cursor, jobs, failed>>

(* record, first half: the receipt enters the ledger in memory, then its     *)
(* file is written, then its stage is complete if it succeeded.             *)
RecordReceipt ==
    /\ pc = "collect" /\ outcomes # <<>>
    /\ LET r == Head(outcomes) IN
       \E w \in WriteResults :
          /\ CountWrite(w)
          /\ receiptFiles' = Written(w, receiptFiles \cup {r}, receiptFiles)
          /\ m' = [m EXCEPT !.receipts = @ \cup {r},
                            !.complete[r.stage] =
                                IF w = "done" /\ r.success THEN r.gen ELSE @]
          /\ pc' = CASE w = "done" -> "save"
                     [] w # "done" /\ Discovery(r.stage) -> "collect"
                     [] OTHER -> "stopped"
          /\ failed' = (failed \/ w # "done")
          /\ outcomes' = IF w = "done" THEN outcomes ELSE Tail(outcomes)
    /\ UNCHANGED <<manifest, artifact, childManifest, public, root, cancelled,
                   cursor, jobs, running, spend>>

(* record, second half: save the manifest. The coordinator goes on with the *)
(* next outcome or, if this was a batch, with the next batch.               *)
RecordSave ==
    /\ pc = "save"
    /\ LET r == Head(outcomes) IN
       \E w \in WriteResults :
          /\ Save(w, m) /\ CountWrite(w)
          /\ failed' = (failed \/ w # "done" \/ ~r.success)
          /\ IF Discovery(r.stage)
             THEN pc' = "collect" /\ UNCHANGED cursor
             ELSE IF failed'
             THEN pc' = "stopped" /\ UNCHANGED cursor
             ELSE /\ pc' = "verify"
                  /\ cursor' = [cursor EXCEPT !.at = @ + 1,
                                    !.out = @ \cup artifact[r.stage].report]
    /\ outcomes' = Tail(outcomes)
    /\ UNCHANGED <<receiptFiles, artifact, childManifest, public, root, m, cancelled,
                   jobs, running, spend>>

-----------------------------------------------------------------------------
(* Verification, consolidation and publication.                            *)

TaskReports == UNION {artifact[TaskStage(t)].report : t \in Task}
TasksComplete(man) == \A t \in Task : man.complete[TaskStage(t)] # None

(* Every worker is done and every outcome recorded: the candidates are the  *)
(* findings already public and those of the task reports, unless one        *)
(* identity has two places among them.                                      *)
Drained == jobs = <<>> /\ running = {} /\ outcomes = <<>>

Collected ==
    /\ pc = "collect" /\ Drained /\ cursor.phase = 0
    /\ IF failed \/ cancelled \/ ~TasksComplete(m) \/ Collides(m.prior \cup TaskReports)
       THEN pc' = "stopped" /\ UNCHANGED cursor
       ELSE /\ pc' = "verify"
            /\ cursor' = [phase |-> 1, at |-> 1, items |-> m.prior \cup TaskReports,
                          out |-> {}]
    /\ UNCHANGED <<disk, m, cancelled, workers, failed, mishaps, spend>>

Batches == Batching[cursor.phase][cursor.items]
Batch == Batches[cursor.at]
BatchStage == <<cursor.phase, cursor.at>>
AtAllButLast == pc = "verify" /\ cursor.at < Len(Batches)
AtBatch == pc = "verify" /\ cursor.at <= Len(Batches)
Single == cursor.phase > 1 /\ Cardinality(Batch) = 1

(* One candidate has nothing to be merged with. *)
SkipBatch ==
    /\ AtBatch /\ Single
    /\ cursor' = [cursor EXCEPT !.at = @ + 1, !.out = @ \cup Batch]
    /\ UNCHANGED <<disk, pc, m, cancelled, workers, failed, mishaps, spend>>

(* The batch was done by an earlier invocation: it must have been the same   *)
(* batch.                                                                   *)
ReceiptOf(s) == CHOOSE r \in m.receipts : r.stage = s /\ r.gen = m.complete[s]
BatchAgrees ==
    /\ ReceiptOf(BatchStage).dep = Batch
    /\ ValidOutput(BatchStage, Batch, Batch \cap m.prior, artifact[BatchStage].report)

ReuseBatch ==
    /\ AtBatch /\ ~Single /\ m.complete[BatchStage] # None
    /\ IF BatchAgrees
       THEN /\ cursor' = [cursor EXCEPT !.at = @ + 1,
                              !.out = @ \cup artifact[BatchStage].report]
            /\ UNCHANGED pc
       ELSE pc' = "stopped" /\ UNCHANGED cursor
    /\ UNCHANGED <<disk, m, cancelled, workers, failed, mishaps, spend>>

(* runVerified: the coordinator executes the job itself and records it. *)
RunBatch ==
    /\ AtBatch /\ ~Single /\ m.complete[BatchStage] = None
    /\ Allocate(BatchStage, Batch)
    /\ \E w \in WriteResults :
          /\ Save(w, m') /\ CountWrite(w)
          /\ pc' = IF w = "done" THEN "collect" ELSE "stopped"
    /\ UNCHANGED <<receiptFiles, artifact, childManifest, public, root, cancelled,
                   cursor, running, outcomes, failed, spend>>

(* There are three rounds of consolidation at most, and none for fewer than *)
(* two candidates.                                                          *)
TwoRounds == cursor.phase < 3 /\ Cardinality(cursor.out) > 1
FourRounds == cursor.phase <= 4 /\ Cardinality(cursor.out) > 1
AnotherRound == cursor.phase < 4 /\ Cardinality(cursor.out) > 1

NextPhase ==
    /\ pc = "verify" /\ ~AtBatch
    /\ IF AnotherRound
       THEN /\ cursor' = [phase |-> cursor.phase + 1, at |-> 1,
                          items |-> cursor.out, out |-> {}]
            /\ UNCHANGED pc
       ELSE pc' = "publish" /\ UNCHANGED cursor
    /\ UNCHANGED <<disk, m, cancelled, workers, failed, mishaps, spend>>

Publish ==
    /\ pc = "publish"
    /\ \/ /\ cancelled \/ ~(m.prior \subseteq cursor.out)
          /\ pc' = "stopped"
          /\ UNCHANGED <<public, mishaps>>
       \/ /\ ~cancelled /\ m.prior \subseteq cursor.out
          /\ \E w \in WriteResults :
                /\ public' = Written(w, [findings |-> cursor.out, summary |-> TRUE], public)
                /\ CountWrite(w)
                /\ pc' = IF w = "done" THEN "published" ELSE "stopped"
    /\ UNCHANGED <<manifest, receiptFiles, artifact, childManifest, root, m, cancelled,
                   cursor, workers, failed, spend>>

-----------------------------------------------------------------------------
Terminated == pc = "off" /\ (root.complete \/ GivenUp) /\ UNCHANGED vars

Coordinator ==
    \/ Open \/ Recover \/ AllocateTask \/ StartWorkers
    \/ RecordReceipt \/ RecordSave \/ Collected
    \/ SkipBatch \/ ReuseBatch \/ RunBatch \/ NextPhase \/ Publish

Child ==
    \/ TakeJob
    \/ \E job \in running :
          \/ ChildOpens(job)
          \/ \E f \in Finding : RecordFinding(job, f)
          \/ \E report \in SUBSET Finding : JobSucceeds(job, report)
          \/ \E cost \in 0 .. 1 : JobFails(job, cost)

Next ==
    \/ Invoke \/ Return \/ Crash \/ Cancel \/ OpenMismatch
    \/ Coordinator
    \/ Child
    \/ Terminated

Spec == Init /\ [][Next]_vars

(* A process that lives is scheduled: the coordinator goes on, workers take  *)
(* jobs, a child goes on and returns (its timeout sees to that), the caller *)
(* persists what the adapter returned, and the operator resumes an          *)
(* incomplete review. Mishaps are never fair.                               *)
ChildReturns(s) ==
    \E job \in running :
        /\ job.stage = s
        /\ \/ ChildOpens(job)
           \/ \E report \in SUBSET Finding : JobSucceeds(job, report)
           \/ \E cost \in 0 .. 1 : JobFails(job, cost)

Fairness ==
    /\ WF_vars(Coordinator)
    /\ WF_vars(TakeJob)
    /\ \A s \in Stage : WF_vars(ChildReturns(s))
    /\ WF_vars(Return)
    /\ WF_vars(Invoke)

FairSpec == Spec /\ Fairness

-----------------------------------------------------------------------------
(* Properties.                                                             *)

(* Every variable has its type. *)
TypeOK ==
    /\ manifest \in Manifest /\ m \in Manifest
    /\ receiptFiles \subseteq Receipt
    /\ artifact \in Artifacts /\ childManifest \subseteq Stage
    /\ public \in [findings : SUBSET Finding, summary : BOOLEAN]
    /\ root \in [run : BOOLEAN, cost : Int, complete : BOOLEAN]
    /\ pc \in {"off", "start", "resume", "recover", "allocate", "collect", "save",
               "verify", "publish", "refused", "stopped", "published"}
    /\ cursor \in Cursor
    /\ jobs \in Seq(Job) /\ running \subseteq Job /\ outcomes \in Seq(Receipt)
    /\ cancelled \in BOOLEAN /\ failed \in BOOLEAN
    /\ mishaps \in Nat /\ spend \in Int

(* Completed work is never run again: whatever crash, cancellation or retry *)
(* came between, no stage ever has two successful receipts.                 *)
OneSuccessPerStage ==
    \A r, q \in receiptFiles : r.success /\ q.success /\ r.stage = q.stage => r = q

(* A receipt is immutable: no attempt reuses the stage and generation of an *)
(* earlier receipt, which would replace its file and lose its cost.         *)
ReceiptsImmutable ==
    [][/\ receiptFiles \subseteq receiptFiles'
       /\ \A r, q \in receiptFiles' : SameID(r, q) => r = q]_receiptFiles

(* The report of a completed stage is never touched again, though discovery *)
(* attempts share one file: recovery finds the content its receipt digests. *)
CompletedReportsIntact ==
    \A r \in receiptFiles : r.success => ReportIntact(r)

(* Absent failed writes, an interrupted review is never refused for what    *)
(* the adapter itself left behind: recovery accepts its own receipts, and a *)
(* batch found complete is the batch that resumption computes again.        *)
ResumeAccepted ==
    /\ pc = "recover" => /\ LedgerAgrees(m, receiptFiles)
                         /\ StagesIntact(Recovered(m, receiptFiles))
    /\ AtBatch /\ ~Single /\ m.complete[BatchStage] # None => BatchAgrees

(* What the receipts determine: the candidates; what a batch b of candidates *)
(* S leaves in phase p, its only candidate or what its successful receipt   *)
(* digests; and that the results of a phase are the candidates of the next. *)
Succeeded(s) == {r \in receiptFiles : r.stage = s /\ r.success}
Confirmed == UNION {r.digest : r \in {q \in receiptFiles : q.stage[1] = 1 /\ q.success}}
Candidates ==
    Prior \cup UNION {r.digest : r \in {q \in receiptFiles : Discovery(q.stage) /\ q.success}}

Skipped(p, S, b) == p > 1 /\ Cardinality(Batching[p][S][b]) = 1
Result(p, S, b) ==
    IF Skipped(p, S, b) THEN Batching[p][S][b] ELSE UNION {r.digest : r \in Succeeded(<<p, b>>)}
Results(p, S, bs) == UNION {Result(p, S, b) : b \in bs}
OutOf(p, S) == Results(p, S, DOMAIN Batching[p][S])

Items2 == OutOf(1, Candidates)
Items3 == OutOf(2, Items2)
Items4 == OutOf(3, Items3)
Items == <<Candidates, Items2, Items3, Items4>>

(* Phase p is the last: each round before had more than one candidate to     *)
(* compare, and nothing is left to merge or the three rounds are used up.   *)
LastPhase(p) ==
    /\ \A q \in 2 .. p : Cardinality(Items[q]) > 1
    /\ p = 4 \/ ~(Cardinality(OutOf(p, Items[p])) > 1)

(* Nothing is published before every task was discovered and every          *)
(* candidate went through a verification batch that kept it; what is        *)
(* published is what the last round of consolidation left, no round being   *)
(* left out; and what was public before is still there.                     *)
PublishedOnlyVerified ==
    public.summary =>
        /\ \A t \in Task : Succeeded(TaskStage(t)) # {}
        /\ \A b \in DOMAIN Batching[1][Candidates] :
              \E r \in Succeeded(<<1, b>>) : r.dep = Batching[1][Candidates][b]
        /\ public.findings \subseteq Confirmed \cap Candidates
        /\ \E p \in BatchPhase : LastPhase(p) /\ public.findings = OutOf(p, Items[p])
        /\ Prior \subseteq public.findings

(* The caller's ledger: between invocations it never exceeds the durable    *)
(* receipts (it could not be resumed), and a complete review has counted    *)
(* every unit a child returned once, over all its resumptions.              *)
SpendReconciled ==
    /\ pc = "off" => root.cost <= PlannedCost(receiptFiles)
    /\ root.complete => root.cost = spend

(* A review that keeps being resumed is eventually complete, or is in one of *)
(* the three states that only a fresh root ends, each with a message of its *)
(* own: it stopped before its first manifest was saved; a focused child was *)
(* called, and stopped before it saved its first manifest; one identity was *)
(* reported at two places.                                                  *)
FreshRootRequired == root.run /\ ~manifest.exists /\ pc # "start"
Stranded(t) ==
    /\ FocusedTasks /\ TaskStage(t) \notin childManifest
    /\ \E r \in receiptFiles : r.stage = TaskStage(t) /\ r.started
ChildStranded == \E t \in Task : Stranded(t)
PlacesConflict == Collides(manifest.prior \cup TaskReports)
EventuallyComplete ==
    <>[](root.complete \/ FreshRootRequired \/ ChildStranded \/ PlacesConflict)

(* An interrupted review whose state was kept is resumed by the identical    *)
(* command: no child that it calls again refuses to go on.                  *)
ChildrenResume == \A job \in running : ~Refused(job)
=============================================================================
