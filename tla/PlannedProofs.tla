--------------------------- MODULE PlannedProofs ---------------------------
(***************************************************************************)
(* Proofs about Planned, for every plan, set of findings, batching, number *)
(* of workers and number of mishaps, with or without failing writes.       *)
(***************************************************************************)
EXTENDS Planned, FiniteSetTheorems, TLAPS

-----------------------------------------------------------------------------
(* The inductive invariant.                                                *)

(* The invocation has loaded its manifest; jobs will still be taken.        *)
Live == {"recover", "allocate", "collect", "save", "verify", "publish"}
Dispatching == {"allocate", "collect", "save"}
BetweenBatches == {"off", "start", "resume", "recover", "verify", "publish"}

(* A generation is saved as used before it is used, and never forgotten.    *)
NextDurable ==
    /\ ~manifest.exists => \A s \in Stage : manifest.next[s] = 0
    /\ pc \in Live => m.exists /\ m.next = manifest.next
GensBounded == \A r \in receiptFiles : r.gen < manifest.next[r.stage]

(* Work in flight has a generation of its own, of a stage not complete. In   *)
(* "save" the first outcome is already a receipt.                           *)
Fresh(x) ==
    /\ x.gen < manifest.next[x.stage]
    /\ \A r \in receiptFiles : r.stage = x.stage => r.gen # x.gen /\ ~r.success
FirstPending == IF pc = "save" THEN 2 ELSE 1
JobsFresh == pc \in Dispatching => \A i \in DOMAIN jobs : Fresh(jobs[i])
RunningFresh == \A j \in running : Fresh(j)
OutcomesFresh == \A i \in DOMAIN outcomes : i >= FirstPending => Fresh(outcomes[i])
HeadRecorded == pc = "save" => outcomes # <<>> /\ outcomes[1] \in receiptFiles

(* At most one attempt of a stage is in flight.                             *)
JobsDistinct ==
    pc \in Dispatching =>
        /\ \A i, k \in DOMAIN jobs : jobs[i].stage = jobs[k].stage => i = k
        /\ \A i \in DOMAIN jobs, j \in running : jobs[i].stage # j.stage
        /\ \A i \in DOMAIN jobs, k \in DOMAIN outcomes : jobs[i].stage # outcomes[k].stage
InFlightDistinct ==
    /\ \A j, k \in running : j.stage = k.stage => j = k
    /\ \A j \in running, k \in DOMAIN outcomes : j.stage # outcomes[k].stage
    /\ \A i, k \in DOMAIN outcomes : outcomes[i].stage = outcomes[k].stage => i = k

(* Nothing is in flight between batches, only tasks before the workers       *)
(* start, and a batch is in flight alone.                                   *)
Quiet ==
    /\ pc \in BetweenBatches => jobs = <<>> /\ running = {} /\ outcomes = <<>> /\ ~failed
    /\ pc = "allocate" => /\ running = {} /\ outcomes = <<>> /\ ~failed
                          /\ \A i \in DOMAIN jobs : /\ Discovery(jobs[i].stage)
                                                    /\ jobs[i].stage[2] < cursor.at
    /\ pc = "verify" => cursor.phase \in BatchPhase
Solo ==
    /\ \A i \in DOMAIN jobs : ~Discovery(jobs[i].stage) =>
          /\ Len(jobs) = 1 /\ running = {} /\ outcomes = <<>>
          /\ cursor.phase = jobs[i].stage[1]
    /\ \A j \in running : ~Discovery(j.stage) =>
          /\ running = {j} /\ jobs = <<>> /\ outcomes = <<>>
          /\ cursor.phase = j.stage[1]
    /\ \A i \in DOMAIN outcomes : ~Discovery(outcomes[i].stage) =>
          /\ Len(outcomes) = 1 /\ jobs = <<>> /\ running = {}
          /\ cursor.phase = outcomes[i].stage[1]

(* The manifest in memory knows every stage that succeeded, as long as the   *)
(* invocation can still allocate.                                           *)
CompleteKnown ==
    pc \in Live \ {"recover"} /\ ~failed =>
        \A r \in receiptFiles : r.success => m.complete[r.stage] # None

OutcomesIntact ==
    \A i \in DOMAIN outcomes : outcomes[i].success => ReportIntact(outcomes[i])
UniqueIDs == \A r, q \in receiptFiles : SameID(r, q) => r = q

Finite ==
    /\ IsFiniteSet(receiptFiles) /\ IsFiniteSet(manifest.receipts)
    /\ IsFiniteSet(m.receipts)

Inv ==
    /\ TypeOK /\ Finite
    /\ NextDurable /\ GensBounded
    /\ JobsFresh /\ RunningFresh /\ OutcomesFresh /\ HeadRecorded
    /\ JobsDistinct /\ InFlightDistinct
    /\ Quiet /\ Solo /\ CompleteKnown
    /\ OutcomesIntact /\ UniqueIDs
    /\ OneSuccessPerStage /\ CompletedReportsIntact

-----------------------------------------------------------------------------
(* Types.                                                                  *)

(* A stage is a pair of a phase and a position, and discovery stages are    *)
(* exactly those of tasks.                                                  *)
LEMMA StageShape ==
    /\ \A t \in Task : TaskStage(t) \in Stage /\ Discovery(TaskStage(t))
    /\ \A p \in BatchPhase, b \in 1 .. MaxBatch : <<p, b>> \in Stage /\ ~Discovery(<<p, b>>)
    /\ \A s \in Stage : /\ s[1] \in Phase
                        /\ ~Discovery(s) => s[1] \in BatchPhase
  BY PlanAssumption DEF Stage, TaskStage, Discovery, Phase, BatchPhase, Task

(* A batch under way is one of the batches of its candidates: a set of       *)
(* findings, at a stage of the plan.                                        *)
LEMMA BatchShape ==
    ASSUME TypeOK, Quiet, AtBatch
    PROVE  BatchStage \in Stage /\ Batch \in SUBSET Finding /\ ~Discovery(BatchStage)
  <1>1. /\ cursor.phase \in BatchPhase
        /\ cursor.items \in SUBSET Finding
        /\ cursor.at \in Nat \ {0}
    BY DEF TypeOK, Quiet, AtBatch, Cursor
  <1>2. /\ Batches \in Seq(SUBSET Finding)
        /\ Len(Batches) \in 1 .. MaxBatch
    BY <1>1, BatchingAssumption DEF Batches
  <1>3. cursor.at \in 1 .. Len(Batches) /\ cursor.at \in 1 .. MaxBatch
    BY <1>1, <1>2, PlanAssumption DEF AtBatch
  <1> QED
    BY <1>1, <1>2, <1>3, StageShape DEF BatchStage, Batch

(* Recovery never moves a generation counter: each was saved before its     *)
(* generation was used.                                                     *)
LEMMA NextUnmoved ==
    ASSUME TypeOK, GensBounded, m.next = manifest.next
    PROVE  RecoveredNext(m, receiptFiles) = m.next
  <1>1. ASSUME NEW s \in Stage
        PROVE  Max({m.next[s]} \cup {g + 1 : g \in GensOf(s, receiptFiles)}) = m.next[s]
    <2> DEFINE S == {m.next[s]} \cup {g + 1 : g \in GensOf(s, receiptFiles)}
    <2>1. m.next[s] \in Nat
      BY DEF TypeOK, Manifest
    <2>2. \A g \in GensOf(s, receiptFiles) : g \in Nat /\ g < m.next[s]
      BY DEF TypeOK, Receipt, GensBounded, GensOf
    <2>3. m.next[s] \in S /\ \A y \in S : y \in Nat /\ m.next[s] >= y
      BY <2>1, <2>2
    <2> HIDE DEF S
    <2>4. ASSUME NEW x \in S, \A y \in S : x >= y
          PROVE  x = m.next[s]
      <3>1. x \in Nat /\ m.next[s] >= x /\ x >= m.next[s]
        BY <2>3, <2>4
      <3> QED
        BY <3>1, <2>1
    <2>5. Max(S) = m.next[s]
      BY <2>3, <2>4 DEF Max
    <2> QED
      BY <2>5 DEF S
  <1>2. m.next \in [Stage -> Nat]
    BY DEF TypeOK, Manifest
  <1> QED
    BY <1>1, <1>2 DEF RecoveredNext

(* The empty manifest and the first place of the coordinator have their types. *)
LEMMA NoTypes == NoManifest \in Manifest /\ NoCursor \in Cursor
  BY DEF Manifest, NoManifest, Cursor, NoCursor, Phase, None

(* The initial state has its types (Planned.Run before any file exists). *)
LEMMA TypeInit == Init => TypeOK
  <1> SUFFICES ASSUME Init PROVE TypeOK
    OBVIOUS
  <1>1. manifest \in Manifest /\ m \in Manifest /\ cursor \in Cursor
    BY NoTypes DEF Init
  <1>2. artifact \in Artifacts
    BY DEF Init, Artifacts
  <1>3. public \in [findings : SUBSET Finding, summary : BOOLEAN]
    BY PlanAssumption DEF Init
  <1>4. root \in [run : BOOLEAN, cost : Int, complete : BOOLEAN]
    BY DEF Init
  <1>5. jobs \in Seq(Job) /\ running \subseteq Job /\ outcomes \in Seq(Receipt) /\ receiptFiles \subseteq Receipt
    BY DEF Init
  <1>6. mishaps \in Nat /\ spend \in Int /\ pc = "off" /\ childManifest \subseteq Stage
    BY PlanAssumption DEF Init
  <1>7. cancelled \in BOOLEAN /\ failed \in BOOLEAN
    BY DEF Init
  <1> QED
    BY <1>1, <1>2, <1>3, <1>4, <1>5, <1>6, <1>7 DEF TypeOK

(* The fields of a receipt (plannedReceipt). *)
LEMMA ReceiptFields ==
    ASSUME NEW r \in Receipt
    PROVE  /\ r.stage \in Stage /\ r.gen \in Nat /\ r.success \in BOOLEAN
           /\ r.digest \subseteq Finding /\ r.dep \subseteq Finding
  BY DEF Receipt

(* The fields of a job (plannedJob). *)
LEMMA JobFields ==
    ASSUME NEW j \in Job
    PROVE  /\ j.stage \in Stage /\ j.gen \in Nat
           /\ j.items \subseteq Finding /\ j.keep \subseteq Finding
  BY DEF Job

(* The head and the tail of a queue that is not empty. *)
LEMMA HeadTail ==
    ASSUME NEW S, NEW q \in Seq(S), q # <<>>
    PROVE  /\ Head(q) \in S /\ Tail(q) \in Seq(S) /\ Head(q) = q[1]
           /\ Len(q) \in Nat /\ Len(q) >= 1 /\ Len(Tail(q)) = Len(q) - 1
           /\ \A i \in DOMAIN Tail(q) : Tail(q)[i] = q[i + 1] /\ i + 1 \in DOMAIN q
  OBVIOUS

(* The cost the adapter returns is an integer (focusedCostDelta). *)
LEMMA NewCostType == ASSUME TypeOK, Finite PROVE NewCost(m.receipts) \in Int
  <1>1. IsFiniteSet({r \in m.receipts : r.cost = 1})
    BY FS_Subset DEF Finite
  <1> QED
    BY <1>1, FS_CardinalityType DEF TypeOK, NewCost, PlannedCost

(* The spend that is not counted yet is an integer. *)
LEMMA UnrecordedType == ASSUME TypeOK PROVE Unrecorded \in Int
  <1> DEFINE pending == IF pc = "save" THEN Tail(outcomes) ELSE outcomes
             S == {i \in DOMAIN pending : pending[i].cost = 1}
  <1>1. IsFiniteSet(DOMAIN outcomes)
    <2>1. DOMAIN outcomes = 1 .. Len(outcomes) /\ Len(outcomes) \in Int
      BY DEF TypeOK
    <2> QED
      BY <2>1, FS_Interval
  <1>2. DOMAIN Tail(outcomes) \subseteq DOMAIN outcomes
    BY DEF TypeOK
  <1>4. IsFiniteSet(DOMAIN pending)
    BY <1>1, <1>2, FS_Subset
  <1>3. IsFiniteSet(S)
    BY <1>4, FS_Subset
  <1> QED
    BY <1>3, FS_CardinalityType DEF Unrecorded

(* A write that may fail spends a mishap; the file holds the new content or  *)
(* keeps the old.                                                           *)
LEMMA SaveResult ==
    ASSUME TypeOK, NEW new, NEW old, NEW w \in WriteResults
    PROVE  /\ Written(w, new, old) \in {new, old}
           /\ w = "done" => Written(w, new, old) = new
           /\ (IF w = "done" THEN mishaps ELSE mishaps - 1) \in Nat
  BY DEF TypeOK, Written, WriteResults

(* What an action does to a manifest keeps it one.                          *)
LEMMA ManifestTypes ==
    ASSUME TypeOK
    PROVE  /\ \A s \in Stage : m.next[s] \in Nat /\ [m EXCEPT !.next[s] = @ + 1] \in Manifest
           /\ NewManifest \in Manifest
  <1>1. NewManifest \in Manifest
    <2>1. public.findings \subseteq Finding
      BY DEF TypeOK
    <2> QED
      BY <2>1, NoTypes DEF NewManifest, Manifest
  <1>2. ASSUME NEW s \in Stage
        PROVE  m.next[s] \in Nat /\ [m EXCEPT !.next[s] = @ + 1] \in Manifest
    <2>1. m \in Manifest /\ m.next \in [Stage -> Nat]
      BY DEF TypeOK, Manifest
    <2>2. m.next[s] \in Nat /\ [m.next EXCEPT ![s] = @ + 1] \in [Stage -> Nat]
      BY <2>1
    <2> QED
      BY <2>1, <2>2 DEF Manifest
  <1> QED
    BY <1>1, <1>2

(* Recovery from receipt files gives a manifest. *)
LEMMA RecoveredType ==
    ASSUME TypeOK, GensBounded, m.next = manifest.next
    PROVE  Recovered(m, receiptFiles) \in Manifest
  <1>1. RecoveredNext(m, receiptFiles) \in [Stage -> Nat]
    BY NextUnmoved DEF TypeOK, Manifest
  <1>2. RecoveredComplete(m, receiptFiles) \in [Stage -> Nat \cup {None}]
    <2>1. ASSUME NEW s \in Stage, SuccessesOf(s, receiptFiles) # {}
          PROVE  (CHOOSE r \in SuccessesOf(s, receiptFiles) : TRUE).gen \in Nat
      <3>1. (CHOOSE r \in SuccessesOf(s, receiptFiles) : TRUE) \in SuccessesOf(s, receiptFiles)
        BY <2>1
      <3> QED
        BY <3>1 DEF SuccessesOf, TypeOK, Receipt
    <2> QED
      BY <2>1 DEF RecoveredComplete, TypeOK, Manifest
  <1> QED
    BY <1>1, <1>2 DEF Recovered, TypeOK, Manifest

(* A stage is continued or it is not. *)
LEMMA ContinuedType == ASSUME NEW s PROVE Continued(s) \in BOOLEAN
  BY DEF Continued

(* A job that is allocated, and the outcome of one in a worker's hands.      *)
LEMMA JobType ==
    ASSUME TypeOK, NEW s \in Stage, NEW items \in SUBSET Finding, Allocate(s, items)
    PROVE  m' \in Manifest /\ jobs' \in Seq(Job)
  <1>1. m' \in Manifest /\ m.next[s] \in Nat
    BY ManifestTypes DEF Allocate
  <1>2. items \cap m.prior \in SUBSET Finding
    BY DEF TypeOK, Manifest
  <1>3. [stage |-> s, gen |-> m.next[s], items |-> items, keep |-> items \cap m.prior,
         resuming |-> Continued(s)] \in Job
    BY <1>1, <1>2, ContinuedType DEF Job
  <1> QED
    BY <1>1, <1>3 DEF Allocate, TypeOK

(* The outcome of a job is a receipt (execute). *)
LEMMA OutcomeType ==
    ASSUME NEW job \in Job, NEW started \in BOOLEAN, NEW success \in BOOLEAN,
           NEW cost \in 0 .. 1, NEW report \in SUBSET Finding
    PROVE  Outcome(job, started, success, cost, report) \in Receipt
  BY DEF Outcome, Job, Receipt

(* Appending keeps the type of a queue. *)
LEMMA AppendType ==
    ASSUME NEW S, NEW q \in Seq(S), NEW e \in S
    PROVE  Append(q, e) \in Seq(S)
  OBVIOUS

(* The place after a batch is a place (the batch loops of Planned.Run). *)
LEMMA CursorNext ==
    ASSUME TypeOK, NEW out \in SUBSET Finding
    PROVE  [cursor EXCEPT !.at = @ + 1, !.out = @ \cup out] \in Cursor
  <1>1. cursor.at + 1 \in Nat \ {0} /\ cursor.out \cup out \subseteq Finding
    BY DEF TypeOK, Cursor
  <1> QED
    BY <1>1 DEF TypeOK, Cursor

(* A step that ends the invocation keeps the types. *)
LEMMA StoppedType ==
    ASSUME TypeOK, Stopped, UNCHANGED <<manifest, receiptFiles, artifact, childManifest, public>>,
           root' \in [run : BOOLEAN, cost : Int, complete : BOOLEAN],
           mishaps' \in Nat, spend' \in Int
    PROVE  TypeOK'
  <1>1. m' \in Manifest /\ cursor' \in Cursor
    BY NoTypes DEF Stopped
  <1>2. jobs' \in Seq(Job) /\ running' \subseteq Job /\ outcomes' \in Seq(Receipt)
    BY DEF Stopped
  <1>3. pc' = "off" /\ cancelled' \in BOOLEAN /\ failed' \in BOOLEAN
    BY DEF Stopped
  <1> QED
    BY <1>1, <1>2, <1>3 DEF TypeOK

(* Every step keeps the types; the rest of Inv is needed for recovery. *)
LEMMA TypeStep == ASSUME Inv, [Next]_vars PROVE TypeOK'
  <1> USE DEF workers, disk
  <1>0. TypeOK /\ Finite /\ Quiet /\ GensBounded /\ NextDurable
    BY DEF Inv
  <1>1. CASE Invoke
    BY <1>0, <1>1 DEF Invoke, TypeOK
  <1>2. CASE Return
    <2> DEFINE earned == IF pc = "refused" THEN 0 ELSE NewCost(m.receipts)
               ended == pc = "published"
    <2>1. earned \in Int /\ ended \in BOOLEAN
      BY <1>0, NewCostType
    <2>2. root' = [root EXCEPT !.cost = @ + earned, !.complete = ended]
      BY <1>2 DEF Return
    <2> HIDE DEF earned, ended
    <2>3. root' \in [run : BOOLEAN, cost : Int, complete : BOOLEAN]
      <3>1. root \in [run : BOOLEAN, cost : Int, complete : BOOLEAN]
        BY <1>0 DEF TypeOK
      <3>2. root.cost + earned \in Int
        BY <2>1, <3>1
      <3> QED
        BY <2>1, <2>2, <3>1, <3>2
    <2>4. Stopped /\ UNCHANGED <<manifest, receiptFiles, artifact, childManifest, public, mishaps, spend>>
      BY <1>2 DEF Return
    <2> QED
      BY <1>0, <2>3, <2>4, StoppedType DEF TypeOK
  <1>3. CASE Crash
    <2>1. spend' \in Int /\ mishaps' \in Nat
      BY <1>0, <1>3, UnrecordedType DEF Crash, TypeOK
    <2>2. root' \in [run : BOOLEAN, cost : Int, complete : BOOLEAN]
      BY <1>0, <1>3 DEF Crash, TypeOK
    <2> QED
      BY <1>0, <1>3, <2>1, <2>2, StoppedType DEF Crash
  <1>4. CASE Cancel
    BY <1>0, <1>4 DEF Cancel, TypeOK
  <1>5. CASE OpenMismatch
    BY <1>0, <1>5 DEF OpenMismatch, TypeOK
  <1>6. CASE Open
    <2>1. CASE cancelled \/ (~manifest.exists /\ pc = "resume")
      BY <1>0, <1>6, <2>1 DEF Open, TypeOK
    <2>2. CASE ~cancelled /\ (manifest.exists \/ pc = "start")
      <3>1. m' \in Manifest
        <4>1. m' = IF manifest.exists THEN manifest ELSE NewManifest
          BY <1>6, <2>2 DEF Open
        <4> QED
          BY <1>0, <4>1, ManifestTypes DEF TypeOK
      <3>2. PICK w \in WriteResults : Save(w, m') /\ CountWrite(w) /\ pc' = IF w = "done" THEN "recover" ELSE "refused"
        BY <1>6, <2>2 DEF Open
      <3>3. manifest' \in Manifest /\ mishaps' \in Nat
        BY <1>0, <3>1, <3>2, SaveResult DEF Save, CountWrite, TypeOK
      <3> QED
        BY <1>0, <1>6, <2>2, <3>1, <3>2, <3>3 DEF Open, TypeOK
    <2> QED
      BY <1>6, <2>1, <2>2 DEF Open
  <1>7. CASE Recover
    <2>1. m' \in Manifest
      BY <1>0, <1>7, RecoveredType DEF Recover, NextDurable, Live
    <2>2. manifest' \in Manifest /\ mishaps' \in Nat /\ pc' \in {"refused", "stopped", "allocate"}
      BY <1>0, <1>7, <2>1, SaveResult DEF Recover, Save, CountWrite, TypeOK
    <2> QED
      BY <1>0, <1>7, <2>1, <2>2 DEF Recover, TypeOK
  <1>8. CASE AllocateTask
    <2>1. PICK t \in cursor.at .. NumTasks : Allocate(TaskStage(t), {}) /\ cursor' = [cursor EXCEPT !.at = t + 1]
      BY <1>8 DEF AllocateTask
    <2>2. t \in Task /\ t + 1 \in Nat \ {0}
      BY <1>0, <2>1, PlanAssumption DEF TypeOK, Cursor, Task
    <2>3. m' \in Manifest /\ jobs' \in Seq(Job)
      BY <1>0, <2>1, <2>2, JobType, StageShape
    <2>4. cursor' \in Cursor
      BY <1>0, <2>1, <2>2 DEF TypeOK, Cursor
    <2>5. manifest' \in Manifest /\ mishaps' \in Nat /\ pc' \in {"stopped", "allocate"}
      BY <1>0, <1>8, <2>3, SaveResult DEF AllocateTask, Save, CountWrite, TypeOK
    <2> QED
      BY <1>0, <1>8, <2>3, <2>4, <2>5 DEF AllocateTask, TypeOK
  <1>9. CASE StartWorkers
    BY <1>0, <1>9 DEF StartWorkers, TypeOK
  <1>10. CASE RecordReceipt
    <2> DEFINE r == Head(outcomes)
    <2>1. r \in Receipt /\ Tail(outcomes) \in Seq(Receipt) /\ r.stage \in Stage
      <3>1. outcomes \in Seq(Receipt) /\ outcomes # <<>>
        BY <1>0, <1>10 DEF RecordReceipt, TypeOK
      <3> QED
        BY <3>1, HeadTail, ReceiptFields
    <2>2. PICK w \in WriteResults :
            /\ CountWrite(w)
            /\ receiptFiles' = Written(w, receiptFiles \cup {r}, receiptFiles)
            /\ m' = [m EXCEPT !.receipts = @ \cup {r},
                            !.complete[r.stage] = IF w = "done" /\ r.success THEN r.gen ELSE @]
            /\ pc' = CASE w = "done" -> "save"
                       [] w # "done" /\ Discovery(r.stage) -> "collect"
                       [] OTHER -> "stopped"
            /\ failed' = (failed \/ w # "done")
            /\ outcomes' = IF w = "done" THEN outcomes ELSE Tail(outcomes)
      BY <1>10 DEF RecordReceipt
    <2>3. m' \in Manifest
      BY <1>0, <2>1, <2>2 DEF TypeOK, Manifest, Receipt
    <2>4. receiptFiles' \subseteq Receipt /\ mishaps' \in Nat /\ failed' \in BOOLEAN
      BY <1>0, <2>1, <2>2, SaveResult DEF CountWrite, TypeOK
    <2>5. pc' \in {"save", "collect", "stopped"} /\ outcomes' \in Seq(Receipt)
      BY <1>0, <2>1, <2>2 DEF TypeOK
    <2> QED
      BY <1>0, <1>10, <2>3, <2>4, <2>5 DEF RecordReceipt, TypeOK
  <1>11. CASE RecordSave
    <2>1. outcomes # <<>>
      BY <1>11 DEF Inv, HeadRecorded, RecordSave
    <2>2. Head(outcomes) \in Receipt /\ outcomes' \in Seq(Receipt) /\ Head(outcomes).stage \in Stage
          /\ Head(outcomes).success \in BOOLEAN
      <3>1. outcomes \in Seq(Receipt) /\ outcomes' = Tail(outcomes)
        BY <1>0, <1>11 DEF RecordSave, TypeOK
      <3> QED
        BY <3>1, <2>1, HeadTail, ReceiptFields
    <2>3. artifact[Head(outcomes).stage].report \in SUBSET Finding
      BY <1>0, <2>2 DEF TypeOK, Artifacts
    <2>4. cursor' \in Cursor
      <3>1. \/ cursor' = cursor
            \/ cursor' = [cursor EXCEPT !.at = @ + 1, !.out = @ \cup artifact[Head(outcomes).stage].report]
        BY <1>11 DEF RecordSave
      <3> QED
        <4>1. cursor \in Cursor
          BY <1>0 DEF TypeOK
        <4>2. [cursor EXCEPT !.at = @ + 1, !.out = @ \cup artifact[Head(outcomes).stage].report] \in Cursor
          BY <1>0, <2>3, CursorNext
        <4> QED
          BY <3>1, <4>1, <4>2
    <2>5. manifest' \in Manifest /\ mishaps' \in Nat
      BY <1>0, <1>11, SaveResult DEF RecordSave, Save, CountWrite, TypeOK
    <2>6. pc' \in {"collect", "stopped", "verify"} /\ failed' \in BOOLEAN
      BY <1>0, <1>11, <2>2 DEF RecordSave, TypeOK
    <2> QED
      BY <1>0, <1>11, <2>2, <2>4, <2>5, <2>6 DEF RecordSave, TypeOK
  <1>12. CASE Collected
    <2>1. TaskReports \subseteq Finding
      BY <1>0, StageShape DEF TypeOK, Artifacts, TaskReports
    <2>2. cursor' \in Cursor
      BY <1>0, <1>12, <2>1 DEF Collected, TypeOK, Cursor, Phase, Manifest
    <2> QED
      BY <1>0, <1>12, <2>2 DEF Collected, TypeOK
  <1>13. CASE SkipBatch
    <2>1. Batch \subseteq Finding
      BY <1>0, <1>13, BatchShape DEF SkipBatch
    <2>2. cursor' \in Cursor
      BY <1>0, <1>13, <2>1, CursorNext DEF SkipBatch
    <2> QED
      BY <1>0, <1>13, <2>2 DEF SkipBatch, TypeOK
  <1>14. CASE ReuseBatch
    <2>1. artifact[BatchStage].report \in SUBSET Finding
      BY <1>0, <1>14, BatchShape DEF ReuseBatch, TypeOK, Artifacts
    <2>2. cursor' \in Cursor
      <3>1. cursor' = cursor \/ cursor' = [cursor EXCEPT !.at = @ + 1, !.out = @ \cup artifact[BatchStage].report]
        BY <1>14 DEF ReuseBatch
      <3>2. cursor \in Cursor
        BY <1>0 DEF TypeOK
      <3>3. [cursor EXCEPT !.at = @ + 1, !.out = @ \cup artifact[BatchStage].report] \in Cursor
        BY <1>0, <2>1, CursorNext
      <3> QED
        BY <3>1, <3>2, <3>3
    <2> QED
      BY <1>0, <1>14, <2>2 DEF ReuseBatch, TypeOK
  <1>15. CASE RunBatch
    <2>1. m' \in Manifest /\ jobs' \in Seq(Job)
      BY <1>0, <1>15, BatchShape, JobType DEF RunBatch
    <2>2. manifest' \in Manifest /\ mishaps' \in Nat /\ pc' \in {"stopped", "collect"}
      BY <1>0, <1>15, <2>1, SaveResult DEF RunBatch, Save, CountWrite, TypeOK
    <2> QED
      BY <1>0, <1>15, <2>1, <2>2 DEF RunBatch, TypeOK
  <1>16. CASE NextPhase
    <2>1. cursor' \in Cursor
      BY <1>0, <1>16 DEF NextPhase, TypeOK, AnotherRound, Cursor, Phase
    <2> QED
      BY <1>0, <1>16, <2>1 DEF NextPhase, TypeOK
  <1>17. CASE Publish
    <2> DEFINE new == [findings |-> cursor.out, summary |-> TRUE]
    <2>1. new \in [findings : SUBSET Finding, summary : BOOLEAN]
      BY <1>0 DEF TypeOK, Cursor
    <2> HIDE DEF new
    <2>2. public' \in [findings : SUBSET Finding, summary : BOOLEAN] /\ mishaps' \in Nat
          /\ pc' \in {"stopped", "published"}
      <3>1. CASE pc' = "stopped" /\ UNCHANGED <<public, mishaps>>
        BY <1>0, <3>1 DEF TypeOK
      <3>2. CASE \E w \in WriteResults : /\ public' = Written(w, new, public)
                                         /\ CountWrite(w)
                                         /\ pc' = IF w = "done" THEN "published" ELSE "stopped"
        BY <1>0, <2>1, <3>2, SaveResult DEF TypeOK, CountWrite
      <3> QED
        BY <1>17, <3>1, <3>2 DEF Publish, new
    <2> QED
      BY <1>0, <1>17, <2>2 DEF Publish, TypeOK
  <1>18. CASE TakeJob
    <2>1. Head(jobs) \in Job /\ jobs' \in Seq(Job)
      BY <1>0, <1>18, HeadTail DEF TakeJob, TypeOK
    <2>2. Outcome(Head(jobs), FALSE, FALSE, 0, {}) \in Receipt
      BY <2>1 DEF Outcome, Job, Receipt
    <2>3. artifact' \in Artifacts
      <3>1. Head(jobs).stage \in Stage /\ Head(jobs).gen \in Nat
        BY <2>1, JobFields
      <3>2. \/ artifact' = artifact
            \/ artifact' = [artifact EXCEPT ![Head(jobs).stage] = [gen |-> Head(jobs).gen, report |-> {}]]
        BY <1>18 DEF TakeJob
      <3>3. artifact \in [Stage -> [gen : Nat, report : SUBSET Finding]]
        BY <1>0 DEF TypeOK, Artifacts
      <3>4. [gen |-> Head(jobs).gen, report |-> {}] \in [gen : Nat, report : SUBSET Finding]
        BY <3>1
      <3> QED
        BY <3>1, <3>2, <3>3, <3>4 DEF Artifacts
    <2>4. running' \subseteq Job /\ outcomes' \in Seq(Receipt)
      <3>1. \/ running' = running /\ outcomes' = Append(outcomes, Outcome(Head(jobs), FALSE, FALSE, 0, {}))
            \/ running' = running \cup {Head(jobs)} /\ outcomes' = outcomes
        BY <1>18 DEF TakeJob
      <3> QED
        <4>1. outcomes \in Seq(Receipt) /\ running \subseteq Job
          BY <1>0 DEF TypeOK
        <4>2. Append(outcomes, Outcome(Head(jobs), FALSE, FALSE, 0, {})) \in Seq(Receipt)
          BY <4>1, <2>2, AppendType
        <4> QED
          BY <3>1, <4>1, <4>2, <2>1
    <2>5. mishaps' \in Nat
      <3>1. mishaps \in Nat
        BY <1>0 DEF TypeOK
      <3>2. mishaps' = mishaps \/ (mishaps > 0 /\ mishaps' = mishaps - 1)
        BY <1>18 DEF TakeJob
      <3> QED
        BY <3>1, <3>2
    <2> QED
      BY <1>0, <1>18, <2>1, <2>3, <2>4, <2>5 DEF TakeJob, TypeOK
  <1>19. ASSUME NEW job \in running, NEW f \in Finding, RecordFinding(job, f) PROVE TypeOK'
    <2>1. artifact' \in Artifacts
      BY <1>0, <1>19 DEF RecordFinding, TypeOK, Artifacts, Job
    <2> QED
      BY <1>0, <1>19, <2>1 DEF RecordFinding, TypeOK
  <1>20. ASSUME NEW job \in running, NEW report \in SUBSET Finding, JobSucceeds(job, report)
         PROVE  TypeOK'
    <2>1. job \in Job /\ Outcome(job, TRUE, TRUE, 1, report) \in Receipt
      BY <1>0, OutcomeType, 1 \in 0 .. 1 DEF TypeOK
    <2>2. artifact' \in Artifacts
      BY <1>0, <1>20, <2>1 DEF JobSucceeds, TypeOK, Artifacts, Job, FileGen
    <2>3. running' \subseteq Job /\ outcomes' \in Seq(Receipt) /\ spend' \in Int
      <3>1. /\ running' = running \ {job}
            /\ outcomes' = Append(outcomes, Outcome(job, TRUE, TRUE, 1, report))
            /\ spend' = spend + 1
        BY <1>20 DEF JobSucceeds
      <3> QED
        <4>1. outcomes \in Seq(Receipt) /\ running \subseteq Job
          BY <1>0 DEF TypeOK
        <4>2. Append(outcomes, Outcome(job, TRUE, TRUE, 1, report)) \in Seq(Receipt)
          BY <4>1, <2>1, AppendType
        <4>3. running' \subseteq Job /\ outcomes' \in Seq(Receipt)
          BY <3>1, <4>1, <4>2
        <4>4. spend \in Int /\ mishaps \in Nat
          BY <1>0 DEF TypeOK
        <4>5. spend' \in Int
          BY <3>1, <4>4
        <4> QED
          BY <3>1, <4>3, <4>4, <4>5
    <2> QED
      BY <1>0, <1>20, <2>2, <2>3 DEF JobSucceeds, TypeOK
  <1>21. ASSUME NEW job \in running, NEW cost \in 0 .. 1, JobFails(job, cost) PROVE TypeOK'
    <2>1. job \in Job /\ Outcome(job, TRUE, FALSE, cost, {}) \in Receipt
      BY <1>0, OutcomeType DEF TypeOK
    <2>2. running' \subseteq Job /\ outcomes' \in Seq(Receipt) /\ spend' \in Int /\ mishaps' \in Nat
      <3>1. /\ running' = running \ {job}
            /\ outcomes' = Append(outcomes, Outcome(job, TRUE, FALSE, cost, {}))
            /\ spend' = spend + cost
            /\ mishaps' = mishaps \/ (mishaps > 0 /\ mishaps' = mishaps - 1)
        BY <1>21 DEF JobFails
      <3> QED
        <4>1. outcomes \in Seq(Receipt) /\ running \subseteq Job
          BY <1>0 DEF TypeOK
        <4>2. Append(outcomes, Outcome(job, TRUE, FALSE, cost, {})) \in Seq(Receipt)
          BY <4>1, <2>1, AppendType
        <4>3. running' \subseteq Job /\ outcomes' \in Seq(Receipt)
          BY <3>1, <4>1, <4>2
        <4>4. spend \in Int /\ mishaps \in Nat
          BY <1>0 DEF TypeOK
        <4>5. spend' \in Int
          BY <3>1, <4>4
        <4>7. mishaps' \in Nat
          BY <3>1, <4>4
        <4> QED
          BY <4>3, <4>5, <4>7
    <2> QED
      BY <1>0, <1>21, <2>2 DEF JobFails, TypeOK
  <1>24. ASSUME NEW job \in running, ChildOpens(job) PROVE TypeOK'
    <2>1. job.stage \in Stage
      BY <1>0, JobFields DEF TypeOK
    <2> QED
      BY <1>0, <1>24, <2>1 DEF ChildOpens, TypeOK
  <1>22. CASE UNCHANGED vars
    BY <1>0, <1>22 DEF vars, TypeOK
  <1>23. CASE Terminated
    BY <1>22, <1>23 DEF Terminated
  <1> QED
    BY <1>1, <1>2, <1>3, <1>4, <1>5, <1>6, <1>7, <1>8, <1>9, <1>10, <1>11, <1>12, <1>13,
       <1>14, <1>15, <1>16, <1>17, <1>18, <1>19, <1>20, <1>21, <1>22, <1>23, <1>24
       DEF Next, Coordinator, Child

-----------------------------------------------------------------------------
(* Steps that move the coordinator and touch nothing in flight.            *)

(* The invariant holds before the first invocation. *)
LEMMA InitInv == Init => Inv
  <1> SUFFICES ASSUME Init PROVE Inv
    OBVIOUS
  <1>1. TypeOK
    BY TypeInit
  <1>2. Finite
    BY FS_EmptySet DEF Init, Finite, NoManifest
  <1>3. NextDurable /\ GensBounded
    BY DEF Init, NextDurable, GensBounded, NoManifest, Live
  <1>4. /\ JobsFresh /\ RunningFresh /\ OutcomesFresh /\ HeadRecorded
        /\ JobsDistinct /\ InFlightDistinct /\ OutcomesIntact
    BY DEF Init, JobsFresh, RunningFresh, OutcomesFresh, HeadRecorded, JobsDistinct,
           InFlightDistinct, OutcomesIntact, Dispatching
  <1>5. Quiet /\ Solo /\ CompleteKnown
    BY DEF Init, Quiet, Solo, CompleteKnown, BetweenBatches, Live
  <1>6. UniqueIDs /\ OneSuccessPerStage /\ CompletedReportsIntact
    BY DEF Init, UniqueIDs, OneSuccessPerStage, CompletedReportsIntact
  <1> QED
    BY <1>1, <1>2, <1>3, <1>4, <1>5, <1>6 DEF Inv

(* What the invariant says of the disk alone.                               *)
DiskInv == GensBounded /\ UniqueIDs /\ OneSuccessPerStage /\ CompletedReportsIntact

(* The part of the invariant about files holds while no file is written. *)
LEMMA DiskFrame ==
    ASSUME DiskInv, UNCHANGED <<manifest, receiptFiles, artifact>>
    PROVE  DiskInv'
  BY DEF DiskInv, GensBounded, UniqueIDs, OneSuccessPerStage, CompletedReportsIntact,
         ReportIntact, SameID

(* Moving between batches or phases keeps the invariant. *)
LEMMA PlaceStep ==
    ASSUME Inv, TypeOK', Quiet', Solo',
           UNCHANGED <<manifest, receiptFiles, artifact, m, jobs, running, outcomes, failed>>,
           pc # "save", pc' # "save",
           pc' \in Live => pc \in Live \ {"recover"},
           pc' \in Dispatching => pc \in Dispatching \/ jobs = <<>>
    PROVE  Inv'
  <1>1. Finite' /\ NextDurable'
    BY DEF Inv, Finite, NextDurable
  <1>2. DiskInv'
    BY DiskFrame DEF Inv, DiskInv
  <1>3. JobsFresh' /\ JobsDistinct'
    BY DEF Inv, JobsFresh, JobsDistinct, Fresh
  <1>4. RunningFresh' /\ OutcomesFresh' /\ HeadRecorded' /\ InFlightDistinct' /\ OutcomesIntact'
    BY DEF Inv, RunningFresh, OutcomesFresh, HeadRecorded, InFlightDistinct, OutcomesIntact,
           Fresh, FirstPending, ReportIntact
  <1>5. CompleteKnown'
    BY DEF Inv, CompleteKnown
  <1> QED
    BY <1>1, <1>2, <1>3, <1>4, <1>5 DEF Inv, DiskInv

(* So does a step that only touches what the invariant does not speak of. *)
LEMMA Unmoved ==
    ASSUME Inv, TypeOK',
           UNCHANGED <<manifest, receiptFiles, artifact, m, jobs, running, outcomes, failed,
                       pc, cursor>>
    PROVE  Inv'
  <1>1. Finite' /\ NextDurable' /\ Quiet' /\ Solo' /\ CompleteKnown' /\ HeadRecorded'
    BY DEF Inv, Finite, NextDurable, Quiet, Solo, CompleteKnown, HeadRecorded
  <1>2. DiskInv'
    BY DiskFrame DEF Inv, DiskInv
  <1>3. JobsFresh' /\ JobsDistinct' /\ RunningFresh' /\ OutcomesFresh' /\ InFlightDistinct'
        /\ OutcomesIntact'
    BY DEF Inv, JobsFresh, JobsDistinct, RunningFresh, OutcomesFresh, InFlightDistinct,
           OutcomesIntact, Fresh, FirstPending, ReportIntact
  <1> QED
    BY <1>1, <1>2, <1>3 DEF Inv, DiskInv

(* The end of an invocation, whatever it had in memory, keeps the invariant. *)
LEMMA StoppedStep ==
    ASSUME Inv, TypeOK', Stopped, UNCHANGED <<manifest, receiptFiles, artifact>>
    PROVE  Inv'
  <1>1. /\ pc' = "off" /\ m' = NoManifest /\ jobs' = <<>> /\ running' = {} /\ outcomes' = <<>>
        /\ failed' = FALSE
    BY DEF Stopped
  <1>2. Finite' /\ NextDurable'
    BY <1>1, FS_EmptySet DEF Inv, Finite, NextDurable, NoManifest, Live
  <1>3. DiskInv'
    BY DiskFrame DEF Inv, DiskInv
  <1>4. /\ JobsFresh' /\ RunningFresh' /\ OutcomesFresh' /\ HeadRecorded'
        /\ JobsDistinct' /\ InFlightDistinct' /\ OutcomesIntact'
    BY <1>1 DEF JobsFresh, RunningFresh, OutcomesFresh, HeadRecorded, JobsDistinct,
           InFlightDistinct, OutcomesIntact, Dispatching
  <1>5. Quiet' /\ Solo' /\ CompleteKnown'
    BY <1>1 DEF Quiet, Solo, CompleteKnown, BetweenBatches, Live
  <1> QED
    BY <1>2, <1>3, <1>4, <1>5 DEF Inv, DiskInv

(* The caller's steps, crashes and cancellation keep the invariant. *)
LEMMA CallerSteps ==
    ASSUME Inv, TypeOK', Invoke \/ Return \/ Crash \/ Cancel \/ OpenMismatch
    PROVE  Inv'
  <1> USE DEF workers, disk
  <1>1. CASE Invoke
    <2>1. Quiet' /\ Solo'
      BY <1>1 DEF Inv, Invoke, Quiet, Solo, BetweenBatches
    <2> QED
      BY <1>1, <2>1, PlaceStep DEF Invoke, Live, Dispatching
  <1>2. CASE Return
    BY <1>2, StoppedStep DEF Return
  <1>3. CASE Crash
    BY <1>3, StoppedStep DEF Crash
  <1>4. CASE Cancel
    BY <1>4, Unmoved DEF Cancel
  <1>5. CASE OpenMismatch
    <2>1. Quiet' /\ Solo'
      BY <1>5 DEF Inv, OpenMismatch, Quiet, Solo, BetweenBatches
    <2> QED
      BY <1>5, <2>1, PlaceStep DEF OpenMismatch, Live, Dispatching
  <1> QED
    BY <1>1, <1>2, <1>3, <1>4, <1>5

(* The steps of the coordinator that only move its place keep the invariant. *)
LEMMA PlaceSteps ==
    ASSUME Inv, TypeOK',
           StartWorkers \/ Collected \/ SkipBatch \/ ReuseBatch \/ NextPhase \/ Publish
    PROVE  Inv'
  <1> USE DEF workers, disk
  <1>1. CASE StartWorkers
    <2>1. Quiet' /\ Solo'
      BY <1>1 DEF Inv, StartWorkers, Quiet, Solo, BetweenBatches
    <2> QED
      BY <1>1, <2>1, PlaceStep DEF StartWorkers, Live, Dispatching
  <1>2. CASE Collected
    <2>1. jobs = <<>> /\ running = {} /\ outcomes = <<>>
      BY <1>2 DEF Collected, Drained
    <2>2. Quiet' /\ Solo'
      BY <1>2, <2>1 DEF Inv, Collected, Quiet, Solo, BetweenBatches, BatchPhase
    <2> QED
      BY <1>2, <2>1, <2>2, PlaceStep DEF Collected, Live, Dispatching
  <1>3. CASE SkipBatch \/ ReuseBatch
    <2>1. pc = "verify" /\ jobs = <<>> /\ running = {} /\ outcomes = <<>> /\ ~failed
      BY <1>3 DEF Inv, SkipBatch, ReuseBatch, AtBatch, Quiet, BetweenBatches
    <2>2. cursor'.phase = cursor.phase /\ pc' \in {"verify", "stopped"}
      BY <1>3, <2>1 DEF SkipBatch, ReuseBatch, Inv, TypeOK, Cursor
    <2>3. UNCHANGED <<manifest, receiptFiles, artifact, m, jobs, running, outcomes, failed>>
      BY <1>3 DEF SkipBatch, ReuseBatch
    <2>4. Quiet' /\ Solo'
      BY <2>1, <2>2, <2>3 DEF Inv, Quiet, Solo, BetweenBatches
    <2> QED
      BY <2>1, <2>2, <2>3, <2>4, PlaceStep DEF Live, Dispatching
  <1>4. CASE NextPhase
    <2>1. pc = "verify" /\ jobs = <<>> /\ running = {} /\ outcomes = <<>> /\ ~failed
      BY <1>4 DEF Inv, NextPhase, Quiet, BetweenBatches
    <2>2. pc' = "verify" => cursor'.phase \in BatchPhase
      BY <1>4, <2>1 DEF NextPhase, AnotherRound, Inv, Quiet, BatchPhase
    <2>3. UNCHANGED <<manifest, receiptFiles, artifact, m, jobs, running, outcomes, failed>>
          /\ pc' \in {"verify", "publish"}
      BY <1>4, <2>1 DEF NextPhase
    <2>4. Quiet' /\ Solo'
      BY <2>1, <2>2, <2>3 DEF Inv, Quiet, Solo, BetweenBatches
    <2> QED
      BY <2>1, <2>3, <2>4, PlaceStep DEF Live, Dispatching
  <1>5. CASE Publish
    <2>1. UNCHANGED <<manifest, receiptFiles, artifact, m, jobs, running, outcomes, failed, cursor>>
          /\ pc = "publish" /\ pc' \in {"stopped", "published"}
      BY <1>5 DEF Publish
    <2>2. Quiet' /\ Solo'
      BY <2>1 DEF Inv, Quiet, Solo, BetweenBatches
    <2> QED
      BY <2>1, <2>2, PlaceStep DEF Live, Dispatching
  <1> QED
    BY <1>1, <1>2, <1>3, <1>4, <1>5

-----------------------------------------------------------------------------
(* Steps that save the manifest.                                           *)

(* Saving a manifest whose counters only grew disturbs no one.              *)
Grown == \A s \in Stage : manifest.next[s] <= manifest'.next[s]

(* What has a fresh generation keeps it while generations grow. *)
LEMMA FreshKept ==
    ASSUME TypeOK, TypeOK', Grown, receiptFiles' = receiptFiles,
           NEW x, x.stage \in Stage, x.gen \in Nat, Fresh(x)
    PROVE  Fresh(x)'
  <1>1. manifest.next[x.stage] \in Nat /\ manifest'.next[x.stage] \in Nat
    BY DEF TypeOK, Manifest
  <1> QED
    BY <1>1 DEF Fresh, Grown

(* Saving the manifest with larger generations disturbs no file. *)
LEMMA SaveFrame ==
    ASSUME Inv, TypeOK', Grown, UNCHANGED <<receiptFiles, artifact>>
    PROVE  /\ DiskInv'
           /\ \A x \in Job \cup Receipt : Fresh(x) => Fresh(x)'
  <1>0. TypeOK /\ GensBounded
    BY DEF Inv
  <1>1. ASSUME NEW r \in receiptFiles PROVE r.gen < manifest'.next[r.stage]
    <2>1. r.stage \in Stage /\ r.gen \in Nat
      BY <1>0, ReceiptFields DEF TypeOK
    <2>2. manifest.next[r.stage] \in Nat /\ manifest'.next[r.stage] \in Nat
      BY <1>0, <2>1 DEF TypeOK, Manifest
    <2> QED
      BY <1>0, <2>1, <2>2 DEF GensBounded, Grown
  <1>2. DiskInv'
    BY <1>1 DEF Inv, DiskInv, GensBounded, UniqueIDs, OneSuccessPerStage,
                CompletedReportsIntact, ReportIntact, SameID
  <1>3. ASSUME NEW x \in Job \cup Receipt, Fresh(x) PROVE Fresh(x)'
    <2>1. x.stage \in Stage /\ x.gen \in Nat
      BY JobFields, ReceiptFields
    <2> QED
      BY <1>0, <1>3, <2>1, FreshKept
  <1> QED
    BY <1>2, <1>3

(* Opening: a manifest is made only when there is none, and then there is    *)
(* no receipt either.                                                       *)
LEMMA OpenStep == ASSUME Inv, TypeOK', Open PROVE Inv'
  <1> USE DEF workers, disk
  <1>0. /\ TypeOK /\ pc \in {"start", "resume"}
        /\ jobs = <<>> /\ running = {} /\ outcomes = <<>> /\ ~failed
    BY DEF Inv, Open, Quiet, BetweenBatches
  <1>1. CASE UNCHANGED <<disk, m>> /\ pc' = "refused"
    <2>1. Quiet' /\ Solo'
      BY <1>0, <1>1 DEF Inv, Open, Quiet, Solo, BetweenBatches
    <2> QED
      BY <1>0, <1>1, <2>1, PlaceStep DEF Open, Live, Dispatching
  <1>2. CASE /\ m' = IF manifest.exists THEN manifest ELSE NewManifest
             /\ \E w \in WriteResults : Save(w, m') /\ pc' = IF w = "done" THEN "recover" ELSE "refused"
    <2>1. PICK w \in WriteResults : Save(w, m') /\ pc' = IF w = "done" THEN "recover" ELSE "refused"
      BY <1>2
    <2>2. /\ manifest' \in {m', manifest}
          /\ w = "done" => manifest' = m'
      BY <1>0, <2>1, SaveResult DEF Save
    <2>3. m'.exists /\ m'.next = manifest.next
      <3>1. CASE manifest.exists
        BY <1>2, <3>1
      <3>2. CASE ~manifest.exists
        <4>1. manifest.next \in [Stage -> Nat] /\ \A s \in Stage : manifest.next[s] = 0
          BY <3>2 DEF Inv, TypeOK, Manifest, NextDurable
        <4>2. manifest.next = [s \in Stage |-> 0]
          BY <4>1
        <4> QED
          BY <1>2, <3>2, <4>2 DEF NewManifest, NoManifest
      <3> QED
        BY <3>1, <3>2
    <2>4. UNCHANGED <<receiptFiles, artifact, jobs, running, outcomes, cursor, failed>>
      BY DEF Open
    <2>5. Grown
      BY <2>2, <2>3, <1>0 DEF Grown, TypeOK, Manifest
    <2>6. NextDurable'
      BY <2>1, <2>2, <2>3 DEF Inv, NextDurable, Live
    <2>7. Finite'
      BY <1>2, <2>2, <2>4, FS_EmptySet DEF Inv, Finite, NewManifest, NoManifest
    <2>8. DiskInv'
      BY <2>4, <2>5, SaveFrame
    <2>9. /\ JobsFresh' /\ RunningFresh' /\ OutcomesFresh' /\ HeadRecorded'
          /\ JobsDistinct' /\ InFlightDistinct' /\ OutcomesIntact'
      BY <1>0, <2>1, <2>4 DEF JobsFresh, RunningFresh, OutcomesFresh, HeadRecorded,
             JobsDistinct, InFlightDistinct, OutcomesIntact, Dispatching
    <2>10. Quiet' /\ Solo' /\ CompleteKnown'
      BY <1>0, <2>1, <2>4 DEF Quiet, Solo, CompleteKnown, BetweenBatches, Live
    <2> QED
      BY <2>6, <2>7, <2>8, <2>9, <2>10 DEF Inv, DiskInv
  <1> QED
    BY <1>1, <1>2 DEF Open

(* Recovery: every success among the receipt files is known to the manifest, *)
(* and the counters already were beyond them.                               *)
LEMMA RecoverStep == ASSUME Inv, TypeOK', Recover PROVE Inv'
  <1> USE DEF workers, disk
  <1>0. /\ TypeOK /\ pc = "recover" /\ GensBounded
        /\ jobs = <<>> /\ running = {} /\ outcomes = <<>> /\ ~failed
        /\ m.exists /\ m.next = manifest.next
    BY DEF Inv, Recover, Quiet, BetweenBatches, NextDurable, Live
  <1>1. m' = Recovered(m, receiptFiles)
        /\ UNCHANGED <<receiptFiles, artifact, jobs, running, outcomes, cursor, failed>>
    BY DEF Recover
  <1>2. m'.exists /\ m'.next = manifest.next /\ m'.receipts = m.receipts \cup receiptFiles
        /\ m'.complete = RecoveredComplete(m, receiptFiles)
    <2>1. m \in Manifest
      BY <1>0 DEF TypeOK
    <2> QED
      BY <1>0, <1>1, <2>1, NextUnmoved DEF Recovered, Manifest
  <1>3. /\ pc' \in {"refused", "stopped", "allocate"}
        /\ manifest' \in {m', manifest}
        /\ pc' = "allocate" => manifest' = m'
    BY <1>0, SaveResult DEF Recover, Save
  <1>4. Grown
    BY <1>0, <1>2, <1>3 DEF Grown, TypeOK, Manifest
  <1>5. NextDurable'
    BY <1>2, <1>3 DEF Inv, NextDurable, Live
  <1>6. Finite'
    <2>1. IsFiniteSet(m.receipts) /\ IsFiniteSet(receiptFiles) /\ IsFiniteSet(manifest.receipts)
      BY DEF Inv, Finite
    <2>2. IsFiniteSet(m.receipts \cup receiptFiles)
      BY <2>1, FS_Union
    <2>3. IsFiniteSet(m'.receipts)
      BY <1>2, <2>2
    <2> QED
      BY <1>1, <1>3, <2>1, <2>3 DEF Finite
  <1>7. DiskInv'
    BY <1>1, <1>4, SaveFrame
  <1>8. /\ JobsFresh' /\ RunningFresh' /\ OutcomesFresh' /\ HeadRecorded'
        /\ JobsDistinct' /\ InFlightDistinct' /\ OutcomesIntact'
    BY <1>0, <1>1, <1>3 DEF JobsFresh, RunningFresh, OutcomesFresh, HeadRecorded,
           JobsDistinct, InFlightDistinct, OutcomesIntact, Dispatching
  <1>9. Quiet' /\ Solo'
    BY <1>0, <1>1, <1>3 DEF Quiet, Solo, BetweenBatches
  <1>10. ASSUME NEW r \in receiptFiles, r.success
         PROVE  m'.complete[r.stage] # None
    <2>1. r.stage \in Stage
      BY <1>0, ReceiptFields DEF TypeOK
    <2>2. r \in SuccessesOf(r.stage, receiptFiles)
      BY <1>10 DEF SuccessesOf
    <2>3. (CHOOSE q \in SuccessesOf(r.stage, receiptFiles) : TRUE) \in SuccessesOf(r.stage, receiptFiles)
      BY <2>2
    <2>4. (CHOOSE q \in SuccessesOf(r.stage, receiptFiles) : TRUE).gen \in Nat
      BY <1>0, <2>3, ReceiptFields DEF SuccessesOf, TypeOK
    <2> QED
      BY <1>2, <2>1, <2>2, <2>4 DEF RecoveredComplete, None
  <1>11. CompleteKnown'
    BY <1>1, <1>10 DEF CompleteKnown
  <1> QED
    BY <1>5, <1>6, <1>7, <1>8, <1>9, <1>11 DEF Inv, DiskInv

(* Allocation: the new job has a generation beyond every receipt, and its    *)
(* stage is neither complete nor in flight.                                 *)
LEMMA AllocateStep ==
    ASSUME Inv, TypeOK', NEW s \in Stage, NEW items \in SUBSET Finding,
           Allocate(s, items), m.complete[s] = None,
           pc \in {"allocate", "verify"}, pc' \in {"allocate", "collect", "stopped"},
           manifest' \in {m', manifest}, pc' # "stopped" => manifest' = m',
           \A i \in DOMAIN jobs : jobs[i].stage # s,
           UNCHANGED <<receiptFiles, artifact, running, outcomes, failed>>,
           Quiet', Solo'
    PROVE  Inv'
  <1>a. PICK job : job = [stage |-> s, gen |-> m.next[s], items |-> items,
                          keep |-> items \cap m.prior, resuming |-> Continued(s)]
    OBVIOUS
  <1>0. /\ TypeOK /\ TypeOK' /\ running = {} /\ outcomes = <<>> /\ ~failed
        /\ m.exists /\ m.next = manifest.next
        /\ pc = "verify" => jobs = <<>>
    BY DEF Inv, Quiet, BetweenBatches, NextDurable, Live
  <1>1. /\ m' = [m EXCEPT !.next[s] = @ + 1] /\ jobs' = Append(jobs, job)
        /\ jobs \in Seq(Job) /\ m \in Manifest /\ m.next[s] \in Nat
    BY <1>a, <1>0, ManifestTypes DEF Allocate, TypeOK
  <1>2. /\ m'.exists /\ m'.receipts = m.receipts /\ m'.complete = m.complete
        /\ m'.next = [m.next EXCEPT ![s] = @ + 1]
    BY <1>0, <1>1 DEF Manifest
  <1>3. Grown /\ (pc' # "stopped" => manifest'.next[s] = m.next[s] + 1)
    <2>1. /\ m.next \in [Stage -> Nat] /\ manifest'.next \in [Stage -> Nat]
          /\ m.next = manifest.next
      BY <1>0 DEF TypeOK, Manifest
    <2>2. \A x \in Stage : m.next[x] <= m'.next[x] /\ m.next[x] <= m.next[x]
      BY <1>2, <2>1
    <2>3. m'.next[s] = m.next[s] + 1
      BY <1>2, <2>1
    <2> QED
      BY <2>1, <2>2, <2>3 DEF Grown
  <1>4. /\ DiskInv'
        /\ \A x \in Job \cup Receipt : Fresh(x) => Fresh(x)'
    BY <1>3, SaveFrame
  <1>5. NextDurable' /\ Finite'
    BY <1>0, <1>2 DEF Inv, NextDurable, Finite, Live
  <1>6. job \in Job
    BY <1>a, <1>0, <1>1, ContinuedType DEF TypeOK, Job, Manifest
  <1>7. ASSUME pc' # "stopped" PROVE Fresh(job)'
    <2>1. m.next[s] < manifest'.next[s]
      BY <1>1, <1>3, <1>7
    <2>2. ASSUME NEW r \in receiptFiles, r.stage = s
          PROVE  r.gen # m.next[s] /\ ~r.success
      <3>1. r.gen < m.next[s] /\ r.gen \in Nat
        BY <1>0, <2>2, ReceiptFields DEF Inv, GensBounded, TypeOK
      <3>2. ~r.success
        BY <1>0, <2>2 DEF Inv, CompleteKnown, Live
      <3> QED
        BY <3>1, <3>2, <1>1
    <2>3. job.stage = s /\ job.gen = m.next[s]
      BY <1>a
    <2> QED
      BY <1>0, <2>1, <2>2, <2>3 DEF Fresh
  <1>8. /\ DOMAIN jobs' = 1 .. Len(jobs) + 1 /\ DOMAIN jobs = 1 .. Len(jobs) /\ Len(jobs) \in Nat
        /\ \A i \in DOMAIN jobs : jobs'[i] = jobs[i] /\ jobs[i] \in Job
        /\ jobs'[Len(jobs) + 1] = job
    BY <1>1, <1>6
  <1>9. JobsFresh'
    <2> SUFFICES ASSUME pc' \in Dispatching, NEW i \in DOMAIN jobs' PROVE Fresh(jobs[i])'
      BY DEF JobsFresh
    <2>1. CASE i = Len(jobs) + 1
      BY <1>7, <1>8, <2>1 DEF Dispatching, Fresh
    <2>2. CASE i \in DOMAIN jobs
      <3>1. Fresh(jobs[i])
        BY <1>0, <1>1, <2>2 DEF Inv, JobsFresh, Dispatching
      <3>2. jobs'[i] = jobs[i] /\ jobs[i] \in Job
        BY <1>8, <2>2
      <3> QED
        BY <1>4, <3>1, <3>2 DEF Fresh
    <2> QED
      BY <1>8, <2>1, <2>2
  <1>10. JobsDistinct'
    <2>1. job.stage = s
      BY <1>a
    <2>2. \A i, k \in DOMAIN jobs : jobs[i].stage = jobs[k].stage => i = k
      BY <1>0 DEF Inv, JobsDistinct, Dispatching
    <2>3. \A i, k \in DOMAIN jobs' : jobs'[i].stage = jobs'[k].stage => i = k
      BY <1>8, <2>1, <2>2
    <2>4. running' = {} /\ outcomes' = <<>>
      BY <1>0
    <2> QED
      BY <2>3, <2>4 DEF JobsDistinct
  <1>11. RunningFresh' /\ OutcomesFresh' /\ HeadRecorded' /\ InFlightDistinct' /\ OutcomesIntact'
    BY <1>0 DEF RunningFresh, OutcomesFresh, HeadRecorded, InFlightDistinct, OutcomesIntact
  <1>12. CompleteKnown'
    BY <1>0, <1>2 DEF Inv, CompleteKnown, Live
  <1> QED
    BY <1>4, <1>5, <1>9, <1>10, <1>11, <1>12 DEF Inv, DiskInv

(* Allocating a task (allocate) keeps the invariant. *)
LEMMA AllocateTaskStep == ASSUME Inv, TypeOK', AllocateTask PROVE Inv'
  <1>0. /\ TypeOK /\ pc = "allocate" /\ running = {} /\ outcomes = <<>> /\ ~failed
        /\ \A i \in DOMAIN jobs : Discovery(jobs[i].stage) /\ jobs[i].stage[2] < cursor.at
    BY DEF Inv, AllocateTask, Quiet
  <1>1. PICK t \in cursor.at .. NumTasks :
          /\ Incomplete(t)
          /\ Allocate(TaskStage(t), {})
          /\ cursor' = [cursor EXCEPT !.at = t + 1]
    BY DEF AllocateTask
  <1>2. /\ cursor.at \in Nat \ {0} /\ t \in Task /\ cursor.at <= t
        /\ cursor'.at = t + 1 /\ cursor'.phase = cursor.phase
    BY <1>0, <1>1, PlanAssumption DEF TypeOK, Cursor, Task
  <1>3. TaskStage(t) \in Stage /\ Discovery(TaskStage(t)) /\ TaskStage(t)[2] = t
    BY <1>2, StageShape DEF TaskStage
  <1>4. \A i \in DOMAIN jobs : jobs[i].stage # TaskStage(t)
    BY <1>0, <1>2, <1>3
  <1>5. /\ pc' \in {"allocate", "stopped"}
        /\ manifest' \in {m', manifest}
        /\ pc' # "stopped" => manifest' = m'
    BY <1>0, SaveResult DEF AllocateTask, Save
  <1>6. UNCHANGED <<receiptFiles, artifact, running, outcomes, failed>>
    BY DEF AllocateTask
  <1>7. /\ jobs \in Seq(Job)
        /\ \A i \in DOMAIN jobs' : \/ i \in DOMAIN jobs /\ jobs'[i] = jobs[i]
                                  \/ jobs'[i].stage = TaskStage(t)
    BY <1>0, <1>1 DEF TypeOK, Allocate
  <1>8. \A i \in DOMAIN jobs' : Discovery(jobs'[i].stage) /\ jobs'[i].stage[2] < cursor'.at
    <2> SUFFICES ASSUME NEW i \in DOMAIN jobs'
                 PROVE  Discovery(jobs'[i].stage) /\ jobs'[i].stage[2] < cursor'.at
      OBVIOUS
    <2>1. CASE jobs'[i].stage = TaskStage(t)
      BY <1>2, <1>3, <2>1
    <2>2. CASE i \in DOMAIN jobs /\ jobs'[i] = jobs[i]
      <3>1. jobs[i].stage \in Stage
        BY <1>7, <2>2, JobFields
      <3>2. jobs[i].stage[2] \in Int
        BY <3>1, PlanAssumption DEF Stage, Task
      <3> QED
        BY <1>0, <1>2, <2>2, <3>2
    <2> QED
      BY <1>7, <2>1, <2>2
  <1>9. Quiet' /\ Solo'
    BY <1>0, <1>5, <1>6, <1>8 DEF Quiet, Solo, BetweenBatches
  <1>10. m.complete[TaskStage(t)] = None
    BY <1>1 DEF Incomplete
  <1> QED
    BY <1>0, <1>1, <1>3, <1>4, <1>5, <1>6, <1>9, <1>10, AllocateStep

(* Allocating a batch and handing it out (runVerified) keeps the invariant. *)
LEMMA RunBatchStep == ASSUME Inv, TypeOK', RunBatch PROVE Inv'
  <1>0. /\ TypeOK /\ Quiet /\ pc = "verify" /\ jobs = <<>> /\ running = {} /\ outcomes = <<>>
        /\ ~failed
    BY DEF Inv, RunBatch, AtBatch, Quiet, BetweenBatches
  <1>1. /\ Allocate(BatchStage, Batch) /\ m.complete[BatchStage] = None
        /\ UNCHANGED <<receiptFiles, artifact, running, outcomes, failed, cursor>>
    BY DEF RunBatch
  <1>2. BatchStage \in Stage /\ Batch \in SUBSET Finding /\ ~Discovery(BatchStage)
        /\ BatchStage[1] = cursor.phase
    BY <1>0, BatchShape DEF RunBatch, BatchStage
  <1>3. /\ pc' \in {"collect", "stopped"}
        /\ manifest' \in {m', manifest}
        /\ pc' # "stopped" => manifest' = m'
    BY <1>0, SaveResult DEF RunBatch, Save
  <1>4. /\ Len(jobs') = 1 /\ DOMAIN jobs' = {1}
        /\ jobs'[1].stage = BatchStage
    BY <1>0, <1>1 DEF Allocate
  <1>5. Quiet' /\ Solo'
    BY <1>0, <1>1, <1>2, <1>3, <1>4 DEF Quiet, Solo, BetweenBatches
  <1> QED
    BY <1>0, <1>1, <1>2, <1>3, <1>5, AllocateStep

-----------------------------------------------------------------------------
(* Steps of the workers.                                                   *)

(* Work in flight never touches the report of a completed stage.            *)
LEMMA ReportsKept ==
    ASSUME Inv, NEW x, Fresh(x),
           UNCHANGED <<manifest, receiptFiles>>,
           artifact' = artifact \/ \E a : artifact' = [artifact EXCEPT ![x.stage] = a]
    PROVE  DiskInv'
  <1>1. TypeOK /\ artifact \in Artifacts
    BY DEF Inv, TypeOK
  <1>2. ASSUME NEW r \in receiptFiles, r.success PROVE artifact'[r.stage] = artifact[r.stage]
    <2>1. r.stage # x.stage /\ r.stage \in Stage
      BY <1>1, <1>2, ReceiptFields DEF Fresh, TypeOK
    <2> QED
      BY <1>1, <2>1 DEF Artifacts
  <1> QED
    BY <1>2 DEF Inv, DiskInv, GensBounded, UniqueIDs, OneSuccessPerStage,
                CompletedReportsIntact, ReportIntact, SameID

(* A worker taking a job (execute, before the call) keeps the invariant. *)
LEMMA TakeJobStep == ASSUME Inv, TypeOK', TakeJob PROVE Inv'
  <1>a. PICK job : job = Head(jobs)
    OBVIOUS
  <1>b. PICK o : o = Outcome(job, FALSE, FALSE, 0, {})
    OBVIOUS
  <1>0. /\ TypeOK /\ pc \in {"collect", "save"} /\ pc' = pc
        /\ jobs \in Seq(Job) /\ jobs # <<>> /\ outcomes \in Seq(Receipt) /\ running \subseteq Job
        /\ UNCHANGED <<manifest, receiptFiles, m, cursor, failed>>
    BY DEF Inv, TakeJob, TypeOK, Working
  <1>1. /\ job \in Job /\ job = jobs[1] /\ 1 \in DOMAIN jobs
        /\ jobs' = Tail(jobs)
        /\ \A i \in DOMAIN jobs' : jobs'[i] = jobs[i + 1] /\ i + 1 \in DOMAIN jobs /\ i \in Nat
        /\ Len(jobs') = Len(jobs) - 1 /\ Len(jobs) \in Nat
    BY <1>0, <1>a, HeadTail DEF TakeJob
  <1>2. Fresh(job)
    BY <1>0, <1>1 DEF Inv, JobsFresh, Dispatching
  <1>3. /\ \A i, k \in DOMAIN jobs : jobs[i].stage = jobs[k].stage => i = k
        /\ \A i \in DOMAIN jobs, j \in running : jobs[i].stage # j.stage
        /\ \A i \in DOMAIN jobs, k \in DOMAIN outcomes : jobs[i].stage # outcomes[k].stage
    BY <1>0 DEF Inv, JobsDistinct, Dispatching
  <1>4. \A i \in DOMAIN jobs' : jobs'[i].stage # job.stage
    BY <1>1, <1>3
  <1>5. o.stage = job.stage /\ o.gen = job.gen /\ ~o.success
    BY <1>b DEF Outcome
  <1>6. \/ /\ outcomes' = Append(outcomes, o) /\ UNCHANGED <<artifact, running>>
        \/ /\ running' = running \cup {job} /\ outcomes' = outcomes
           /\ \/ artifact' = artifact
              \/ /\ ~Discovery(job.stage)
                 /\ artifact' = [artifact EXCEPT ![job.stage] = [gen |-> job.gen, report |-> {}]]
    BY <1>a, <1>b DEF TakeJob
  <1>7. DiskInv'
    BY <1>0, <1>2, <1>6, ReportsKept
  <1>8. \A x : Fresh(x) => Fresh(x)'
    BY <1>0 DEF Fresh
  <1>9. Finite' /\ NextDurable' /\ CompleteKnown'
    BY <1>0 DEF Inv, Finite, NextDurable, CompleteKnown
  <1>10. JobsFresh'
    BY <1>0, <1>1, <1>8 DEF Inv, JobsFresh, Fresh, Dispatching
  <1>11. CASE outcomes' = Append(outcomes, o) /\ UNCHANGED <<artifact, running>>
    <2>1. /\ DOMAIN outcomes' = 1 .. Len(outcomes) + 1 /\ DOMAIN outcomes = 1 .. Len(outcomes)
          /\ Len(outcomes) \in Nat /\ Len(outcomes') = Len(outcomes) + 1
          /\ \A i \in DOMAIN outcomes : outcomes'[i] = outcomes[i]
          /\ outcomes'[Len(outcomes) + 1] = o
      BY <1>0, <1>11
    <2>2. RunningFresh' /\ OutcomesFresh' /\ HeadRecorded'
      <3>1. Fresh(o)
        BY <1>2, <1>5 DEF Fresh
      <3>2. outcomes # <<>> => outcomes' # <<>> /\ outcomes'[1] = outcomes[1]
        BY <1>0, <2>1
      <3> QED
        BY <1>0, <1>8, <1>11, <2>1, <3>1, <3>2
           DEF Inv, RunningFresh, OutcomesFresh, HeadRecorded, FirstPending, Fresh
    <2>3. JobsDistinct'
      BY <1>0, <1>1, <1>3, <1>4, <1>5, <1>11, <2>1 DEF JobsDistinct
    <2>4. InFlightDistinct'
      BY <1>1, <1>3, <1>5, <1>11, <2>1 DEF Inv, InFlightDistinct
    <2>5. OutcomesIntact'
      BY <1>5, <1>11, <2>1 DEF Inv, OutcomesIntact, ReportIntact
    <2>6. Quiet' /\ Solo'
      <3>1. Quiet'
        BY <1>0 DEF Inv, Quiet, BetweenBatches
      <3>2. Solo'
        BY <1>0, <1>1, <1>3, <1>5, <1>11, <2>1 DEF Inv, Solo
      <3> QED
        BY <3>1, <3>2
    <2> QED
      BY <1>7, <1>9, <1>10, <2>2, <2>3, <2>4, <2>5, <2>6 DEF Inv, DiskInv
  <1>12. CASE /\ running' = running \cup {job} /\ outcomes' = outcomes
              /\ \/ artifact' = artifact
                 \/ /\ ~Discovery(job.stage)
                    /\ artifact' = [artifact EXCEPT ![job.stage] = [gen |-> job.gen, report |-> {}]]
    <2>1. RunningFresh' /\ OutcomesFresh' /\ HeadRecorded'
      BY <1>0, <1>2, <1>8, <1>12 DEF Inv, RunningFresh, OutcomesFresh, HeadRecorded, FirstPending, Fresh
    <2>2. JobsDistinct'
      BY <1>0, <1>1, <1>3, <1>4, <1>12 DEF JobsDistinct
    <2>3. InFlightDistinct'
      BY <1>1, <1>3, <1>12 DEF Inv, InFlightDistinct
    <2>4. OutcomesIntact'
      <3>1. ASSUME NEW i \in DOMAIN outcomes PROVE artifact'[outcomes[i].stage] = artifact[outcomes[i].stage]
        <4>1. outcomes[i].stage # job.stage /\ outcomes[i].stage \in Stage
          BY <1>0, <1>1, <1>3, ReceiptFields
        <4> QED
          BY <1>0, <1>12, <4>1 DEF TypeOK, Artifacts
      <3> QED
        BY <1>12, <3>1 DEF Inv, OutcomesIntact, ReportIntact
    <2>5. Quiet' /\ Solo'
      <3>1. Quiet'
        BY <1>0 DEF Inv, Quiet, BetweenBatches
      <3>2. Solo'
        BY <1>0, <1>1, <1>3, <1>12 DEF Inv, Solo
      <3> QED
        BY <3>1, <3>2
    <2> QED
      BY <1>7, <1>9, <1>10, <2>1, <2>2, <2>3, <2>4, <2>5 DEF Inv, DiskInv
  <1> QED
    BY <1>6, <1>11, <1>12

(* A child's work on a running job's own report.                            *)
LEMMA RecordFindingStep ==
    ASSUME Inv, TypeOK', NEW job \in running, NEW f \in Finding, RecordFinding(job, f)
    PROVE  Inv'
  <1> USE DEF workers
  <1>0. /\ TypeOK /\ artifact \in Artifacts /\ job \in Job /\ Fresh(job)
        /\ UNCHANGED <<manifest, receiptFiles, m, cursor, failed, pc, jobs, running, outcomes>>
    BY DEF Inv, TypeOK, RunningFresh, RecordFinding
  <1>1. \E a : artifact' = [artifact EXCEPT ![job.stage] = a]
    BY <1>0, JobFields DEF RecordFinding, Artifacts
  <1>2. DiskInv'
    BY <1>0, <1>1, ReportsKept
  <1>3. OutcomesIntact'
    <2>1. ASSUME NEW i \in DOMAIN outcomes PROVE artifact'[outcomes[i].stage] = artifact[outcomes[i].stage]
      <3>1. outcomes[i].stage # job.stage /\ outcomes[i].stage \in Stage
        BY <1>0, ReceiptFields DEF Inv, InFlightDistinct, TypeOK
      <3> QED
        BY <1>0, <1>1, <3>1 DEF Artifacts
    <2> QED
      BY <1>0, <2>1 DEF Inv, OutcomesIntact, ReportIntact
  <1>4. Finite' /\ NextDurable' /\ Quiet' /\ Solo' /\ CompleteKnown' /\ HeadRecorded'
    BY <1>0 DEF Inv, Finite, NextDurable, Quiet, Solo, CompleteKnown, HeadRecorded
  <1>5. JobsFresh' /\ JobsDistinct' /\ RunningFresh' /\ OutcomesFresh' /\ InFlightDistinct'
    BY <1>0 DEF Inv, JobsFresh, JobsDistinct, RunningFresh, OutcomesFresh, InFlightDistinct,
           Fresh, FirstPending
  <1> QED
    BY <1>2, <1>3, <1>4, <1>5 DEF Inv, DiskInv

(* A job in a worker's hands becomes an outcome, successful or not.          *)
LEMMA ReturnStep ==
    ASSUME Inv, TypeOK', NEW job \in running, NEW o \in Receipt,
           o.stage = job.stage, o.gen = job.gen,
           running' = running \ {job}, outcomes' = Append(outcomes, o),
           UNCHANGED <<manifest, receiptFiles, m, cursor, failed, pc, jobs>>,
           artifact' = artifact \/ \E a : artifact' = [artifact EXCEPT ![job.stage] = a],
           o.success => ReportIntact(o)'
    PROVE  Inv'
  <1>0. /\ TypeOK /\ artifact \in Artifacts /\ job \in Job /\ Fresh(job) /\ outcomes \in Seq(Receipt)
    BY DEF Inv, TypeOK, RunningFresh
  <1>1. /\ DOMAIN outcomes' = 1 .. Len(outcomes) + 1 /\ DOMAIN outcomes = 1 .. Len(outcomes)
        /\ Len(outcomes) \in Nat /\ Len(outcomes') = Len(outcomes) + 1
        /\ \A i \in DOMAIN outcomes : outcomes'[i] = outcomes[i]
        /\ outcomes'[Len(outcomes) + 1] = o
    BY <1>0
  <1>2. DiskInv'
    BY <1>0, ReportsKept
  <1>3. Fresh(o) /\ \A x : Fresh(x) => Fresh(x)'
    BY <1>0 DEF Fresh
  <1>4. outcomes # <<>> => outcomes' # <<>> /\ outcomes'[1] = outcomes[1]
    BY <1>0, <1>1
  <1>5. Finite' /\ NextDurable' /\ CompleteKnown'
    BY DEF Inv, Finite, NextDurable, CompleteKnown
  <1>6. JobsFresh' /\ RunningFresh' /\ OutcomesFresh' /\ HeadRecorded'
    BY <1>1, <1>3, <1>4 DEF Inv, JobsFresh, RunningFresh, OutcomesFresh, HeadRecorded,
                          FirstPending, Fresh
  <1>7. /\ \A j \in running' : j \in running /\ j.stage # job.stage
        /\ \A k \in DOMAIN outcomes : outcomes[k].stage # job.stage
    BY DEF Inv, InFlightDistinct
  <1>8. JobsDistinct'
    BY <1>1, <1>7 DEF Inv, JobsDistinct
  <1>9. InFlightDistinct'
    BY <1>1, <1>7 DEF Inv, InFlightDistinct
  <1>10. OutcomesIntact'
    <2>1. ASSUME NEW i \in DOMAIN outcomes PROVE artifact'[outcomes[i].stage] = artifact[outcomes[i].stage]
      <3>1. outcomes[i].stage # job.stage /\ outcomes[i].stage \in Stage
        BY <1>0, <1>7, ReceiptFields
      <3> QED
        BY <1>0, <3>1 DEF Artifacts
    <2>2. ASSUME NEW i \in DOMAIN outcomes', outcomes'[i].success PROVE ReportIntact(outcomes[i])'
      <3>1. CASE i \in DOMAIN outcomes
        BY <1>1, <2>1, <2>2, <3>1 DEF Inv, OutcomesIntact, ReportIntact
      <3>2. CASE i = Len(outcomes) + 1
        BY <1>1, <2>2, <3>2 DEF ReportIntact
      <3> QED
        BY <1>1, <3>1, <3>2
    <2> QED
      BY <2>2 DEF OutcomesIntact
  <1>11. Quiet'
    BY <1>0 DEF Inv, Quiet, BetweenBatches
  <1>12. Solo'
    BY <1>0, <1>1 DEF Inv, Solo
  <1> QED
    BY <1>2, <1>5, <1>6, <1>8, <1>9, <1>10, <1>11, <1>12 DEF Inv, DiskInv

(* A child's steps and its return (execute) keep the invariant. *)
LEMMA ChildSteps ==
    ASSUME Inv, TypeOK', Child
    PROVE  Inv'
  <1>0. TypeOK /\ running \subseteq Job
    BY DEF Inv, TypeOK
  <1>1. CASE TakeJob
    BY <1>1, TakeJobStep
  <1>2. ASSUME NEW job \in running, NEW f \in Finding, RecordFinding(job, f) PROVE Inv'
    BY <1>2, RecordFindingStep
  <1>3. ASSUME NEW job \in running, NEW report \in SUBSET Finding, JobSucceeds(job, report)
        PROVE  Inv'
    <2>1. PICK o : o = Outcome(job, TRUE, TRUE, 1, report)
      OBVIOUS
    <2>2. o \in Receipt
      BY <1>0, <2>1, OutcomeType, 1 \in 0 .. 1
    <2>3. o.stage = job.stage /\ o.gen = job.gen /\ o.digest = report
      BY <2>1 DEF Outcome
    <2>4. /\ running' = running \ {job} /\ outcomes' = Append(outcomes, o)
          /\ UNCHANGED <<manifest, receiptFiles, m, cursor, failed, pc, jobs>>
          /\ artifact' = [artifact EXCEPT ![job.stage] = [gen |-> FileGen(job.stage, job.gen), report |-> report]]
      BY <1>3, <2>1 DEF JobSucceeds
    <2>5. ReportIntact(o)'
      <3>1. job.stage \in Stage /\ artifact \in Artifacts
        BY <1>0, JobFields DEF TypeOK
      <3> QED
        BY <2>3, <2>4, <3>1 DEF ReportIntact, Artifacts, FileGen, Discovery
    <2> QED
      BY <2>2, <2>3, <2>4, <2>5, ReturnStep
  <1>4. ASSUME NEW job \in running, NEW cost \in 0 .. 1, JobFails(job, cost) PROVE Inv'
    <2>1. PICK o : o = Outcome(job, TRUE, FALSE, cost, {})
      OBVIOUS
    <2>2. o \in Receipt
      BY <1>0, <2>1, OutcomeType
    <2>3. o.stage = job.stage /\ o.gen = job.gen /\ ~o.success
      BY <2>1 DEF Outcome
    <2>4. /\ running' = running \ {job} /\ outcomes' = Append(outcomes, o)
          /\ UNCHANGED <<manifest, receiptFiles, m, cursor, failed, pc, jobs, artifact>>
      BY <1>4, <2>1 DEF JobFails, disk
    <2> QED
      BY <2>2, <2>3, <2>4, ReturnStep
  <1>5. ASSUME NEW job \in running, ChildOpens(job) PROVE Inv'
    BY <1>5, Unmoved DEF ChildOpens, workers
  <1> QED
    BY <1>1, <1>2, <1>3, <1>4, <1>5 DEF Child

-----------------------------------------------------------------------------
(* Recording an outcome.                                                   *)

(* A pending outcome becomes a receipt without contradicting any other.     *)
LEMMA ReceiptAdded ==
    ASSUME Inv, NEW r \in Receipt, Fresh(r), r.success => ReportIntact(r),
           receiptFiles' \in {receiptFiles, receiptFiles \cup {r}},
           UNCHANGED <<manifest, artifact>>
    PROVE  /\ DiskInv'
           /\ \A x : Fresh(x) /\ x.stage # r.stage => Fresh(x)'
  <1>1. GensBounded' /\ CompletedReportsIntact'
    BY DEF Inv, GensBounded, CompletedReportsIntact, ReportIntact, Fresh
  <1>2. UniqueIDs' /\ OneSuccessPerStage'
    BY DEF Inv, UniqueIDs, OneSuccessPerStage, SameID, Fresh
  <1>3. \A x : Fresh(x) /\ x.stage # r.stage => Fresh(x)'
    BY DEF Fresh
  <1> QED
    BY <1>1, <1>2, <1>3 DEF DiskInv

(* Writing a receipt (record) keeps the invariant, whatever the write does. *)
LEMMA RecordReceiptStep == ASSUME Inv, TypeOK', RecordReceipt PROVE Inv'
  <1>a. PICK r : r = Head(outcomes)
    OBVIOUS
  <1>0. /\ TypeOK /\ pc = "collect" /\ outcomes \in Seq(Receipt) /\ outcomes # <<>>
        /\ m.exists /\ m.next = manifest.next
        /\ UNCHANGED <<manifest, artifact, jobs, running, cursor>>
    BY DEF Inv, RecordReceipt, TypeOK, NextDurable, Live
  <1>1. /\ r \in Receipt /\ r = outcomes[1] /\ 1 \in DOMAIN outcomes
        /\ Len(outcomes) \in Nat /\ Len(outcomes) >= 1
        /\ Tail(outcomes) \in Seq(Receipt) /\ Len(Tail(outcomes)) = Len(outcomes) - 1
        /\ \A i \in DOMAIN Tail(outcomes) : /\ Tail(outcomes)[i] = outcomes[i + 1]
                                            /\ i + 1 \in DOMAIN outcomes /\ i \in Nat /\ i >= 1
    BY <1>0, <1>a, HeadTail
  <1>2. PICK w \in WriteResults :
          /\ receiptFiles' = Written(w, receiptFiles \cup {r}, receiptFiles)
          /\ m' = [m EXCEPT !.receipts = @ \cup {r},
                          !.complete[r.stage] = IF w = "done" /\ r.success THEN r.gen ELSE @]
          /\ pc' = CASE w = "done" -> "save"
                     [] w # "done" /\ Discovery(r.stage) -> "collect"
                     [] OTHER -> "stopped"
          /\ failed' = (failed \/ w # "done")
          /\ outcomes' = IF w = "done" THEN outcomes ELSE Tail(outcomes)
    BY <1>a DEF RecordReceipt
  <1>3. Fresh(r) /\ (r.success => ReportIntact(r))
    BY <1>0, <1>1 DEF Inv, OutcomesFresh, FirstPending, OutcomesIntact
  <1>4. /\ receiptFiles' \in {receiptFiles, receiptFiles \cup {r}}
        /\ w = "done" => receiptFiles' = receiptFiles \cup {r}
    BY <1>2 DEF Written
  <1>5. /\ DiskInv'
        /\ \A x : Fresh(x) /\ x.stage # r.stage => Fresh(x)'
    BY <1>0, <1>1, <1>3, <1>4, ReceiptAdded
  <1>6. /\ m \in Manifest /\ r.stage \in Stage /\ r.gen \in Nat
        /\ m'.exists /\ m'.next = m.next /\ m'.receipts = m.receipts \cup {r}
    BY <1>0, <1>1, <1>2, ReceiptFields DEF TypeOK, Manifest
  <1>7. /\ \A s \in Stage : s # r.stage => m'.complete[s] = m.complete[s]
        /\ m'.complete[r.stage] = IF w = "done" /\ r.success THEN r.gen ELSE m.complete[r.stage]
    BY <1>2, <1>6 DEF Manifest
  <1>8. NextDurable' /\ Finite'
    <2>1. NextDurable'
      BY <1>0, <1>6 DEF Inv, NextDurable
    <2>2. IsFiniteSet(m.receipts \cup {r}) /\ IsFiniteSet(receiptFiles \cup {r})
      BY FS_AddElement DEF Inv, Finite
    <2> QED
      BY <1>0, <1>4, <1>6, <2>1, <2>2 DEF Inv, Finite
  <1>9. /\ \A i \in DOMAIN jobs : jobs[i].stage # r.stage
        /\ \A j \in running : j.stage # r.stage
        /\ \A i \in DOMAIN outcomes : i # 1 => outcomes[i].stage # r.stage
    BY <1>0, <1>1 DEF Inv, JobsDistinct, InFlightDistinct, Dispatching
  <1>10. JobsFresh' /\ RunningFresh'
    <2>1. \A i \in DOMAIN jobs : Fresh(jobs[i])
      BY <1>0 DEF Inv, JobsFresh, Dispatching
    <2>2. ASSUME NEW i \in DOMAIN jobs PROVE Fresh(jobs[i])'
      BY <1>0, <1>5, <1>9, <2>1 DEF Fresh
    <2>3. \A j \in running : Fresh(j)'
      BY <1>5, <1>9 DEF Inv, RunningFresh
    <2> QED
      BY <1>0, <2>2, <2>3 DEF JobsFresh, RunningFresh, Fresh
  <1>11. CompleteKnown'
    <2> SUFFICES ASSUME ~failed', NEW q \in receiptFiles', q.success
                 PROVE  m'.complete[q.stage] # None
      BY DEF CompleteKnown
    <2>1. w = "done" /\ ~failed
      BY <1>2
    <2>2. CASE q = r
      BY <1>6, <1>7, <2>1, <2>2 DEF None
    <2>3. CASE q \in receiptFiles
      <3>1. m.complete[q.stage] # None /\ q.stage # r.stage /\ q.stage \in Stage
        BY <1>0, <1>3, <2>1, <2>3, ReceiptFields DEF Inv, CompleteKnown, Live, Fresh, TypeOK
      <3> QED
        BY <1>7, <3>1
    <2> QED
      BY <1>4, <2>2, <2>3
  <1>12. CASE w = "done"
    <2>1. pc' = "save" /\ outcomes' = outcomes /\ outcomes[1] \in receiptFiles'
      BY <1>1, <1>2, <1>4, <1>12
    <2>2. OutcomesFresh'
      <3>1. ASSUME NEW i \in DOMAIN outcomes, i >= 2 PROVE Fresh(outcomes[i])'
        <4>1. Fresh(outcomes[i]) /\ outcomes[i].stage # r.stage
          BY <1>0, <1>9, <3>1 DEF Inv, OutcomesFresh, FirstPending
        <4> QED
          BY <1>5, <2>1, <4>1 DEF Fresh
      <3> QED
        BY <2>1, <3>1 DEF OutcomesFresh, FirstPending, Fresh
    <2>3. HeadRecorded' /\ InFlightDistinct' /\ OutcomesIntact'
      BY <1>0, <2>1 DEF Inv, HeadRecorded, InFlightDistinct, OutcomesIntact, ReportIntact
    <2>4. JobsDistinct'
      BY <1>0, <2>1 DEF Inv, JobsDistinct, Dispatching
    <2>5. Quiet' /\ Solo'
      BY <1>0, <2>1 DEF Inv, Quiet, Solo, BetweenBatches
    <2> QED
      BY <1>5, <1>8, <1>10, <1>11, <2>2, <2>3, <2>4, <2>5 DEF Inv, DiskInv
  <1>13. CASE w # "done"
    <2>1. /\ pc' \in {"collect", "stopped"} /\ outcomes' = Tail(outcomes)
          /\ DOMAIN outcomes' = 1 .. Len(outcomes) - 1 /\ DOMAIN outcomes = 1 .. Len(outcomes)
      BY <1>0, <1>1, <1>2, <1>13
    <2>2. OutcomesFresh'
      <3>1. ASSUME NEW i \in DOMAIN outcomes' PROVE Fresh(outcomes[i])'
        <4>1. PICK x : x = outcomes'[i]
          OBVIOUS
        <4>2. Fresh(x) /\ x.stage # r.stage
          BY <1>0, <1>1, <1>9, <2>1, <4>1 DEF Inv, OutcomesFresh, FirstPending
        <4> QED
          BY <1>5, <4>1, <4>2 DEF Fresh
      <3> QED
        BY <3>1 DEF OutcomesFresh
    <2>3. HeadRecorded' /\ InFlightDistinct' /\ OutcomesIntact'
      <3>1. InFlightDistinct'
        BY <1>0, <1>1, <2>1 DEF Inv, InFlightDistinct
      <3>2. OutcomesIntact'
        BY <1>0, <1>1, <2>1 DEF Inv, OutcomesIntact, ReportIntact
      <3> QED
        BY <2>1, <3>1, <3>2 DEF HeadRecorded
    <2>4. JobsDistinct'
      BY <1>0, <1>1, <2>1 DEF Inv, JobsDistinct, Dispatching
    <2>5. Quiet'
      BY <1>0, <2>1 DEF Inv, Quiet, BetweenBatches
    <2>6. Solo'
      <3>1. \A i \in DOMAIN outcomes' : Discovery(outcomes'[i].stage)
        BY <1>1, <2>1 DEF Inv, Solo
      <3>2. ~Discovery(r.stage) => outcomes' = <<>>
        BY <1>0, <1>1, <2>1 DEF Inv, Solo
      <3>3. \A i \in DOMAIN jobs : Discovery(jobs[i].stage)
        BY <1>0 DEF Inv, Solo
      <3>4. \A j \in running : Discovery(j.stage)
        BY <1>0 DEF Inv, Solo
      <3> QED
        BY <1>0, <3>1, <3>3, <3>4 DEF Solo
    <2> QED
      BY <1>5, <1>8, <1>10, <1>11, <2>2, <2>3, <2>4, <2>5, <2>6 DEF Inv, DiskInv
  <1> QED
    BY <1>12, <1>13

(* Saving the manifest after a receipt (record, save) keeps the invariant. *)
LEMMA RecordSaveStep == ASSUME Inv, TypeOK', RecordSave PROVE Inv'
  <1>a. PICK r : r = Head(outcomes)
    OBVIOUS
  <1>0. /\ TypeOK /\ pc = "save" /\ outcomes \in Seq(Receipt) /\ outcomes # <<>>
        /\ m.exists /\ m.next = manifest.next
        /\ UNCHANGED <<receiptFiles, artifact, m, jobs, running>>
        /\ outcomes' = Tail(outcomes)
    BY DEF Inv, RecordSave, HeadRecorded, TypeOK, NextDurable, Live
  <1>1. /\ r \in Receipt /\ r = outcomes[1] /\ 1 \in DOMAIN outcomes
        /\ Len(outcomes) \in Nat /\ Len(outcomes) >= 1
        /\ DOMAIN outcomes' = 1 .. Len(outcomes) - 1 /\ DOMAIN outcomes = 1 .. Len(outcomes)
        /\ \A i \in DOMAIN outcomes' : /\ outcomes'[i] = outcomes[i + 1]
                                       /\ i + 1 \in DOMAIN outcomes /\ i \in Nat /\ i + 1 >= 2
    BY <1>0, <1>a, HeadTail
  <1>2. manifest' \in {m, manifest}
    BY <1>0, SaveResult DEF RecordSave, Save
  <1>3. /\ pc' \in {"collect", "stopped", "verify"}
        /\ ~failed' => ~failed
        /\ pc' = "verify" => ~Discovery(r.stage) /\ ~failed' /\ cursor'.phase = cursor.phase
        /\ pc' # "verify" => cursor' = cursor
    BY <1>0, <1>a DEF RecordSave, TypeOK, Cursor
  <1>4. Grown
    BY <1>0, <1>2 DEF Grown, TypeOK, Manifest
  <1>5. /\ DiskInv'
        /\ \A x \in Job \cup Receipt : Fresh(x) => Fresh(x)'
    BY <1>0, <1>4, SaveFrame
  <1>6. NextDurable' /\ Finite' /\ HeadRecorded' /\ CompleteKnown'
    BY <1>0, <1>2, <1>3 DEF Inv, NextDurable, Finite, HeadRecorded, CompleteKnown, Live
  <1>7. JobsFresh' /\ RunningFresh'
    <2>1. ASSUME NEW i \in DOMAIN jobs PROVE Fresh(jobs[i])'
      <3>1. PICK x : x = jobs[i]
        OBVIOUS
      <3>2. x \in Job /\ Fresh(x)
        BY <1>0, <3>1 DEF Inv, TypeOK, JobsFresh, Dispatching
      <3> QED
        BY <1>0, <1>5, <3>1, <3>2 DEF Fresh
    <2>2. \A j \in running : Fresh(j)'
      BY <1>0, <1>5 DEF Inv, TypeOK, RunningFresh
    <2> QED
      BY <1>0, <2>1, <2>2 DEF JobsFresh, RunningFresh, Fresh
  <1>8. OutcomesFresh'
    <2>1. ASSUME NEW i \in DOMAIN outcomes' PROVE Fresh(outcomes[i])'
      <3>1. PICK x : x = outcomes'[i]
        OBVIOUS
      <3>2. x \in Receipt /\ Fresh(x)
        BY <1>0, <1>1, <3>1 DEF Inv, OutcomesFresh, FirstPending
      <3> QED
        BY <1>5, <3>1, <3>2 DEF Fresh
    <2> QED
      BY <2>1 DEF OutcomesFresh
  <1>9. JobsDistinct'
    BY <1>0, <1>1 DEF Inv, JobsDistinct, Dispatching
  <1>10. InFlightDistinct'
    BY <1>0, <1>1 DEF Inv, InFlightDistinct
  <1>11. OutcomesIntact'
    BY <1>0, <1>1 DEF Inv, OutcomesIntact, ReportIntact
  <1>12. \/ /\ ~Discovery(r.stage) /\ outcomes' = <<>> /\ jobs = <<>> /\ running = {}
            /\ cursor.phase = r.stage[1]
         \/ Discovery(r.stage)
    BY <1>0, <1>1 DEF Inv, Solo
  <1>13. Quiet'
    <2>1. pc' = "verify" => cursor'.phase \in BatchPhase
      BY <1>1, <1>3, <1>12, ReceiptFields, StageShape
    <2> QED
      BY <1>0, <1>3, <1>12, <2>1 DEF Quiet, BetweenBatches
  <1>14. Solo'
    <2>1. /\ \A i \in DOMAIN outcomes' : Discovery(outcomes'[i].stage)
          /\ \A i \in DOMAIN jobs : Discovery(jobs[i].stage)
          /\ \A j \in running : Discovery(j.stage)
      BY <1>0, <1>1 DEF Inv, Solo
    <2> QED
      BY <1>0, <2>1 DEF Solo
  <1> QED
    BY <1>5, <1>6, <1>7, <1>8, <1>9, <1>10, <1>11, <1>13, <1>14 DEF Inv, DiskInv

-----------------------------------------------------------------------------
(* The theorems.                                                           *)

(* Every step keeps the invariant. *)
LEMMA InvStep == ASSUME Inv, [Next]_vars PROVE Inv'
  <1>0. TypeOK'
    BY TypeStep
  <1>1. CASE Invoke \/ Return \/ Crash \/ Cancel \/ OpenMismatch
    BY <1>0, <1>1, CallerSteps
  <1>2. CASE Coordinator
    BY <1>0, <1>2, OpenStep, RecoverStep, AllocateTaskStep, RunBatchStep, RecordReceiptStep,
       RecordSaveStep, PlaceSteps DEF Coordinator
  <1>3. CASE Child
    BY <1>0, <1>3, ChildSteps
  <1>4. CASE UNCHANGED vars
    BY <1>0, <1>4, Unmoved DEF vars
  <1>5. CASE Terminated
    BY <1>4, <1>5 DEF Terminated
  <1> QED
    BY <1>1, <1>2, <1>3, <1>4, <1>5 DEF Next

(* The inductive invariant holds in every reachable state: the argument all
   theorems below rest on (recovery, allocation and recording in Planned.Run). *)
THEOREM Invariance == Spec => []Inv
  <1>1. Inv /\ [Next]_vars => Inv'
    BY InvStep
  <1> QED
    BY InitInv, <1>1, PTL DEF Spec

(* Every variable keeps its type, for every plan and any number of mishaps. *)
THEOREM TypeCorrect == Spec => []TypeOK
  <1>1. Inv => TypeOK
    BY DEF Inv
  <1> QED
    BY Invariance, <1>1, PTL

(* No crash, cancellation, failed child or failed write makes a completed   *)
(* task or batch run to success again (planned.go, Run: recovery of receipts, *)
(* allocate, record).                                                       *)
THEOREM CompletedOnce == Spec => []OneSuccessPerStage
  <1>1. Inv => OneSuccessPerStage
    BY DEF Inv
  <1> QED
    BY Invariance, <1>1, PTL

(* The report behind a successful receipt is the one it digests, whatever    *)
(* later attempts write: plannedCheckReceipt never rejects it.              *)
THEOREM ReportsIntact == Spec => []CompletedReportsIntact
  <1>1. Inv => CompletedReportsIntact
    BY DEF Inv
  <1> QED
    BY Invariance, <1>1, PTL

(* No step loses a receipt or writes a second one with the same stage and    *)
(* generation.                                                              *)
THEOREM ReceiptsKept == Spec => ReceiptsImmutable
  <1>1. ASSUME Inv, Inv', [Next]_vars
        PROVE  [/\ receiptFiles \subseteq receiptFiles'
                /\ \A r, q \in receiptFiles' : SameID(r, q) => r = q]_receiptFiles
    <2>1. UniqueIDs'
      BY <1>1 DEF Inv
    <2>2. CASE RecordReceipt
      <3>1. receiptFiles \subseteq receiptFiles'
        BY <2>2 DEF RecordReceipt, Written
      <3> QED
        BY <2>1, <3>1 DEF UniqueIDs, SameID
    <2>3. CASE UNCHANGED receiptFiles
      BY <2>3
    <2>4. RecordReceipt \/ UNCHANGED receiptFiles
      BY <1>1 DEF Next, Coordinator, Child, Invoke, Return, Crash, Cancel, OpenMismatch, Open,
         Recover, AllocateTask, StartWorkers, RecordSave, Collected, SkipBatch, ReuseBatch,
         RunBatch, NextPhase, Publish, TakeJob, ChildOpens, RecordFinding, JobSucceeds,
         JobFails, Terminated, vars, disk
    <2> QED
      BY <2>2, <2>3, <2>4
  <1> QED
    BY Invariance, <1>1, PTL DEF Spec, ReceiptsImmutable
=============================================================================
