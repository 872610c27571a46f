--------------------------- MODULE PlannedResume ---------------------------
(***************************************************************************)
(* Proofs about Planned: what resumption computes again, what is published, *)
(* and what the caller is charged. They rest on the invariant of            *)
(* PlannedProofs.                                                           *)
(***************************************************************************)
EXTENDS PlannedProofs

-----------------------------------------------------------------------------
(* Every task, or every batch of a phase, is done.                          *)
TasksDone == \A t \in Task : Succeeded(TaskStage(t)) # {}
BatchDone(p, S, b) == Skipped(p, S, b) \/ Succeeded(<<p, b>>) # {}
PhaseDone(p) == \A b \in DOMAIN Batching[p][Items[p]] : BatchDone(p, Items[p], b)
DoneBefore(p) == TasksDone /\ \A q \in BatchPhase : q < p => PhaseDone(q)

-----------------------------------------------------------------------------
(* The invariant.                                                          *)

(* A batch succeeds only after all phases before it, on the candidates they *)
(* determine, with an output that is valid for them.                        *)
InOrder(r) ==
    LET p == r.stage[1]
        b == r.stage[2]
    IN /\ DoneBefore(p)
       /\ b \in DOMAIN Batching[p][Items[p]] /\ ~Skipped(p, Items[p], b)
       /\ r.dep = Batching[p][Items[p]][b]
       /\ ValidOutput(r.stage, r.dep, r.dep \cap Prior, r.digest)
ReceiptsInOrder == \A r \in receiptFiles : r.success /\ ~Discovery(r.stage) => InOrder(r)

(* The coordinator's place is the one that the receipts determine.          *)
Before == {b \in DOMAIN Batches : b < cursor.at}
Rounds == \A q \in 2 .. cursor.phase : Cardinality(Items[q]) > 1
Verifying == pc \in {"verify", "publish"} \/ (pc \in {"collect", "save"} /\ cursor.phase # 0)
PlaceDetermined ==
    /\ pc \in {"off", "start", "resume", "recover", "allocate"} => cursor.phase = 0
    /\ Verifying =>
        /\ cursor.phase \in BatchPhase /\ DoneBefore(cursor.phase)
        /\ cursor.items = Items[cursor.phase] /\ Rounds
        /\ \A b \in Before : BatchDone(cursor.phase, cursor.items, b)
        /\ cursor.out = Results(cursor.phase, cursor.items, Before)
        /\ pc = "publish" => ~(cursor.at <= Len(Batches)) /\ ~AnotherRound

(* A batch in flight is the batch of that place.                            *)
Current(x) == x.stage = BatchStage /\ cursor.at \in DOMAIN Batches /\ ~Single
CurrentJob(j) == Current(j) /\ j.items = Batch /\ j.keep = Batch \cap Prior
InFlightCurrent ==
    /\ \A i \in DOMAIN jobs : ~Discovery(jobs[i].stage) => CurrentJob(jobs[i])
    /\ \A j \in running : ~Discovery(j.stage) => CurrentJob(j)
    /\ \A i \in DOMAIN outcomes : ~Discovery(outcomes[i].stage) =>
          /\ Current(outcomes[i])
          /\ outcomes[i].success =>
                /\ outcomes[i].dep = Batch
                /\ ValidOutput(BatchStage, Batch, Batch \cap Prior, outcomes[i].digest)

(* What was public at first stays the manifest's, and stays public.          *)
PriorKept ==
    /\ manifest.exists => manifest.prior = Prior
    /\ pc \in Live => manifest.exists /\ m.prior = Prior
    /\ ~manifest.exists => public.findings = Prior /\ ~public.summary

(* A manifest calls a stage complete for a receipt; until a record fails,    *)
(* it has every receipt.                                                    *)
Backed(man) ==
    \A s \in Stage : man.complete[s] # None =>
        \E r \in receiptFiles : r.stage = s /\ r.success /\ r.gen = man.complete[s]
LedgerComplete ==
    (pc \in Live \ {"recover"} /\ ~failed) \/ pc = "published" => m.receipts = receiptFiles

(* The report is published when the last phase, and all before it, is done;  *)
(* it is what that phase left.                                              *)
LastDone(p) == LastPhase(p) /\ DoneBefore(p) /\ PhaseDone(p)
Published ==
    public.summary => /\ TasksDone /\ PhaseDone(1)
                      /\ Prior \subseteq public.findings
                      /\ public.findings \subseteq Confirmed \cap Candidates
                      /\ \E p \in BatchPhase : LastDone(p) /\ public.findings = OutOf(p, Items[p])

ResumeInv ==
    /\ ReceiptsInOrder /\ PlaceDetermined /\ InFlightCurrent
    /\ PriorKept /\ Backed(manifest) /\ Backed(m) /\ LedgerComplete /\ Published

(* While writes do not fail: no receipt is without its file, what the caller *)
(* counted is in files, and what children returned is there or in flight.   *)
FilesComplete == manifest.receipts \subseteq receiptFiles /\ m.receipts \subseteq receiptFiles
CallerCovered == root.cost <= PlannedCost(receiptFiles)
SpendTracked ==
    /\ spend = PlannedCost(receiptFiles) + Unrecorded
    /\ pc \notin {"collect", "save"} => running = {} /\ outcomes = <<>>
    /\ root.complete => pc = "off" /\ root.cost = spend
LedgerInv == FilesComplete /\ CallerCovered /\ SpendTracked

-----------------------------------------------------------------------------
(* Batches and results.                                                    *)

LEMMA Phases == BatchPhase = {1, 2, 3, 4} /\ 0 \notin BatchPhase
  BY DEF BatchPhase

LEMMA BatchesShape ==
    ASSUME NEW p \in BatchPhase, NEW S \in SUBSET Finding
    PROVE  /\ DOMAIN Batching[p][S] = 1 .. Len(Batching[p][S])
           /\ Len(Batching[p][S]) \in Nat /\ Len(Batching[p][S]) \in 1 .. MaxBatch
           /\ \A b \in DOMAIN Batching[p][S] : Batching[p][S][b] \subseteq S
           /\ \A b \in DOMAIN Batching[p][S] : b \in 1 .. MaxBatch
  <1>1. /\ Batching[p][S] \in Seq(SUBSET Finding) /\ Len(Batching[p][S]) \in 1 .. MaxBatch
        /\ UNION {Batching[p][S][b] : b \in DOMAIN Batching[p][S]} = S
    BY BatchingAssumption
  <1>2. DOMAIN Batching[p][S] = 1 .. Len(Batching[p][S]) /\ MaxBatch \in Nat
    BY <1>1, PlanAssumption
  <1>3. Len(Batching[p][S]) \in Nat /\ \A b \in 1 .. Len(Batching[p][S]) : b \in 1 .. MaxBatch
    BY <1>1, <1>2
  <1>4. \A b \in DOMAIN Batching[p][S] : Batching[p][S][b] \subseteq S
    <2> DEFINE parts == {Batching[p][S][b] : b \in DOMAIN Batching[p][S]}
    <2>1. \A b \in DOMAIN Batching[p][S] : Batching[p][S][b] \in parts
      OBVIOUS
    <2>2. UNION parts = S
      BY <1>1
    <2> HIDE DEF parts
    <2> QED
      BY <2>1, <2>2
  <1> QED
    BY <1>1, <1>2, <1>3, <1>4

LEMMA ItemsAre ==
    /\ Items[1] = Candidates /\ Items[2] = OutOf(1, Items[1])
    /\ Items[3] = OutOf(2, Items[2]) /\ Items[4] = OutOf(3, Items[3])
  BY DEF Items, Items2, Items3, Items4

LEMMA CandidatesType == ASSUME TypeOK PROVE Candidates \in SUBSET Finding /\ Prior \subseteq Candidates
  <1>1. \A r \in receiptFiles : r.digest \subseteq Finding
    BY ReceiptFields DEF TypeOK
  <1> QED
    BY <1>1, PlanAssumption DEF Candidates

LEMMA ResultType ==
    ASSUME TypeOK, NEW p \in BatchPhase, NEW S \in SUBSET Finding, NEW b \in DOMAIN Batching[p][S]
    PROVE  Result(p, S, b) \in SUBSET Finding
  <1>1. Batching[p][S][b] \subseteq Finding
    BY BatchesShape
  <1>2. \A r \in Succeeded(<<p, b>>) : r.digest \subseteq Finding
    BY ReceiptFields DEF TypeOK, Succeeded
  <1> QED
    BY <1>1, <1>2 DEF Result

LEMMA OutType ==
    ASSUME TypeOK, NEW p \in BatchPhase, NEW S \in SUBSET Finding
    PROVE  OutOf(p, S) \in SUBSET Finding
  BY ResultType DEF OutOf, Results

LEMMA ItemsType == ASSUME TypeOK PROVE \A p \in BatchPhase : Items[p] \in SUBSET Finding
  <1>1. Items[1] \in SUBSET Finding
    BY CandidatesType, ItemsAre
  <1>2. Items[2] \in SUBSET Finding
    BY <1>1, OutType, ItemsAre, Phases
  <1>3. Items[3] \in SUBSET Finding
    BY <1>2, OutType, ItemsAre, Phases
  <1>4. Items[4] \in SUBSET Finding
    BY <1>3, OutType, ItemsAre, Phases
  <1> QED
    BY <1>1, <1>2, <1>3, <1>4, Phases

(* The only successful receipt of a stage is its result.                    *)
LEMMA ResultOfReceipt ==
    ASSUME OneSuccessPerStage, NEW r \in receiptFiles, r.success,
           NEW p, NEW b, NEW S, r.stage = <<p, b>>, ~Skipped(p, S, b)
    PROVE  Result(p, S, b) = r.digest
  <1>1. Succeeded(<<p, b>>) = {r}
    BY DEF OneSuccessPerStage, Succeeded
  <1> QED
    BY <1>1 DEF Result

(* A batch that was done in order results in some of its candidates.        *)
LEMMA ResultWithin ==
    ASSUME ReceiptsInOrder, TypeOK, NEW p \in BatchPhase, NEW b \in DOMAIN Batching[p][Items[p]]
    PROVE  Result(p, Items[p], b) \subseteq Batching[p][Items[p]][b]
  <1>1. ASSUME NEW r \in Succeeded(<<p, b>>) PROVE r.digest \subseteq Batching[p][Items[p]][b]
    <2>1. r \in receiptFiles /\ r.success /\ r.stage = <<p, b>> /\ ~Discovery(r.stage)
      BY Phases DEF Succeeded, Discovery
    <2>2. InOrder(r) /\ r.stage[1] = p /\ r.stage[2] = b
      BY <2>1 DEF ReceiptsInOrder
    <2> QED
      BY <2>2 DEF InOrder, ValidOutput
  <1> QED
    BY <1>1 DEF Result

LEMMA OutWithin ==
    ASSUME ReceiptsInOrder, TypeOK, NEW p \in BatchPhase, NEW bs, bs \subseteq DOMAIN Batching[p][Items[p]]
    PROVE  /\ Results(p, Items[p], bs) \subseteq Items[p]
           /\ p = 1 => Results(p, Items[p], bs) \subseteq Confirmed
  <1>1. Items[p] \in SUBSET Finding
    BY ItemsType
  <1>2. ASSUME NEW b \in bs PROVE Result(p, Items[p], b) \subseteq Items[p]
    BY <1>1, ResultWithin, BatchesShape
  <1>3. ASSUME NEW b \in bs, p = 1 PROVE Result(p, Items[p], b) \subseteq Confirmed
    <2>1. Result(p, Items[p], b) = UNION {r.digest : r \in Succeeded(<<1, b>>)}
      BY <1>3 DEF Result, Skipped
    <2>2. \A r \in Succeeded(<<1, b>>) : r \in receiptFiles /\ r.success /\ r.stage[1] = 1
      BY DEF Succeeded
    <2> QED
      BY <2>1, <2>2 DEF Confirmed
  <1> QED
    BY <1>2, <1>3 DEF Results

(* The candidates of the rounds shrink; those after verification are         *)
(* confirmed.                                                               *)
LEMMA ItemsWithin ==
    ASSUME ReceiptsInOrder, TypeOK, NEW p \in BatchPhase
    PROVE  Items[p] \subseteq Candidates /\ (p # 1 => Items[p] \subseteq Confirmed)
  <1>1. \A q \in BatchPhase : OutOf(q, Items[q]) \subseteq Items[q]
    BY OutWithin DEF OutOf
  <1>2. OutOf(1, Items[1]) \subseteq Confirmed
    BY OutWithin, Phases DEF OutOf
  <1> QED
    BY <1>1, <1>2, ItemsAre, Phases

-----------------------------------------------------------------------------
(* Steps that record nothing.                                              *)

USE DEF disk, workers

(* All that is determined by the receipts stays while no success is added.  *)
LEMMA SameResults ==
    ASSUME \A s : Succeeded(s)' = Succeeded(s), Candidates' = Candidates
    PROVE  /\ Items' = Items /\ TasksDone' = TasksDone
           /\ \A p : PhaseDone(p)' = PhaseDone(p) /\ DoneBefore(p)' = DoneBefore(p)
           /\ \A p, S, b : BatchDone(p, S, b)' = BatchDone(p, S, b)
           /\ \A p, S, bs : Results(p, S, bs)' = Results(p, S, bs)
           /\ \A p : LastDone(p)' = LastDone(p) /\ OutOf(p, Items[p])' = OutOf(p, Items[p])
  <1>1. \A p, S, bs : Results(p, S, bs)' = Results(p, S, bs)
    BY DEF Results, Result, Skipped
  <1>2. Items' = Items
    BY <1>1 DEF Items, Items2, Items3, Items4, OutOf
  <1>3. TasksDone' = TasksDone
    BY DEF TasksDone
  <1>4. \A p, S, b : BatchDone(p, S, b)' = BatchDone(p, S, b)
    BY DEF BatchDone, Skipped
  <1>5. \A p : PhaseDone(p)' = PhaseDone(p)
    BY <1>2 DEF PhaseDone, BatchDone, Skipped
  <1>6. \A p : DoneBefore(p)' = DoneBefore(p)
    BY <1>3, <1>5 DEF DoneBefore
  <1>7. \A p : OutOf(p, Items[p])' = OutOf(p, Items[p])
    BY <1>1, <1>2 DEF OutOf
  <1>8. \A p : LastPhase(p)' = LastPhase(p)
    BY <1>2, <1>7 DEF LastPhase
  <1>9. \A p : LastDone(p)' = LastDone(p)
    BY <1>5, <1>6, <1>8 DEF LastDone
  <1> QED
    BY <1>1, <1>2, <1>3, <1>4, <1>5, <1>6, <1>7, <1>9

LEMMA FilesFrame ==
    ASSUME UNCHANGED receiptFiles
    PROVE  /\ Candidates' = Candidates /\ Confirmed' = Confirmed /\ Items' = Items
           /\ TasksDone' = TasksDone
           /\ \A p : PhaseDone(p)' = PhaseDone(p) /\ DoneBefore(p)' = DoneBefore(p)
           /\ \A p, S, b : BatchDone(p, S, b)' = BatchDone(p, S, b)
           /\ \A p, S, bs : Results(p, S, bs)' = Results(p, S, bs)
           /\ \A p : LastDone(p)' = LastDone(p) /\ OutOf(p, Items[p])' = OutOf(p, Items[p])
  <1>1. \A s : Succeeded(s)' = Succeeded(s)
    BY DEF Succeeded
  <1>2. Candidates' = Candidates /\ Confirmed' = Confirmed
    BY DEF Candidates, Confirmed
  <1> QED
    BY <1>1, <1>2, SameResults

LEMMA OrderFrame == ASSUME ReceiptsInOrder, UNCHANGED receiptFiles PROVE ReceiptsInOrder'
  <1>1. \A r : InOrder(r)' = InOrder(r)
    BY FilesFrame DEF InOrder, ValidOutput, Skipped
  <1> QED
    BY <1>1 DEF ReceiptsInOrder

LEMMA PublicFrame == ASSUME Published, UNCHANGED <<receiptFiles, public>> PROVE Published'
  BY FilesFrame DEF Published

LEMMA PlaceFrame ==
    ASSUME PlaceDetermined, UNCHANGED <<receiptFiles, cursor>>,
           Verifying' => Verifying, pc' = "publish" => pc = "publish",
           pc' \in {"off", "start", "resume", "recover", "allocate"} => cursor.phase = 0
    PROVE  PlaceDetermined'
  <1>1. Batches' = Batches /\ Before' = Before
    BY DEF Batches, Before
  <1>2. /\ DoneBefore(cursor.phase)' = DoneBefore(cursor.phase) /\ Items' = Items
        /\ \A b : BatchDone(cursor.phase, cursor.items, b)' = BatchDone(cursor.phase, cursor.items, b)
        /\ Results(cursor.phase, cursor.items, Before)' = Results(cursor.phase, cursor.items, Before)
    BY <1>1, FilesFrame
  <1>3. Rounds' = Rounds /\ AnotherRound' = AnotherRound
    BY <1>2 DEF Rounds, AnotherRound
  <1> QED
    BY <1>1, <1>2, <1>3 DEF PlaceDetermined

LEMMA CurrentFrame ==
    ASSUME UNCHANGED cursor
    PROVE  /\ Batch' = Batch /\ BatchStage' = BatchStage
           /\ \A x : Current(x)' = Current(x) /\ CurrentJob(x)' = CurrentJob(x)
  BY DEF Batch, Batches, BatchStage, Current, CurrentJob, Single

LEMMA FlightFrame ==
    ASSUME InFlightCurrent, UNCHANGED <<cursor, workers>>
    PROVE  InFlightCurrent'
  BY CurrentFrame DEF InFlightCurrent, ValidOutput

(* The end of an invocation leaves nothing in flight and nothing in memory.  *)
LEMMA EndResume ==
    ASSUME ResumeInv, Stopped, UNCHANGED <<manifest, receiptFiles, public>>
    PROVE  ResumeInv'
  <1>1. pc' = "off" /\ m' = NoManifest /\ cursor' = NoCursor /\ jobs' = <<>> /\ running' = {} /\ outcomes' = <<>>
    BY DEF Stopped
  <1>2. ReceiptsInOrder' /\ Published'
    BY OrderFrame, PublicFrame DEF ResumeInv
  <1>3. PlaceDetermined'
    BY <1>1 DEF PlaceDetermined, Verifying, NoCursor
  <1>4. InFlightCurrent'
    BY <1>1 DEF InFlightCurrent
  <1>5. PriorKept' /\ LedgerComplete'
    BY <1>1 DEF ResumeInv, PriorKept, LedgerComplete, Live
  <1>6. Backed(manifest)' /\ Backed(m)'
    BY <1>1 DEF ResumeInv, Backed, NoManifest
  <1> QED
    BY <1>2, <1>3, <1>4, <1>5, <1>6 DEF ResumeInv

(* A step that leaves the files, the place and the manifest alone.          *)
LEMMA QuietResume ==
    ASSUME ResumeInv, InFlightCurrent',
           UNCHANGED <<manifest, receiptFiles, public, m, cursor, failed>>,
           pc' = pc \/ pc' \in {"start", "resume", "refused", "stopped"} \/ (pc = "allocate" /\ pc' = "collect"),
           pc' \in {"start", "resume"} => pc = "off" \/ pc' = pc
    PROVE  ResumeInv'
  <1>1. ReceiptsInOrder' /\ Published'
    BY OrderFrame, PublicFrame DEF ResumeInv
  <1>2. PlaceDetermined'
    BY PlaceFrame DEF ResumeInv, PlaceDetermined, Verifying
  <1>3. PriorKept' /\ LedgerComplete'
    BY DEF ResumeInv, PriorKept, LedgerComplete, Live
  <1>4. Backed(manifest)' /\ Backed(m)'
    BY DEF ResumeInv, Backed
  <1> QED
    BY <1>1, <1>2, <1>3, <1>4 DEF ResumeInv

LEMMA CallerResume ==
    ASSUME ResumeInv, Invoke \/ Return \/ Crash \/ Cancel \/ OpenMismatch \/ StartWorkers
    PROVE  ResumeInv'
  <1>1. CASE Return \/ Crash
    BY <1>1, EndResume DEF Return, Crash
  <1>2. CASE Invoke \/ Cancel \/ OpenMismatch \/ StartWorkers
    <2>1. InFlightCurrent'
      BY <1>2, FlightFrame DEF ResumeInv, Invoke, Cancel, OpenMismatch, StartWorkers
    <2>2. /\ UNCHANGED <<manifest, receiptFiles, public, m, cursor, failed>>
          /\ pc' \in {"start", "resume"} => pc = "off" \/ pc' = pc
          /\ pc' = pc \/ pc' \in {"start", "resume", "refused"} \/ (pc = "allocate" /\ pc' = "collect")
      BY <1>2 DEF Invoke, Cancel, OpenMismatch, StartWorkers
    <2> QED
      BY <2>1, <2>2, QuietResume
  <1> QED
    BY <1>1, <1>2

(* The manifest that is loaded or made keeps what was public at first.      *)
LEMMA OpenResume == ASSUME Inv, ResumeInv, Open PROVE ResumeInv'
  <1>1. UNCHANGED <<receiptFiles, public, cursor, workers, failed>> /\ pc \in {"start", "resume"}
    BY DEF Open
  <1>2. ReceiptsInOrder' /\ Published' /\ InFlightCurrent'
    BY <1>1, OrderFrame, PublicFrame, FlightFrame DEF ResumeInv
  <1>3. CASE cancelled \/ (~manifest.exists /\ pc = "resume")
    <2>1. pc' = "refused" /\ UNCHANGED <<manifest, m>>
      BY <1>1, <1>3 DEF Open
    <2> QED
      BY <1>1, <1>2, <2>1, QuietResume
  <1>4. CASE ~cancelled /\ (manifest.exists \/ pc = "start")
    <2>1. m' = IF manifest.exists THEN manifest ELSE NewManifest
      BY <1>4 DEF Open
    <2>2. PICK w \in WriteResults : Save(w, m') /\ pc' = IF w = "done" THEN "recover" ELSE "refused"
      BY <1>4 DEF Open
    <2>3. m'.exists /\ m'.prior = Prior
      BY <2>1 DEF ResumeInv, PriorKept, NewManifest, NoManifest
    <2>4. manifest' \in {manifest, m'} /\ (w = "done" => manifest' = m')
      BY <2>2 DEF Save, Written
    <2>5. \A s \in Stage : m'.complete[s] = IF manifest.exists THEN manifest.complete[s] ELSE None
      BY <2>1 DEF NewManifest, NoManifest
    <2>6. Backed(m)' /\ Backed(manifest)'
      BY <1>1, <2>4, <2>5 DEF ResumeInv, Backed
    <2>7. PriorKept'
      BY <1>1, <2>2, <2>3, <2>4 DEF ResumeInv, PriorKept, Live
    <2>8. PlaceDetermined' /\ LedgerComplete'
      BY <1>1, <2>2 DEF ResumeInv, PlaceDetermined, Verifying, LedgerComplete, Live
    <2> QED
      BY <1>2, <2>6, <2>7, <2>8 DEF ResumeInv
  <1> QED
    BY <1>3, <1>4 DEF Open

(* Recovery accepts the manifest only with a file for each of its receipts.  *)
LEMMA RecoverResume == ASSUME Inv, ResumeInv, Recover PROVE ResumeInv'
  <1>1. /\ UNCHANGED <<receiptFiles, public, cursor, workers, failed>> /\ pc = "recover"
        /\ m' = Recovered(m, receiptFiles)
    BY DEF Recover
  <1>2. ReceiptsInOrder' /\ Published' /\ InFlightCurrent'
    BY <1>1, OrderFrame, PublicFrame, FlightFrame DEF ResumeInv
  <1>3. /\ m'.exists = m.exists /\ m'.prior = m.prior /\ m'.receipts = m.receipts \cup receiptFiles
        /\ m'.complete = RecoveredComplete(m, receiptFiles)
    BY <1>1 DEF Inv, TypeOK, Manifest, Recovered
  <1>4. /\ manifest' \in {manifest, m'} /\ pc' \in {"refused", "stopped", "allocate"}
        /\ pc' = "allocate" => LedgerAgrees(m, receiptFiles)
    BY DEF Recover, Save, Written
  <1>5. PriorKept'
    BY <1>1, <1>3, <1>4 DEF Inv, NextDurable, ResumeInv, PriorKept, Live
  <1>6. Backed(m)'
    <2>1. ASSUME NEW s \in Stage, m'.complete[s] # None
          PROVE  \E r \in receiptFiles : r.stage = s /\ r.success /\ r.gen = m'.complete[s]
      <3>1. CASE SuccessesOf(s, receiptFiles) = {}
        <4>1. m'.complete[s] = m.complete[s]
          BY <1>3, <3>1 DEF RecoveredComplete
        <4> QED
          BY <2>1, <4>1 DEF ResumeInv, Backed
      <3>2. CASE SuccessesOf(s, receiptFiles) # {}
        <4> DEFINE q == CHOOSE r \in SuccessesOf(s, receiptFiles) : TRUE
        <4>1. q \in SuccessesOf(s, receiptFiles) /\ m'.complete[s] = q.gen
          BY <1>3, <3>2 DEF RecoveredComplete
        <4> HIDE DEF q
        <4> QED
          BY <4>1 DEF SuccessesOf
      <3> QED
        BY <3>1, <3>2
    <2> QED
      BY <1>1, <2>1 DEF Backed
  <1>7. Backed(manifest)'
    BY <1>1, <1>4, <1>6 DEF ResumeInv, Backed
  <1>8. LedgerComplete'
    <2>1. LedgerAgrees(m, receiptFiles) => m.receipts \subseteq receiptFiles
      BY DEF LedgerAgrees
    <2> QED
      BY <1>1, <1>3, <1>4, <2>1 DEF LedgerComplete, Live
  <1>9. PlaceDetermined'
    BY <1>1, <1>4 DEF ResumeInv, PlaceDetermined, Verifying
  <1> QED
    BY <1>2, <1>5, <1>6, <1>7, <1>8, <1>9 DEF ResumeInv

(* A step that uses up a generation changes nothing else of the manifest.    *)
LEMMA CountResume ==
    ASSUME ResumeInv, PlaceDetermined', InFlightCurrent', UNCHANGED <<receiptFiles, public, failed>>,
           m'.exists = m.exists, m'.prior = m.prior, m'.receipts = m.receipts, m'.complete = m.complete,
           m.exists, manifest' \in {manifest, m'},
           pc \in Live \ {"recover"}, pc' \in (Live \ {"recover"}) \cup {"stopped"}
    PROVE  ResumeInv'
  <1>1. ReceiptsInOrder' /\ Published'
    BY OrderFrame, PublicFrame DEF ResumeInv
  <1>2. PriorKept' /\ LedgerComplete'
    BY DEF ResumeInv, PriorKept, LedgerComplete, Live
  <1>3. Backed(m)' /\ Backed(manifest)'
    BY DEF ResumeInv, Backed
  <1> QED
    BY <1>1, <1>2, <1>3 DEF ResumeInv

LEMMA AllocateIs ==
    ASSUME TypeOK, NEW s \in Stage, NEW items, Allocate(s, items)
    PROVE  /\ m'.exists = m.exists /\ m'.prior = m.prior /\ m'.receipts = m.receipts
           /\ m'.complete = m.complete
  <1>1. m' = [m EXCEPT !.next[s] = @ + 1] /\ m \in Manifest
    BY DEF Allocate, TypeOK
  <1> QED
    BY <1>1 DEF Manifest

LEMMA AllocateTaskResume == ASSUME Inv, ResumeInv, AllocateTask PROVE ResumeInv'
  <1>1. /\ UNCHANGED <<receiptFiles, public, running, outcomes, failed>> /\ pc = "allocate"
        /\ pc' \in {"allocate", "stopped"} /\ manifest' \in {manifest, m'}
    BY DEF AllocateTask, Save, Written
  <1>2. PICK t \in cursor.at .. NumTasks : Allocate(TaskStage(t), {}) /\ cursor' = [cursor EXCEPT !.at = t + 1]
    BY DEF AllocateTask
  <1>3. t \in Task
    BY <1>2, PlanAssumption DEF Inv, TypeOK, Cursor, Task
  <1>4. TaskStage(t) \in Stage /\ Discovery(TaskStage(t))
    BY <1>3, StageShape
  <1>5. running = {} /\ outcomes = <<>> /\ \A i \in DOMAIN jobs : Discovery(jobs[i].stage)
    BY <1>1 DEF Inv, Quiet
  <1>6. \A i \in DOMAIN jobs' : Discovery(jobs'[i].stage)
    BY <1>2, <1>4, <1>5 DEF Allocate, Inv, TypeOK
  <1>7. InFlightCurrent'
    BY <1>1, <1>5, <1>6 DEF InFlightCurrent
  <1>8. PlaceDetermined'
    <2>1. cursor'.phase = cursor.phase
      BY <1>2 DEF Inv, TypeOK, Cursor
    <2> QED
      BY <1>1, <2>1 DEF ResumeInv, PlaceDetermined, Verifying
  <1>9. m.exists
    BY <1>1 DEF Inv, NextDurable, Live
  <1> QED
    BY <1>1, <1>2, <1>4, <1>7, <1>8, <1>9, AllocateIs, CountResume DEF Inv, Live

(* A job that is taken, or ends unstarted, is of the current batch.         *)
LEMMA TakeJobResume == ASSUME Inv, ResumeInv, TakeJob PROVE ResumeInv'
  <1>1. /\ UNCHANGED <<manifest, receiptFiles, public, pc, m, cursor, failed>>
        /\ jobs # <<>> /\ jobs' = Tail(jobs)
    BY DEF TakeJob
  <1> DEFINE job == Head(jobs)
  <1>2. /\ job \in Job /\ 1 \in DOMAIN jobs /\ job = jobs[1]
        /\ \A i \in DOMAIN Tail(jobs) : Tail(jobs)[i] = jobs[i + 1] /\ i + 1 \in DOMAIN jobs
    <2>1. jobs \in Seq(Job)
      BY DEF Inv, TypeOK
    <2> QED
      BY <1>1, <2>1, HeadTail
  <1>3. ~Discovery(job.stage) => CurrentJob(job)
    BY <1>2 DEF ResumeInv, InFlightCurrent
  <1>4. \A i \in DOMAIN jobs' : ~Discovery(jobs'[i].stage) => CurrentJob(jobs'[i])
    BY <1>1, <1>2 DEF ResumeInv, InFlightCurrent
  <1>5. \/ running' = running \cup {job} /\ outcomes' = outcomes
        \/ running' = running /\ outcomes' = Append(outcomes, Outcome(job, FALSE, FALSE, 0, {}))
    BY DEF TakeJob
  <1> HIDE DEF job
  <1>6. InFlightCurrent'
    <2>1. CASE running' = running \cup {job} /\ outcomes' = outcomes
      BY <1>1, <1>3, <1>4, <2>1, CurrentFrame DEF ResumeInv, InFlightCurrent, ValidOutput
    <2>2. CASE running' = running /\ outcomes' = Append(outcomes, Outcome(job, FALSE, FALSE, 0, {}))
      <3> DEFINE o == Outcome(job, FALSE, FALSE, 0, {})
      <3>1. o.stage = job.stage /\ ~o.success /\ outcomes' = Append(outcomes, o)
        BY <2>2 DEF Outcome
      <3>2. \A i \in DOMAIN outcomes' : outcomes'[i] = o \/ (i \in DOMAIN outcomes /\ outcomes'[i] = outcomes[i])
        <4>1. outcomes \in Seq(Receipt)
          BY DEF Inv, TypeOK
        <4> HIDE DEF o
        <4> QED
          BY <3>1, <4>1
      <3> HIDE DEF o
      <3>3. ~Discovery(o.stage) => Current(o)
        BY <1>3, <3>1 DEF CurrentJob, Current
      <3> QED
        BY <1>1, <1>4, <2>2, <3>1, <3>2, <3>3, CurrentFrame DEF ResumeInv, InFlightCurrent, ValidOutput
    <2> QED
      BY <1>5, <2>1, <2>2
  <1> QED
    BY <1>1, <1>6, QuietResume

(* What a child returned has been validated against its batch.              *)
LEMMA ChildResume ==
    ASSUME Inv, ResumeInv, NEW job \in running,
           (\E report \in SUBSET Finding : JobSucceeds(job, report)) \/ (\E cost \in 0 .. 1 : JobFails(job, cost))
    PROVE  ResumeInv'
  <1>1. /\ UNCHANGED <<manifest, receiptFiles, public, pc, m, cursor, failed, jobs>>
        /\ running' = running \ {job}
    BY DEF JobSucceeds, JobFails
  <1>2. PICK o : /\ outcomes' = Append(outcomes, o) /\ o.stage = job.stage
                 /\ ~Discovery(job.stage) /\ o.success =>
                       o.dep = job.items /\ ValidOutput(job.stage, job.items, job.keep, o.digest)
    <2>1. ASSUME NEW report \in SUBSET Finding, JobSucceeds(job, report)
          PROVE  LET o == Outcome(job, TRUE, TRUE, 1, report)
                 IN /\ outcomes' = Append(outcomes, o) /\ o.stage = job.stage
                    /\ ~Discovery(job.stage) => /\ o.dep = job.items
                                                /\ ValidOutput(job.stage, job.items, job.keep, o.digest)
      BY <2>1 DEF JobSucceeds, Outcome
    <2>2. ASSUME NEW cost \in 0 .. 1, JobFails(job, cost)
          PROVE  LET o == Outcome(job, TRUE, FALSE, cost, {})
                 IN outcomes' = Append(outcomes, o) /\ o.stage = job.stage /\ ~o.success
      BY <2>2 DEF JobFails, Outcome
    <2> QED
      BY <2>1, <2>2, Zenon
  <1>3. ~Discovery(job.stage) => CurrentJob(job)
    BY DEF ResumeInv, InFlightCurrent
  <1>4. \A i \in DOMAIN outcomes' : outcomes'[i] = o \/ (i \in DOMAIN outcomes /\ outcomes'[i] = outcomes[i])
    <2>1. outcomes \in Seq(Receipt)
      BY DEF Inv, TypeOK
    <2> QED
      BY <1>2, <2>1
  <1>5. ~Discovery(o.stage) =>
          /\ Current(o)
          /\ o.success => o.dep = Batch /\ ValidOutput(BatchStage, Batch, Batch \cap Prior, o.digest)
    BY <1>2, <1>3 DEF CurrentJob, Current
  <1>6. InFlightCurrent'
    BY <1>1, <1>4, <1>5, CurrentFrame DEF ResumeInv, InFlightCurrent, ValidOutput
  <1> QED
    BY <1>1, <1>6, QuietResume

LEMMA FindingResume ==
    ASSUME Inv, ResumeInv, NEW job \in running,
           ChildOpens(job) \/ \E f \in Finding : RecordFinding(job, f)
    PROVE  ResumeInv'
  <1>1. UNCHANGED <<manifest, receiptFiles, public, pc, m, cursor, failed, workers>>
    BY DEF ChildOpens, RecordFinding
  <1> QED
    BY <1>1, FlightFrame, QuietResume DEF ResumeInv

-----------------------------------------------------------------------------
(* Steps of verification and publication.                                  *)

(* Where a step is in verification, its batch is a set of the candidates.    *)
LEMMA PlaceShape ==
    ASSUME Inv, ResumeInv, Verifying
    PROVE  /\ cursor.phase \in BatchPhase /\ cursor.items \in SUBSET Finding /\ cursor.at \in Nat \ {0}
           /\ cursor.items = Items[cursor.phase] /\ DoneBefore(cursor.phase) /\ Rounds
           /\ Batches = Batching[cursor.phase][Items[cursor.phase]]
           /\ DOMAIN Batches = 1 .. Len(Batches) /\ Len(Batches) \in Nat
           /\ cursor.out = Results(cursor.phase, cursor.items, Before)
           /\ \A b \in Before : BatchDone(cursor.phase, cursor.items, b)
  <1>1. /\ cursor.phase \in BatchPhase /\ cursor.items = Items[cursor.phase] /\ DoneBefore(cursor.phase)
        /\ Rounds /\ cursor.out = Results(cursor.phase, cursor.items, Before)
        /\ \A b \in Before : BatchDone(cursor.phase, cursor.items, b)
    BY DEF ResumeInv, PlaceDetermined
  <1>2. cursor.items \in SUBSET Finding /\ cursor.at \in Nat \ {0}
    BY DEF Inv, TypeOK, Cursor
  <1> QED
    BY <1>1, <1>2, BatchesShape DEF Batches

(* A batch that is done moves the place on by one.                          *)
LEMMA Advance ==
    ASSUME Inv, ResumeInv, Verifying, cursor.at \in DOMAIN Batches,
           BatchDone(cursor.phase, cursor.items, cursor.at),
           cursor' = [cursor EXCEPT !.at = @ + 1,
                          !.out = @ \cup Result(cursor.phase, cursor.items, cursor.at)],
           UNCHANGED receiptFiles, pc' = "verify"
    PROVE  PlaceDetermined'
  <1>1. /\ cursor'.phase = cursor.phase /\ cursor'.items = cursor.items /\ cursor'.at = cursor.at + 1
        /\ cursor'.out = cursor.out \cup Result(cursor.phase, cursor.items, cursor.at)
    BY DEF Inv, TypeOK, Cursor
  <1>2. Batches' = Batches
    BY <1>1 DEF Batches
  <1>3. Before' = Before \cup {cursor.at}
    BY <1>1, <1>2, PlaceShape DEF Before
  <1>4. Results(cursor.phase, cursor.items, Before') = cursor'.out
    BY <1>1, <1>3, PlaceShape DEF Results
  <1>5. Items' = Items /\ DoneBefore(cursor.phase)' = DoneBefore(cursor.phase)
    BY <1>1, FilesFrame DEF DoneBefore, PhaseDone
  <1>6. \A b \in Before' : BatchDone(cursor.phase, cursor.items, b)
    BY <1>3, PlaceShape
  <1>7. \A s : Succeeded(s)' = Succeeded(s)
    BY DEF Succeeded
  <1>8. \A b : BatchDone(cursor.phase, cursor.items, b)' = BatchDone(cursor.phase, cursor.items, b)
    BY <1>1, <1>7 DEF BatchDone, Skipped
  <1>9. Results(cursor.phase, cursor.items, Before)' = Results(cursor.phase, cursor.items, Before')
    BY <1>1, <1>7 DEF Results, Result, Skipped
  <1>10. Rounds'
    BY <1>1, <1>5, PlaceShape DEF Rounds
  <1> QED
    BY <1>1, <1>4, <1>5, <1>6, <1>8, <1>9, <1>10, PlaceShape DEF PlaceDetermined

LEMMA MoveResume ==
    ASSUME ResumeInv, PlaceDetermined', UNCHANGED <<manifest, receiptFiles, public, m, workers, failed>>,
           Drained, pc \in Live \ {"recover"}, pc' \in {"verify", "publish", "stopped"}
    PROVE  ResumeInv'
  <1>1. ReceiptsInOrder' /\ Published'
    BY OrderFrame, PublicFrame DEF ResumeInv
  <1>2. InFlightCurrent'
    BY DEF InFlightCurrent, Drained
  <1>3. PriorKept' /\ LedgerComplete'
    BY DEF ResumeInv, PriorKept, LedgerComplete, Live
  <1>4. Backed(m)' /\ Backed(manifest)'
    BY DEF ResumeInv, Backed
  <1> QED
    BY <1>1, <1>2, <1>3, <1>4 DEF ResumeInv

(* The report that a successful receipt digests is that of its stage.       *)
LEMMA ReportOf ==
    ASSUME Inv, NEW r \in receiptFiles, r.success
    PROVE  artifact[r.stage].report = r.digest
  <1>1. ReportIntact(r)
    BY DEF Inv, CompletedReportsIntact
  <1> QED
    BY <1>1 DEF ReportIntact

(* The candidates of verification are what the receipts of tasks digest.    *)
LEMMA CollectedResume == ASSUME Inv, ResumeInv, Collected PROVE ResumeInv'
  <1>1. /\ pc = "collect" /\ Drained /\ cursor.phase = 0
        /\ UNCHANGED <<manifest, receiptFiles, public, m, workers, failed>>
    BY DEF Collected
  <1>2. CASE failed \/ cancelled \/ ~TasksComplete(m) \/ Collides(m.prior \cup TaskReports)
    <2>1. pc' = "stopped" /\ UNCHANGED cursor
      BY <1>2 DEF Collected
    <2> QED
      BY <1>1, <2>1, FlightFrame, QuietResume DEF ResumeInv
  <1>3. CASE ~failed /\ ~cancelled /\ TasksComplete(m) /\ ~Collides(m.prior \cup TaskReports)
    <2>1. pc' = "verify" /\ cursor' = [phase |-> 1, at |-> 1, items |-> m.prior \cup TaskReports, out |-> {}]
      BY <1>3 DEF Collected
    <2>2. ASSUME NEW t \in Task
          PROVE  \E r \in Succeeded(TaskStage(t)) : artifact[TaskStage(t)].report = r.digest
      <3>1. TaskStage(t) \in Stage /\ m.complete[TaskStage(t)] # None
        BY <1>3, StageShape DEF TasksComplete
      <3>2. PICK r \in receiptFiles : r.stage = TaskStage(t) /\ r.success
        BY <3>1 DEF ResumeInv, Backed
      <3> QED
        BY <3>2, ReportOf DEF Succeeded
    <2>3. TasksDone
      BY <2>2 DEF TasksDone
    <2>4. TaskReports = UNION {r.digest : r \in {q \in receiptFiles : Discovery(q.stage) /\ q.success}}
      <3>1. ASSUME NEW t \in Task
            PROVE  \E r \in receiptFiles : Discovery(r.stage) /\ r.success /\ artifact[TaskStage(t)].report = r.digest
        BY <2>2, StageShape DEF Succeeded
      <3>2. ASSUME NEW r \in receiptFiles, Discovery(r.stage), r.success
            PROVE  \E t \in Task : artifact[TaskStage(t)].report = r.digest
        <4>1. r.stage \in Stage
          BY ReceiptFields DEF Inv, TypeOK
        <4>2. PICK t \in Task : r.stage = TaskStage(t)
          BY <3>2, <4>1 DEF Stage, TaskStage, Discovery, BatchPhase
        <4> QED
          BY <3>2, <4>2, ReportOf
      <3> QED
        BY <3>1, <3>2 DEF TaskReports
    <2>5. m.prior = Prior
      BY <1>1 DEF ResumeInv, PriorKept, Live
    <2>6. cursor'.items = Candidates
      BY <2>1, <2>4, <2>5 DEF Candidates
    <2>7. Items[1] = Candidates /\ Items' = Items /\ Candidates \in SUBSET Finding /\ TasksDone'
      BY <1>1, <2>3, FilesFrame, ItemsAre, CandidatesType DEF Inv
    <2>8. Before' = {}
      <3>1. Batches' = Batching[1][Candidates]
        BY <2>1, <2>6 DEF Batches
      <3>2. \A b \in DOMAIN Batching[1][Candidates] : b \in 1 .. MaxBatch
        BY <2>7, BatchesShape, Phases
      <3> QED
        BY <2>1, <3>1, <3>2, PlanAssumption DEF Before
    <2>9. DoneBefore(1)'
      BY <2>7, Phases DEF DoneBefore
    <2>10. cursor'.out = Results(cursor.phase, cursor.items, Before)'
      BY <2>1, <2>8 DEF Results
    <2>12. Rounds'
      BY <2>1 DEF Rounds
    <2>11. PlaceDetermined'
      BY <2>1, <2>6, <2>7, <2>8, <2>9, <2>10, <2>12, Phases DEF PlaceDetermined
    <2> QED
      BY <1>1, <2>1, <2>11, MoveResume DEF Live
  <1> QED
    BY <1>2, <1>3

LEMMA AtBatchIs ==
    ASSUME Inv, ResumeInv, AtBatch
    PROVE  /\ Verifying /\ Drained /\ pc = "verify" /\ cursor.at \in DOMAIN Batches
           /\ Batch = Batching[cursor.phase][cursor.items][cursor.at]
           /\ (Single <=> Skipped(cursor.phase, cursor.items, cursor.at))
           /\ BatchStage = <<cursor.phase, cursor.at>> /\ BatchStage \in Stage /\ ~Discovery(BatchStage)
  <1>1. pc = "verify" /\ cursor.at <= Len(Batches)
    BY DEF AtBatch
  <1>2. Verifying /\ Drained
    BY <1>1 DEF Inv, Quiet, BetweenBatches, Verifying, Drained
  <1>3. cursor.at \in DOMAIN Batches
    BY <1>1, <1>2, PlaceShape
  <1> QED
    BY <1>1, <1>2, <1>3, BatchShape DEF Inv, Batch, Batches, Single, Skipped, BatchStage

LEMMA SkipBatchResume == ASSUME Inv, ResumeInv, SkipBatch PROVE ResumeInv'
  <1>1. /\ AtBatch /\ Single /\ UNCHANGED <<manifest, receiptFiles, public, m, pc, workers, failed>>
        /\ cursor' = [cursor EXCEPT !.at = @ + 1, !.out = @ \cup Batch]
    BY DEF SkipBatch
  <1>2. Skipped(cursor.phase, cursor.items, cursor.at)
    BY <1>1, AtBatchIs
  <1>3. Result(cursor.phase, cursor.items, cursor.at) = Batch
    BY <1>1, <1>2, AtBatchIs DEF Result
  <1>4. PlaceDetermined'
    BY <1>1, <1>2, <1>3, AtBatchIs, Advance DEF BatchDone
  <1> QED
    BY <1>1, <1>4, AtBatchIs, MoveResume DEF Live

(* The receipt of a stage that is complete.                                 *)
LEMMA ReceiptOfIs ==
    ASSUME Inv, ResumeInv, NEW s \in Stage, m.complete[s] # None, m.receipts = receiptFiles
    PROVE  ReceiptOf(s) \in receiptFiles /\ ReceiptOf(s).stage = s /\ ReceiptOf(s).success
  <1>1. PICK r \in receiptFiles : r.stage = s /\ r.success /\ r.gen = m.complete[s]
    BY DEF ResumeInv, Backed
  <1>2. \E q \in m.receipts : q.stage = s /\ q.gen = m.complete[s]
    BY <1>1
  <1>3. ReceiptOf(s) \in m.receipts /\ ReceiptOf(s).stage = s /\ ReceiptOf(s).gen = m.complete[s]
    BY <1>2 DEF ReceiptOf
  <1>4. ReceiptOf(s) = r
    BY <1>1, <1>3 DEF Inv, UniqueIDs, SameID
  <1> QED
    BY <1>1, <1>4

(* A batch found complete is the one that resumption computes again, and its *)
(* result the one that counted.                                             *)
LEMMA Reusable ==
    ASSUME Inv, ResumeInv, AtBatch, ~Single, m.complete[BatchStage] # None
    PROVE  /\ BatchAgrees /\ Succeeded(BatchStage) # {}
           /\ Result(cursor.phase, cursor.items, cursor.at) = artifact[BatchStage].report
  <1>1. m.receipts = receiptFiles
    BY AtBatchIs DEF Inv, Quiet, BetweenBatches, ResumeInv, LedgerComplete, Live
  <1> DEFINE r == ReceiptOf(BatchStage)
  <1>2. r \in receiptFiles /\ r.stage = BatchStage /\ r.success
    BY <1>1, AtBatchIs, ReceiptOfIs
  <1>3. r = ReceiptOf(BatchStage)
    OBVIOUS
  <1> HIDE DEF r
  <1>4. InOrder(r) /\ r.stage[1] = cursor.phase /\ r.stage[2] = cursor.at
    BY <1>2, AtBatchIs DEF ResumeInv, ReceiptsInOrder
  <1>5. r.dep = Batch /\ ValidOutput(BatchStage, Batch, Batch \cap Prior, r.digest)
    BY <1>2, <1>4, AtBatchIs, PlaceShape DEF InOrder
  <1>6. artifact[BatchStage].report = r.digest
    BY <1>2, ReportOf
  <1>7. m.prior = Prior
    BY AtBatchIs DEF ResumeInv, PriorKept, Live
  <1>8. Result(cursor.phase, cursor.items, cursor.at) = r.digest
    BY <1>2, AtBatchIs, ResultOfReceipt DEF Inv
  <1> QED
    BY <1>2, <1>3, <1>5, <1>6, <1>7, <1>8 DEF BatchAgrees, Succeeded

LEMMA ReuseBatchResume == ASSUME Inv, ResumeInv, ReuseBatch PROVE ResumeInv'
  <1>1. /\ AtBatch /\ ~Single /\ m.complete[BatchStage] # None
        /\ UNCHANGED <<manifest, receiptFiles, public, m, workers, failed>>
    BY DEF ReuseBatch
  <1>2. cursor' = [cursor EXCEPT !.at = @ + 1, !.out = @ \cup artifact[BatchStage].report] /\ pc' = pc
    BY <1>1, Reusable DEF ReuseBatch
  <1>3. PlaceDetermined'
    BY <1>1, <1>2, AtBatchIs, Reusable, Advance DEF BatchDone
  <1> QED
    BY <1>1, <1>2, <1>3, AtBatchIs, MoveResume DEF Live

(* The batch that is started is that of the place.                          *)
LEMMA RunBatchResume == ASSUME Inv, ResumeInv, RunBatch PROVE ResumeInv'
  <1>1. /\ AtBatch /\ ~Single /\ Allocate(BatchStage, Batch) /\ pc' \in {"collect", "stopped"}
        /\ manifest' \in {manifest, m'}
        /\ UNCHANGED <<receiptFiles, public, cursor, running, outcomes, failed>>
    BY DEF RunBatch, Save, Written
  <1> DEFINE job == [stage |-> BatchStage, gen |-> m.next[BatchStage], items |-> Batch,
                     keep |-> Batch \cap m.prior, resuming |-> Continued(BatchStage)]
  <1>2. jobs' = <<job>> /\ running = {} /\ outcomes = <<>>
    <2>1. jobs = <<>> /\ running = {} /\ outcomes = <<>>
      BY <1>1, AtBatchIs DEF Drained
    <2> QED
      BY <1>1, <2>1 DEF Allocate
  <1>3. m.prior = Prior
    BY <1>1, AtBatchIs DEF ResumeInv, PriorKept, Live
  <1>4. CurrentJob(job)
    BY <1>1, <1>3, AtBatchIs DEF CurrentJob, Current
  <1> HIDE DEF job
  <1>5. InFlightCurrent'
    BY <1>1, <1>2, <1>4, CurrentFrame DEF InFlightCurrent
  <1>6. PlaceDetermined'
    <2>1. Verifying
      BY <1>1, AtBatchIs
    <2> QED
      BY <1>1, <2>1, PlaceFrame DEF ResumeInv
  <1>7. m.exists /\ pc = "verify"
    BY <1>1, AtBatchIs DEF Inv, NextDurable, Live
  <1> QED
    BY <1>1, <1>5, <1>6, <1>7, AtBatchIs, AllocateIs, CountResume DEF Inv, Live

(* The results of a phase that is done are the candidates of the next.      *)
LEMMA NextPhaseResume == ASSUME Inv, ResumeInv, NextPhase PROVE ResumeInv'
  <1>1. /\ pc = "verify" /\ ~AtBatch
        /\ UNCHANGED <<manifest, receiptFiles, public, m, workers, failed>>
    BY DEF NextPhase
  <1>2. Verifying /\ Drained
    BY <1>1 DEF Inv, Quiet, BetweenBatches, Verifying, Drained
  <1>3. ~(cursor.at <= Len(Batches))
    BY <1>1 DEF AtBatch
  <1>4. CASE AnotherRound
    <2>1. /\ cursor' = [phase |-> cursor.phase + 1, at |-> 1, items |-> cursor.out, out |-> {}] /\ pc' = pc
          /\ cursor.phase \in 1 .. 3
      BY <1>2, <1>4, PlaceShape, Phases DEF NextPhase, AnotherRound
    <2> DEFINE p == cursor.phase
    <2>2. Before = DOMAIN Batches
      BY <1>2, <1>3, PlaceShape DEF Before
    <2>3. PhaseDone(p) /\ cursor.out = OutOf(p, Items[p])
      BY <1>2, <2>2, PlaceShape DEF PhaseDone, OutOf
    <2>4. Items[p + 1] = cursor.out /\ p + 1 \in BatchPhase
      BY <2>1, <2>3, ItemsAre, Phases
    <2>5. DoneBefore(p + 1)
      <3>1. DoneBefore(p) /\ p \in 1 .. 3
        BY <1>2, <2>1, PlaceShape
      <3>2. ASSUME NEW q \in BatchPhase, q < p + 1 PROVE PhaseDone(q)
        <4>1. q \in Nat /\ (q < p \/ q = p)
          BY <3>1, <3>2, Phases
        <4> QED
          BY <2>3, <3>1, <4>1 DEF DoneBefore
      <3> QED
        BY <3>1, <3>2 DEF DoneBefore
    <2>6. Items' = Items
      BY <1>1, <2>1, FilesFrame
    <2>7. DoneBefore(cursor.phase)'
      <3>1. TasksDone' = TasksDone /\ \A q : PhaseDone(q)' = PhaseDone(q)
        BY <1>1, FilesFrame
      <3> QED
        BY <2>1, <2>5, <3>1 DEF DoneBefore
    <2>8. Before' = {}
      <3>1. cursor.out \in SUBSET Finding
        BY DEF Inv, TypeOK, Cursor
      <3>2. Batches' = Batching[p + 1][cursor.out]
        BY <2>1 DEF Batches
      <3>3. \A b \in DOMAIN Batching[p + 1][cursor.out] : b \in 1 .. MaxBatch
        BY <2>4, <3>1, BatchesShape
      <3> QED
        BY <2>1, <3>2, <3>3, PlanAssumption DEF Before
    <2>9. cursor'.out = Results(cursor.phase, cursor.items, Before)'
      BY <2>1, <2>8 DEF Results
    <2>11. Rounds'
      <3>1. p \in 1 .. 3 /\ Cardinality(Items[p + 1]) > 1 /\ Rounds
        BY <1>2, <1>4, <2>1, <2>4, PlaceShape DEF AnotherRound
      <3>2. ASSUME NEW q \in 2 .. p + 1 PROVE Cardinality(Items[q]) > 1
        <4>1. q \in 2 .. p \/ q = p + 1
          BY <3>1, <3>2
        <4> QED
          BY <3>1, <4>1 DEF Rounds
      <3> QED
        BY <2>1, <2>6, <3>2 DEF Rounds
    <2>10. PlaceDetermined'
      BY <1>1, <2>1, <2>4, <2>6, <2>7, <2>8, <2>9, <2>11, Phases DEF PlaceDetermined
    <2> QED
      BY <1>1, <1>2, <2>1, <2>10, MoveResume DEF Live
  <1>5. CASE ~AnotherRound
    <2>1. pc' = "publish" /\ UNCHANGED cursor
      BY <1>5 DEF NextPhase
    <2>2. PlaceDetermined'
      <3>1. Batches' = Batches /\ Before' = Before
        BY <2>1 DEF Batches, Before
      <3>2. /\ DoneBefore(cursor.phase)' = DoneBefore(cursor.phase) /\ Items' = Items
            /\ \A b : BatchDone(cursor.phase, cursor.items, b)' = BatchDone(cursor.phase, cursor.items, b)
            /\ Results(cursor.phase, cursor.items, Before)' = Results(cursor.phase, cursor.items, Before)
        BY <1>1, <2>1, <3>1, FilesFrame
      <3>3. Rounds' = Rounds /\ AnotherRound' = AnotherRound
        BY <2>1, <3>2 DEF Rounds, AnotherRound
      <3> QED
        BY <1>2, <1>3, <1>5, <2>1, <3>1, <3>2, <3>3, PlaceShape DEF PlaceDetermined
    <2> QED
      BY <1>1, <1>2, <2>1, <2>2, MoveResume DEF Live
  <1> QED
    BY <1>4, <1>5

(* What is published was confirmed by verification, all of it, and is what  *)
(* the last round left.                                                     *)
LEMMA PublishResume == ASSUME Inv, ResumeInv, Publish PROVE ResumeInv'
  <1>1. pc = "publish" /\ UNCHANGED <<manifest, receiptFiles, m, cursor, workers, failed>>
    BY DEF Publish
  <1>2. CASE cancelled \/ ~(m.prior \subseteq cursor.out)
    <2>1. pc' = "stopped" /\ UNCHANGED public
      BY <1>2 DEF Publish
    <2> QED
      BY <1>1, <2>1, FlightFrame, QuietResume DEF ResumeInv
  <1>3. CASE ~cancelled /\ m.prior \subseteq cursor.out
    <2>1. /\ public' \in {public, [findings |-> cursor.out, summary |-> TRUE]}
          /\ pc' \in {"published", "stopped"}
      BY <1>3 DEF Publish, Written
    <2>2. Verifying
      BY <1>1 DEF Verifying
    <2>3. m.prior = Prior /\ manifest.exists /\ m.receipts = receiptFiles
      BY <1>1 DEF ResumeInv, PriorKept, LedgerComplete, Live, Inv, Quiet, BetweenBatches
    <2> DEFINE p == cursor.phase
    <2>4. Before = DOMAIN Batches
      <3>1. ~(cursor.at <= Len(Batches))
        BY <1>1, <2>2 DEF ResumeInv, PlaceDetermined
      <3> QED
        BY <2>2, <3>1, PlaceShape DEF Before
    <2>5. PhaseDone(p) /\ DoneBefore(p) /\ cursor.out = Results(p, Items[p], DOMAIN Batching[p][Items[p]])
      BY <2>2, <2>4, PlaceShape DEF PhaseDone
    <2>6. p \in BatchPhase
      BY <2>2, PlaceShape
    <2>7. TasksDone /\ PhaseDone(1)
      BY <2>5, <2>6, Phases DEF DoneBefore
    <2>8. cursor.out \subseteq Confirmed \cap Candidates
      BY <2>5, <2>6, OutWithin, ItemsWithin DEF Inv, ResumeInv
    <2>9. ReceiptsInOrder' /\ Items' = Items
      BY <1>1, OrderFrame, FilesFrame DEF ResumeInv
    <2>13. cursor.out = OutOf(p, Items[p])
      BY <2>5 DEF OutOf
    <2>14. LastDone(p)
      <3>1. Rounds /\ ~AnotherRound
        BY <1>1, <2>2 DEF ResumeInv, PlaceDetermined
      <3>2. p = 4 \/ ~(Cardinality(OutOf(p, Items[p])) > 1)
        BY <2>6, <2>13, <3>1, Phases DEF AnotherRound
      <3> QED
        BY <2>5, <3>1, <3>2 DEF LastDone, LastPhase, Rounds
    <2>10. Published'
      <3>1. /\ TasksDone' = TasksDone /\ PhaseDone(1)' = PhaseDone(1) /\ Confirmed' = Confirmed
            /\ Candidates' = Candidates
            /\ \A q : LastDone(q)' = LastDone(q) /\ OutOf(q, Items[q])' = OutOf(q, Items[q])
        BY <1>1, FilesFrame
      <3>2. CASE public' = public
        BY <3>1, <3>2 DEF ResumeInv, Published
      <3>3. CASE public' = [findings |-> cursor.out, summary |-> TRUE]
        <4>1. PICK q \in BatchPhase : q = p
          BY <2>6
        <4>2. LastDone(q)' /\ public'.findings = OutOf(q, Items[q])'
          BY <2>13, <2>14, <3>1, <3>3, <4>1
        <4> QED
          BY <1>3, <2>3, <2>7, <2>8, <3>1, <3>3, <4>2 DEF Published
      <3> QED
        BY <2>1, <3>2, <3>3
    <2>11. PlaceDetermined' /\ InFlightCurrent'
      BY <1>1, <2>1, FlightFrame DEF ResumeInv, PlaceDetermined, Verifying
    <2>12. PriorKept' /\ LedgerComplete' /\ Backed(m)' /\ Backed(manifest)'
      BY <1>1, <2>1, <2>3 DEF ResumeInv, PriorKept, LedgerComplete, Live, Backed
    <2> QED
      BY <2>9, <2>10, <2>11, <2>12 DEF ResumeInv
  <1> QED
    BY <1>2, <1>3

-----------------------------------------------------------------------------
(* Recording an outcome.                                                   *)

(* A successful receipt of a batch leaves the phases up to its own as they   *)
(* were determined.                                                         *)
LEMMA BatchGrows ==
    ASSUME NEW p \in BatchPhase, NEW b, NEW r, r.stage = <<p, b>>,
           receiptFiles' = receiptFiles \cup {r}
    PROVE  /\ Candidates' = Candidates /\ TasksDone' = TasksDone
           /\ \A s : s # <<p, b>> => Succeeded(s)' = Succeeded(s)
           /\ \A q \in BatchPhase : q <= p => Items'[q] = Items[q] /\ DoneBefore(q)' = DoneBefore(q)
  <1>1. ~Discovery(r.stage)
    BY Phases DEF Discovery
  <1>2. Candidates' = Candidates
    BY <1>1 DEF Candidates
  <1>3. \A s : s # <<p, b>> => Succeeded(s)' = Succeeded(s)
    BY DEF Succeeded
  <1>4. TasksDone' = TasksDone
    <2>1. \A t \in Task : TaskStage(t) # <<p, b>>
      BY Phases DEF TaskStage
    <2> QED
      BY <1>3, <2>1 DEF TasksDone
  <1>5. ASSUME NEW q \in BatchPhase, q < p
        PROVE  \A S : OutOf(q, S)' = OutOf(q, S)
    <2>1. \A c : Succeeded(<<q, c>>)' = Succeeded(<<q, c>>)
      BY <1>3, <1>5, Phases
    <2> QED
      BY <2>1 DEF OutOf, Results, Result, Skipped
  <1>6. Items'[1] = Items[1]
    BY <1>2 DEF Items
  <1>7. p >= 2 => Items'[2] = Items[2]
    <2>1. p >= 2 => \A S : OutOf(1, S)' = OutOf(1, S)
      BY <1>5, Phases
    <2> QED
      BY <1>2, <2>1 DEF Items, Items2, OutOf
  <1>8. p >= 3 => Items'[3] = Items[3]
    <2>1. p >= 3 => \A S : OutOf(2, S)' = OutOf(2, S)
      BY <1>5, Phases
    <2>2. p >= 3 => Items2' = Items2
      BY <1>7, Phases DEF Items
    <2> QED
      BY <2>1, <2>2 DEF Items, Items3, OutOf
  <1>9. p >= 4 => Items'[4] = Items[4]
    <2>1. p >= 4 => \A S : OutOf(3, S)' = OutOf(3, S)
      BY <1>5, Phases
    <2>2. p >= 4 => Items3' = Items3
      BY <1>8, Phases DEF Items
    <2> QED
      BY <2>1, <2>2 DEF Items, Items4, OutOf
  <1>10. \A q \in BatchPhase : q <= p => Items'[q] = Items[q]
    BY <1>6, <1>7, <1>8, <1>9, Phases
  <1>11. \A q \in BatchPhase : q < p => PhaseDone(q)' = PhaseDone(q)
    <2>1. \A q \in BatchPhase : q < p => \A c : Succeeded(<<q, c>>)' = Succeeded(<<q, c>>)
      BY <1>3, Phases
    <2> QED
      BY <1>10, <2>1, Phases DEF PhaseDone, BatchDone, Skipped
  <1>12. \A q \in BatchPhase : q <= p => DoneBefore(q)' = DoneBefore(q)
    BY <1>4, <1>11, Phases DEF DoneBefore
  <1> QED
    BY <1>2, <1>3, <1>4, <1>10, <1>12

(* What a new receipt leaves of the order, the place and the publication.    *)
GrowthKept == ReceiptsInOrder' /\ Published' /\ PlaceDetermined'

LEMMA GrowsInVain ==
    ASSUME Inv, ResumeInv, NEW r \in Receipt, ~r.success, receiptFiles' = receiptFiles \cup {r},
           UNCHANGED <<cursor, public>>, pc = "collect", pc' \in {"collect", "save", "stopped"}
    PROVE  GrowthKept
  <1>1. (\A s : Succeeded(s)' = Succeeded(s)) /\ Candidates' = Candidates /\ Confirmed' = Confirmed
    BY DEF Succeeded, Candidates, Confirmed
  <1>2. \A q : InOrder(q)' = InOrder(q)
    BY <1>1, SameResults DEF InOrder, ValidOutput, Skipped
  <1>3. ReceiptsInOrder'
    BY <1>2 DEF ResumeInv, ReceiptsInOrder
  <1>4. Published'
    BY <1>1, SameResults DEF ResumeInv, Published
  <1>5. Batches' = Batches /\ Before' = Before
    BY DEF Batches, Before
  <1>6. ASSUME Verifying PROVE PlaceDetermined'
    <2>1. /\ DoneBefore(cursor.phase)' = DoneBefore(cursor.phase) /\ Items' = Items
          /\ \A b : BatchDone(cursor.phase, cursor.items, b)' = BatchDone(cursor.phase, cursor.items, b)
          /\ Results(cursor.phase, cursor.items, Before)' = Results(cursor.phase, cursor.items, Before)
      BY <1>1, <1>5, SameResults
    <2>2. Rounds'
      BY <1>6, <2>1, PlaceShape DEF Rounds
    <2> QED
      BY <1>5, <1>6, <2>1, <2>2, PlaceShape DEF PlaceDetermined
  <1>7. ~Verifying => PlaceDetermined'
    BY DEF PlaceDetermined, Verifying
  <1> QED
    BY <1>3, <1>4, <1>6, <1>7 DEF GrowthKept

(* While a task has yet to succeed, nothing is verified and nothing public.  *)
LEMMA TaskGrows ==
    ASSUME Inv, ResumeInv, NEW r \in Receipt, Discovery(r.stage), Succeeded(r.stage) = {},
           receiptFiles' = receiptFiles \cup {r},
           UNCHANGED <<cursor, public>>, pc = "collect", pc' \in {"collect", "save", "stopped"}
    PROVE  GrowthKept
  <1>1. ~TasksDone
    <2>1. r.stage \in Stage
      BY ReceiptFields
    <2>2. PICK t \in Task : r.stage = TaskStage(t)
      BY <2>1 DEF Stage, TaskStage, Discovery, BatchPhase
    <2> QED
      BY <2>2 DEF TasksDone
  <1>2. \A q \in receiptFiles : q.success => Discovery(q.stage)
    BY <1>1 DEF ResumeInv, ReceiptsInOrder, InOrder, DoneBefore
  <1>3. ReceiptsInOrder'
    BY <1>2 DEF ReceiptsInOrder, Discovery
  <1>4. ~public.summary /\ ~Verifying
    BY <1>1 DEF ResumeInv, Published, PlaceDetermined, DoneBefore
  <1>5. Published' /\ PlaceDetermined'
    BY <1>4 DEF Published, PlaceDetermined, Verifying
  <1> QED
    BY <1>3, <1>5 DEF GrowthKept

(* A batch succeeds at its place: no later phase has a receipt.             *)
LEMMA BatchSucceeds ==
    ASSUME Inv, ResumeInv, NEW r \in Receipt, ~Discovery(r.stage), r.success,
           Succeeded(r.stage) = {}, Current(r), r.dep = Batch,
           ValidOutput(BatchStage, Batch, Batch \cap Prior, r.digest), Verifying,
           receiptFiles' = receiptFiles \cup {r},
           UNCHANGED <<cursor, public>>, pc = "collect", pc' \in {"collect", "save", "stopped"}
    PROVE  GrowthKept
  <1> DEFINE p == cursor.phase
             b == cursor.at
  <1>1. /\ p \in BatchPhase /\ r.stage = <<p, b>> /\ b \in DOMAIN Batching[p][Items[p]]
        /\ ~Skipped(p, Items[p], b) /\ Batch = Batching[p][Items[p]][b] /\ DoneBefore(p)
    <2>1. r.stage = BatchStage /\ b \in DOMAIN Batches /\ ~Single
      BY DEF Current
    <2> QED
      BY <2>1, PlaceShape DEF BatchStage, Single, Skipped, Batch
  <1>2. /\ Candidates' = Candidates /\ TasksDone' = TasksDone
        /\ \A s : s # <<p, b>> => Succeeded(s)' = Succeeded(s)
        /\ \A q \in BatchPhase : q <= p => Items'[q] = Items[q] /\ DoneBefore(q)' = DoneBefore(q)
    BY <1>1, BatchGrows
  <1>3. p <= p /\ Items'[p] = Items[p] /\ DoneBefore(p)'
    <2>1. p <= p
      BY <1>1, Phases
    <2>2. DoneBefore(p)' = DoneBefore(p) /\ Items'[p] = Items[p]
      BY <1>1, <1>2, <2>1
    <2> QED
      BY <1>1, <2>1, <2>2
  <1>4. ASSUME NEW q \in receiptFiles, q.success, ~Discovery(q.stage) PROVE InOrder(q)'
    <2>1. InOrder(q) /\ q.stage[1] \in BatchPhase
      <3>1. q \in Receipt
        BY DEF Inv, TypeOK
      <3> QED
        BY <1>4, <3>1, ReceiptFields, StageShape DEF ResumeInv, ReceiptsInOrder
    <2>2. q.stage[1] <= p
      <3>1. CASE p < q.stage[1]
        <4>1. PhaseDone(p)
          BY <1>1, <2>1, <3>1 DEF InOrder, DoneBefore
        <4>2. Succeeded(<<p, b>>) # {}
          BY <1>1, <4>1 DEF PhaseDone, BatchDone
        <4> QED
          BY <1>1, <4>2
      <3> QED
        BY <1>1, <2>1, <3>1, Phases
    <2>3. Items'[q.stage[1]] = Items[q.stage[1]] /\ DoneBefore(q.stage[1])' = DoneBefore(q.stage[1])
      BY <1>2, <2>1, <2>2
    <2> QED
      BY <2>1, <2>3 DEF InOrder, ValidOutput, Skipped
  <1>5. InOrder(r)'
    <2>1. r.stage[1] = p /\ r.stage[2] = b /\ BatchStage = <<p, b>>
      BY <1>1 DEF BatchStage
    <2>2. DoneBefore(r.stage[1])' = DoneBefore(p)'
      BY <2>1 DEF DoneBefore, PhaseDone
    <2> QED
      BY <1>1, <1>3, <2>1, <2>2 DEF InOrder, ValidOutput, Skipped
  <1>6. ReceiptsInOrder'
    BY <1>4, <1>5 DEF ReceiptsInOrder, Discovery
  <1>7. Published'
    <2>1. ASSUME NEW q \in BatchPhase, LastDone(q) PROVE FALSE
      <3>1. ~PhaseDone(p)
        BY <1>1 DEF PhaseDone, BatchDone
      <3>2. q < p
        <4>1. CASE p < q
          BY <1>1, <2>1, <3>1, <4>1 DEF LastDone, DoneBefore
        <4>2. CASE p = q
          BY <2>1, <3>1, <4>2 DEF LastDone
        <4> QED
          BY <1>1, <4>1, <4>2, Phases
      <3>3. Cardinality(Items[q + 1]) > 1
        BY <1>1, <3>2, PlaceShape, Phases DEF Rounds
      <3>4. Items[q + 1] = OutOf(q, Items[q]) /\ q # 4
        BY <1>1, <3>2, ItemsAre, Phases
      <3> QED
        BY <2>1, <3>3, <3>4 DEF LastDone, LastPhase
    <2> HIDE DEF p, b
    <2>2. ~public.summary
      BY <2>1 DEF ResumeInv, Published
    <2> QED
      BY <2>2 DEF Published
  <1>8. PlaceDetermined'
    <2>1. Batches' = Batches /\ Before' = Before
      BY DEF Batches, Before
    <2>2. b \notin Before
      BY PlaceShape DEF Before
    <2>3. \A c \in Before : Succeeded(<<p, c>>)' = Succeeded(<<p, c>>)
      BY <1>2, <2>2
    <2>4. \A c \in Before : BatchDone(p, cursor.items, c)' = BatchDone(p, cursor.items, c)
      BY <2>3 DEF BatchDone, Skipped
    <2>5. Results(p, cursor.items, Before)' = Results(p, cursor.items, Before)
      BY <2>1, <2>3 DEF Results, Result, Skipped
    <2>6. DoneBefore(cursor.phase)'
      BY <1>3
    <2>7. Rounds'
      <3>1. ASSUME NEW q \in 2 .. p PROVE Cardinality(Items'[q]) > 1
        <4>1. q \in BatchPhase /\ q <= p
          BY <1>1, <3>1, Phases
        <4> QED
          BY <1>2, <3>1, <4>1, PlaceShape DEF Rounds
      <3> QED
        BY <3>1 DEF Rounds
    <2> QED
      BY <1>3, <2>1, <2>4, <2>5, <2>6, <2>7, PlaceShape DEF PlaceDetermined
  <1> QED
    BY <1>6, <1>7, <1>8 DEF GrowthKept

LEMMA RecordReceiptResume == ASSUME Inv, ResumeInv, RecordReceipt PROVE ResumeInv'
  <1> DEFINE r == Head(outcomes)
  <1>1. pc = "collect" /\ outcomes # <<>> /\ UNCHANGED <<manifest, public, cursor, jobs, running>>
    BY DEF RecordReceipt
  <1>2. /\ r \in Receipt /\ r = outcomes[1] /\ 1 \in DOMAIN outcomes
        /\ \A i \in DOMAIN Tail(outcomes) : Tail(outcomes)[i] = outcomes[i + 1] /\ i + 1 \in DOMAIN outcomes
    <2>1. outcomes \in Seq(Receipt)
      BY DEF Inv, TypeOK
    <2>2. Len(outcomes) >= 1 /\ DOMAIN outcomes = 1 .. Len(outcomes) /\ Len(outcomes) \in Nat
      BY <1>1, <2>1, HeadTail
    <2> QED
      BY <1>1, <2>1, <2>2, HeadTail
  <1>3. PICK w \in WriteResults :
          /\ receiptFiles' = Written(w, receiptFiles \cup {r}, receiptFiles)
          /\ m' = [m EXCEPT !.receipts = @ \cup {r},
                            !.complete[r.stage] = IF w = "done" /\ r.success THEN r.gen ELSE @]
          /\ pc' = CASE w = "done" -> "save"
                     [] w # "done" /\ Discovery(r.stage) -> "collect"
                     [] OTHER -> "stopped"
          /\ failed' = (failed \/ w # "done")
          /\ outcomes' = IF w = "done" THEN outcomes ELSE Tail(outcomes)
    BY DEF RecordReceipt
  <1>4. Succeeded(r.stage) = {}
    BY <1>1, <1>2 DEF Inv, OutcomesFresh, FirstPending, Fresh, Succeeded
  <1>5. ~Discovery(r.stage) =>
          /\ Current(r) /\ Verifying
          /\ r.success => r.dep = Batch /\ ValidOutput(BatchStage, Batch, Batch \cap Prior, r.digest)
    <2>1. ASSUME ~Discovery(r.stage) PROVE Verifying
      <3>1. cursor.phase = r.stage[1]
        BY <1>2, <2>1 DEF Inv, Solo
      <3> QED
        BY <1>1, <2>1, <3>1 DEF Verifying, Discovery
    <2> QED
      BY <1>2, <2>1 DEF ResumeInv, InFlightCurrent
  <1> HIDE DEF r
  <1>6. pc' \in {"collect", "save", "stopped"} /\ receiptFiles' \in {receiptFiles, receiptFiles \cup {r}}
    BY <1>3 DEF Written
  <1>7. GrowthKept
    <2>1. CASE receiptFiles' = receiptFiles
      <3>1. PlaceDetermined'
        BY <1>1, <1>6, <2>1, PlaceFrame DEF ResumeInv, Verifying
      <3> QED
        BY <1>1, <2>1, <3>1, OrderFrame, PublicFrame DEF ResumeInv, GrowthKept
    <2>2. CASE receiptFiles' = receiptFiles \cup {r}
      <3>1. CASE ~r.success
        BY <1>1, <1>2, <1>6, <2>2, <3>1, GrowsInVain
      <3>2. CASE Discovery(r.stage)
        BY <1>1, <1>2, <1>4, <1>6, <2>2, <3>2, TaskGrows
      <3>3. CASE r.success /\ ~Discovery(r.stage)
        BY <1>1, <1>2, <1>4, <1>5, <1>6, <2>2, <3>3, BatchSucceeds
      <3> QED
        BY <3>1, <3>2, <3>3
    <2> QED
      BY <1>6, <2>1, <2>2
  <1>8. InFlightCurrent'
    <2>1. \A i \in DOMAIN outcomes' : \E k \in DOMAIN outcomes : outcomes'[i] = outcomes[k]
      BY <1>2, <1>3
    <2> QED
      BY <1>1, <2>1, CurrentFrame DEF ResumeInv, InFlightCurrent, ValidOutput
  <1>9. /\ m'.exists = m.exists /\ m'.prior = m.prior /\ m'.receipts = m.receipts \cup {r}
        /\ \A s \in Stage : m'.complete[s] = m.complete[s] \/ (s = r.stage /\ w = "done" /\ r.success /\ m'.complete[s] = r.gen)
    <2>1. m \in Manifest /\ r.stage \in Stage
      BY <1>2, ReceiptFields DEF Inv, TypeOK
    <2> QED
      BY <1>3, <2>1 DEF Manifest
  <1>10. PriorKept'
    BY <1>1, <1>9 DEF ResumeInv, PriorKept, Live
  <1>11. Backed(manifest)'
    BY <1>1, <1>6 DEF ResumeInv, Backed
  <1>12. Backed(m)'
    <2>1. w = "done" => receiptFiles' = receiptFiles \cup {r}
      BY <1>3 DEF Written
    <2>2. ASSUME NEW s \in Stage, m'.complete[s] # None
          PROVE  \E q \in receiptFiles' : q.stage = s /\ q.success /\ q.gen = m'.complete[s]
      <3>1. CASE m'.complete[s] = m.complete[s]
        BY <1>6, <2>2, <3>1 DEF ResumeInv, Backed
      <3>2. CASE s = r.stage /\ w = "done" /\ r.success /\ m'.complete[s] = r.gen
        BY <2>1, <3>2
      <3> QED
        BY <1>9, <3>1, <3>2
    <2> QED
      BY <2>2 DEF Backed
  <1>13. LedgerComplete'
    <2>1. CASE w = "done"
      <3>1. receiptFiles' = receiptFiles \cup {r} /\ failed' = failed
        BY <1>3, <2>1 DEF Written, Inv, TypeOK
      <3> QED
        BY <1>1, <1>6, <1>9, <3>1 DEF ResumeInv, LedgerComplete, Live
    <2>2. CASE w # "done"
      BY <1>3, <1>6, <2>2 DEF LedgerComplete
    <2> QED
      BY <2>1, <2>2
  <1> QED
    BY <1>7, <1>8, <1>10, <1>11, <1>12, <1>13 DEF ResumeInv, GrowthKept

LEMMA RecordSaveResume == ASSUME Inv, ResumeInv, RecordSave PROVE ResumeInv'
  <1> DEFINE r == Head(outcomes)
  <1>1. /\ pc = "save" /\ UNCHANGED <<receiptFiles, public, m, artifact, jobs, running>> /\ outcomes' = Tail(outcomes)
        /\ manifest' \in {manifest, m}
    BY DEF RecordSave, Save, Written
  <1>2. /\ r \in receiptFiles /\ r \in Receipt /\ r = outcomes[1] /\ 1 \in DOMAIN outcomes /\ outcomes \in Seq(Receipt)
        /\ \A i \in DOMAIN Tail(outcomes) : Tail(outcomes)[i] = outcomes[i + 1] /\ i + 1 \in DOMAIN outcomes
    <2>1. outcomes \in Seq(Receipt) /\ outcomes # <<>> /\ outcomes[1] \in receiptFiles
      BY <1>1 DEF Inv, TypeOK, HeadRecorded
    <2>2. Len(outcomes) >= 1 /\ DOMAIN outcomes = 1 .. Len(outcomes) /\ Len(outcomes) \in Nat
      BY <2>1, HeadTail
    <2> QED
      BY <2>1, <2>2, HeadTail
  <1>3. PICK w \in WriteResults :
          /\ failed' = (failed \/ w # "done" \/ ~r.success)
          /\ IF Discovery(r.stage)
             THEN pc' = "collect" /\ UNCHANGED cursor
             ELSE IF failed'
             THEN pc' = "stopped" /\ UNCHANGED cursor
             ELSE /\ pc' = "verify"
                  /\ cursor' = [cursor EXCEPT !.at = @ + 1,
                                    !.out = @ \cup artifact[r.stage].report]
    BY DEF RecordSave
  <1> HIDE DEF r
  <1>4. ReceiptsInOrder' /\ Published' /\ Backed(m)' /\ Backed(manifest)'
    BY <1>1, OrderFrame, PublicFrame DEF ResumeInv, Backed
  <1>5. m.exists /\ m.prior = Prior /\ manifest.exists
    BY <1>1 DEF Inv, NextDurable, ResumeInv, PriorKept, Live
  <1>6. PriorKept' /\ LedgerComplete'
    <2>1. ~failed' => ~failed
      BY <1>3
    <2>2. pc' \in {"collect", "stopped", "verify"}
      BY <1>3
    <2> QED
      BY <1>1, <1>5, <2>1, <2>2 DEF ResumeInv, PriorKept, LedgerComplete, Live
  <1>7. CASE UNCHANGED cursor /\ pc' \in {"collect", "stopped"}
    <2>1. PlaceDetermined'
      BY <1>1, <1>7, PlaceFrame DEF ResumeInv, Verifying
    <2>2. InFlightCurrent'
      BY <1>1, <1>2, <1>7, CurrentFrame DEF ResumeInv, InFlightCurrent, ValidOutput
    <2> QED
      BY <1>4, <1>6, <2>1, <2>2 DEF ResumeInv
  <1>8. CASE ~Discovery(r.stage) /\ ~failed'
    <2>1. /\ pc' = "verify" /\ r.success
          /\ cursor' = [cursor EXCEPT !.at = @ + 1, !.out = @ \cup artifact[r.stage].report]
      BY <1>3, <1>8
    <2>2. Len(outcomes) = 1 /\ jobs = <<>> /\ running = {} /\ cursor.phase = r.stage[1]
      BY <1>2, <1>8 DEF Inv, Solo
    <2>3. InFlightCurrent'
      <3>1. Tail(outcomes) = <<>>
        BY <1>2, <2>2
      <3> QED
        BY <1>1, <2>2, <3>1 DEF InFlightCurrent
    <2>4. Verifying
      BY <1>1, <1>8, <2>2 DEF Verifying, Discovery
    <2>5. Current(r)
      BY <1>2, <1>8 DEF ResumeInv, InFlightCurrent
    <2>6. /\ r.stage = <<cursor.phase, cursor.at>> /\ cursor.at \in DOMAIN Batches
          /\ ~Skipped(cursor.phase, cursor.items, cursor.at)
      BY <2>5 DEF Current, BatchStage, Single, Skipped, Batch, Batches
    <2>7. Result(cursor.phase, cursor.items, cursor.at) = artifact[r.stage].report
      <3>1. artifact[r.stage].report = r.digest /\ OneSuccessPerStage
        BY <1>2, <2>1, ReportOf DEF Inv
      <3>2. Result(cursor.phase, cursor.items, cursor.at) = r.digest
        BY <1>2, <2>1, <2>6, <3>1, ResultOfReceipt
      <3> QED
        BY <3>1, <3>2
    <2>8. BatchDone(cursor.phase, cursor.items, cursor.at)
      BY <1>2, <2>1, <2>6 DEF BatchDone, Succeeded
    <2>9. PlaceDetermined'
      BY <1>1, <2>1, <2>4, <2>6, <2>7, <2>8, Advance
    <2> QED
      BY <1>4, <1>6, <2>3, <2>9 DEF ResumeInv
  <1> QED
    BY <1>3, <1>7, <1>8

-----------------------------------------------------------------------------
(* Theorems about resumption and publication.                              *)

LEMMA ResumeInit == Init => ResumeInv
  <1> SUFFICES ASSUME Init PROVE ResumeInv
    OBVIOUS
  <1>1. /\ manifest = NoManifest /\ m = NoManifest /\ receiptFiles = {} /\ cursor = NoCursor /\ pc = "off"
        /\ jobs = <<>> /\ running = {} /\ outcomes = <<>> /\ public = [findings |-> Prior, summary |-> FALSE]
    BY DEF Init
  <1>2. ReceiptsInOrder /\ InFlightCurrent /\ LedgerComplete /\ Published
    BY <1>1 DEF ReceiptsInOrder, InFlightCurrent, LedgerComplete, Live, Published
  <1>3. PlaceDetermined
    BY <1>1 DEF PlaceDetermined, Verifying, NoCursor
  <1>4. PriorKept /\ Backed(manifest) /\ Backed(m)
    BY <1>1 DEF PriorKept, Backed, NoManifest, Live
  <1> QED
    BY <1>2, <1>3, <1>4 DEF ResumeInv

LEMMA ResumeStutter == ASSUME ResumeInv, UNCHANGED vars PROVE ResumeInv'
  <1>1. /\ UNCHANGED <<manifest, receiptFiles, public, m, cursor, failed, workers>> /\ pc' = pc
    BY DEF vars
  <1> QED
    BY <1>1, FlightFrame, QuietResume DEF ResumeInv

(* Every step keeps receipts in order and the coordinator at the place that  *)
(* they determine (Planned.Run, record, plannedRecover).                    *)
THEOREM ResumeInvariance == Spec => []ResumeInv
  <1>1. ASSUME Inv, ResumeInv, [Next]_vars PROVE ResumeInv'
    <2>1. CASE Invoke \/ Return \/ Crash \/ Cancel \/ OpenMismatch \/ StartWorkers
      BY <1>1, <2>1, CallerResume
    <2>2. CASE Open \/ Recover \/ AllocateTask
      BY <1>1, <2>2, OpenResume, RecoverResume, AllocateTaskResume
    <2>3. CASE RecordReceipt \/ RecordSave
      BY <1>1, <2>3, RecordReceiptResume, RecordSaveResume
    <2>4. CASE Collected \/ SkipBatch \/ ReuseBatch
      BY <1>1, <2>4, CollectedResume, SkipBatchResume, ReuseBatchResume
    <2>5. CASE RunBatch \/ NextPhase \/ Publish
      BY <1>1, <2>5, RunBatchResume, NextPhaseResume, PublishResume
    <2>6. CASE TakeJob
      BY <1>1, <2>6, TakeJobResume
    <2>7. ASSUME NEW job \in running,
                 \/ ChildOpens(job)
                 \/ \E f \in Finding : RecordFinding(job, f)
                 \/ \E report \in SUBSET Finding : JobSucceeds(job, report)
                 \/ \E cost \in 0 .. 1 : JobFails(job, cost)
          PROVE  ResumeInv'
      BY <1>1, <2>7, FindingResume, ChildResume
    <2>8. CASE UNCHANGED vars \/ Terminated
      BY <1>1, <2>8, ResumeStutter DEF Terminated
    <2> HIDE DEF vars
    <2> QED
      BY <1>1, <2>1, <2>2, <2>3, <2>4, <2>5, <2>6, <2>7, <2>8 DEF Next, Coordinator, Child
  <1> QED
    BY <1>1, ResumeInit, Invariance, PTL DEF Spec

(* Nothing is published before every task was discovered and every candidate *)
(* kept by a verification batch; what is published is what the last round   *)
(* of consolidation left, and what was public stays (Planned.Run,           *)
(* plannedPublish), also when writes fail.                                  *)
THEOREM OnlyVerified == Spec => []PublishedOnlyVerified
  <1>1. ASSUME Inv, ResumeInv, public.summary PROVE
          /\ \A t \in Task : Succeeded(TaskStage(t)) # {}
          /\ \A b \in DOMAIN Batching[1][Candidates] :
                \E r \in Succeeded(<<1, b>>) : r.dep = Batching[1][Candidates][b]
          /\ public.findings \subseteq Confirmed \cap Candidates
          /\ \E p \in BatchPhase : LastPhase(p) /\ public.findings = OutOf(p, Items[p])
          /\ Prior \subseteq public.findings
    <2>1. /\ TasksDone /\ PhaseDone(1) /\ Prior \subseteq public.findings
          /\ public.findings \subseteq Confirmed \cap Candidates
          /\ \E p \in BatchPhase : LastPhase(p) /\ public.findings = OutOf(p, Items[p])
      BY <1>1 DEF ResumeInv, Published, LastDone
    <2>2. ASSUME NEW b \in DOMAIN Batching[1][Candidates]
          PROVE  \E r \in Succeeded(<<1, b>>) : r.dep = Batching[1][Candidates][b]
      <3>1. PICK r \in Succeeded(<<1, b>>) : TRUE
        BY <2>1, ItemsAre DEF PhaseDone, BatchDone, Skipped
      <3>2. r \in receiptFiles /\ r.success /\ r.stage = <<1, b>> /\ ~Discovery(r.stage)
        BY <3>1 DEF Succeeded, Discovery
      <3>3. InOrder(r) /\ r.stage[1] = 1 /\ r.stage[2] = b
        BY <1>1, <3>2 DEF ResumeInv, ReceiptsInOrder
      <3> QED
        BY <3>1, <3>3, ItemsAre DEF InOrder
    <2> QED
      BY <2>1, <2>2 DEF TasksDone
  <1>2. Inv /\ ResumeInv => PublishedOnlyVerified
    BY <1>1 DEF PublishedOnlyVerified
  <1> QED
    BY <1>2, Invariance, ResumeInvariance, PTL

(* An outcome's cost is counted when it returns, and once: it moves from    *)
(* what is in flight to the receipts when it is recorded.                   *)
Spent(q) == Cardinality({i \in DOMAIN q : q[i].cost = 1})

LEMMA SpentFinite ==
    ASSUME NEW q \in Seq(Receipt)
    PROVE  /\ IsFiniteSet({i \in DOMAIN q : q[i].cost = 1}) /\ Spent(q) \in Nat
           /\ DOMAIN q = 1 .. Len(q) /\ Len(q) \in Nat
  <1>1. DOMAIN q = 1 .. Len(q) /\ Len(q) \in Nat
    OBVIOUS
  <1>2. IsFiniteSet(DOMAIN q)
    BY <1>1, FS_Interval
  <1>3. IsFiniteSet({i \in DOMAIN q : q[i].cost = 1})
    BY <1>2, FS_Subset
  <1> QED
    BY <1>1, <1>3, FS_CardinalityType DEF Spent

LEMMA SpentEmpty == Spent(<<>>) = 0
  <1>1. {i \in DOMAIN <<>> : <<>>[i].cost = 1} = {}
    OBVIOUS
  <1> QED
    BY <1>1, FS_EmptySet DEF Spent

LEMMA SpentAppend ==
    ASSUME NEW q \in Seq(Receipt), NEW r \in Receipt
    PROVE  Spent(Append(q, r)) = Spent(q) + r.cost
  <1> DEFINE S == {i \in DOMAIN q : q[i].cost = 1}
             T == {i \in DOMAIN Append(q, r) : Append(q, r)[i].cost = 1}
             n == Len(q) + 1
  <1>1. /\ DOMAIN Append(q, r) = DOMAIN q \cup {n} /\ n \notin DOMAIN q /\ Append(q, r)[n] = r
        /\ \A i \in DOMAIN q : Append(q, r)[i] = q[i]
    OBVIOUS
  <1>2. r.cost \in 0 .. 1
    BY DEF Receipt
  <1>3. IsFiniteSet(S) /\ Cardinality(S) \in Nat
    BY SpentFinite DEF Spent
  <1>6. Spent(q) = Cardinality(S) /\ Spent(Append(q, r)) = Cardinality(T)
    BY DEF Spent
  <1>4. CASE r.cost = 1
    <2>1. T = S \cup {n} /\ n \notin S
      BY <1>1, <1>4
    <2> HIDE DEF S, T, n
    <2>2. Cardinality(T) = Cardinality(S) + 1
      BY <1>3, <2>1, FS_AddElement
    <2> QED
      BY <1>4, <1>6, <2>2
  <1>5. CASE r.cost = 0
    <2>1. T = S
      BY <1>1, <1>5
    <2> HIDE DEF S, T
    <2> QED
      BY <1>3, <1>5, <1>6, <2>1
  <1> QED
    BY <1>2, <1>4, <1>5

LEMMA SpentTail ==
    ASSUME NEW q \in Seq(Receipt), q # <<>>
    PROVE  Spent(q) = Head(q).cost + Spent(Tail(q))
  <1> DEFINE S == {i \in DOMAIN q : q[i].cost = 1}
             T == {i \in DOMAIN Tail(q) : Tail(q)[i].cost = 1}
             U == {i \in S : i # 1}
             f == [i \in T |-> i + 1]
  <1>1. /\ Head(q) = q[1] /\ Head(q) \in Receipt /\ Tail(q) \in Seq(Receipt)
        /\ Len(q) \in Nat /\ Len(q) >= 1 /\ Len(Tail(q)) = Len(q) - 1
        /\ \A i \in DOMAIN Tail(q) : Tail(q)[i] = q[i + 1] /\ i + 1 \in DOMAIN q
    BY HeadTail
  <1>2. DOMAIN q = 1 .. Len(q) /\ DOMAIN Tail(q) = 1 .. Len(q) - 1
    BY <1>1
  <1>3. f \in Bijection(T, U)
    <2>1. \A i \in T : i \in Nat /\ i + 1 \in U
      BY <1>1, <1>2
    <2>2. f \in Injection(T, U)
      BY <2>1 DEF Injection, IsInjective
    <2>3. \A k \in U : k - 1 \in T /\ f[k - 1] = k
      BY <1>1, <1>2
    <2> HIDE DEF f, T, U
    <2>4. f \in Surjection(T, U)
      BY <2>2, <2>3 DEF Injection, Surjection
    <2> QED
      BY <2>2, <2>4 DEF Bijection
  <1>4. IsFiniteSet(T) /\ Cardinality(T) \in Nat
    BY <1>1, SpentFinite DEF Spent
  <1>9. Spent(q) = Cardinality(S) /\ Spent(Tail(q)) = Cardinality(T)
    BY DEF Spent
  <1> HIDE DEF f, T
  <1>5. IsFiniteSet(U) /\ Cardinality(U) = Cardinality(T)
    BY <1>3, <1>4, FS_Bijection DEF ExistsBijection
  <1>6. q[1].cost \in 0 .. 1
    BY <1>1 DEF Receipt
  <1>7. CASE q[1].cost = 1
    <2>1. S = U \cup {1} /\ 1 \notin U
      BY <1>1, <1>2, <1>7
    <2> HIDE DEF S, U
    <2>2. Cardinality(S) = Cardinality(U) + 1
      BY <1>5, <2>1, FS_AddElement
    <2> QED
      BY <1>1, <1>4, <1>5, <1>7, <1>9, <2>2
  <1>8. CASE q[1].cost = 0
    <2>1. S = U
      BY <1>8
    <2> HIDE DEF S, U
    <2> QED
      BY <1>1, <1>4, <1>5, <1>8, <1>9, <2>1
  <1> QED
    BY <1>6, <1>7, <1>8

(* A receipt that is new adds its cost to the ledger.                       *)
LEMMA CostOf ==
    ASSUME NEW R, IsFiniteSet(R)
    PROVE  /\ PlannedCost(R) \in Nat
           /\ \A Q \in SUBSET R : PlannedCost(Q) \in Nat /\ PlannedCost(Q) <= PlannedCost(R)
  <1> DEFINE C(Q) == {r \in Q : r.cost = 1}
  <1>1. IsFiniteSet(C(R))
    BY FS_Subset
  <1>2. ASSUME NEW Q \in SUBSET R PROVE PlannedCost(Q) \in Nat /\ PlannedCost(Q) <= PlannedCost(R)
    <2>1. C(Q) \in SUBSET C(R)
      OBVIOUS
    <2>2. IsFiniteSet(C(Q)) /\ Cardinality(C(Q)) <= Cardinality(C(R))
      BY <1>1, <2>1, FS_Subset
    <2> QED
      BY <2>2, FS_CardinalityType DEF PlannedCost
  <1> QED
    BY <1>1, <1>2, FS_CardinalityType DEF PlannedCost

LEMMA CostGrows ==
    ASSUME NEW R, IsFiniteSet(R), NEW r \in Receipt, r \notin R
    PROVE  PlannedCost(R \cup {r}) = PlannedCost(R) + r.cost
  <1> DEFINE C(Q) == {x \in Q : x.cost = 1}
  <1>1. IsFiniteSet(C(R)) /\ Cardinality(C(R)) \in Nat
    BY FS_Subset, FS_CardinalityType
  <1>2. r.cost \in 0 .. 1
    BY DEF Receipt
  <1>5. \A Q : PlannedCost(Q) = Cardinality(C(Q))
    BY DEF PlannedCost
  <1>3. CASE r.cost = 1
    <2>1. C(R \cup {r}) = C(R) \cup {r} /\ r \notin C(R)
      BY <1>3
    <2>2. Cardinality(C(R \cup {r})) = Cardinality(C(R)) + 1
      <3> HIDE DEF C
      <3> QED
        BY <1>1, <2>1, FS_AddElement
    <2> QED
      BY <1>3, <1>5, <2>2
  <1>4. CASE r.cost = 0
    <2>1. C(R \cup {r}) = C(R)
      BY <1>4
    <2> HIDE DEF C
    <2> QED
      BY <1>1, <1>4, <1>5, <2>1
  <1> QED
    BY <1>2, <1>3, <1>4

-----------------------------------------------------------------------------
(* The ledger, while writes do not fail.                                   *)

ReliableWrites == ~WriteFaults

LEMMA WritesDone == ASSUME ReliableWrites PROVE WriteResults = {"done"}
  BY DEF ReliableWrites, WriteResults

(* The outcomes whose receipts are not written yet.                         *)
Pending == IF pc = "save" THEN Tail(outcomes) ELSE outcomes

LEMMA UnrecordedIs == Unrecorded = Spent(Pending) /\ Unrecorded' = Spent(Pending')
  BY DEF Unrecorded, Spent, Pending

LEMMA NotComplete == ASSUME LedgerInv, pc # "off" PROVE ~root.complete
  BY DEF LedgerInv, SpendTracked

(* A step that records nothing and returns nothing to the caller.           *)
LEMMA LedgerStep ==
    ASSUME LedgerInv, FilesComplete', UNCHANGED <<receiptFiles, root, spend>>, pc # "off",
           Pending' = Pending, pc' \notin {"collect", "save"} => running' = {} /\ outcomes' = <<>>
    PROVE  LedgerInv'
  <1>1. Unrecorded' = Unrecorded
    BY UnrecordedIs
  <1>2. SpendTracked'
    BY <1>1, NotComplete DEF LedgerInv, SpendTracked
  <1>3. CallerCovered'
    BY DEF LedgerInv, CallerCovered
  <1> QED
    BY <1>2, <1>3 DEF LedgerInv

LEMMA LedgerInit == Init => LedgerInv
  <1> SUFFICES ASSUME Init PROVE LedgerInv
    OBVIOUS
  <1>1. /\ manifest = NoManifest /\ m = NoManifest /\ receiptFiles = {} /\ running = {} /\ outcomes = <<>> /\ spend = 0
        /\ pc = "off" /\ root.cost = 0 /\ ~root.complete
    BY DEF Init
  <1>2. PlannedCost({}) = 0
    <2>1. {r \in {} : r.cost = 1} = {}
      OBVIOUS
    <2> QED
      BY <2>1, FS_EmptySet DEF PlannedCost
  <1>3. Unrecorded = 0
    BY <1>1, UnrecordedIs, SpentEmpty DEF Pending
  <1> QED
    BY <1>1, <1>2, <1>3 DEF LedgerInv, FilesComplete, CallerCovered, SpendTracked, NoManifest

(* What an invocation returns is the ledger: its caller then has counted it. *)
LEMMA ReturnLedger == ASSUME Inv, ResumeInv, LedgerInv, Return PROVE LedgerInv'
  <1> DEFINE earned == IF pc = "refused" THEN 0 ELSE NewCost(m.receipts)
             ended == pc = "published"
  <1>1. /\ pc \in {"refused", "stopped", "published"} /\ UNCHANGED <<manifest, receiptFiles, spend>>
        /\ pc' = "off" /\ m' = NoManifest /\ running' = {} /\ outcomes' = <<>>
        /\ root' = [root EXCEPT !.cost = @ + earned, !.complete = ended]
    BY DEF Return, Stopped
  <1>2. outcomes = <<>>
    BY <1>1 DEF LedgerInv, SpendTracked
  <1>3. Unrecorded = 0 /\ Unrecorded' = 0
    BY <1>1, <1>2, UnrecordedIs, SpentEmpty DEF Pending
  <1>4. PlannedCost(receiptFiles) \in Nat /\ PlannedCost(m.receipts) \in Nat /\ PlannedCost(m.receipts) <= PlannedCost(receiptFiles)
    BY CostOf DEF Inv, Finite, LedgerInv, FilesComplete
  <1>5. earned = IF pc = "refused" THEN 0 ELSE PlannedCost(m.receipts) - root.cost
    BY DEF NewCost
  <1> HIDE DEF earned, ended
  <1>6. root.cost \in Int /\ root'.cost = root.cost + earned /\ root'.complete = ended
    BY <1>1 DEF Inv, TypeOK
  <1>7. root'.cost <= PlannedCost(receiptFiles)
    BY <1>4, <1>5, <1>6 DEF LedgerInv, CallerCovered
  <1>8. root'.complete => root'.cost = spend
    <2>1. ASSUME ended PROVE root'.cost = spend
      <3>1. pc = "published" /\ m.receipts = receiptFiles
        BY <2>1 DEF ended, ResumeInv, LedgerComplete
      <3>2. spend = PlannedCost(receiptFiles)
        BY <1>3, <1>4 DEF LedgerInv, SpendTracked
      <3> QED
        BY <1>4, <1>5, <1>6, <3>1, <3>2
    <2> QED
      BY <1>6, <2>1
  <1>9. FilesComplete'
    BY <1>1 DEF LedgerInv, FilesComplete, NoManifest
  <1>10. SpendTracked'
    BY <1>1, <1>3, <1>8 DEF LedgerInv, SpendTracked
  <1> QED
    BY <1>1, <1>7, <1>9, <1>10 DEF LedgerInv, CallerCovered

LEMMA CrashLedger == ASSUME Inv, LedgerInv, Crash PROVE LedgerInv'
  <1>1. /\ UNCHANGED <<manifest, receiptFiles, root>> /\ pc # "off" /\ spend' = spend - Unrecorded
        /\ pc' = "off" /\ m' = NoManifest /\ running' = {} /\ outcomes' = <<>>
    BY DEF Crash, Stopped
  <1>2. Unrecorded' = 0
    BY <1>1, UnrecordedIs, SpentEmpty DEF Pending
  <1>3. Unrecorded \in Int /\ PlannedCost(receiptFiles) \in Nat
    BY UnrecordedType, CostOf DEF Inv, Finite
  <1>4. SpendTracked'
    BY <1>1, <1>2, <1>3, NotComplete DEF LedgerInv, SpendTracked
  <1> QED
    BY <1>1, <1>4 DEF LedgerInv, FilesComplete, CallerCovered, NoManifest

LEMMA InvokeLedger == ASSUME Inv, LedgerInv, Invoke PROVE LedgerInv'
  <1>1. /\ UNCHANGED <<manifest, receiptFiles, m, running, outcomes, spend>> /\ pc = "off" /\ pc' \in {"start", "resume"}
        /\ root' = [root EXCEPT !.run = TRUE] /\ ~root.complete
    BY DEF Invoke
  <1>2. root'.cost = root.cost /\ root'.complete = root.complete
    BY <1>1 DEF Inv, TypeOK
  <1>3. Pending' = Pending
    BY <1>1 DEF Pending
  <1>4. Unrecorded' = Unrecorded
    BY <1>3, UnrecordedIs
  <1> QED
    BY <1>1, <1>2, <1>4 DEF LedgerInv, FilesComplete, CallerCovered, SpendTracked

(* A child's cost is in flight from its return.                             *)
LEMMA OutcomeLedger ==
    ASSUME Inv, LedgerInv, NEW r \in Receipt, outcomes' = Append(outcomes, r), spend' = spend + r.cost,
           UNCHANGED <<manifest, receiptFiles, m, root, pc>>, pc \in {"collect", "save"}
    PROVE  LedgerInv'
  <1>1. outcomes \in Seq(Receipt) /\ r.cost \in 0 .. 1
    BY DEF Inv, TypeOK, Receipt
  <1>2. Pending \in Seq(Receipt) /\ Pending' = Append(Pending, r)
    <2>1. CASE pc = "save"
      <3>1. outcomes # <<>>
        BY <2>1 DEF Inv, HeadRecorded
      <3>2. Tail(outcomes) \in Seq(Receipt) /\ Tail(Append(outcomes, r)) = Append(Tail(outcomes), r)
        BY <1>1, <3>1
      <3> QED
        BY <2>1, <3>2 DEF Pending
    <2>2. CASE pc # "save"
      BY <1>1, <2>2 DEF Pending
    <2> QED
      BY <2>1, <2>2
  <1>3. Unrecorded' = Unrecorded + r.cost /\ Unrecorded \in Nat
    BY <1>2, SpentAppend, SpentFinite, UnrecordedIs
  <1>4. PlannedCost(receiptFiles) \in Nat
    BY CostOf DEF Inv, Finite
  <1>5. SpendTracked'
    BY <1>1, <1>3, <1>4, NotComplete DEF LedgerInv, SpendTracked
  <1> QED
    BY <1>5 DEF LedgerInv, FilesComplete, CallerCovered

LEMMA RunningIsCollecting ==
    ASSUME Inv, LedgerInv, NEW job \in running
    PROVE  pc \in {"collect", "save"} /\ job \in Job
  BY DEF Inv, TypeOK, LedgerInv, SpendTracked

LEMMA ChildLedger ==
    ASSUME Inv, LedgerInv, ReliableWrites, NEW job \in running,
           \/ ChildOpens(job)
           \/ \E f \in Finding : RecordFinding(job, f)
           \/ \E report \in SUBSET Finding : JobSucceeds(job, report)
           \/ \E cost \in 0 .. 1 : JobFails(job, cost)
    PROVE  LedgerInv'
  <1>1. CASE ChildOpens(job) \/ \E f \in Finding : RecordFinding(job, f)
    <2>1. UNCHANGED <<manifest, receiptFiles, m, root, pc, running, outcomes, spend>>
      BY <1>1 DEF ChildOpens, RecordFinding
    <2>2. Pending' = Pending
      BY <2>1 DEF Pending
    <2> QED
      BY <2>1, <2>2, RunningIsCollecting, LedgerStep DEF LedgerInv, FilesComplete, SpendTracked
  <1>2. ASSUME NEW report \in SUBSET Finding, JobSucceeds(job, report) PROVE LedgerInv'
    <2> DEFINE o == Outcome(job, TRUE, TRUE, 1, report)
    <2>1. o \in Receipt
      BY RunningIsCollecting, OutcomeType, 1 \in 0 .. 1
    <2>3. o.cost = 1
      BY DEF Outcome
    <2>2. /\ outcomes' = Append(outcomes, o) /\ spend' = spend + 1
          /\ UNCHANGED <<manifest, receiptFiles, m, root, pc>>
      BY <1>2 DEF JobSucceeds
    <2> HIDE DEF o
    <2> QED
      BY <2>1, <2>2, <2>3, RunningIsCollecting, OutcomeLedger
  <1>3. ASSUME NEW cost \in 0 .. 1, JobFails(job, cost) PROVE LedgerInv'
    <2> DEFINE o == Outcome(job, TRUE, FALSE, cost, {})
    <2>1. o \in Receipt /\ o.cost = cost
      BY RunningIsCollecting, OutcomeType DEF Outcome
    <2>2. /\ outcomes' = Append(outcomes, o) /\ spend' = spend + cost
          /\ UNCHANGED <<manifest, receiptFiles, m, root, pc>>
      BY <1>3 DEF JobFails
    <2> HIDE DEF o
    <2> QED
      BY <2>1, <2>2, RunningIsCollecting, OutcomeLedger
  <1> QED
    BY <1>1, <1>2, <1>3

LEMMA TakeJobLedger == ASSUME Inv, LedgerInv, TakeJob PROVE LedgerInv'
  <1>1. /\ UNCHANGED <<manifest, receiptFiles, m, root, pc, spend>>
        /\ pc \in {"collect", "save"} /\ jobs # <<>>
    BY DEF TakeJob, Working
  <1>2. CASE outcomes' = outcomes
    <2>1. Pending' = Pending
      BY <1>1, <1>2 DEF Pending
    <2> QED
      BY <1>1, <1>2, <2>1, LedgerStep DEF LedgerInv, FilesComplete, SpendTracked
  <1>3. CASE outcomes' = Append(outcomes, Outcome(Head(jobs), FALSE, FALSE, 0, {}))
    <2> DEFINE o == Outcome(Head(jobs), FALSE, FALSE, 0, {})
    <2>1. Head(jobs) \in Job
      <3>1. jobs \in Seq(Job)
        BY DEF Inv, TypeOK
      <3> QED
        BY <1>1, <3>1, HeadTail
    <2>2. o \in Receipt
      BY <2>1, OutcomeType, 0 \in 0 .. 1, {} \in SUBSET Finding
    <2>3. o.cost = 0 /\ spend' = spend + o.cost
      BY <1>1 DEF Inv, TypeOK, Outcome
    <2>4. outcomes' = Append(outcomes, o)
      BY <1>3
    <2> HIDE DEF o
    <2> QED
      BY <1>1, <2>2, <2>3, <2>4, OutcomeLedger
  <1> QED
    BY <1>2, <1>3 DEF TakeJob

(* A receipt takes the cost of its outcome over, in its file and in memory.  *)
LEMMA RecordReceiptLedger == ASSUME Inv, LedgerInv, ReliableWrites, RecordReceipt PROVE LedgerInv'
  <1> DEFINE r == Head(outcomes)
  <1>1. /\ pc = "collect" /\ pc' = "save" /\ outcomes # <<>> /\ outcomes' = outcomes
        /\ receiptFiles' = receiptFiles \cup {r} /\ UNCHANGED <<manifest, root, spend>>
        /\ m'.receipts = m.receipts \cup {r}
    <2>1. m \in Manifest
      BY DEF Inv, TypeOK
    <2> QED
      BY <2>1, WritesDone DEF RecordReceipt, Written, Manifest
  <1>2. outcomes \in Seq(Receipt) /\ r = outcomes[1] /\ r \in Receipt /\ 1 \in DOMAIN outcomes
    <2>1. outcomes \in Seq(Receipt)
      BY DEF Inv, TypeOK
    <2>2. Len(outcomes) >= 1 /\ DOMAIN outcomes = 1 .. Len(outcomes) /\ Len(outcomes) \in Nat
      BY <1>1, <2>1, HeadTail
    <2> QED
      BY <1>1, <2>1, <2>2, HeadTail
  <1>3. r \notin receiptFiles
    BY <1>1, <1>2 DEF Inv, OutcomesFresh, FirstPending, Fresh
  <1>4. Pending = outcomes /\ Pending' = Tail(outcomes)
    BY <1>1 DEF Pending
  <1>5. Spent(outcomes) = r.cost + Spent(Tail(outcomes)) /\ Spent(Tail(outcomes)) \in Nat /\ r.cost \in 0 .. 1
    <2>1. Tail(outcomes) \in Seq(Receipt)
      BY <1>1, <1>2, HeadTail
    <2> QED
      BY <1>1, <1>2, <2>1, SpentTail, SpentFinite DEF Receipt
  <1> HIDE DEF r
  <1>6. Unrecorded = r.cost + Unrecorded' /\ Unrecorded' \in Nat
    BY <1>4, <1>5, UnrecordedIs
  <1>7. PlannedCost(receiptFiles') = PlannedCost(receiptFiles) + r.cost /\ PlannedCost(receiptFiles) \in Nat
    BY <1>1, <1>2, <1>3, CostGrows, CostOf DEF Inv, Finite
  <1>8. SpendTracked'
    <2>1. spend' = PlannedCost(receiptFiles') + Unrecorded'
      BY <1>1, <1>5, <1>6, <1>7 DEF LedgerInv, SpendTracked
    <2>2. ~root'.complete
      BY <1>1, NotComplete
    <2> QED
      BY <1>1, <2>1, <2>2 DEF SpendTracked
  <1>9. CallerCovered'
    <2>1. root.cost \in Int /\ root.cost <= PlannedCost(receiptFiles)
      BY DEF Inv, TypeOK, LedgerInv, CallerCovered
    <2> QED
      BY <1>1, <1>5, <1>7, <2>1 DEF CallerCovered
  <1>10. FilesComplete'
    BY <1>1 DEF LedgerInv, FilesComplete
  <1> QED
    BY <1>8, <1>9, <1>10 DEF LedgerInv

LEMMA RecordSaveLedger == ASSUME Inv, LedgerInv, ReliableWrites, RecordSave PROVE LedgerInv'
  <1>1. /\ pc = "save" /\ outcomes' = Tail(outcomes) /\ manifest' = m /\ UNCHANGED <<receiptFiles, m, root, spend>>
        /\ pc' \in {"collect", "stopped", "verify"} /\ running' = running
        /\ pc' # "collect" => ~Discovery(Head(outcomes).stage)
    BY WritesDone DEF RecordSave, Save, Written
  <1>2. Pending' = Pending
    BY <1>1 DEF Pending
  <1>3. pc' # "collect" => running' = {} /\ outcomes' = <<>>
    <2>1. outcomes \in Seq(Receipt) /\ outcomes # <<>>
      BY <1>1 DEF Inv, TypeOK, HeadRecorded
    <2>2. Head(outcomes) = outcomes[1] /\ 1 \in DOMAIN outcomes
      BY <2>1, HeadTail
    <2>3. pc' # "collect" => Len(outcomes) = 1 /\ running = {}
      BY <1>1, <2>2 DEF Inv, Solo
    <2> QED
      BY <1>1, <2>1, <2>3
  <1>4. FilesComplete'
    BY <1>1 DEF LedgerInv, FilesComplete
  <1> QED
    BY <1>1, <1>2, <1>3, <1>4, LedgerStep

(* The manifest that is opened, recovered or saved names no receipt that has *)
(* no file.                                                                 *)
LEMMA ManifestLedger ==
    ASSUME Inv, LedgerInv, Open \/ Recover \/ AllocateTask \/ RunBatch
    PROVE  LedgerInv'
  <1>1. UNCHANGED <<receiptFiles, root, spend, running, outcomes>> /\ pc \notin {"off", "save", "collect"}
    BY DEF Open, Recover, AllocateTask, RunBatch, AtBatch
  <1>2. running = {} /\ outcomes = <<>>
    BY <1>1 DEF LedgerInv, SpendTracked
  <1>3. pc' # "save"
    BY DEF Open, Recover, AllocateTask, RunBatch
  <1>4. Pending' = Pending
    BY <1>1, <1>3 DEF Pending
  <1>5. m'.receipts \subseteq receiptFiles /\ manifest' \in {manifest, m'}
    <2>1. m \in Manifest /\ m.receipts \subseteq receiptFiles /\ manifest.receipts \subseteq receiptFiles
      BY DEF Inv, TypeOK, LedgerInv, FilesComplete
    <2>2. CASE Open
      BY <2>1, <2>2 DEF Open, NewManifest, NoManifest, Save, Written
    <2>3. CASE Recover
      BY <2>1, <2>3 DEF Recover, Recovered, Manifest, Save, Written
    <2>4. CASE AllocateTask
      <3>1. PICK t \in Task : Allocate(TaskStage(t), {})
        BY <2>4, PlanAssumption DEF AllocateTask, Inv, TypeOK, Cursor, Task
      <3>2. m'.receipts = m.receipts
        BY <3>1, StageShape, AllocateIs DEF Inv
      <3> QED
        BY <2>1, <2>4, <3>2 DEF AllocateTask, Save, Written
    <2>5. CASE RunBatch
      <3>1. BatchStage \in Stage /\ Allocate(BatchStage, Batch)
        BY <2>5, BatchShape DEF RunBatch, Inv
      <3>2. m'.receipts = m.receipts
        BY <3>1, AllocateIs DEF Inv
      <3> QED
        BY <2>1, <2>5, <3>2 DEF RunBatch, Save, Written
    <2> QED
      BY <2>2, <2>3, <2>4, <2>5
  <1>6. FilesComplete'
    BY <1>1, <1>5 DEF LedgerInv, FilesComplete
  <1> QED
    BY <1>1, <1>2, <1>4, <1>6, LedgerStep

LEMMA PlaceLedger ==
    ASSUME Inv, LedgerInv,
           Cancel \/ OpenMismatch \/ StartWorkers \/ Collected \/ SkipBatch \/ ReuseBatch \/ NextPhase \/ Publish
    PROVE  LedgerInv'
  <1>1. /\ UNCHANGED <<manifest, receiptFiles, m, root, spend, running, outcomes>>
        /\ pc # "off" /\ (pc = "save" <=> pc' = "save")
    BY DEF Cancel, OpenMismatch, StartWorkers, Collected, SkipBatch, ReuseBatch, NextPhase, Publish, AtBatch
  <1>2. Pending' = Pending
    BY <1>1 DEF Pending
  <1>3. pc' \notin {"collect", "save"} => running' = {} /\ outcomes' = <<>>
    <2>1. CASE Collected
      BY <1>1, <2>1 DEF Collected, Drained
    <2>2. CASE ~Collected
      <3>1. pc' \notin {"collect", "save"} => pc \notin {"collect", "save"}
        BY <2>2 DEF Cancel, OpenMismatch, StartWorkers, SkipBatch, ReuseBatch, NextPhase, Publish, AtBatch
      <3> QED
        BY <1>1, <3>1 DEF LedgerInv, SpendTracked
    <2> QED
      BY <2>1, <2>2
  <1> QED
    BY <1>1, <1>2, <1>3, LedgerStep DEF LedgerInv, FilesComplete

LEMMA LedgerStutter == ASSUME LedgerInv, UNCHANGED vars PROVE LedgerInv'
  <1>1. UNCHANGED <<manifest, receiptFiles, m, root, pc, spend, running, outcomes>>
    BY DEF vars
  <1>2. Pending' = Pending
    BY <1>1 DEF Pending
  <1>3. Unrecorded' = Unrecorded
    BY <1>2, UnrecordedIs
  <1> QED
    BY <1>1, <1>3 DEF LedgerInv, FilesComplete, CallerCovered, SpendTracked

(* While writes do not fail, every step keeps the ledger of spend: what     *)
(* children returned is in receipt files or in flight, and the caller has   *)
(* counted no more (Planned.Run, record, plannedRecover, focusedCostDelta). *)
THEOREM LedgerInvariance == ReliableWrites => (Spec => []LedgerInv)
  <1> SUFFICES ASSUME ReliableWrites PROVE Spec => []LedgerInv
    OBVIOUS
  <1>1. ASSUME Inv, ResumeInv, LedgerInv, [Next]_vars PROVE LedgerInv'
    <2>1. CASE Invoke \/ Return \/ Crash
      BY <1>1, <2>1, InvokeLedger, ReturnLedger, CrashLedger
    <2>2. CASE Open \/ Recover \/ AllocateTask \/ RunBatch
      BY <1>1, <2>2, ManifestLedger
    <2>3. CASE RecordReceipt \/ RecordSave
      BY <1>1, <2>3, RecordReceiptLedger, RecordSaveLedger
    <2>4. CASE Cancel \/ OpenMismatch \/ StartWorkers \/ Collected \/ SkipBatch \/ ReuseBatch \/ NextPhase \/ Publish
      BY <1>1, <2>4, PlaceLedger
    <2>5. CASE TakeJob
      BY <1>1, <2>5, TakeJobLedger
    <2>6. ASSUME NEW job \in running,
                 \/ ChildOpens(job)
                 \/ \E f \in Finding : RecordFinding(job, f)
                 \/ \E report \in SUBSET Finding : JobSucceeds(job, report)
                 \/ \E cost \in 0 .. 1 : JobFails(job, cost)
          PROVE  LedgerInv'
      BY <1>1, <2>6, ChildLedger
    <2>7. CASE UNCHANGED vars \/ Terminated
      BY <1>1, <2>7, LedgerStutter DEF Terminated
    <2> HIDE DEF vars
    <2> QED
      BY <1>1, <2>1, <2>2, <2>3, <2>4, <2>5, <2>6, <2>7 DEF Next, Coordinator, Child
  <1> QED
    BY <1>1, LedgerInit, Invariance, ResumeInvariance, PTL DEF Spec

(* While writes do not fail, the caller never counts more than the receipts *)
(* that a resumption can find, and a complete review has counted every unit *)
(* once (review.Run, focusedCostDelta).                                     *)
THEOREM SpendKept == ReliableWrites => (Spec => []SpendReconciled)
  <1> SUFFICES ASSUME ReliableWrites PROVE Spec => []SpendReconciled
    OBVIOUS
  <1>1. LedgerInv => SpendReconciled
    BY DEF LedgerInv, CallerCovered, SpendTracked, SpendReconciled
  <1> QED
    BY <1>1, LedgerInvariance, PTL

(* While writes do not fail, recovery accepts the receipts and reports that *)
(* the adapter left behind, and a batch found complete is the batch that    *)
(* resumption computes again (plannedRecover, runVerified).                 *)
THEOREM ResumptionAccepted == ReliableWrites => (Spec => []ResumeAccepted)
  <1> SUFFICES ASSUME ReliableWrites PROVE Spec => []ResumeAccepted
    OBVIOUS
  <1> DEFINE man == Recovered(m, receiptFiles)
  <1>1. ASSUME Inv, LedgerInv PROVE LedgerAgrees(m, receiptFiles)
    <2>1. m.receipts \subseteq receiptFiles
      BY <1>1 DEF LedgerInv, FilesComplete
    <2>2. m.receipts \cup receiptFiles = receiptFiles
      BY <2>1
    <2>3. PlannedCost(receiptFiles) \in Nat /\ root.cost \in Int
      BY <1>1, CostOf DEF Inv, Finite, TypeOK
    <2>4. PlannedCost(m.receipts \cup receiptFiles) >= root.cost
      BY <1>1, <2>2, <2>3 DEF LedgerInv, CallerCovered
    <2> QED
      BY <1>1, <2>1, <2>4 DEF LedgerAgrees, Inv, UniqueIDs, SameID
  <1>2. ASSUME Inv, ResumeInv, NEW s \in Stage, man.complete[s] # None
        PROVE  \E r \in man.receipts : /\ r.stage = s /\ r.gen = man.complete[s] /\ r.success
                                       /\ ReportIntact(r)
    <2>1. man.receipts = m.receipts \cup receiptFiles /\ man.complete = RecoveredComplete(m, receiptFiles)
      BY <1>2 DEF Inv, TypeOK, Recovered, Manifest
    <2>2. SuccessesOf(s, receiptFiles) # {}
      BY <1>2, <2>1 DEF ResumeInv, Backed, RecoveredComplete, SuccessesOf
    <2> DEFINE r == CHOOSE q \in SuccessesOf(s, receiptFiles) : TRUE
    <2>3. r \in SuccessesOf(s, receiptFiles)
      BY <2>2
    <2>4. man.complete[s] = r.gen
      BY <1>2, <2>1, <2>2 DEF RecoveredComplete
    <2> HIDE DEF r, man
    <2>5. r \in receiptFiles /\ r.stage = s /\ r.success
      BY <2>3 DEF SuccessesOf
    <2>6. ReportIntact(r)
      BY <1>2, <2>5 DEF Inv, CompletedReportsIntact
    <2> QED
      BY <2>1, <2>4, <2>5, <2>6
  <1>3. Inv /\ ResumeInv /\ LedgerInv => ResumeAccepted
    BY <1>1, <1>2, Reusable DEF ResumeAccepted, StagesIntact
  <1> QED
    BY <1>3, Invariance, ResumeInvariance, LedgerInvariance, PTL
=============================================================================
