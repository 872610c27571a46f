---------------------------- MODULE ReviewProofs ----------------------------
(***************************************************************************)
(* Proofs about Review, for every set of diffs and findings and any number  *)
(* of reviews, mishaps and invocations, as long as no two invocations       *)
(* overlap: nothing locks the checkpoint, and two that do overlap can       *)
(* replace a complete report.                                               *)
(***************************************************************************)
EXTENDS Review, TLAPS

(* One invocation at a time.                                                *)
Alone == \A p, q \in Proc : ~At(p, "off") /\ ~At(q, "off") => p = q

-----------------------------------------------------------------------------
(* The inductive invariant.                                                *)

RunType ==
    [pc : {"off", "nothing", "load", "prepare", "prior", "running", "call", "agent",
           "returned", "read", "finish", "remove"},
     fresh : BOOLEAN, planned : BOOLEAN, resuming : BOOLEAN,
     id : 0 .. MaxReviews, source : Source, cost : Nat, report : Report,
     result : {"none", "ok", "failed", "paused"}, delta : Nat]
AdapterType == [manifest : BOOLEAN, ledger : Nat, known : BOOLEAN, verdict : SUBSET Item]

Types ==
    /\ diff \in Source /\ ckpt \in Checkpoint /\ work \in Report
    /\ proc \in [Proc -> RunType]
    /\ adapter \in [ID -> AdapterType]
    /\ recorded \subseteq Item
    /\ past \subseteq ID \X {"running", "failed", "complete"}
    /\ mishaps \in 0 .. Mishaps

(* Findings of review i about diff s, identities that were used, and what   *)
(* agents wrote for review i.                                               *)
Items(i, s) == [id : {i}, source : {s}, what : Finding]
PastIDs == {e[1] : e \in past}
RecordedFor(i) == {item \in recorded : item.id = i}
Incomplete == ckpt.status \in {"running", "failed"}

(* The checkpoint names a review that was begun. *)
Begun ==
    /\ ckpt.id = 0 <=> ckpt.status = "none"
    /\ ckpt.id # 0 => ckpt.id \in PastIDs

(* As long as the review is incomplete, the work file is its own: what it   *)
(* holds belongs to it, and nothing it recorded is missing.                 *)
WorkBelongs ==
    Incomplete =>
        /\ work.found \subseteq Items(ckpt.id, ckpt.source)
        /\ ckpt.id \notin discarded => RecordedFor(ckpt.id) \subseteq work.found

(* An adapter has state for reviews that were begun. What a planned review  *)
(* wrote is its verdict, which is fixed once it is known.                   *)
AdapterBegun ==
    /\ \A item \in recorded : item.id \in PastIDs
    /\ \A i \in ID :
        /\ adapter[i] # NoAdapter => i \in PastIDs
        /\ ~adapter[i].known => adapter[i].verdict = {}
        /\ adapter[i].manifest => RecordedFor(i) \subseteq adapter[i].verdict
AdapterBelongs ==
    ckpt.id # 0 =>
        /\ adapter[ckpt.id].verdict \subseteq Items(ckpt.id, ckpt.source)
        /\ adapter[ckpt.id].manifest => ckpt.cost <= adapter[ckpt.id].ledger

(* What an invocation holds, by where it is. Before it has written the      *)
(* checkpoint it starts a review that has nothing, or resumes the one the   *)
(* checkpoint names; afterwards the checkpoint is that of its review.       *)
Before(p) == proc[p].pc \in {"prepare", "prior", "running"}
After(p) == proc[p].pc \in {"returned", "read", "finish"}
Sourced(p) ==
    /\ proc[p].pc \in {"load", "prepare", "prior", "running"} => proc[p].source # NoDiff
    /\ At(p, "load") => proc[p].cost = 0 /\ ~proc[p].resuming
New(p) ==
    Before(p) /\ ~proc[p].resuming =>
        /\ proc[p].id \in ID \ PastIDs /\ proc[p].cost = 0
        /\ ~At(p, "prepare") => work = NoWork
        /\ At(p, "running") => proc[p].report = NoWork
Resumed(p) ==
    Before(p) /\ proc[p].resuming =>
        /\ Incomplete
        /\ proc[p].id = ckpt.id /\ proc[p].source = ckpt.source /\ proc[p].cost = ckpt.cost
        /\ proc[p].report.found \subseteq Items(ckpt.id, ckpt.source)
Owns(p) ==
    At(p, "call") \/ At(p, "agent") \/ After(p) =>
        /\ ckpt.status = "running" /\ ckpt.source # NoDiff
        /\ proc[p].id = ckpt.id /\ proc[p].source = ckpt.source
        /\ ckpt.cost <= proc[p].cost
        /\ ~After(p) => ckpt.cost = proc[p].cost
Called(p) ==
    /\ At(p, "call") /\ ~proc[p].resuming =>
        adapter[proc[p].id] = NoAdapter /\ RecordedFor(proc[p].id) = {} /\ proc[p].cost = 0
    /\ At(p, "agent") => (proc[p].planned <=> Ledger(p).manifest)
Total(p) == IF At(p, "returned") THEN proc[p].cost + proc[p].delta ELSE proc[p].cost
Accounted(p) ==
    After(p) /\ Ledger(p).manifest =>
        Total(p) <= Ledger(p).ledger /\ (proc[p].result = "ok" => Total(p) = Ledger(p).ledger)
Answered(p) ==
    /\ After(p) /\ proc[p].result = "ok" => work.summary = SummaryFor(work.found)
    /\ At(p, "finish") => proc[p].report = work
    /\ At(p, "remove") => ckpt.status = "complete"
Holds(p) == Sourced(p) /\ New(p) /\ Resumed(p) /\ Owns(p) /\ Called(p) /\ Accounted(p) /\ Answered(p)

Inv ==
    /\ Types
    /\ Begun /\ NoMixing /\ WorkBelongs
    /\ AdapterBegun /\ AdapterBelongs
    /\ NothingLost /\ SummaryFits /\ LedgerCounted
    /\ \A p \in Proc : Holds(p)

-----------------------------------------------------------------------------
(* Steps of one invocation.                                                *)

USE DEF history, vars

LEMMA Bounds == /\ MaxReviews \in Nat \ {0} /\ Mishaps \in Nat /\ NoDiff \notin Diff
  BY ReviewAssumption

LEMMA ConstantTypes ==
    /\ NoWork \in Report /\ NoWork.found = {} /\ NoWork.summary = "none"
    /\ Idle \in RunType /\ NoCheckpoint \in Checkpoint /\ NoAdapter \in AdapterType
  <1>1. NoWork \in Report /\ NoWork.found = {} /\ NoWork.summary = "none"
    BY DEF NoWork, Report
  <1> HIDE DEF NoWork
  <1>2. Idle \in RunType
    BY <1>1, Bounds DEF Idle, RunType, Source
  <1>3. NoCheckpoint \in Checkpoint
    BY <1>1, Bounds DEF NoCheckpoint, Checkpoint, Source
  <1>4. NoAdapter \in AdapterType
    BY DEF NoAdapter, AdapterType
  <1> QED
    BY <1>1, <1>2, <1>3, <1>4

(* An identity that is drawn is new.                                        *)
LEMMA NewIsUnused ==
    ASSUME Unused # {}
    PROVE  NewID \in ID \ PastIDs
  BY DEF NewID, Unused, PastIDs

(* What is known of an invocation that is off does not matter.              *)
LEMMA OffHolds == ASSUME NEW q \in Proc, At(q, "off") PROVE Holds(q)
  BY DEF Holds, At, Before, After, Sourced, New, Resumed, Owns, Called, Accounted, Answered

LEMMA OffHoldsNext == ASSUME NEW q \in Proc, At(q, "off")' PROVE Holds(q)'
  BY DEF Holds, At, Before, After, Sourced, New, Resumed, Owns, Called, Accounted, Answered

(* While one invocation moves all others are off.                           *)
LEMMA Moves ==
    ASSUME Types, Alone, Alone', NEW p \in Proc, NEW new \in RunType, Goes(p, new),
           ~At(p, "off") \/ new.pc # "off"
    PROVE  /\ proc' \in [Proc -> RunType] /\ proc'[p] = new
           /\ \A q \in Proc \ {p} : Holds(q)'
  <1>1. /\ proc' \in [Proc -> RunType] /\ proc'[p] = new
        /\ \A q \in Proc \ {p} : proc'[q] = proc[q]
    BY DEF Types, Goes
  <1>2. ASSUME NEW q \in Proc \ {p} PROVE At(q, "off")'
    BY <1>1, <1>2 DEF Alone, At
  <1> QED
    BY <1>1, <1>2, OffHoldsNext

(* What holds of the files and the ledgers.                                 *)
Files ==
    /\ Begun /\ NoMixing /\ WorkBelongs
    /\ AdapterBegun /\ AdapterBelongs
    /\ NothingLost /\ SummaryFits /\ LedgerCounted

LEMMA FilesKept ==
    ASSUME Files, UNCHANGED <<ckpt, work, adapter, recorded, discarded, past>>
    PROVE  Files'
  BY DEF Files, Begun, NoMixing, WorkBelongs, Incomplete, RecordedFor, PastIDs, AdapterBegun,
     AdapterBelongs, NothingLost, SummaryFits, LedgerCounted

-----------------------------------------------------------------------------
(* Steps that leave the files and the ledgers alone.                       *)

LEMMA InitInv == Init => Inv
  <1> SUFFICES ASSUME Init PROVE Inv
    OBVIOUS
  <1>1. Types
    BY Bounds, ConstantTypes DEF Init, Types, Source
  <1>2. Files
    BY DEF Init, NoCheckpoint, NoWork, Files, Begun, NoMixing, WorkBelongs, Incomplete, RecordedFor,
       PastIDs, AdapterBegun, AdapterBelongs, NoAdapter, NothingLost, SummaryFits, LedgerCounted
  <1>3. \A p \in Proc : At(p, "off")
    BY DEF Init, At, Idle
  <1> QED
    BY <1>1, <1>2, <1>3, OffHolds DEF Inv, Files

LEMMA MishapType == Mishap => (mishaps \in 0 .. Mishaps => mishaps' \in 0 .. Mishaps)
  BY Bounds DEF Mishap

LEMMA SelectInv == ASSUME Inv, Alone, Alone', NEW p \in Proc, Select(p) PROVE Inv'
  <1>1. PICK fresh, planned \in BOOLEAN :
           Goes(p, [Idle EXCEPT !.pc = IF diff = NoDiff THEN "nothing" ELSE "load",
                                !.fresh = fresh, !.planned = planned, !.source = diff])
    BY DEF Select
  <1> DEFINE new == [Idle EXCEPT !.pc = IF diff = NoDiff THEN "nothing" ELSE "load",
                                 !.fresh = fresh, !.planned = planned, !.source = diff]
  <1>2. /\ new \in RunType /\ new.source = diff /\ new.cost = 0 /\ ~new.resuming
        /\ new.pc = IF diff = NoDiff THEN "nothing" ELSE "load"
    BY ConstantTypes DEF Inv, Types, Idle, RunType
  <1>3. Goes(p, new)
    BY <1>1
  <1> HIDE DEF new
  <1>4. /\ proc' \in [Proc -> RunType] /\ proc'[p] = new /\ \A q \in Proc \ {p} : Holds(q)'
    BY <1>2, <1>3, Moves DEF Inv
  <1>5. Types' /\ Files'
    BY <1>4, FilesKept DEF Select, Inv, Types, Files
  <1>6. Holds(p)'
    BY <1>2, <1>4 DEF Holds, At, Before, After, Sourced, New, Resumed, Owns, Called, Accounted, Answered
  <1> QED
    BY <1>4, <1>5, <1>6 DEF Inv, Files

(* A new review has an identity nothing was recorded or spent for.          *)
LEMMA StartNewInv == ASSUME Inv, Alone, Alone', NEW p \in Proc, StartNew(p) PROVE Inv'
  <1> DEFINE new == [proc[p] EXCEPT !.pc = "prepare", !.id = NewID]
  <1>a. NewID \in 0 .. MaxReviews /\ NewID \in ID \ PastIDs
    BY NewIsUnused, Bounds DEF StartNew, ID
  <1>1. Goes(p, new) /\ UNCHANGED <<diff, ckpt, work, adapter, history>>
    BY DEF StartNew
  <1>2. /\ new \in RunType /\ new.pc = "prepare" /\ new.id = NewID
        /\ new.source = proc[p].source /\ new.cost = proc[p].cost /\ new.resuming = proc[p].resuming
    BY <1>a DEF Inv, Types, RunType
  <1> HIDE DEF new
  <1>3. /\ proc' \in [Proc -> RunType] /\ proc'[p] = new /\ \A q \in Proc \ {p} : Holds(q)'
    BY <1>1, <1>2, Moves DEF Inv, At, StartNew
  <1>4. Types' /\ Files'
    BY <1>1, <1>3, FilesKept, MishapType DEF StartNew, Inv, Types, Files
  <1>5. Holds(p)'
    <2>1. (Owns(p) /\ Called(p) /\ Accounted(p) /\ Answered(p))'
      BY <1>2, <1>3 DEF At, Owns, Called, Accounted, Answered, After
    <2>2. Sourced(p)'
      BY <1>1, <1>2, <1>3 DEF Inv, Holds, StartNew, Sourced, At
    <2>3. New(p)'
      BY <1>a, <1>1, <1>2, <1>3 DEF Inv, Holds, StartNew, Sourced, New, At, PastIDs
    <2>4. Resumed(p)'
      BY <1>2, <1>3 DEF Inv, Holds, StartNew, Sourced, Resumed, At
    <2> QED
      BY <2>1, <2>2, <2>3, <2>4 DEF Holds
  <1> QED
    BY <1>3, <1>4, <1>5 DEF Inv, Files

(* A killed invocation holds nothing.                                       *)
LEMMA KillInv == ASSUME Inv, Alone, Alone', NEW p \in Proc, Kill(p) PROVE Inv'
  <1>1. Goes(p, Idle) /\ Idle \in RunType /\ Idle.pc = "off"
    BY ConstantTypes DEF Kill, Idle
  <1>2. /\ proc' \in [Proc -> RunType] /\ proc'[p] = Idle /\ \A q \in Proc \ {p} : Holds(q)'
    BY <1>1, Moves DEF Inv, At, Kill
  <1>3. Types' /\ Files'
    BY <1>2, FilesKept, MishapType DEF Kill, Inv, Types, Files
  <1>4. Holds(p)'
    BY <1>1, <1>2, OffHoldsNext DEF At
  <1> QED
    BY <1>2, <1>3, <1>4 DEF Inv, Files

(* An agent that refuses has done nothing.                                  *)
LEMMA AgentRefusesInv == ASSUME Inv, Alone, Alone', NEW p \in Proc, AgentRefuses(p) PROVE Inv'
  <1> DEFINE new == [proc[p] EXCEPT !.pc = "returned", !.result = "failed", !.delta = 0]
  <1>0. At(p, "call") /\ Owns(p) /\ AdapterBelongs /\ ckpt.id # 0
    BY DEF AgentRefuses, Inv, Holds, Owns, At, Begun
  <1>1. Goes(p, new) /\ UNCHANGED <<diff, ckpt, work, adapter, history>>
    BY DEF AgentRefuses, Returns
  <1>2. /\ new \in RunType /\ new.pc = "returned" /\ new.result = "failed" /\ new.delta = 0
        /\ new.id = proc[p].id /\ new.source = proc[p].source /\ new.cost = proc[p].cost
    BY DEF AgentRefuses, Inv, Types, RunType
  <1> HIDE DEF new
  <1>3. /\ proc' \in [Proc -> RunType] /\ proc'[p] = new /\ \A q \in Proc \ {p} : Holds(q)'
    BY <1>1, <1>2, Moves DEF Inv, At, AgentRefuses
  <1>4. Types' /\ Files'
    BY <1>1, <1>3, FilesKept, MishapType DEF AgentRefuses, Inv, Types, Files
  <1>5. Holds(p)'
    <2>1. (Sourced(p) /\ New(p) /\ Resumed(p))'
      BY <1>2, <1>3 DEF At, Sourced, New, Resumed, Before
    <2>2. Owns(p)'
      BY <1>0, <1>1, <1>2, <1>3 DEF Owns, At, After
    <2>3. Called(p)'
      BY <1>2, <1>3 DEF Called, At
    <2>4. Accounted(p)'
      <3>1. new.cost \in Nat /\ proc[p].cost = ckpt.cost /\ proc[p].id = ckpt.id
        BY <1>0, <1>2 DEF RunType, Owns, At, After
      <3>2. Total(p)' = ckpt.cost
        BY <1>2, <1>3, <3>1 DEF Total, At
      <3>3. adapter[ckpt.id].manifest => ckpt.cost <= adapter[ckpt.id].ledger
        BY <1>0 DEF AdapterBelongs
      <3> QED
        BY <1>1, <1>2, <1>3, <3>1, <3>2, <3>3 DEF Accounted, Ledger
    <2>5. Answered(p)'
      BY <1>2, <1>3 DEF Answered, At
    <2> QED
      BY <2>1, <2>2, <2>3, <2>4, <2>5 DEF Holds
  <1> QED
    BY <1>3, <1>4, <1>5 DEF Inv, Files

(* The report is the work file.                                             *)
LEMMA ReadWorkInv == ASSUME Inv, Alone, Alone', NEW p \in Proc, ReadWork(p) PROVE Inv'
  <1> DEFINE new == [proc[p] EXCEPT !.pc = "finish", !.report = work]
  <1>0. At(p, "read") /\ Owns(p) /\ Accounted(p) /\ Answered(p)
    BY DEF ReadWork, Inv, Holds
  <1>1. Goes(p, new) /\ UNCHANGED <<diff, ckpt, work, adapter, history>>
    BY DEF ReadWork
  <1>2. /\ new \in RunType /\ new.pc = "finish" /\ new.result = proc[p].result /\ new.report = work
        /\ new.id = proc[p].id /\ new.source = proc[p].source /\ new.cost = proc[p].cost
    BY DEF ReadWork, Inv, Types, RunType
  <1> HIDE DEF new
  <1>3. /\ proc' \in [Proc -> RunType] /\ proc'[p] = new /\ \A q \in Proc \ {p} : Holds(q)'
    BY <1>1, <1>2, Moves DEF Inv, At, ReadWork
  <1>4. Types' /\ Files'
    BY <1>1, <1>3, FilesKept, MishapType DEF ReadWork, Inv, Types, Files
  <1>5. Holds(p)'
    <2>1. (Sourced(p) /\ New(p) /\ Resumed(p))'
      BY <1>2, <1>3 DEF At, Sourced, New, Resumed, Before
    <2>2. Owns(p)'
      BY <1>0, <1>1, <1>2, <1>3 DEF Owns, At, After
    <2>3. Called(p)'
      BY <1>2, <1>3 DEF Called, At
    <2>4. Accounted(p)'
      BY <1>0, <1>1, <1>2, <1>3 DEF Accounted, Total, After, At, Ledger
    <2>5. Answered(p)'
      BY <1>0, <1>1, <1>2, <1>3 DEF Answered, After, At
    <2> QED
      BY <2>1, <2>2, <2>3, <2>4, <2>5 DEF Holds
  <1> QED
    BY <1>3, <1>4, <1>5 DEF Inv, Files

(* What is resumed is what the checkpoint holds; another diff, or a         *)
(* complete review, ends the invocation.                                    *)
LEMMA ResumeInv == ASSUME Inv, Alone, Alone', NEW p \in Proc, Resume(p) PROVE Inv'
  <1> DEFINE taken == [proc[p] EXCEPT !.pc = "prepare", !.resuming = TRUE, !.id = ckpt.id,
                                      !.cost = ckpt.cost, !.report = ckpt.report]
  <1>1. taken \in RunType
    <2>1. /\ proc[p] \in RunType /\ ckpt.id \in 0 .. MaxReviews
          /\ ckpt.cost \in Nat /\ ckpt.report \in Report
      BY DEF Inv, Types, Checkpoint
    <2> QED
      BY <2>1 DEF RunType
  <1>2. /\ taken.pc = "prepare" /\ taken.resuming /\ taken.id = ckpt.id /\ taken.cost = ckpt.cost
        /\ taken.report = ckpt.report /\ taken.source = proc[p].source
    BY DEF Inv, Types, RunType
  <1>3. \/ Goes(p, taken) /\ ckpt.status # "complete" /\ SameDiff(p)
        \/ Goes(p, Idle)
    BY DEF Resume
  <1>4. UNCHANGED <<diff, ckpt, work, adapter, history, mishaps>> /\ At(p, "load") /\ ckpt.id # 0
    BY DEF Resume
  <1> HIDE DEF taken
  <1>5. CASE Goes(p, taken) /\ ckpt.status # "complete" /\ SameDiff(p)
    <2>1. /\ proc' \in [Proc -> RunType] /\ proc'[p] = taken /\ \A q \in Proc \ {p} : Holds(q)'
      BY <1>1, <1>2, <1>5, Moves DEF Inv
    <2>2. Types' /\ Files'
      BY <1>4, <2>1, FilesKept DEF Inv, Types, Files
    <2>3. (Owns(p) /\ Called(p) /\ Accounted(p) /\ Answered(p))' /\ New(p)'
      BY <1>2, <2>1 DEF At, New, Before, Owns, Called, Accounted, Answered, After
    <2>4. Sourced(p)'
      BY <1>2, <1>4, <2>1 DEF Inv, Holds, Sourced, At
    <2>5. Resumed(p)'
      <3>1. Incomplete
        BY <1>4, <1>5 DEF Inv, Types, Checkpoint, Begun, Incomplete
      <3>2. ckpt.report.found \subseteq Items(ckpt.id, ckpt.source)
        BY DEF Inv, NoMixing, Types, Checkpoint, Report, Item, Items
      <3> QED
        BY <1>2, <1>4, <1>5, <2>1, <3>1, <3>2 DEF Resumed, Incomplete, Items, SameDiff
    <2> QED
      BY <2>1, <2>2, <2>3, <2>4, <2>5 DEF Inv, Holds, Files
  <1>6. CASE Goes(p, Idle)
    <2>1. Idle \in RunType /\ Idle.pc = "off" /\ ~At(p, "off")
      BY <1>4, ConstantTypes DEF Idle, At
    <2>2. /\ proc' \in [Proc -> RunType] /\ proc'[p] = Idle /\ \A q \in Proc \ {p} : Holds(q)'
      BY <1>6, <2>1, Moves DEF Inv
    <2>3. Types' /\ Files'
      BY <1>4, <2>2, FilesKept DEF Inv, Types, Files
    <2>4. Holds(p)'
      BY <2>1, <2>2, OffHoldsNext DEF At
    <2> QED
      BY <2>2, <2>3, <2>4 DEF Inv, Files
  <1> QED
    BY <1>3, <1>5, <1>6

(* What an agent returns: a result, and the cost nobody has counted yet.    *)
LEMMA ReturnsInv ==
    ASSUME Inv, Alone, Alone', NEW p \in Proc, At(p, "agent"),
           NEW result \in {"ok", "failed", "paused"}, NEW delta \in Nat, Returns(p, result, delta),
           Types', Files', adapter' = adapter, ckpt' = ckpt,
           Ledger(p).manifest => proc[p].cost + delta = Ledger(p).ledger,
           result = "ok" => work'.summary = SummaryFor(work'.found)
    PROVE  Inv'
  <1> DEFINE new == [proc[p] EXCEPT !.pc = "returned", !.result = result, !.delta = delta]
  <1>1. Goes(p, new)
    BY DEF Returns
  <1>2. /\ new \in RunType /\ new.pc = "returned" /\ new.result = result /\ new.delta = delta
        /\ new.id = proc[p].id /\ new.source = proc[p].source /\ new.cost = proc[p].cost
    BY DEF Inv, Types, RunType
  <1> HIDE DEF new
  <1>3. /\ proc' \in [Proc -> RunType] /\ proc'[p] = new /\ \A q \in Proc \ {p} : Holds(q)'
    BY <1>1, <1>2, Moves DEF Inv, At
  <1>4. Holds(p)'
    <2>1. (Sourced(p) /\ New(p) /\ Resumed(p))'
      BY <1>2, <1>3 DEF At, Sourced, New, Resumed, Before
    <2>2. Owns(p)'
      BY <1>2, <1>3 DEF Inv, Holds, Owns, At, After
    <2>3. Called(p)'
      BY <1>2, <1>3 DEF Called, At
    <2>4. Accounted(p)'
      <3>1. Total(p)' = proc[p].cost + delta /\ Ledger(p)' = Ledger(p)
        BY <1>2, <1>3 DEF Total, At, Ledger
      <3>2. proc[p].cost \in Nat
        BY DEF Inv, Types, RunType
      <3> QED
        BY <3>1, <3>2 DEF Accounted
    <2>5. Answered(p)'
      BY <1>2, <1>3 DEF Answered, After, At
    <2> QED
      BY <2>1, <2>2, <2>3, <2>4, <2>5 DEF Holds
  <1> QED
    BY <1>3, <1>4 DEF Inv, Files

(* What an adapter's ledger holds beyond what was counted is never negative.*)
LEMMA UncountedType ==
    ASSUME Inv, NEW p \in Proc, InPlan(p)
    PROVE  /\ Ledger(p).manifest /\ Uncounted(p) \in Nat
           /\ proc[p].cost + Uncounted(p) = Ledger(p).ledger
           /\ proc[p].id = ckpt.id /\ ckpt.id \in ID /\ proc[p].source = ckpt.source
  <1>1. /\ proc[p].id = ckpt.id /\ proc[p].cost = ckpt.cost /\ Ledger(p).manifest
        /\ proc[p].source = ckpt.source
    BY DEF Inv, Holds, InPlan, Owns, Called, At, After
  <1>2. ckpt.id # 0 /\ ckpt.id \in 0 .. MaxReviews
    BY DEF Inv, Holds, InPlan, Owns, Begun, Types, Checkpoint
  <1>3. ckpt.id \in ID
    BY <1>2, Bounds DEF ID
  <1>4. ckpt.cost <= Ledger(p).ledger
    BY <1>1, <1>2 DEF Inv, AdapterBelongs, Ledger
  <1>5. Ledger(p).ledger \in Nat /\ proc[p].cost \in Nat
    BY <1>1, <1>3 DEF Inv, Types, AdapterType, RunType, Ledger
  <1> QED
    BY <1>1, <1>3, <1>4, <1>5 DEF Uncounted

LEMMA PlanStopsInv == ASSUME Inv, Alone, Alone', NEW p \in Proc, PlanStops(p) PROVE Inv'
  <1>1. PICK result \in {"failed", "paused"} : Returns(p, result, Uncounted(p))
    BY DEF PlanStops
  <1>2. Types' /\ Files'
    <2>1. proc' \in [Proc -> RunType]
      <3> DEFINE new == [proc[p] EXCEPT !.pc = "returned", !.result = result, !.delta = Uncounted(p)]
      <3>1. new \in RunType
        <4>1. proc[p] \in RunType /\ Uncounted(p) \in Nat
          BY UncountedType DEF PlanStops, Inv, Types
        <4> QED
          BY <4>1 DEF RunType
      <3> HIDE DEF new
      <3> QED
        BY <1>1, <3>1 DEF Returns, Goes, Inv, Types, new
    <2> QED
      BY <2>1, FilesKept, MishapType DEF PlanStops, Inv, Types, Files
  <1> QED
    BY <1>1, <1>2, UncountedType, ReturnsInv DEF PlanStops, InPlan

LEMMA SessionStopsInv == ASSUME Inv, Alone, Alone', NEW p \in Proc, SessionStops(p) PROVE Inv'
  <1>1. PICK result \in {"failed", "paused"}, delta \in 0 .. 1 : Returns(p, result, delta)
    BY DEF SessionStops
  <1>2. Types' /\ Files'
    <2>1. proc' \in [Proc -> RunType]
      <3> DEFINE new == [proc[p] EXCEPT !.pc = "returned", !.result = result, !.delta = delta]
      <3>1. new \in RunType
        <4>1. proc[p] \in RunType /\ delta \in Nat
          BY DEF Inv, Types
        <4> QED
          BY <4>1 DEF RunType
      <3> HIDE DEF new
      <3> QED
        BY <1>1, <3>1 DEF Returns, Goes, Inv, Types, new
    <2> QED
      BY <2>1, FilesKept, MishapType DEF SessionStops, Inv, Types, Files
  <1>3. ~Ledger(p).manifest /\ delta \in Nat
    BY DEF SessionStops, InSession, Inv, Holds, Called
  <1> QED
    BY <1>1, <1>2, <1>3, ReturnsInv DEF SessionStops, InSession

(* The cost an agent returned is counted once.                              *)
LEMMA RevalidateInv == ASSUME Inv, Alone, Alone', NEW p \in Proc, Revalidate(p) PROVE Inv'
  <1> DEFINE new == [proc[p] EXCEPT !.pc = "read", !.cost = @ + proc[p].delta,
                             !.result = IF @ = "ok" /\ ~StillThere(p) THEN "failed" ELSE @]
  <1>0. At(p, "returned") /\ Owns(p) /\ Accounted(p) /\ Answered(p)
    BY DEF Revalidate, Inv, Holds
  <1>1. Goes(p, new) /\ UNCHANGED <<diff, ckpt, work, adapter, history, mishaps>>
    BY DEF Revalidate
  <1>2. /\ new \in RunType /\ new.pc = "read" /\ new.result \in {proc[p].result, "failed"}
        /\ new.id = proc[p].id /\ new.source = proc[p].source /\ new.cost = proc[p].cost + proc[p].delta
    <2>1. proc[p].cost + proc[p].delta \in Nat
      BY DEF Inv, Types, RunType
    <2>2. (IF proc[p].result = "ok" /\ ~StillThere(p) THEN "failed" ELSE proc[p].result)
            \in {"none", "ok", "failed", "paused"}
      <3>1. proc[p].result \in {"none", "ok", "failed", "paused"}
        BY DEF Inv, Types, RunType
      <3> QED
        BY <3>1
    <2> QED
      BY <2>1, <2>2 DEF Inv, Types, RunType
  <1> HIDE DEF new
  <1>3. /\ proc' \in [Proc -> RunType] /\ proc'[p] = new /\ \A q \in Proc \ {p} : Holds(q)'
    BY <1>0, <1>1, <1>2, Moves DEF Inv, At
  <1>4. Types' /\ Files'
    BY <1>1, <1>3, FilesKept DEF Inv, Types, Files
  <1>5. Holds(p)'
    <2>1. (Sourced(p) /\ New(p) /\ Resumed(p))'
      BY <1>2, <1>3 DEF At, Sourced, New, Resumed, Before
    <2>2. Owns(p)'
      <3>1. ckpt.cost <= proc[p].cost + proc[p].delta
        BY <1>0 DEF Owns, After, At, Inv, Types, Checkpoint, RunType
      <3> QED
        BY <1>0, <1>1, <1>2, <1>3, <3>1 DEF Owns, At, After
    <2>3. Called(p)'
      BY <1>2, <1>3 DEF Called, At
    <2>4. Accounted(p)'
      <3>1. Total(p)' = Total(p) /\ Ledger(p)' = Ledger(p)
        BY <1>0, <1>1, <1>2, <1>3 DEF Total, At, Ledger
      <3> QED
        BY <1>0, <1>2, <1>3, <3>1 DEF Accounted, After, At
    <2>5. Answered(p)'
      BY <1>0, <1>1, <1>2, <1>3 DEF Answered, After, At
    <2> QED
      BY <2>1, <2>2, <2>3, <2>4, <2>5 DEF Holds
  <1> QED
    BY <1>3, <1>4, <1>5 DEF Inv, Files

(* Whoever edits the workspace, or does nothing, keeps it all.              *)
LEMMA EditInv == ASSUME Inv, Edit \/ UNCHANGED vars PROVE Inv'
  <1>1. Types' /\ Files'
    BY FilesKept, MishapType DEF Edit, Inv, Types, Files
  <1>2. UNCHANGED <<ckpt, work, proc, adapter, recorded, past>>
    BY DEF Edit
  <1>3. ASSUME NEW p \in Proc PROVE Holds(p)'
    BY <1>2 DEF Inv, Holds, At, Before, After, Sourced, New, Resumed, Incomplete, Owns, Called, Ledger,
       RecordedFor, PastIDs, Accounted, Total, Answered
  <1> QED
    BY <1>1, <1>3 DEF Inv, Files

-----------------------------------------------------------------------------
(* Steps that write the checkpoint or the work file.                       *)

LEMMA PastStep ==
    ASSUME NEW i, NEW status, past' = past \cup {<<i, status>>}
    PROVE  PastIDs' = PastIDs \cup {i}
  <1> DEFINE entry == <<i, status>>
  <1>1. entry[1] = i
    OBVIOUS
  <1>2. past' = past \cup {entry}
    OBVIOUS
  <1> HIDE DEF entry
  <1> QED
    BY <1>1, <1>2 DEF PastIDs

(* An identity that is new has no ledger, and nothing was recorded for it.  *)
LEMMA NothingForNew ==
    ASSUME AdapterBegun, NEW i \in ID \ PastIDs
    PROVE  adapter[i] = NoAdapter /\ RecordedFor(i) = {}
  BY DEF AdapterBegun, RecordedFor

(* The work file matters to what it belongs to only.                        *)
LEMMA WorkOnly ==
    ASSUME Files, UNCHANGED <<ckpt, adapter, recorded, past>>, discarded \subseteq discarded', WorkBelongs'
    PROVE  Files'
  BY DEF Files, Begun, NoMixing, RecordedFor, PastIDs, AdapterBegun, AdapterBelongs, NothingLost,
     SummaryFits, LedgerCounted

(* There was nothing to review: a complete report of a new review.          *)
LEMMA NothingToReviewInv == ASSUME Inv, Alone, Alone', NEW p \in Proc, NothingToReview(p) PROVE Inv'
  <1> DEFINE clean == [found |-> {}, summary |-> "clean"]
             whole == [NoCheckpoint EXCEPT !.id = NewID, !.status = "complete", !.report = clean]
  <1>1. NewID \in ID \ PastIDs /\ NewID # 0 /\ NewID \in 0 .. MaxReviews
    BY NewIsUnused, Bounds DEF NothingToReview, ID
  <1>2. whole \in Checkpoint /\ whole.id = NewID /\ whole.status = "complete" /\ whole.source = NoDiff
        /\ whole.cost = 0 /\ whole.report = clean
    <2>1. clean \in Report
      BY DEF Report
    <2> HIDE DEF clean
    <2> QED
      BY <1>1, <2>1, ConstantTypes DEF Checkpoint, NoCheckpoint
  <1>3. ckpt' = whole /\ past' = past \cup {<<NewID, "complete">>}
    <2>1. Persist(whole)
      BY DEF NothingToReview
    <2> HIDE DEF whole
    <2> QED
      BY <1>2, <2>1 DEF Persist
  <1>4. Goes(p, Idle) /\ UNCHANGED <<diff, work, adapter, recorded, discarded, mishaps>> /\ ~At(p, "off")
    BY DEF NothingToReview, At
  <1> HIDE DEF whole
  <1>5. proc' \in [Proc -> RunType] /\ \A q \in Proc : Holds(q)'
    <2>1. Idle \in RunType /\ Idle.pc = "off"
      BY ConstantTypes DEF Idle
    <2>2. /\ proc' \in [Proc -> RunType] /\ proc'[p] = Idle /\ \A q \in Proc \ {p} : Holds(q)'
      BY <1>4, <2>1, Moves DEF Inv
    <2> QED
      BY <2>1, <2>2, OffHoldsNext DEF At
  <1>6. Types'
    BY <1>1, <1>2, <1>3, <1>4, <1>5 DEF Inv, Types
  <1>7. PastIDs' = PastIDs \cup {NewID}
    BY <1>3, PastStep
  <1>8. (Begun /\ NoMixing /\ WorkBelongs /\ SummaryFits)'
    BY <1>1, <1>2, <1>3, <1>7 DEF Begun, NoMixing, WorkBelongs, Incomplete, SummaryFits, SummaryFor
  <1>9. (AdapterBegun /\ AdapterBelongs /\ NothingLost /\ LedgerCounted)'
    <2>1. adapter[NewID] = NoAdapter /\ RecordedFor(NewID) = {}
      BY <1>1, NothingForNew DEF Inv
    <2> QED
      BY <1>2, <1>3, <1>4, <1>7, <2>1 DEF Inv, AdapterBegun, AdapterBelongs, NoAdapter, NothingLost,
         LedgerCounted, RecordedFor
  <1> QED
    BY <1>5, <1>6, <1>8, <1>9 DEF Inv

(* The work file is emptied only for a new review; what it had belonged to  *)
(* the review that is replaced.                                             *)
LEMMA PrepareInv == ASSUME Inv, Alone, Alone', NEW p \in Proc, Prepare(p) PROVE Inv'
  <1> DEFINE new == [proc[p] EXCEPT !.pc = "prior"]
  <1>1. Goes(p, new) /\ UNCHANGED <<diff, ckpt, adapter, recorded, past, mishaps>> /\ At(p, "prepare")
    BY DEF Prepare
  <1>2. /\ new \in RunType /\ new.pc = "prior" /\ new.resuming = proc[p].resuming
        /\ new.id = proc[p].id /\ new.source = proc[p].source /\ new.cost = proc[p].cost
        /\ new.report = proc[p].report
    BY DEF Inv, Types, RunType
  <1> HIDE DEF new
  <1>3. /\ proc' \in [Proc -> RunType] /\ proc'[p] = new /\ \A q \in Proc \ {p} : Holds(q)'
    BY <1>1, <1>2, Moves DEF Inv, At
  <1>4. IF proc[p].resuming THEN work' = work /\ discarded' = discarded
        ELSE work' = NoWork /\ discarded' = discarded \cup ({ckpt.id} \ {0})
    BY DEF Prepare, OpenedWork
  <1>5. Types'
    BY <1>1, <1>3, <1>4, ConstantTypes DEF Inv, Types
  <1>6. WorkBelongs'
    BY <1>1, <1>4, ConstantTypes DEF Inv, Begun, WorkBelongs, Incomplete, RecordedFor
  <1>7. Files'
    BY <1>1, <1>4, <1>6, WorkOnly DEF Inv, Files
  <1>8. Holds(p)'
    <2>1. (Owns(p) /\ Called(p) /\ Accounted(p) /\ Answered(p))'
      BY <1>2, <1>3 DEF At, Owns, Called, Accounted, Answered, After
    <2>2. Sourced(p)'
      BY <1>1, <1>2, <1>3 DEF Inv, Holds, Sourced, At
    <2>3. New(p)'
      BY <1>1, <1>2, <1>3, <1>4 DEF Inv, Holds, New, Before, At, PastIDs
    <2>4. Resumed(p)'
      BY <1>1, <1>2, <1>3 DEF Inv, Holds, Resumed, Before, At, Incomplete
    <2> QED
      BY <2>1, <2>2, <2>3, <2>4 DEF Holds
  <1> QED
    BY <1>3, <1>5, <1>7, <1>8 DEF Inv, Files

(* An empty work file that is resumed is restored from the checkpoint.      *)
LEMMA ReadPriorInv == ASSUME Inv, Alone, Alone', NEW p \in Proc, ReadPrior(p) PROVE Inv'
  <1> DEFINE new == [proc[p] EXCEPT !.pc = "running", !.report = PriorWork(p)]
  <1>1. Goes(p, new) /\ UNCHANGED <<diff, ckpt, adapter, history, mishaps>> /\ At(p, "prior")
        /\ work' = PriorWork(p)
    BY DEF ReadPrior
  <1>2. PriorWork(p) \in Report /\ PriorWork(p) = IF proc[p].resuming /\ work = NoWork THEN proc[p].report ELSE work
    BY DEF PriorWork, Inv, Types, RunType
  <1>3. /\ new \in RunType /\ new.pc = "running" /\ new.resuming = proc[p].resuming
        /\ new.id = proc[p].id /\ new.source = proc[p].source /\ new.cost = proc[p].cost
        /\ new.report = PriorWork(p)
    BY <1>2 DEF Inv, Types, RunType
  <1> HIDE DEF new
  <1>4. /\ proc' \in [Proc -> RunType] /\ proc'[p] = new /\ \A q \in Proc \ {p} : Holds(q)'
    BY <1>1, <1>3, Moves DEF Inv, At
  <1>5. Types'
    BY <1>1, <1>2, <1>4 DEF Inv, Types
  <1>6. /\ New(p) /\ Resumed(p) /\ Sourced(p) /\ Before(p)
        /\ proc[p].resuming => Incomplete /\ work.found \subseteq Items(ckpt.id, ckpt.source)
                               /\ PriorWork(p).found \subseteq Items(ckpt.id, ckpt.source)
        /\ ~proc[p].resuming => work = NoWork /\ PriorWork(p) = NoWork
    BY <1>1, <1>2 DEF Inv, Holds, New, Resumed, Before, At, WorkBelongs
  <1>7. WorkBelongs'
    <2>1. CASE ~proc[p].resuming
      BY <1>1, <1>6, <2>1 DEF Inv, WorkBelongs, Incomplete, RecordedFor
    <2>2. CASE proc[p].resuming
      BY <1>1, <1>2, <1>6, <2>2, ConstantTypes DEF Inv, WorkBelongs, Incomplete, RecordedFor
    <2> QED
      BY <2>1, <2>2
  <1>8. Files'
    BY <1>1, <1>7, WorkOnly DEF Inv, Files
  <1>9. Holds(p)'
    <2>1. (Owns(p) /\ Called(p) /\ Accounted(p) /\ Answered(p))'
      BY <1>3, <1>4 DEF At, Owns, Called, Accounted, Answered, After
    <2>2. Sourced(p)'
      BY <1>1, <1>3, <1>4, <1>6 DEF Sourced, At
    <2>3. New(p)'
      BY <1>1, <1>3, <1>4, <1>6 DEF New, Before, At, PastIDs
    <2>4. Resumed(p)'
      BY <1>1, <1>3, <1>4, <1>6 DEF Resumed, Before, At, Incomplete
    <2> QED
      BY <2>1, <2>2, <2>3, <2>4 DEF Holds
  <1> QED
    BY <1>4, <1>5, <1>8, <1>9 DEF Inv, Files

(* The checkpoint is that of the review from here on.                       *)
LEMMA PersistRunningInv == ASSUME Inv, Alone, Alone', NEW p \in Proc, PersistRunning(p) PROVE Inv'
  <1> DEFINE new == [proc[p] EXCEPT !.pc = "call"]
  <1>1. Goes(p, new) /\ UNCHANGED <<diff, work, adapter, recorded, discarded, mishaps>> /\ At(p, "running")
    BY DEF PersistRunning
  <1>2. /\ new \in RunType /\ new.pc = "call" /\ new.resuming = proc[p].resuming
        /\ new.id = proc[p].id /\ new.source = proc[p].source /\ new.cost = proc[p].cost
    BY DEF Inv, Types, RunType
  <1> HIDE DEF new
  <1>3. /\ proc' \in [Proc -> RunType] /\ proc'[p] = new /\ \A q \in Proc \ {p} : Holds(q)'
    BY <1>1, <1>2, Moves DEF Inv, At
  <1>4. /\ ckpt'.id = proc[p].id /\ ckpt'.status = "running" /\ ckpt'.source = proc[p].source
        /\ ckpt'.cost = proc[p].cost /\ ckpt'.report = proc[p].report /\ ckpt' \in Checkpoint
        /\ past' = past \cup {<<proc[p].id, "running">>}
    BY DEF PersistRunning, Persist, Saved, Inv, Types, RunType, Checkpoint
  <1>5. /\ New(p) /\ Resumed(p) /\ Before(p) /\ proc[p].source # NoDiff
        /\ proc[p].id \in ID /\ proc[p].id # 0 /\ proc[p].cost \in Nat
    <2>1. New(p) /\ Resumed(p) /\ Before(p) /\ proc[p].source # NoDiff
      BY <1>1 DEF Inv, Holds, Sourced, Before, At
    <2>2. proc[p].id \in 0 .. MaxReviews /\ proc[p].cost \in Nat
      BY DEF Inv, Types, RunType
    <2>3. proc[p].id # 0
      BY <2>1, Bounds DEF New, Resumed, ID, Inv, Begun, Incomplete
    <2> QED
      BY <2>1, <2>2, <2>3, Bounds DEF ID
  <1>6. Types'
    BY <1>1, <1>3, <1>4, <1>5 DEF Inv, Types
  <1>7. PastIDs' = PastIDs \cup {proc[p].id}
    BY <1>4, PastStep
  <1>8. CASE ~proc[p].resuming
    <2>1. /\ proc[p].id \in ID \ PastIDs /\ proc[p].cost = 0 /\ work = NoWork /\ proc[p].report = NoWork
          /\ adapter[proc[p].id] = NoAdapter /\ RecordedFor(proc[p].id) = {}
      BY <1>1, <1>5, <1>8, NothingForNew DEF New, At, Inv
    <2>2. (Begun /\ NoMixing /\ WorkBelongs /\ NothingLost /\ SummaryFits /\ LedgerCounted)'
      BY <1>1, <1>4, <1>5, <1>7, <2>1, ConstantTypes DEF Begun, NoMixing, WorkBelongs, Incomplete, RecordedFor,
         NothingLost, SummaryFits, LedgerCounted
    <2>3. (AdapterBegun /\ AdapterBelongs)'
      BY <1>1, <1>4, <1>7, <2>1 DEF Inv, AdapterBegun, AdapterBelongs, NoAdapter, RecordedFor
    <2>4. Holds(p)'
      <3>1. (Sourced(p) /\ New(p) /\ Resumed(p) /\ Accounted(p) /\ Answered(p))'
        BY <1>2, <1>3 DEF At, Sourced, New, Resumed, Before, Accounted, Answered, After
      <3>2. Owns(p)'
        BY <1>2, <1>3, <1>4, <1>5 DEF Owns, At, After
      <3>3. Called(p)'
        BY <1>1, <1>2, <1>3, <2>1 DEF Called, At, RecordedFor
      <3> QED
        BY <3>1, <3>2, <3>3 DEF Holds
    <2> QED
      BY <1>3, <1>6, <2>2, <2>3, <2>4 DEF Inv
  <1>9. CASE proc[p].resuming
    <2>1. /\ Incomplete /\ proc[p].id = ckpt.id /\ proc[p].source = ckpt.source /\ proc[p].cost = ckpt.cost
          /\ proc[p].report.found \subseteq Items(ckpt.id, ckpt.source)
      BY <1>5, <1>9 DEF Resumed
    <2>2. NoMixing'
      BY <1>4, <2>1 DEF NoMixing, Items
    <2>3. (Begun /\ WorkBelongs /\ NothingLost /\ SummaryFits /\ LedgerCounted)'
      BY <1>1, <1>4, <1>5, <1>7, <2>1 DEF Inv, Begun, WorkBelongs, Incomplete, RecordedFor,
         NothingLost, SummaryFits, LedgerCounted
    <2>4. (AdapterBegun /\ AdapterBelongs)'
      BY <1>1, <1>4, <1>7, <2>1 DEF Inv, AdapterBegun, AdapterBelongs, RecordedFor
    <2>5. Holds(p)'
      <3>1. (Sourced(p) /\ New(p) /\ Resumed(p) /\ Accounted(p) /\ Answered(p))'
        BY <1>2, <1>3 DEF At, Sourced, New, Resumed, Before, Accounted, Answered, After
      <3>2. Owns(p)'
        BY <1>2, <1>3, <1>4, <1>5 DEF Owns, At, After
      <3>3. Called(p)'
        BY <1>2, <1>3, <1>9 DEF Called, At
      <3> QED
        BY <3>1, <3>2, <3>3 DEF Holds
    <2> QED
      BY <1>3, <1>6, <2>2, <2>3, <2>4, <2>5 DEF Inv
  <1> QED
    BY <1>8, <1>9

(* A step of the agent, or of its ledger, moves no invocation.              *)
LEMMA NobodyMoves ==
    ASSUME Inv, Alone, NEW p \in Proc, ~At(p, "off"), proc' = proc, Types', Files', Holds(p)'
    PROVE  Inv'
  <1>1. ASSUME NEW q \in Proc \ {p} PROVE At(q, "off")'
    BY <1>1 DEF Alone, At
  <1> QED
    BY <1>1, OffHoldsNext DEF Inv, Files

(* While the agent is called, the checkpoint is its review's.               *)
LEMMA CalledFor ==
    ASSUME Inv, NEW p \in Proc, At(p, "call") \/ At(p, "agent")
    PROVE  /\ proc[p].id = ckpt.id /\ ckpt.id \in ID /\ ckpt.id \in PastIDs /\ ckpt.id # 0
           /\ proc[p].source = ckpt.source /\ ckpt.source \in Diff
           /\ proc[p].cost = ckpt.cost /\ ckpt.cost \in Nat
           /\ ckpt.status = "running" /\ Incomplete
           /\ adapter[ckpt.id] \in AdapterType
  <1>1. /\ proc[p].id = ckpt.id /\ proc[p].source = ckpt.source /\ proc[p].cost = ckpt.cost
        /\ ckpt.status = "running" /\ ckpt.source # NoDiff
    BY DEF Inv, Holds, Owns, At, After
  <1>2. ckpt.id # 0 /\ ckpt.id \in PastIDs
    BY <1>1 DEF Inv, Begun
  <1>3. ckpt.id \in 0 .. MaxReviews /\ ckpt.source \in Source /\ ckpt.cost \in Nat
    BY DEF Inv, Types, Checkpoint
  <1>4. ckpt.id \in ID
    BY <1>2, <1>3, Bounds DEF ID
  <1> QED
    BY <1>1, <1>2, <1>3, <1>4 DEF Inv, Types, Incomplete, Source

(* An adapter starts for a new review or with the manifest it has.          *)
LEMMA AgentStartsInv == ASSUME Inv, Alone, Alone', NEW p \in Proc, AgentStarts(p) PROVE Inv'
  <1> DEFINE new == [proc[p] EXCEPT !.pc = "agent"]
  <1>0. At(p, "call") /\ ~Refused(p) /\ Owns(p) /\ Called(p)
    BY DEF AgentStarts, Inv, Holds
  <1>1. Goes(p, new) /\ UNCHANGED <<diff, ckpt, work, history, mishaps>>
    BY DEF AgentStarts
  <1>2. /\ new \in RunType /\ new.pc = "agent" /\ new.planned = proc[p].planned /\ new.planned \in BOOLEAN
        /\ new.id = proc[p].id /\ new.source = proc[p].source /\ new.cost = proc[p].cost
    BY DEF Inv, Types, RunType
  <1> HIDE DEF new
  <1>3. /\ proc' \in [Proc -> RunType] /\ proc'[p] = new /\ \A q \in Proc \ {p} : Holds(q)'
    BY <1>0, <1>1, <1>2, Moves DEF Inv, At
  <1>4. proc[p].id = ckpt.id /\ ckpt.id \in ID /\ ckpt.id \in PastIDs /\ adapter[ckpt.id] \in AdapterType
    BY <1>0, CalledFor
  <1>5. /\ adapter' \in [ID -> AdapterType]
        /\ adapter'[ckpt.id].manifest = proc[p].planned
        /\ adapter'[ckpt.id].ledger = adapter[ckpt.id].ledger /\ adapter'[ckpt.id].ledger \in Nat
        /\ adapter'[ckpt.id].known = adapter[ckpt.id].known
        /\ adapter'[ckpt.id].verdict = adapter[ckpt.id].verdict
        /\ \A i \in ID \ {ckpt.id} : adapter'[i] = adapter[i]
    BY <1>2, <1>4 DEF AgentStarts, Inv, Types, AdapterType
  <1>6. Types'
    BY <1>1, <1>3, <1>5 DEF Inv, Types
  <1>7. proc[p].planned => adapter[ckpt.id].manifest
                           \/ (RecordedFor(ckpt.id) = {} /\ ckpt.cost = 0)
    BY <1>0, <1>4, CalledFor DEF Refused, Called, Ledger
  <1>8. (Begun /\ NoMixing /\ WorkBelongs /\ NothingLost /\ SummaryFits /\ LedgerCounted)'
    BY <1>0, <1>1, CalledFor DEF Inv, Begun, NoMixing, WorkBelongs, Incomplete, RecordedFor, PastIDs, NothingLost,
       SummaryFits, LedgerCounted
  <1>9. AdapterBegun'
    <2>1. PastIDs' = PastIDs /\ recorded' = recorded
      BY <1>1 DEF PastIDs
    <2>2. /\ ~adapter'[ckpt.id].known => adapter'[ckpt.id].verdict = {}
          /\ adapter'[ckpt.id].manifest => RecordedFor(ckpt.id) \subseteq adapter'[ckpt.id].verdict
      BY <1>4, <1>5, <1>7 DEF Inv, AdapterBegun
    <2> QED
      BY <1>4, <1>5, <2>1, <2>2 DEF Inv, AdapterBegun, RecordedFor
  <1>10. AdapterBelongs'
    BY <1>1, <1>4, <1>5, <1>7 DEF Inv, AdapterBelongs
  <1>11. Holds(p)'
    <2>1. (Sourced(p) /\ New(p) /\ Resumed(p) /\ Accounted(p) /\ Answered(p))'
      BY <1>2, <1>3 DEF At, Sourced, New, Resumed, Before, Accounted, Answered, After
    <2>2. Owns(p)'
      BY <1>0, <1>1, <1>2, <1>3 DEF Owns, At, After
    <2>3. Called(p)'
      BY <1>2, <1>3, <1>4, <1>5 DEF Called, At, Ledger
    <2> QED
      BY <2>1, <2>2, <2>3 DEF Holds
  <1> QED
    BY <1>3, <1>6, <1>8, <1>9, <1>10, <1>11 DEF Inv

(* A finding is recorded for the review and the diff of the checkpoint.     *)
LEMMA RecordInv == ASSUME Inv, Alone, NEW p \in Proc, Record(p) PROVE Inv'
  <1>0. /\ At(p, "agent") /\ ~adapter[ckpt.id].manifest
        /\ UNCHANGED <<diff, ckpt, proc, adapter, discarded, past, mishaps>>
    BY CalledFor DEF Record, InSession, Inv, Holds, Called, Ledger
  <1>1. PICK f \in Finding :
           /\ work' = [work EXCEPT !.found = @ \cup {[id |-> proc[p].id, source |-> proc[p].source, what |-> f]}]
           /\ recorded' = recorded \cup {[id |-> proc[p].id, source |-> proc[p].source, what |-> f]}
    BY DEF Record
  <1> DEFINE item == [id |-> proc[p].id, source |-> proc[p].source, what |-> f]
  <1>2. item \in Items(ckpt.id, ckpt.source) /\ item \in Item /\ item.id = ckpt.id
    <2>1. proc[p].id = ckpt.id /\ ckpt.id \in ID /\ proc[p].source = ckpt.source /\ ckpt.source \in Diff
      BY <1>0, CalledFor
    <2>2. item \in Item
      BY <2>1 DEF Item
    <2>3. item \in Items(ckpt.id, ckpt.source)
      BY <2>1 DEF Items
    <2>4. item.id = ckpt.id
      BY <2>1
    <2> QED
      BY <2>2, <2>3, <2>4
  <1> HIDE DEF item
  <1>3. /\ work' \in Report /\ work'.found = work.found \cup {item} /\ recorded' = recorded \cup {item}
    BY <1>1, <1>2 DEF Inv, Types, Report, item
  <1>4. Types'
    BY <1>0, <1>2, <1>3 DEF Inv, Types
  <1>5. (Begun /\ NoMixing /\ NothingLost /\ SummaryFits /\ LedgerCounted /\ AdapterBelongs)'
    BY <1>0, CalledFor DEF Inv, Begun, NoMixing, PastIDs, NothingLost, SummaryFits, LedgerCounted, AdapterBelongs
  <1>6. WorkBelongs'
    BY <1>0, <1>2, <1>3, CalledFor DEF Inv, WorkBelongs, Incomplete, RecordedFor
  <1>7. AdapterBegun'
    <2>1. \A i \in ID : adapter[i].manifest => RecordedFor(i)' = RecordedFor(i)
      BY <1>0, <1>2, <1>3 DEF RecordedFor
    <2> QED
      BY <1>0, <1>2, <1>3, <2>1, CalledFor DEF Inv, AdapterBegun, PastIDs
  <1>8. Holds(p)'
    BY <1>0 DEF Inv, Holds, At, Sourced, New, Resumed, Before, Owns, Called, Ledger, Accounted, Answered, After
  <1> QED
    BY <1>0, <1>4, <1>5, <1>6, <1>7, <1>8, NobodyMoves DEF Files, At

(* The session's summary fits the findings in the work file.                *)
LEMMA SummarizeInv == ASSUME Inv, Alone, Alone', NEW p \in Proc, Summarize(p) PROVE Inv'
  <1>1. PICK delta \in 0 .. 1 : Returns(p, "ok", delta)
    BY DEF Summarize
  <1>2. /\ At(p, "agent") /\ ~Ledger(p).manifest
        /\ UNCHANGED <<diff, ckpt, adapter, history, mishaps>>
    BY DEF Summarize, InSession, Inv, Holds, Called
  <1>3. /\ work' \in Report /\ work'.found = work.found /\ work'.summary = SummaryFor(work'.found)
    BY DEF Summarize, Inv, Types, Report, SummaryFor
  <1>4. Types'
    <2>1. proc' \in [Proc -> RunType]
      <3> DEFINE new == [proc[p] EXCEPT !.pc = "returned", !.result = "ok", !.delta = delta]
      <3>1. new \in RunType
        <4>1. proc[p] \in RunType /\ delta \in Nat
          BY DEF Inv, Types
        <4> QED
          BY <4>1 DEF RunType
      <3> HIDE DEF new
      <3> QED
        BY <1>1, <3>1 DEF Returns, Goes, Inv, Types, new
    <2> QED
      BY <1>2, <1>3, <2>1 DEF Inv, Types
  <1>5. WorkBelongs'
    BY <1>2, <1>3 DEF Inv, WorkBelongs, Incomplete, RecordedFor
  <1>6. Files'
    BY <1>2, <1>5, WorkOnly DEF Inv, Files
  <1> QED
    BY <1>1, <1>2, <1>3, <1>4, <1>6, ReturnsInv

(* A planned review spends: what the caller counted stays covered.          *)
LEMMA PlanSpendsInv == ASSUME Inv, Alone, NEW p \in Proc, PlanSpends(p) PROVE Inv'
  <1>0. At(p, "agent") /\ UNCHANGED <<diff, ckpt, work, proc, history, mishaps>>
    BY DEF PlanSpends, InPlan
  <1>1. /\ ckpt.id \in ID /\ ckpt.id \in PastIDs /\ adapter[ckpt.id] \in AdapterType
        /\ proc[p].id = ckpt.id /\ ckpt.cost \in Nat /\ ckpt.status = "running"
    BY <1>0, CalledFor
  <1>2. /\ adapter' \in [ID -> AdapterType]
        /\ adapter'[ckpt.id].manifest = adapter[ckpt.id].manifest
        /\ adapter'[ckpt.id].ledger = adapter[ckpt.id].ledger + 1
        /\ adapter'[ckpt.id].known = adapter[ckpt.id].known
        /\ adapter'[ckpt.id].verdict = adapter[ckpt.id].verdict
        /\ \A i \in ID \ {ckpt.id} : adapter'[i] = adapter[i]
    BY <1>1 DEF PlanSpends, Inv, Types, AdapterType
  <1>3. Types'
    BY <1>0, <1>2 DEF Inv, Types
  <1>4. (Begun /\ NoMixing /\ WorkBelongs /\ NothingLost /\ SummaryFits /\ LedgerCounted)'
    BY <1>0, <1>1 DEF Inv, Begun, NoMixing, WorkBelongs, Incomplete, RecordedFor, PastIDs, NothingLost,
       SummaryFits, LedgerCounted
  <1>5. AdapterBegun'
    <2>1. PastIDs' = PastIDs /\ recorded' = recorded
      BY <1>0 DEF PastIDs
    <2> QED
      BY <1>1, <1>2, <2>1 DEF Inv, AdapterBegun, RecordedFor
  <1>6. AdapterBelongs'
    <2>1. adapter[ckpt.id].ledger \in Nat
      BY <1>1 DEF AdapterType
    <2> QED
      BY <1>0, <1>1, <1>2, <2>1 DEF Inv, AdapterBelongs
  <1>7. Holds(p)'
    BY <1>0, <1>1, <1>2 DEF Inv, Holds, At, Sourced, New, Resumed, Before, Owns, Called, Ledger, Accounted,
       Answered, After
  <1> QED
    BY <1>0, <1>3, <1>4, <1>5, <1>6, <1>7, NobodyMoves DEF Files, At

(* Before its verdict is known, a planned review has recorded nothing.      *)
LEMMA PlanDecidesInv == ASSUME Inv, Alone, NEW p \in Proc, PlanDecides(p) PROVE Inv'
  <1>0. /\ At(p, "agent") /\ ~adapter[ckpt.id].known
        /\ UNCHANGED <<diff, ckpt, work, proc, history, mishaps>>
    BY CalledFor DEF PlanDecides, InPlan, Ledger
  <1>1. /\ ckpt.id \in ID /\ ckpt.id \in PastIDs /\ adapter[ckpt.id] \in AdapterType
        /\ proc[p].id = ckpt.id /\ proc[p].source = ckpt.source /\ ckpt.source \in Diff
        /\ ckpt.status = "running"
    BY <1>0, CalledFor
  <1>2. PICK fs \in SUBSET Finding :
          adapter' = [adapter EXCEPT ![proc[p].id].known = TRUE,
             ![proc[p].id].verdict = [id : {proc[p].id}, source : {proc[p].source}, what : fs]]
    BY DEF PlanDecides
  <1> DEFINE verdict == [id : {proc[p].id}, source : {proc[p].source}, what : fs]
  <1>3. verdict \subseteq Items(ckpt.id, ckpt.source) /\ verdict \subseteq Item
    <2>1. verdict \subseteq Items(ckpt.id, ckpt.source)
      BY <1>1 DEF Items
    <2>2. verdict \subseteq Item
      BY <1>1 DEF Item
    <2> QED
      BY <2>1, <2>2
  <1>4. adapter' = [adapter EXCEPT ![proc[p].id].known = TRUE, ![proc[p].id].verdict = verdict]
    BY <1>2
  <1> HIDE DEF verdict
  <1>5. /\ adapter' \in [ID -> AdapterType]
        /\ adapter'[ckpt.id].manifest = adapter[ckpt.id].manifest
        /\ adapter'[ckpt.id].ledger = adapter[ckpt.id].ledger
        /\ adapter'[ckpt.id].known
        /\ adapter'[ckpt.id].verdict = verdict
        /\ \A i \in ID \ {ckpt.id} : adapter'[i] = adapter[i]
    BY <1>1, <1>3, <1>4 DEF Inv, Types, AdapterType
  <1>6. Types'
    BY <1>0, <1>5 DEF Inv, Types
  <1>7. (Begun /\ NoMixing /\ WorkBelongs /\ NothingLost /\ SummaryFits /\ LedgerCounted)'
    BY <1>0, <1>1 DEF Inv, Begun, NoMixing, WorkBelongs, Incomplete, RecordedFor, PastIDs, NothingLost,
       SummaryFits, LedgerCounted
  <1>8. AdapterBegun'
    <2>1. PastIDs' = PastIDs /\ recorded' = recorded
      BY <1>0 DEF PastIDs
    <2>2. adapter[ckpt.id].manifest => RecordedFor(ckpt.id) = {}
      BY <1>0, <1>1 DEF Inv, AdapterBegun
    <2> QED
      BY <1>1, <1>5, <2>1, <2>2 DEF Inv, AdapterBegun, RecordedFor
  <1>9. AdapterBelongs'
    BY <1>0, <1>1, <1>3, <1>5 DEF Inv, AdapterBelongs
  <1>10. Holds(p)'
    BY <1>0, <1>1, <1>5 DEF Inv, Holds, At, Sourced, New, Resumed, Before, Owns, Called, Ledger, Accounted,
       Answered, After
  <1> QED
    BY <1>0, <1>6, <1>7, <1>8, <1>9, <1>10, NobodyMoves DEF Files, At

(* The report that is published is the verdict: all that was recorded.      *)
LEMMA PlanPublishesInv == ASSUME Inv, Alone, Alone', NEW p \in Proc, PlanPublishes(p) PROVE Inv'
  <1>0. /\ At(p, "agent") /\ InPlan(p) /\ UNCHANGED <<diff, ckpt, adapter, discarded, past, mishaps>>
        /\ Returns(p, "ok", Uncounted(p))
    BY DEF PlanPublishes, InPlan
  <1>1. /\ Ledger(p).manifest /\ Uncounted(p) \in Nat
        /\ proc[p].cost + Uncounted(p) = Ledger(p).ledger
        /\ Ledger(p) = adapter[ckpt.id] /\ ckpt.id \in ID /\ ckpt.id # 0
        /\ adapter[ckpt.id] \in AdapterType /\ ckpt.id \in PastIDs /\ ckpt.status = "running"
    BY <1>0, UncountedType, CalledFor DEF Ledger
  <1> DEFINE verdict == adapter[ckpt.id].verdict
  <1>2. /\ work' = [found |-> verdict, summary |-> SummaryFor(verdict)]
        /\ recorded' = recorded \cup verdict
    BY <1>1 DEF PlanPublishes
  <1>3. /\ verdict \subseteq Items(ckpt.id, ckpt.source) /\ verdict \subseteq Item
        /\ RecordedFor(ckpt.id) \subseteq verdict
    BY <1>1 DEF Inv, AdapterBelongs, AdapterBegun, AdapterType
  <1>4. \A item \in verdict : item.id = ckpt.id
    BY <1>3 DEF Items
  <1> HIDE DEF verdict
  <1>5. /\ work' \in Report /\ work'.found = verdict /\ work'.summary = SummaryFor(work'.found)
    BY <1>2, <1>3 DEF Report, SummaryFor
  <1>6. Types'
    <2>1. proc' \in [Proc -> RunType]
      <3> DEFINE new == [proc[p] EXCEPT !.pc = "returned", !.result = "ok", !.delta = Uncounted(p)]
      <3>1. new \in RunType
        <4>1. proc[p] \in RunType /\ Uncounted(p) \in Nat
          BY <1>1 DEF Inv, Types
        <4> QED
          BY <4>1 DEF RunType
      <3> HIDE DEF new
      <3> QED
        BY <1>0, <3>1 DEF Returns, Goes, Inv, Types, new
    <2> QED
      BY <1>0, <1>2, <1>3, <1>5, <2>1 DEF Inv, Types
  <1>7. (Begun /\ NoMixing /\ NothingLost /\ SummaryFits /\ LedgerCounted /\ AdapterBelongs)'
    BY <1>0, <1>1 DEF Inv, Begun, NoMixing, PastIDs, NothingLost, SummaryFits, LedgerCounted, AdapterBelongs
  <1>8. RecordedFor(ckpt.id)' \subseteq verdict /\ \A i \in ID \ {ckpt.id} : RecordedFor(i)' = RecordedFor(i)
    BY <1>0, <1>2, <1>3, <1>4 DEF RecordedFor
  <1>9. WorkBelongs'
    BY <1>0, <1>3, <1>5, <1>8 DEF WorkBelongs
  <1>10. AdapterBegun'
    <2>1. PastIDs' = PastIDs
      BY <1>0 DEF PastIDs
    <2> QED
      BY <1>0, <1>1, <1>2, <1>4, <1>8, <2>1 DEF Inv, AdapterBegun, verdict
  <1> QED
    BY <1>0, <1>1, <1>5, <1>6, <1>7, <1>9, <1>10, ReturnsInv DEF Files

(* A report is complete when the agent answered: all it has is that of its  *)
(* review, and nothing is missing.                                          *)
LEMMA FinishInv == ASSUME Inv, Alone, Alone', NEW p \in Proc, Finish(p) PROVE Inv'
  <1>0. /\ At(p, "finish") /\ Owns(p) /\ Accounted(p) /\ Answered(p)
        /\ UNCHANGED <<diff, work, adapter, recorded, discarded, mishaps>>
    BY DEF Finish, Inv, Holds
  <1> DEFINE removing == [Idle EXCEPT !.pc = "remove"]
  <1>1. /\ Idle \in RunType /\ Idle.pc = "off" /\ removing \in RunType /\ removing.pc = "remove"
    BY ConstantTypes DEF Idle, RunType
  <1>2. PICK status \in {"running", "failed", "complete"} :
           /\ Persist(Saved(p, status))
           /\ IF status = "complete" THEN Completes(p) /\ Goes(p, removing) ELSE Goes(p, Idle)
    <2>1. CASE Completes(p)
      BY <2>1 DEF Finish
    <2>2. CASE ~Completes(p)
      BY <2>2 DEF Finish
    <2> QED
      BY <2>1, <2>2
  <1> HIDE DEF removing
  <1>3. /\ proc' \in [Proc -> RunType] /\ \A q \in Proc \ {p} : Holds(q)'
        /\ proc'[p] = IF status = "complete" THEN removing ELSE Idle
    BY <1>0, <1>1, <1>2, Moves DEF Inv, At
  <1>4. /\ ckpt'.id = ckpt.id /\ ckpt'.status = status /\ ckpt'.source = ckpt.source
        /\ ckpt'.cost = proc[p].cost /\ ckpt'.report = work /\ ckpt' \in Checkpoint
        /\ past' = past \cup {<<ckpt.id, status>>}
    BY <1>0, <1>2 DEF Persist, Saved, Inv, Types, RunType, Checkpoint, Owns, After, At, Answered
  <1>5. /\ ckpt.id # 0 /\ ckpt.id \in ID /\ ckpt.id \in PastIDs /\ Incomplete
        /\ ckpt.status = "running" /\ proc[p].id = ckpt.id
    <2>1. ckpt.status = "running" /\ ckpt.id # 0 /\ ckpt.id \in 0 .. MaxReviews /\ proc[p].id = ckpt.id
      BY <1>0 DEF Owns, After, At, Inv, Begun, Types, Checkpoint
    <2> QED
      BY <2>1, Bounds DEF ID, Inv, Begun, Incomplete
  <1>6. Types'
    BY <1>0, <1>3, <1>4, <1>5 DEF Inv, Types
  <1>7. PastIDs' = PastIDs
    BY <1>4, <1>5, PastStep
  <1>8. /\ work.found \subseteq Items(ckpt.id, ckpt.source)
        /\ ckpt.id \notin discarded => RecordedFor(ckpt.id) \subseteq work.found
    BY <1>5 DEF Inv, WorkBelongs
  <1>9. (Begun /\ NoMixing /\ WorkBelongs /\ NothingLost)'
    BY <1>0, <1>4, <1>5, <1>7, <1>8 DEF Begun, NoMixing, Items, WorkBelongs, RecordedFor, NothingLost
  <1>10. SummaryFits'
    BY <1>0, <1>2, <1>4 DEF SummaryFits, Completes, Answered, After, At
  <1>11. /\ adapter[ckpt.id].manifest => proc[p].cost <= adapter[ckpt.id].ledger
         /\ adapter[ckpt.id].manifest /\ proc[p].result = "ok" => proc[p].cost = adapter[ckpt.id].ledger
    BY <1>0, <1>5 DEF Accounted, Total, Ledger, At, After
  <1>12. (AdapterBelongs /\ LedgerCounted)'
    BY <1>0, <1>2, <1>4, <1>5, <1>11 DEF Inv, AdapterBelongs, LedgerCounted, Completes
  <1>13. AdapterBegun'
    BY <1>0, <1>7 DEF Inv, AdapterBegun, RecordedFor
  <1>14. Holds(p)'
    <2>1. CASE status # "complete"
      BY <1>1, <1>3, <2>1, OffHoldsNext DEF At
    <2>2. CASE status = "complete"
      <3>1. (Sourced(p) /\ New(p) /\ Resumed(p) /\ Owns(p) /\ Called(p) /\ Accounted(p))'
        BY <1>1, <1>3, <2>2 DEF At, Sourced, New, Resumed, Before, Owns, Called, Accounted, After
      <3>2. Answered(p)'
        BY <1>1, <1>3, <1>4, <2>2 DEF At, Answered, After
      <3> QED
        BY <3>1, <3>2 DEF Holds
    <2> QED
      BY <2>1, <2>2
  <1> QED
    BY <1>3, <1>6, <1>9, <1>10, <1>12, <1>13, <1>14 DEF Inv

(* The work file goes when its review is complete.                          *)
LEMMA RemoveWorkInv == ASSUME Inv, Alone, Alone', NEW p \in Proc, RemoveWork(p) PROVE Inv'
  <1>1. /\ At(p, "remove") /\ ckpt.status = "complete" /\ Goes(p, Idle) /\ work' = NoWork
        /\ UNCHANGED <<diff, ckpt, adapter, history, mishaps>>
    BY DEF RemoveWork, Inv, Holds, Answered
  <1>2. Idle \in RunType /\ Idle.pc = "off" /\ ~At(p, "off")
    BY <1>1, ConstantTypes DEF Idle, At
  <1>3. /\ proc' \in [Proc -> RunType] /\ proc'[p] = Idle /\ \A q \in Proc \ {p} : Holds(q)'
    BY <1>1, <1>2, Moves DEF Inv
  <1>4. Types'
    BY <1>1, <1>3, ConstantTypes DEF Inv, Types
  <1>5. WorkBelongs'
    BY <1>1 DEF WorkBelongs, Incomplete
  <1>6. Files'
    BY <1>1, <1>5, WorkOnly DEF Inv, Files
  <1>7. Holds(p)'
    BY <1>2, <1>3, OffHoldsNext DEF At
  <1> QED
    BY <1>3, <1>4, <1>6, <1>7 DEF Inv, Files

-----------------------------------------------------------------------------
(* Theorems.                                                               *)

LEMMA StepInv == ASSUME Inv, Alone, Alone', [Next]_vars PROVE Inv'
  <1>1. CASE Edit \/ UNCHANGED vars
    BY <1>1, EditInv
  <1>2. ASSUME NEW p \in Proc,
               Select(p) \/ NothingToReview(p) \/ StartNew(p) \/ Resume(p)
               \/ Prepare(p) \/ ReadPrior(p) \/ PersistRunning(p)
        PROVE  Inv'
    BY <1>2, SelectInv, NothingToReviewInv, StartNewInv, ResumeInv, PrepareInv, ReadPriorInv, PersistRunningInv
  <1>3. ASSUME NEW p \in Proc,
               AgentRefuses(p) \/ AgentStarts(p) \/ Record(p) \/ Summarize(p) \/ SessionStops(p)
               \/ PlanSpends(p) \/ PlanDecides(p) \/ PlanPublishes(p) \/ PlanStops(p)
        PROVE  Inv'
    BY <1>3, AgentRefusesInv, AgentStartsInv, RecordInv, SummarizeInv, SessionStopsInv, PlanSpendsInv,
       PlanDecidesInv, PlanPublishesInv, PlanStopsInv
  <1>4. ASSUME NEW p \in Proc,
               Revalidate(p) \/ ReadWork(p) \/ Finish(p) \/ RemoveWork(p) \/ Kill(p)
        PROVE  Inv'
    BY <1>4, RevalidateInv, ReadWorkInv, FinishInv, RemoveWorkInv, KillInv
  <1> HIDE DEF vars, history
  <1> QED
    BY <1>1, <1>2, <1>3, <1>4 DEF Next

(* Every step of review.Run, of the agent it calls, a kill or an edit of    *)
(* the workspace keeps the invariant, as long as invocations do not overlap.*)
THEOREM ReviewInvariant == Spec /\ []Alone => []Inv
  <1>1. Inv /\ Alone /\ Alone' /\ [Next]_vars => Inv'
    BY StepInv
  <1> QED
    BY <1>1, InitInv, PTL DEF Spec

(* Files, ledgers and counts keep their types: no cost is ever negative     *)
(* (findings.Cost).                                                         *)
THEOREM ReviewTypes == Spec /\ []Alone => []TypeOK
  <1>1. Inv => TypeOK
    BY DEF Inv, Types, RunType, AdapterType, TypeOK
  <1> QED
    BY <1>1, ReviewInvariant, PTL

(* No finding of another review, or about another diff, gets into the       *)
(* checkpoint (review.Run: the source check, the truncation).               *)
THEOREM Unmixed == Spec /\ []Alone => []NoMixing
  <1>1. Inv => NoMixing
    BY DEF Inv
  <1> QED
    BY <1>1, ReviewInvariant, PTL

(* A complete report has everything that was recorded for its review, in    *)
(* invocations that were killed too (review.Run: prepareWork, restoration). *)
THEOREM AllKept == Spec /\ []Alone => []NothingLost
  <1>1. Inv => NothingLost
    BY DEF Inv
  <1> QED
    BY <1>1, ReviewInvariant, PTL

(* A complete report's summary is that of its findings (review.Run).        *)
THEOREM SummaryTrue == Spec /\ []Alone => []SummaryFits
  <1>1. Inv => SummaryFits
    BY DEF Inv
  <1> QED
    BY <1>1, ReviewInvariant, PTL

(* The cost of a complete planned review is all its adapter spent, counted  *)
(* once (review.Run: PriorCost).                                            *)
THEOREM SpendCounted == Spec /\ []Alone => []LedgerCounted
  <1>1. Inv => LedgerCounted
    BY DEF Inv
  <1> QED
    BY <1>1, ReviewInvariant, PTL

-----------------------------------------------------------------------------
(* The refinement: the file's review begins when a new one is persisted, or *)
(* when there is nothing to review; it proceeds when a resumed one is, and  *)
(* when an invocation finishes. All other steps stutter.                    *)

Shown == [id |-> ckpt.id, status |-> ckpt.status, source |-> ckpt.source, cost |-> ckpt.cost]

LEMMA InitRefines == Init => File!Init
  BY DEF Init, NoCheckpoint, File!Init, File!NoReview

(* A new review gets an identity no review had.                             *)
LEMMA BeginRefines ==
    ASSUME ckpt'.id \in ID \ PastIDs, ckpt'.source \in Source, ckpt'.cost = 0,
           ckpt'.status = IF ckpt'.source = NoDiff THEN "complete" ELSE "running",
           PastIDs' = PastIDs \cup {ckpt'.id}
    PROVE  File!Begin
  <1>1. ckpt'.id # 0
    BY Bounds DEF ID
  <1> QED
    BY <1>1 DEF File!Begin, PastIDs

LEMMA NothingToReviewRefines ==
    ASSUME Inv, NEW p \in Proc, NothingToReview(p)
    PROVE  File!Begin
  <1> DEFINE report == [found |-> {}, summary |-> "clean"]
             whole == [NoCheckpoint EXCEPT !.id = NewID, !.status = "complete", !.report = report]
  <1>1. Persist(whole) /\ NewID \in ID \ PastIDs
    BY NewIsUnused DEF NothingToReview
  <1>2. whole.id = NewID /\ whole.source = NoDiff /\ whole.cost = 0 /\ whole.status = "complete"
    BY DEF NoCheckpoint
  <1> HIDE DEF whole
  <1>3. ckpt' = whole /\ past' = past \cup {<<NewID, "complete">>}
    BY <1>1, <1>2 DEF Persist
  <1>4. PastIDs' = PastIDs \cup {NewID}
    BY <1>3, PastStep
  <1> QED
    BY <1>1, <1>2, <1>3, <1>4, BeginRefines DEF Source

LEMMA PersistRunningRefines ==
    ASSUME Inv, NEW p \in Proc, PersistRunning(p)
    PROVE  File!Begin \/ File!Proceed
  <1>1. /\ ckpt'.id = proc[p].id /\ ckpt'.status = "running" /\ ckpt'.source = proc[p].source
        /\ ckpt'.cost = proc[p].cost /\ past' = past \cup {<<proc[p].id, "running">>}
    BY DEF PersistRunning, Persist, Saved
  <1>2. PastIDs' = PastIDs \cup {proc[p].id}
    BY <1>1, PastStep
  <1>3. New(p) /\ Resumed(p) /\ Before(p) /\ proc[p].source # NoDiff /\ proc[p].source \in Source
    BY DEF PersistRunning, Inv, Holds, Before, Sourced, At, Types, RunType
  <1>4. CASE ~proc[p].resuming
    BY <1>1, <1>2, <1>3, <1>4, BeginRefines DEF New
  <1>5. CASE proc[p].resuming
    <2>1. Incomplete /\ proc[p].id = ckpt.id /\ proc[p].source = ckpt.source /\ proc[p].cost = ckpt.cost
      BY <1>3, <1>5 DEF Resumed
    <2>2. PastIDs' = PastIDs
      BY <1>2, <2>1 DEF Inv, Begun, Incomplete
    <2>3. ckpt.cost \in Nat
      BY DEF Inv, Types, Checkpoint
    <2> QED
      BY <1>1, <2>1, <2>2, <2>3 DEF File!Proceed, Incomplete, PastIDs
  <1> QED
    BY <1>4, <1>5

LEMMA FinishRefines == ASSUME Inv, NEW p \in Proc, Finish(p) PROVE File!Proceed
  <1>0. At(p, "finish") /\ Owns(p)
    BY DEF Finish, Inv, Holds
  <1>1. PICK status \in {"running", "failed", "complete"} :
           Persist(Saved(p, status)) /\ (status = "complete" => proc[p].cost > 0)
    BY DEF Finish, Completes
  <1>2. /\ ckpt'.id = ckpt.id /\ ckpt'.status = status /\ ckpt'.source = ckpt.source
        /\ ckpt'.cost = proc[p].cost /\ past' = past \cup {<<ckpt.id, status>>}
        /\ ckpt.status = "running" /\ ckpt.cost <= proc[p].cost
    BY <1>0, <1>1 DEF Persist, Saved, Owns, After, At
  <1>3. PastIDs' = PastIDs
    <2>1. ckpt.id \in PastIDs
      BY <1>2 DEF Inv, Begun
    <2>2. PastIDs' = PastIDs \cup {ckpt.id}
      BY <1>2, PastStep
    <2> QED
      BY <2>1, <2>2
  <1>4. ckpt.cost \in Nat /\ proc[p].cost \in Nat
    BY DEF Inv, Types, Checkpoint, RunType
  <1> QED
    BY <1>1, <1>2, <1>3, <1>4 DEF File!Proceed, PastIDs

(* The checkpoint behaves as Lifecycle promises: one review at a time, with *)
(* an identity and a source of its own, whose cost never shrinks and which  *)
(* is final once complete (every persist of review.Run).                    *)
THEOREM LifecycleKept == Spec /\ []Alone => KeepsLifecycle
  <1>1. ASSUME Inv, [Next]_vars PROVE [File!Next]_<<Shown, PastIDs>>
    <2>1. ASSUME NEW p \in Proc, NothingToReview(p) \/ PersistRunning(p) \/ Finish(p)
          PROVE  File!Next
      BY <1>1, <2>1, NothingToReviewRefines, PersistRunningRefines, FinishRefines DEF File!Next
    <2>2. ASSUME ckpt' = ckpt, past' = past PROVE UNCHANGED <<Shown, PastIDs>>
      BY <2>2 DEF Shown, PastIDs
    <2> QED
      BY <1>1, <2>1, <2>2 DEF Next, Edit, Select, StartNew, Resume, Prepare, ReadPrior, AgentRefuses, AgentStarts,
         Record, Summarize, SessionStops, PlanSpends, PlanDecides, PlanPublishes, PlanStops, Revalidate,
         ReadWork, RemoveWork, Kill
  <1>2. Spec /\ []Alone => [][File!Next]_<<Shown, PastIDs>>
    BY <1>1, ReviewInvariant, PTL DEF Spec
  <1> QED
    BY <1>2, InitRefines, PTL DEF Spec, KeepsLifecycle, File!Spec, Shown, PastIDs
=============================================================================
