----------------------------- MODULE PostProofs -----------------------------
(***************************************************************************)
(* Proofs about Post, for every history of commits and what they contain,   *)
(* every cap on comments and any number of jobs that die or are run again.  *)
(***************************************************************************)
EXTENDS Post, FoldLemmas

-----------------------------------------------------------------------------
(* The inductive invariant.                                                *)

StatusType == [runs : Nat, total : Nat]
JobType ==
    [pc : {"off", "pull", "walk", "post", "files", "review", "status", "check"},
     head : 0 .. MaxCommits, checkout : 0 .. MaxCommits, prior : SUBSET Finding,
     lgtmPosted : BOOLEAN, status : StatusType, lines : SUBSET Finding, receipt : BOOLEAN]
ReportType == [there : BOOLEAN, head : 0 .. MaxCommits, found : SUBSET Finding, cost : 0 .. 1]

BranchTypes == head \in 1 .. pushed /\ pushed \in Commit /\ line \in [Commit -> SUBSET Commit]
RemoteTypes ==
    /\ inline \in [Finding -> Nat] /\ dropped \in [Finding -> Nat] /\ lgtm \in [Commit -> Nat]
    /\ status \in StatusType /\ checks \subseteq 1 .. pushed
CountTypes ==
    /\ spent \in Nat /\ counted \in [Commit -> 0 .. 1] /\ mishaps \in 0 .. Mishaps
Types == BranchTypes /\ RemoteTypes /\ job \in JobType /\ report \in ReportType /\ CountTypes

(* A report is about a commit that was pushed. What its commit and its      *)
(* ancestors contain is in the report or reported already.                  *)
ReportCovers ==
    report.there => /\ report.head \in 1 .. pushed
                    /\ FoundIn(line[report.head]) \subseteq report.found \cup Reported

(* A posting job has a report. What it read of the pull request stays true  *)
(* until it posts: no other job posts meanwhile.                            *)
Reviewing == At("walk") => job.head \in 1 .. pushed
Rendering ==
    /\ At("post") \/ At("files") \/ At("review") \/ At("status") \/ At("check") => report.there
    /\ At("files") \/ At("review") \/ At("status") \/ At("check") => job.head = report.head
    /\ At("files") \/ At("review") =>
        job.prior = Reported /\ (job.lgtmPosted <=> lgtm[job.head] > 0)
    /\ At("files") \/ At("review") \/ At("status") => job.status = status

(* A receipt is due when everything in the report is on the pull request.   *)
ReceiptDue == (At("status") \/ At("check")) /\ job.receipt => report.found \subseteq Reported

(* A review is counted for the commit it receipted. Its cost is in the      *)
(* total by then, and once only, unless its posting job is run again.       *)
Receipts == {c \in Commit : counted[c] = 1}
ReceiptsCounted == Receipts \subseteq checks
TotalCovers ==
    /\ Cardinality(Receipts) <= status.total
    /\ At("check") => Cardinality(Receipts) + report.cost <= status.total
NotYetAdded == At("post") \/ At("files") \/ At("review") \/ At("status")
TotalBounded ==
    /\ status.total <= spent + (Mishaps - mishaps)
    /\ NotYetAdded => status.total + report.cost <= spent + (Mishaps - mishaps)

Inv ==
    /\ Types
    /\ ReportCovers /\ Reviewing /\ Rendering /\ ReceiptDue
    /\ ReceiptMeansReported /\ NoneTwice
    /\ ReceiptsCounted /\ TotalCovers /\ TotalBounded

USE DEF branch, remote, vars

-----------------------------------------------------------------------------
(* The newest reviewed commit.                                             *)

LEMMA Bounds == MaxCommits \in Nat /\ MaxCommits >= 1 /\ Mishaps \in Nat
  BY PostAssumption

(* The reviewed head has a check, if there is one.                          *)
LEMMA ReviewedHeadChecked == ASSUME Types PROVE ReviewedHead \in checks \cup {0}
  <1> DEFINE S == (line[head] \cap checks) \cup {0}
  <1>1. pushed \in Nat /\ pushed >= 1
    BY DEF Types, BranchTypes, Commit
  <1>2. S \in SUBSET (0 .. pushed) /\ S # {}
    <2>1. checks \subseteq 1 .. pushed
      BY DEF Types, RemoteTypes
    <2>2. 1 .. pushed \subseteq 0 .. pushed /\ 0 \in 0 .. pushed
      BY <1>1
    <2> QED
      BY <2>1, <2>2
  <1>3. Max(S) \in S
    <2> HIDE DEF S
    <2> QED
      BY <1>1, <1>2, MaxIsGreatest
  <1> QED
    BY <1>3 DEF ReviewedHead

-----------------------------------------------------------------------------
(* Counting receipts.                                                      *)

LEMMA ReceiptsFinite == IsFiniteSet(Receipts) /\ Cardinality(Receipts) \in Nat
  <1>1. Receipts \subseteq Commit /\ IsFiniteSet(Commit)
    BY Bounds, FS_Interval DEF Receipts, Commit
  <1> QED
    BY <1>1, FS_Subset, FS_CardinalityType

(* A receipt counts one review more, if it cost something.                  *)
LEMMA CountedOnce ==
    ASSUME NEW c \in Commit, NEW cost \in 0 .. 1, counted \in [Commit -> 0 .. 1], c \notin Receipts,
           counted' = [counted EXCEPT ![c] = cost]
    PROVE  Receipts' \subseteq Receipts \cup {c} /\ Cardinality(Receipts') = Cardinality(Receipts) + cost
  <1>1. CASE cost = 0
    <2>1. Receipts' = Receipts
      BY <1>1 DEF Receipts
    <2> QED
      BY <1>1, <2>1, ReceiptsFinite
  <1>2. CASE cost = 1
    <2>1. Receipts' = Receipts \cup {c}
      BY <1>2 DEF Receipts
    <2> QED
      BY <1>2, <2>1, ReceiptsFinite, FS_AddElement
  <1> QED
    BY <1>1, <1>2

-----------------------------------------------------------------------------
(* Steps of a job that change the job only.                                *)

LEMMA MishapType == Mishap /\ mishaps \in 0 .. Mishaps => mishaps' \in 0 .. Mishaps /\ mishaps' = mishaps - 1
  BY Bounds DEF Mishap

LEMMA NoJobType == NoJob \in JobType /\ NoJob.pc = "off" /\ NoReport \in ReportType /\ ~NoReport.there
  BY Bounds DEF NoJob, JobType, StatusType, NoReport, ReportType

LEMMA JobStep ==
    ASSUME Inv, job' \in JobType, UNCHANGED <<branch, remote, report, spent, counted>>,
           mishaps' = mishaps \/ Mishap,
           (Reviewing /\ Rendering /\ ReceiptDue)',
           NotYetAdded' => NotYetAdded \/ Mishap,
           At("check")' => At("check")
    PROVE  Inv'
  <1>1. Types'
    BY MishapType DEF Inv, Types, BranchTypes, RemoteTypes, CountTypes
  <1>2. (ReportCovers /\ ReceiptMeansReported /\ NoneTwice)'
    BY DEF Inv, ReportCovers, ReceiptMeansReported, NoneTwice, Reported, FoundIn
  <1>3. (ReceiptsCounted /\ TotalCovers)'
    BY DEF Inv, ReceiptsCounted, TotalCovers, Receipts
  <1>4. TotalBounded'
    <2>1. /\ status.total \in Nat /\ report.cost \in 0 .. 1 /\ spent \in Nat /\ mishaps \in 0 .. Mishaps
          /\ Mishaps \in Nat
      BY Bounds DEF Inv, Types, RemoteTypes, StatusType, ReportType, CountTypes
    <2>2. mishaps' = mishaps \/ mishaps' = mishaps - 1
      BY <2>1, MishapType
    <2>3. NotYetAdded' => NotYetAdded \/ mishaps' = mishaps - 1
      BY <2>1, MishapType
    <2>4. /\ status.total <= spent + (Mishaps - mishaps)
          /\ NotYetAdded => status.total + report.cost <= spent + (Mishaps - mishaps)
      BY DEF Inv, TotalBounded
    <2>5. status.total <= spent + (Mishaps - mishaps')
      BY <2>1, <2>2, <2>4
    <2>6. NotYetAdded' => status.total + report.cost <= spent + (Mishaps - mishaps')
      BY <2>1, <2>2, <2>3, <2>4
    <2> QED
      BY <2>5, <2>6 DEF TotalBounded
  <1> QED
    BY <1>1, <1>2, <1>3, <1>4 DEF Inv

LEMMA InitInv == Init => Inv
  <1> SUFFICES ASSUME Init PROVE Inv
    OBVIOUS
  <1>1. Types
    <2>1. BranchTypes
      BY Bounds DEF Init, BranchTypes, Commit
    <2>2. RemoteTypes
      BY Bounds DEF Init, RemoteTypes, StatusType
    <2>3. CountTypes
      BY Bounds DEF Init, CountTypes
    <2> QED
      BY <2>1, <2>2, <2>3, NoJobType DEF Init, Types
  <1>2. ReportCovers /\ Reviewing /\ Rendering /\ ReceiptDue /\ ReceiptMeansReported
    BY NoJobType DEF Init, ReportCovers, Reviewing, Rendering, ReceiptDue, ReceiptMeansReported, At
  <1>3. NoneTwice
    BY DEF Init, NoneTwice
  <1>4. ReceiptsCounted /\ TotalCovers /\ TotalBounded
    <2>1. Receipts = {} /\ Cardinality(Receipts) = 0
      BY FS_EmptySet DEF Init, Receipts
    <2>2. status.total = 0 /\ report.cost = 0 /\ spent = 0 /\ mishaps = Mishaps
      BY DEF Init, NoReport
    <2>3. ~At("check") /\ ~NotYetAdded
      BY NoJobType DEF Init, At, NotYetAdded
    <2> QED
      BY <2>1, <2>2, <2>3, Bounds DEF ReceiptsCounted, TotalCovers, TotalBounded
  <1> QED
    BY <1>1, <1>2, <1>3, <1>4 DEF Inv

(* A job that ends knows nothing.                                           *)
LEMMA DieInv ==
    ASSUME Inv, job' = NoJob, UNCHANGED <<branch, remote, report, spent, counted>>, mishaps' = mishaps \/ Mishap
    PROVE  Inv'
  <1>1. job' \in JobType /\ ~At("check")' /\ ~NotYetAdded'
    BY NoJobType DEF At, NotYetAdded
  <1>2. (Reviewing /\ Rendering /\ ReceiptDue)'
    BY NoJobType DEF Reviewing, Rendering, ReceiptDue, At
  <1> QED
    BY <1>1, <1>2, JobStep

(* The head is read while the checkout has it: a commit that was pushed.    *)
LEMMA ReadPullInv == ASSUME Inv, ReadPull PROVE Inv'
  <1>1. CASE head \in line[job.checkout]
    <2> DEFINE new == [job EXCEPT !.pc = "walk", !.head = head]
    <2>1. job' = new
      BY <1>1 DEF ReadPull
    <2>2. head \in 1 .. pushed /\ head \in 0 .. MaxCommits /\ job \in JobType
      BY Bounds DEF Inv, Types, BranchTypes, Commit
    <2>3. new \in JobType /\ new.pc = "walk" /\ new.head = head
      BY <2>2 DEF JobType
    <2> HIDE DEF new
    <2>4. (Reviewing /\ Rendering /\ ReceiptDue)'
      BY <2>1, <2>2, <2>3 DEF ReadPull, Reviewing, Rendering, ReceiptDue, At
    <2>5. ~At("check")' /\ ~NotYetAdded'
      BY <2>1, <2>3 DEF At, NotYetAdded
    <2> QED
      BY <2>1, <2>3, <2>4, <2>5, JobStep DEF ReadPull
  <1>2. CASE head \notin line[job.checkout]
    BY <1>2, DieInv DEF ReadPull
  <1> QED
    BY <1>1, <1>2

LEMMA PostAgainInv == ASSUME Inv, PostAgain PROVE Inv'
  <1> DEFINE new == [NoJob EXCEPT !.pc = "post"]
  <1>1. new \in JobType /\ new.pc = "post"
    BY NoJobType DEF JobType
  <1>2. job' = new
    BY DEF PostAgain
  <1> HIDE DEF new
  <1>3. (Reviewing /\ Rendering /\ ReceiptDue)'
    BY <1>1, <1>2 DEF PostAgain, Reviewing, Rendering, ReceiptDue, At
  <1> QED
    BY <1>1, <1>2, <1>3, JobStep DEF PostAgain, At

(* Posting goes on only while the head is the one that was reviewed.        *)
LEMMA ReadStateInv == ASSUME Inv, ReadState PROVE Inv'
  <1>1. CASE head = report.head
    <2> DEFINE posted == lgtm[head] > 0
               new == [job EXCEPT !.pc = "files", !.head = head, !.prior = Reported,
                                  !.lgtmPosted = posted, !.status = status]
    <2>1. job' = new
      BY <1>1 DEF ReadState
    <2>2. /\ head \in 0 .. MaxCommits /\ job \in JobType /\ Reported \in SUBSET Finding
          /\ status \in StatusType
      BY Bounds DEF Inv, Types, BranchTypes, RemoteTypes, Commit, Reported
    <2>3. /\ new \in JobType /\ new.pc = "files" /\ new.head = head /\ new.prior = Reported
          /\ new.lgtmPosted = posted /\ new.status = status
      <3>1. posted \in BOOLEAN
        OBVIOUS
      <3> HIDE DEF posted
      <3> QED
        BY <2>2, <3>1 DEF JobType
    <2> HIDE DEF new
    <2>4. At("post") /\ report.there
      BY DEF ReadState, Inv, Rendering
    <2>5. (Reviewing /\ Rendering /\ ReceiptDue)'
      BY <1>1, <2>1, <2>3, <2>4 DEF ReadState, Reviewing, Rendering, ReceiptDue, At, Reported
    <2>6. NotYetAdded /\ ~At("check")'
      BY <2>1, <2>3, <2>4 DEF NotYetAdded, At
    <2> QED
      BY <2>1, <2>3, <2>5, <2>6, JobStep DEF ReadState
  <1>2. CASE head # report.head
    BY <1>2, DieInv DEF ReadState
  <1> QED
    BY <1>1, <1>2

LEMMA ReadFilesInv == ASSUME Inv, ReadFiles PROVE Inv'
  <1>1. PICK lines \in SUBSET Finding : job' = [job EXCEPT !.pc = "review", !.lines = lines]
    <2>1. report.found \in SUBSET Finding /\ Postable \in SUBSET Finding
      BY DEF Inv, Types, ReportType, Postable
    <2> QED
      BY <2>1 DEF ReadFiles
  <1> DEFINE new == [job EXCEPT !.pc = "review", !.lines = lines]
  <1>2. /\ new \in JobType /\ new.pc = "review" /\ new.head = job.head /\ new.prior = job.prior
        /\ new.lgtmPosted = job.lgtmPosted /\ new.status = job.status
    BY DEF Inv, Types, JobType
  <1>3. job' = new
    BY <1>1
  <1> HIDE DEF new
  <1>4. At("files") /\ Rendering
    BY DEF ReadFiles, Inv
  <1>5. (Reviewing /\ Rendering /\ ReceiptDue)'
    BY <1>2, <1>3, <1>4 DEF ReadFiles, Reviewing, Rendering, ReceiptDue, At, Reported
  <1>6. NotYetAdded /\ ~At("check")'
    BY <1>2, <1>3, <1>4 DEF NotYetAdded, At
  <1> QED
    BY <1>2, <1>3, <1>5, <1>6, JobStep DEF ReadFiles

(* With nothing new to post, all there is was posted before.                *)
LEMMA NothingNewInv == ASSUME Inv, NothingNew PROVE Inv'
  <1> DEFINE new == [job EXCEPT !.pc = "status", !.receipt = TRUE]
  <1>1. /\ new \in JobType /\ new.pc = "status" /\ new.head = job.head /\ new.status = job.status
    BY DEF Inv, Types, JobType
  <1>2. job' = new
    BY DEF NothingNew
  <1> HIDE DEF new
  <1>3. At("review") /\ Rendering /\ report.found \subseteq Reported
    BY DEF NothingNew, Inv, Rendering, PostsReview, Lgtm, New
  <1>4. (Reviewing /\ Rendering /\ ReceiptDue)'
    BY <1>1, <1>2, <1>3 DEF NothingNew, Reviewing, Rendering, ReceiptDue, At, Reported
  <1>5. NotYetAdded /\ ~At("check")'
    BY <1>1, <1>2, <1>3 DEF NotYetAdded, At
  <1> QED
    BY <1>1, <1>2, <1>4, <1>5, JobStep DEF NothingNew

-----------------------------------------------------------------------------
(* Steps that change the branch, the report or the pull request.            *)

(* The ancestors of a commit that was pushed stay the same.                 *)
LEMMA PushInv == ASSUME Inv, Push PROVE Inv'
  <1>1. /\ pushed' = pushed + 1 /\ head' = pushed + 1 /\ pushed < MaxCommits
        /\ UNCHANGED <<remote, job, report, spent, counted, mishaps>>
    BY DEF Push
  <1>2. pushed \in Nat /\ pushed >= 1 /\ head \in Commit /\ pushed + 1 \in Commit
    BY <1>1, Bounds DEF Inv, Types, BranchTypes, Commit
  <1>3. PICK parent \in line[head] \cup {0} : line' = [line EXCEPT ![pushed + 1] = After(parent) \cup {pushed + 1}]
    BY DEF Push
  <1>4. After(parent) \subseteq Commit
    BY <1>2, <1>3 DEF After, Inv, Types, BranchTypes
  <1> DEFINE ancestors == After(parent) \cup {pushed + 1}
  <1>5. ancestors \subseteq Commit /\ line' = [line EXCEPT ![pushed + 1] = ancestors]
    BY <1>2, <1>3, <1>4
  <1> HIDE DEF ancestors
  <1>6. BranchTypes'
    <2>1. line' \in [Commit -> SUBSET Commit]
      BY <1>2, <1>5 DEF Inv, Types, BranchTypes
    <2>2. head' \in 1 .. pushed' /\ pushed' \in Commit
      BY <1>1, <1>2
    <2> QED
      BY <2>1, <2>2 DEF BranchTypes
  <1>7. \A c \in 1 .. pushed : line'[c] = line[c] /\ c \in 1 .. pushed'
    BY <1>1, <1>2, <1>5, Bounds DEF Inv, Types, BranchTypes, Commit
  <1>8. checks \subseteq 1 .. pushed
    BY DEF Inv, Types, RemoteTypes
  <1>9. Types'
    <2>1. RemoteTypes'
      BY <1>1, <1>7, <1>8 DEF Inv, Types, RemoteTypes
    <2> QED
      BY <1>1, <1>6, <2>1 DEF Inv, Types, CountTypes
  <1>10. (ReportCovers /\ ReceiptMeansReported)'
    BY <1>1, <1>7, <1>8 DEF Inv, ReportCovers, ReceiptMeansReported, FoundIn, Reported
  <1>11. (Reviewing /\ Rendering /\ ReceiptDue /\ NoneTwice)'
    BY <1>1, <1>7 DEF Inv, Reviewing, Rendering, ReceiptDue, NoneTwice, At, Reported
  <1>12. (ReceiptsCounted /\ TotalCovers /\ TotalBounded)'
    BY <1>1 DEF Inv, ReceiptsCounted, TotalCovers, TotalBounded, Receipts, NotYetAdded, At
  <1> QED
    BY <1>9, <1>10, <1>11, <1>12 DEF Inv

(* A run starts without a report, whether for an event or again.            *)
LEMMA StartInv == ASSUME Inv, Start \/ Restart PROVE Inv'
  <1> DEFINE new == [NoJob EXCEPT !.pc = "pull", !.checkout = head]
  <1>1. new \in JobType /\ new.pc = "pull"
    <2>1. head \in 0 .. MaxCommits
      BY Bounds DEF Inv, Types, BranchTypes, Commit
    <2> QED
      BY <2>1, NoJobType DEF JobType
  <1>2. job' = new /\ report' = NoReport /\ UNCHANGED <<branch, remote, spent, counted>>
        /\ (mishaps' = mishaps \/ Mishap)
    BY DEF Start, Restart, NewRun
  <1> HIDE DEF new
  <1>3. Types'
    BY <1>1, <1>2, NoJobType, MishapType DEF Inv, Types, BranchTypes, RemoteTypes, CountTypes
  <1>4. (ReportCovers /\ Reviewing /\ Rendering /\ ReceiptDue)'
    BY <1>1, <1>2, NoJobType DEF ReportCovers, Reviewing, Rendering, ReceiptDue, At
  <1>5. (ReceiptMeansReported /\ NoneTwice /\ ReceiptsCounted)'
    BY <1>2 DEF Inv, ReceiptMeansReported, NoneTwice, ReceiptsCounted, Receipts, FoundIn, Reported
  <1>6. (TotalCovers /\ TotalBounded)'
    <2>1. ~At("check")' /\ ~NotYetAdded'
      BY <1>1, <1>2 DEF At, NotYetAdded
    <2>2. Cardinality(Receipts)' <= status'.total
      BY <1>2 DEF Inv, TotalCovers, Receipts
    <2>3. status.total <= spent + (Mishaps - mishaps)
      BY DEF Inv, TotalBounded
    <2>4. status.total \in Nat /\ spent \in Nat /\ mishaps \in 0 .. Mishaps
      BY DEF Inv, Types, RemoteTypes, StatusType, CountTypes
    <2>5. mishaps' = mishaps \/ mishaps' = mishaps - 1
      BY <1>2, <2>4, MishapType
    <2>6. status'.total <= spent' + (Mishaps - mishaps')
      BY <1>2, <2>3, <2>4, <2>5, Bounds
    <2> QED
      BY <2>1, <2>2, <2>6 DEF TotalCovers, TotalBounded
  <1> QED
    BY <1>3, <1>4, <1>5, <1>6 DEF Inv

(* What a range contains is found; what is before it was reported, since    *)
(* the range starts at a commit with a receipt.                             *)
LEMMA ReviewInv == ASSUME Inv, Review PROVE Inv'
  <1> DEFINE range == line[job.head] \ After(BaseOf(job.head))
             cost == IF range = {} THEN 0 ELSE 1
             new == [job EXCEPT !.pc = "post"]
             made == [there |-> TRUE, head |-> job.head, found |-> FoundIn(range), cost |-> cost]
  <1>1. /\ job' = new /\ report' = made /\ spent' = spent + cost /\ At("walk")
        /\ UNCHANGED <<branch, remote, counted, mishaps>>
    BY DEF Review
  <1>2. cost \in 0 .. 1
    OBVIOUS
  <1>3. new \in JobType /\ new.pc = "post"
    BY DEF Inv, Types, JobType
  <1>4. job.head \in 1 .. pushed /\ job.head \in Commit /\ job.head \in 0 .. MaxCommits
    <2>1. job.head \in 1 .. pushed /\ pushed \in 1 .. MaxCommits
      BY <1>1 DEF Inv, Reviewing, Types, BranchTypes, Commit
    <2> QED
      BY <2>1, Bounds DEF Commit
  <1>5. range \subseteq Commit
    BY <1>4 DEF Inv, Types, BranchTypes
  <1>6. FoundIn(line[job.head]) \subseteq FoundIn(range) \cup Reported
    <2>1. BaseOf(job.head) \in checks \cup {0} /\ checks \subseteq 1 .. pushed
      BY ReviewedHeadChecked DEF Inv, BaseOf, Types, RemoteTypes
    <2>2. FoundIn(After(BaseOf(job.head))) \subseteq Reported
      BY <2>1 DEF After, FoundIn, Inv, ReceiptMeansReported
    <2> QED
      BY <2>2 DEF FoundIn
  <1> HIDE DEF range, cost, new
  <1>7. made \in ReportType
    <2>1. FoundIn(range) \in SUBSET Finding
      BY <1>5, PostAssumption DEF FoundIn
    <2> QED
      BY <1>2, <1>4, <2>1 DEF ReportType
  <1>8. made.there /\ made.head = job.head /\ made.found = FoundIn(range) /\ made.cost = cost
    OBVIOUS
  <1> HIDE DEF made
  <1>9. Types'
    <2>1. spent' \in Nat
      BY <1>1, <1>2 DEF Inv, Types, CountTypes
    <2> QED
      BY <1>1, <1>3, <1>7, <2>1 DEF Inv, Types, BranchTypes, RemoteTypes, CountTypes
  <1>10. ReportCovers'
    BY <1>1, <1>4, <1>6, <1>8 DEF ReportCovers, FoundIn, Reported
  <1>11. (Reviewing /\ Rendering /\ ReceiptDue)'
    BY <1>1, <1>3, <1>8 DEF Reviewing, Rendering, ReceiptDue, At
  <1>12. (ReceiptMeansReported /\ NoneTwice /\ ReceiptsCounted)'
    BY <1>1 DEF Inv, ReceiptMeansReported, NoneTwice, ReceiptsCounted, Receipts, FoundIn, Reported
  <1>13. TotalCovers'
    BY <1>1, <1>3 DEF Inv, TotalCovers, Receipts, At
  <1>14. TotalBounded'
    <2>1. status.total \in Nat /\ spent \in Nat /\ mishaps \in 0 .. Mishaps
      BY DEF Inv, Types, RemoteTypes, StatusType, CountTypes
    <2>2. status.total <= spent + (Mishaps - mishaps)
      BY DEF Inv, TotalBounded
    <2>3. status.total + cost <= (spent + cost) + (Mishaps - mishaps) /\ status.total <= (spent + cost) + (Mishaps - mishaps)
      BY <1>2, <2>1, <2>2, Bounds
    <2> QED
      BY <1>1, <1>8, <2>3 DEF TotalBounded
  <1> QED
    BY <1>9, <1>10, <1>11, <1>12, <1>13, <1>14 DEF Inv

(* What a review posts is new: it has no comment and is in no body yet.     *)
LEMMA CreateReviewInv == ASSUME Inv, CreateReview PROVE Inv'
  <1>1. /\ At("review") /\ PostsReview /\ Rendering
        /\ UNCHANGED <<branch, status, checks, report, spent, counted, mishaps>>
    BY DEF CreateReview, Inv
  <1>2. PICK comments \in SUBSET (New \cap job.lines) : Submit(comments)
    BY DEF CreateReview, InlineChoices
  <1>3. CASE comments \subseteq Postable
    <2> DEFINE outside == New \ job.lines
               posted == New \cap job.lines \subseteq comments
               new == [job EXCEPT !.pc = "status", !.receipt = posted]
    <2>1. /\ inline' = [f \in Finding |-> inline[f] + IF f \in comments THEN 1 ELSE 0]
          /\ dropped' = [f \in Finding |-> dropped[f] + IF f \in outside THEN 1 ELSE 0]
          /\ lgtm' = [lgtm EXCEPT ![job.head] = IF Lgtm THEN @ + 1 ELSE @]
      BY <1>2, <1>3 DEF Submit
    <2>2. job' = new
      BY <1>2, <1>3 DEF Submit
    <2>3. new \in JobType /\ new.pc = "status" /\ new.head = job.head /\ new.status = job.status
          /\ new.receipt = posted
      <3>1. posted \in BOOLEAN
        OBVIOUS
      <3> HIDE DEF posted
      <3> QED
        BY <3>1 DEF Inv, Types, JobType
    <2> HIDE DEF new
    <2>4. /\ report.there /\ job.head = report.head /\ job.prior = Reported /\ job.status = status
          /\ (job.lgtmPosted <=> lgtm[job.head] > 0)
      BY <1>1 DEF Rendering
    <2>5. job.head \in Commit /\ report.found \subseteq Finding
      <3>1. job.head \in 1 .. pushed /\ pushed \in 1 .. MaxCommits
        BY <2>4 DEF Inv, ReportCovers, Types, BranchTypes, Commit
      <3> QED
        BY <3>1, Bounds DEF Commit, Inv, Types, ReportType
    <2>6. \A f \in comments \cup outside : f \in Finding /\ inline[f] = 0 /\ dropped[f] = 0
      <3>1. \A f \in comments \cup outside : f \in Finding /\ f \notin Reported
        BY <1>2, <2>4, <2>5 DEF New
      <3> QED
        BY <3>1 DEF Reported, Inv, Types, RemoteTypes
    <2>7. inline \in [Finding -> Nat] /\ dropped \in [Finding -> Nat] /\ lgtm \in [Commit -> Nat]
      BY DEF Inv, Types, RemoteTypes
    <2>8. comments \cap outside = {}
      OBVIOUS
    <2> HIDE DEF outside
    <2>9. inline' \in [Finding -> Nat] /\ dropped' \in [Finding -> Nat] /\ lgtm' \in [Commit -> Nat]
      BY <2>1, <2>5, <2>7
    <2>10. Types'
      BY <1>1, <2>2, <2>3, <2>9 DEF Inv, Types, BranchTypes, RemoteTypes, CountTypes
    <2>11. Reported \cup comments \cup outside \subseteq Reported'
      <3>1. \A f \in Finding : inline[f] > 0 => inline'[f] > 0
        BY <2>1, <2>7
      <3>2. \A f \in Finding : dropped[f] > 0 => dropped'[f] > 0
        BY <2>1, <2>7
      <3>3. \A f \in comments : f \in Finding /\ inline'[f] > 0
        BY <2>1, <2>6
      <3>4. \A f \in outside : f \in Finding /\ dropped'[f] > 0
        BY <2>1, <2>6
      <3> QED
        BY <3>1, <3>2, <3>3, <3>4 DEF Reported
    <2>12. (ReportCovers /\ ReceiptMeansReported)'
      BY <1>1, <2>11 DEF Inv, ReportCovers, ReceiptMeansReported, FoundIn
    <2>13. ReceiptDue'
      <3>1. posted => report.found \subseteq comments \cup outside \cup Reported
        BY <2>4 DEF New, outside
      <3> QED
        BY <1>1, <2>2, <2>3, <2>11, <3>1 DEF ReceiptDue
    <2>14. (Reviewing /\ Rendering)'
      BY <1>1, <2>2, <2>3, <2>4 DEF Reviewing, Rendering, At
    <2>15. NoneTwice'
      <3>1. \A f \in Finding : inline'[f] + dropped'[f] <= 1
        <4>1. ASSUME NEW f \in comments PROVE inline'[f] + dropped'[f] = 1
          BY <2>1, <2>6, <2>8
        <4>2. ASSUME NEW f \in outside PROVE inline'[f] + dropped'[f] = 1
          BY <2>1, <2>6, <2>8
        <4>3. ASSUME NEW f \in Finding, f \notin comments, f \notin outside
              PROVE  inline'[f] = inline[f] /\ dropped'[f] = dropped[f]
          BY <2>1, <2>7, <4>3
        <4> QED
          BY <2>9, <4>1, <4>2, <4>3 DEF Inv, NoneTwice
      <3>2. Lgtm => lgtm[job.head] = 0
        BY <1>1, <2>4, <2>5, <2>7 DEF PostsReview
      <3>3. \A c \in Commit : lgtm'[c] <= 1
        BY <2>1, <2>5, <2>7, <3>2 DEF Inv, NoneTwice
      <3> QED
        BY <3>1, <3>3 DEF NoneTwice
    <2>16. (ReceiptsCounted /\ TotalCovers)'
      BY <1>1, <2>2, <2>3 DEF Inv, ReceiptsCounted, TotalCovers, Receipts, At
    <2>17. TotalBounded'
      BY <1>1 DEF Inv, TotalBounded, NotYetAdded
    <2> QED
      BY <2>10, <2>12, <2>13, <2>14, <2>15, <2>16, <2>17 DEF Inv
  <1>4. CASE ~(comments \subseteq Postable)
    BY <1>1, <1>2, <1>4, DieInv DEF Submit
  <1> QED
    BY <1>3, <1>4

(* The cost is added to the total that was read, which is still the total.  *)
LEMMA UpsertStatusInv == ASSUME Inv, UpsertStatus PROVE Inv'
  <1> DEFINE new == [job EXCEPT !.pc = "check"]
  <1>1. /\ job' = new /\ status' = [runs |-> job.status.runs + 1, total |-> Total] /\ At("status")
        /\ UNCHANGED <<branch, inline, dropped, lgtm, checks, report, spent, counted, mishaps>>
    BY DEF UpsertStatus
  <1>2. new \in JobType /\ new.pc = "check" /\ new.head = job.head /\ new.receipt = job.receipt
    BY DEF Inv, Types, JobType
  <1> HIDE DEF new
  <1>3. /\ report.there /\ job.head = report.head /\ job.status = status
        /\ job.receipt => report.found \subseteq Reported
    BY <1>1 DEF Inv, Rendering, ReceiptDue
  <1>4. status.total \in Nat /\ status.runs \in Nat /\ report.cost \in 0 .. 1 /\ spent \in Nat /\ mishaps \in 0 .. Mishaps
    BY DEF Inv, Types, RemoteTypes, StatusType, ReportType, CountTypes
  <1>5. status' \in StatusType /\ status'.total = status.total + report.cost
    BY <1>1, <1>3, <1>4 DEF Total, StatusType
  <1>6. Types'
    BY <1>1, <1>2, <1>5 DEF Inv, Types, BranchTypes, RemoteTypes, CountTypes
  <1>7. (ReportCovers /\ ReceiptMeansReported /\ NoneTwice /\ ReceiptsCounted)'
    BY <1>1 DEF Inv, ReportCovers, ReceiptMeansReported, NoneTwice, ReceiptsCounted, Receipts, FoundIn, Reported
  <1>8. (Reviewing /\ Rendering /\ ReceiptDue)'
    BY <1>1, <1>2, <1>3 DEF Reviewing, Rendering, ReceiptDue, At, Reported
  <1>9. TotalCovers'
    <2>1. Receipts' = Receipts /\ Cardinality(Receipts) <= status.total /\ Cardinality(Receipts) \in Nat
      BY <1>1, ReceiptsFinite DEF Receipts, Inv, TotalCovers
    <2>2. Cardinality(Receipts) + report.cost <= status'.total /\ Cardinality(Receipts) <= status'.total
      BY <1>4, <1>5, <2>1
    <2> QED
      BY <1>1, <2>1, <2>2 DEF TotalCovers
  <1>10. TotalBounded'
    <2>1. status.total + report.cost <= spent + (Mishaps - mishaps)
      BY <1>1 DEF Inv, TotalBounded, NotYetAdded
    <2>2. ~NotYetAdded'
      BY <1>1, <1>2 DEF NotYetAdded, At
    <2> QED
      BY <1>1, <1>5, <2>1, <2>2 DEF TotalBounded
  <1> QED
    BY <1>6, <1>7, <1>8, <1>9, <1>10 DEF Inv

(* A commit gets its receipt when what it contains is reported.             *)
LEMMA ReceiptInv == ASSUME Inv, Receipt PROVE Inv'
  <1>1. At("check") /\ job' = NoJob /\ UNCHANGED <<branch, inline, dropped, lgtm, status, report, spent, mishaps>>
    BY DEF Receipt
  <1>2. CASE UNCHANGED <<checks, counted>>
    BY <1>1, <1>2, DieInv
  <1>3. CASE job.receipt /\ job.head \notin checks
    <2>1. checks' = checks \cup {job.head} /\ counted' = [counted EXCEPT ![job.head] = report.cost]
      BY <1>3 DEF Receipt, Receipted
    <2>2. /\ job.head \in 1 .. pushed /\ FoundIn(line[job.head]) \subseteq Reported
      BY <1>1, <1>3 DEF Inv, Rendering, ReceiptDue, ReportCovers
    <2>3. job.head \in Commit
      <3>1. pushed \in 1 .. MaxCommits
        BY DEF Inv, Types, BranchTypes, Commit
      <3> QED
        BY <2>2, <3>1, Bounds DEF Commit
    <2>4. report.cost \in 0 .. 1 /\ counted \in [Commit -> 0 .. 1] /\ job.head \notin Receipts
      BY <1>3 DEF Inv, Types, ReportType, CountTypes, ReceiptsCounted
    <2>5. Types'
      <3>1. RemoteTypes'
        BY <1>1, <2>1, <2>2 DEF Inv, Types, RemoteTypes
      <3>2. CountTypes'
        BY <1>1, <2>1, <2>3, <2>4 DEF Inv, Types, CountTypes
      <3> QED
        BY <1>1, <3>1, <3>2, NoJobType DEF Inv, Types, BranchTypes
    <2>6. (ReportCovers /\ NoneTwice)'
      BY <1>1 DEF Inv, ReportCovers, NoneTwice, FoundIn, Reported
    <2>7. (Reviewing /\ Rendering /\ ReceiptDue)'
      BY <1>1, NoJobType DEF Reviewing, Rendering, ReceiptDue, At
    <2>8. ReceiptMeansReported'
      BY <1>1, <2>1, <2>2 DEF Inv, ReceiptMeansReported, FoundIn, Reported
    <2>9. Receipts' \subseteq Receipts \cup {job.head} /\ Cardinality(Receipts') = Cardinality(Receipts) + report.cost
      BY <2>1, <2>3, <2>4, CountedOnce
    <2>10. ReceiptsCounted'
      BY <2>1, <2>9 DEF Inv, ReceiptsCounted
    <2>11. TotalCovers'
      <3>1. Cardinality(Receipts) + report.cost <= status.total
        BY <1>1 DEF Inv, TotalCovers
      <3>2. ~At("check")'
        BY <1>1, NoJobType DEF At
      <3> QED
        BY <1>1, <2>9, <3>1, <3>2 DEF TotalCovers
    <2>12. TotalBounded'
      <3>1. ~NotYetAdded'
        BY <1>1, NoJobType DEF NotYetAdded, At
      <3> QED
        BY <1>1, <3>1 DEF Inv, TotalBounded
    <2> QED
      BY <2>5, <2>6, <2>7, <2>8, <2>10, <2>11, <2>12 DEF Inv
  <1> QED
    BY <1>2, <1>3 DEF Receipt, Receipted

LEMMA StutterInv == ASSUME Inv, UNCHANGED vars PROVE Inv'
  <1>1. Types'
    BY DEF Inv, Types, BranchTypes, RemoteTypes, CountTypes
  <1>2. (ReportCovers /\ Reviewing /\ Rendering /\ ReceiptDue)'
    BY DEF Inv, ReportCovers, Reviewing, Rendering, ReceiptDue, FoundIn, Reported, At
  <1>3. (ReceiptMeansReported /\ NoneTwice)'
    BY DEF Inv, ReceiptMeansReported, NoneTwice, FoundIn, Reported
  <1>4. (ReceiptsCounted /\ TotalCovers /\ TotalBounded)'
    BY DEF Inv, ReceiptsCounted, TotalCovers, TotalBounded, NotYetAdded, Receipts, At
  <1> QED
    BY <1>1, <1>2, <1>3, <1>4 DEF Inv

-----------------------------------------------------------------------------
(* Theorems.                                                               *)

(* A push, a call of either job, a job that dies or is run again keeps the  *)
(* invariant (pull.go, git.go, render.go).                                  *)
THEOREM PostInvariant == Spec => []Inv
  <1>1. ASSUME Inv, [Next]_vars PROVE Inv'
    <2>1. CASE Push
      BY <1>1, <2>1, PushInv
    <2>2. CASE Start \/ Restart \/ PostAgain
      BY <1>1, <2>2, StartInv, PostAgainInv
    <2>3. CASE ReadPull
      BY <1>1, <2>3, ReadPullInv
    <2>4. CASE Review
      BY <1>1, <2>4, ReviewInv
    <2>5. CASE ReadState
      BY <1>1, <2>5, ReadStateInv
    <2>6. CASE ReadFiles
      BY <1>1, <2>6, ReadFilesInv
    <2>7. CASE CreateReview
      BY <1>1, <2>7, CreateReviewInv
    <2>8. CASE NothingNew
      BY <1>1, <2>8, NothingNewInv
    <2>9. CASE UpsertStatus
      BY <1>1, <2>9, UpsertStatusInv
    <2>10. CASE Receipt
      BY <1>1, <2>10, ReceiptInv
    <2>11. CASE Die
      <3>1. mishaps \in 0 .. Mishaps
        BY <1>1 DEF Inv, Types, CountTypes
      <3> QED
        BY <1>1, <2>11, <3>1, DieInv, MishapType DEF Die
    <2>12. CASE UNCHANGED vars \/ Done
      BY <1>1, <2>12, StutterInv DEF Done
    <2> HIDE DEF vars, branch, remote
    <2> QED
      BY <1>1, <2>1, <2>2, <2>3, <2>4, <2>5, <2>6, <2>7, <2>8, <2>9, <2>10, <2>11, <2>12
         DEF Next, Work
  <1> QED
    BY <1>1, InitInv, PTL DEF Spec

(* What remembers an event, and how a run ended, is one of few values.      *)
EventTypes == event \in BOOLEAN /\ ending \in {"none", "full", "died"}

LEMMA EventsTyped == Spec => []EventTypes
  <1>1. Init => EventTypes
    BY DEF Init, EventTypes
  <1>2. ASSUME EventTypes, [Next]_vars PROVE EventTypes'
    <2>1. CASE Push \/ Start \/ Restart \/ PostAgain \/ Die
      BY <1>2, <2>1 DEF EventTypes, Push, Start, Restart, NewRun, PostAgain, Die
    <2>2. CASE ReadPull \/ Review \/ ReadState \/ ReadFiles \/ NothingNew
      BY <1>2, <2>2 DEF EventTypes, ReadPull, Review, ReadState, ReadFiles, NothingNew
    <2>3. CASE UpsertStatus \/ Receipt
      BY <1>2, <2>3 DEF EventTypes, UpsertStatus, Receipt
    <2>4. CASE CreateReview
      <3>1. event' = event /\ (ending' = ending \/ ending' = "full")
        BY <2>4 DEF CreateReview, Submit
      <3> QED
        BY <1>2, <3>1 DEF EventTypes
    <2>5. CASE Done \/ UNCHANGED vars
      BY <1>2, <2>5 DEF EventTypes, Done
    <2> HIDE DEF vars, branch, remote
    <2> QED
      BY <1>2, <2>1, <2>2, <2>3, <2>4, <2>5 DEF Next, Work
  <1> QED
    BY <1>1, <1>2, PTL DEF Spec

(* TypeOK holds for every history of commits, every cap and every bound.    *)
THEOREM PostTypes == Spec => []TypeOK
  <1>1. ASSUME Inv, EventTypes PROVE TypeOK
    <2>1. head \in 1 .. pushed /\ pushed \in Commit /\ line \in [Commit -> SUBSET Commit]
      BY <1>1 DEF Inv, Types, BranchTypes
    <2>2. /\ inline \in [Finding -> Nat] /\ dropped \in [Finding -> Nat] /\ lgtm \in [Commit -> Nat]
          /\ status \in StatusType /\ counted \in [Commit -> 0 .. 1] /\ spent \in Nat
      BY <1>1 DEF Inv, Types, RemoteTypes, CountTypes
    <2>3. checks \subseteq Commit
      BY <1>1, <2>1, Bounds DEF Inv, Types, RemoteTypes, Commit
    <2>4. /\ job.pc \in {"off", "pull", "walk", "post", "files", "review", "status", "check"}
          /\ job.head \in 0 .. MaxCommits /\ job.checkout \in 0 .. MaxCommits
          /\ job.prior \in SUBSET Finding /\ job.lines \in SUBSET Finding /\ job.status \in StatusType
      BY <1>1 DEF Inv, Types, JobType
    <2>5. report.head \in 0 .. MaxCommits /\ report.found \in SUBSET Finding
      BY <1>1 DEF Inv, Types, ReportType
    <2>6. 0 .. MaxCommits \subseteq {0} \cup Commit
      BY Bounds DEF Commit
    <2>7. event \in BOOLEAN /\ ending \in {"none", "full", "died"}
      BY <1>1 DEF EventTypes
    <2> QED
      BY <2>1, <2>2, <2>3, <2>4, <2>5, <2>6, <2>7 DEF TypeOK, StatusType
  <1> QED
    BY <1>1, PostInvariant, EventsTyped, PTL

(* Wherever the next review may start from, all before it is on the pull    *)
(* request: the check is created only after the comments, and never when    *)
(* the cap cut some (pull.go:49, render.go:175).                            *)
THEOREM ReceiptsMeanReported == Spec => []ReceiptMeansReported
  <1>1. Inv => ReceiptMeansReported
    BY DEF Inv
  <1> QED
    BY <1>1, PostInvariant, PTL

(* Answers that are lost, and posting jobs run again, never post a finding  *)
(* or the LGTM of a head twice: the markers are read first (render.go:154). *)
THEOREM PostedOnce == Spec => []NoneTwice
  <1>1. Inv => NoneTwice
    BY DEF Inv
  <1> QED
    BY <1>1, PostInvariant, PTL

(* The total of the status comment holds the cost of every review that a    *)
(* receipt stands for, and exceeds what was spent by no more than the       *)
(* posting jobs that were run again (render.go:164).                        *)
THEOREM TotalKept == Spec => []TotalInBounds
  <1>1. ASSUME Inv PROVE TotalInBounds
    <2>1. Cardinality(Receipts) \in Nat /\ status.total \in Nat
      BY <1>1, ReceiptsFinite DEF Inv, Types, RemoteTypes, StatusType
    <2>2. status.total >= Cardinality(Receipts)
      BY <1>1, <2>1 DEF Inv, TotalCovers
    <2>3. status.total <= spent + (Mishaps - mishaps)
      BY <1>1 DEF Inv, TotalBounded
    <2> QED
      BY <2>2, <2>3 DEF TotalInBounds, Receipts
  <1> QED
    BY <1>1, PostInvariant, PTL
=============================================================================
