-------------------------------- MODULE Post --------------------------------
(***************************************************************************)
(* A pull request reviewed from CI: "run --pr" resolves the range to review *)
(* (cmd/unreal-review/pull.go, review/git.go), "render github" posts the    *)
(* report (cmd/unreal-review/render.go, internal/render, internal/github).  *)
(* Each is a sequence of remote calls, any of which can be the last that    *)
(* the job makes: its effect is then there and its answer is lost. Commits  *)
(* are pushed, and the branch rewritten, between any two of them.           *)
(*                                                                         *)
(* .github/workflows/review.yml makes a run for each event of the pull      *)
(* request, one at a time: a newer event cancels the run it finds.          *)
(* The agent is taken to find what the commits of its range contain, and to *)
(* name an issue it is told was reported by the same identity.              *)
(***************************************************************************)
EXTENDS Integers, FiniteSets, FiniteSetsExt

CONSTANTS
    Finding,
    MaxCommits,      \* bound: commits that are ever pushed
    Found,           \* Found[c]: what commit c contains
    Outside,         \* findings whose lines are not in the pull request's patch
    Cap,             \* maxInlineComments
    Mishaps          \* bound: jobs that die, or are run again without a push

Commit == 1 .. MaxCommits

ASSUME PostAssumption ==
    /\ MaxCommits \in Nat \ {0}
    /\ Found \in [Commit -> SUBSET Finding]
    /\ Outside \subseteq Finding
    /\ Cap \in Nat \ {0} /\ Mishaps \in Nat

VARIABLES
    head,            \* head of the pull request's branch; 0 is the base
    line,            \* line[c]: c and its ancestors after the base
    pushed,          \* commits so far
    inline,          \* inline[f]: comments that carry the marker of f
    dropped,         \* dropped[f]: lines of review bodies with the marker of f
    lgtm,            \* lgtm[c]: LGTM reviews of commit c
    status,          \* the status comment: reviews and their cost
    checks,          \* commits with a successful unreal-review check
    event,           \* an event of the pull request waits for its run
    job,             \* the job that runs
    report,          \* the findings file handed from run to render
    spent,           \* history: cost of all reviews
    counted,         \* history: cost of the review that receipted a commit
    ending,          \* history: what kept the newest run from a receipt
    mishaps          \* mishaps left

remote == <<inline, dropped, lgtm, status, checks>>
branch == <<head, line, pushed>>
vars == <<branch, remote, event, job, report, spent, counted, ending, mishaps>>

NoReport == [there |-> FALSE, head |-> 0, found |-> {}, cost |-> 0]
NoJob == [pc |-> "off", head |-> 0, checkout |-> 0, prior |-> {}, lgtmPosted |-> FALSE,
          status |-> [runs |-> 0, total |-> 0], lines |-> {}, receipt |-> FALSE]

Init ==
    /\ head = 1 /\ pushed = 1
    /\ line = [c \in Commit |-> IF c = 1 THEN {1} ELSE {}]
    /\ inline = [f \in Finding |-> 0] /\ dropped = [f \in Finding |-> 0]
    /\ lgtm = [c \in Commit |-> 0]
    /\ status = [runs |-> 0, total |-> 0]
    /\ checks = {}
    /\ event = TRUE /\ job = NoJob /\ report = NoReport
    /\ spent = 0 /\ counted = [c \in Commit |-> 0] /\ ending = "none"
    /\ mishaps = Mishaps

At(pc) == job.pc = pc
Mishap == mishaps > 0 /\ mishaps' = mishaps - 1
After(c) == IF c = 0 THEN {} ELSE line[c]
FoundIn(commits) == UNION {Found[c] : c \in commits}

-----------------------------------------------------------------------------
(* The branch grows, or is rewritten from an earlier commit: "synchronize". *)

Push ==
    /\ pushed < MaxCommits
    /\ \E parent \in line[head] \cup {0} :
          line' = [line EXCEPT ![pushed + 1] = After(parent) \cup {pushed + 1}]
    /\ pushed' = pushed + 1 /\ head' = pushed + 1
    /\ event' = TRUE
    /\ UNCHANGED <<remote, job, report, spent, counted, ending, mishaps>>

-----------------------------------------------------------------------------
(* run --pr.                                                               *)

(* The run of an event checks the head out. Nothing but an event makes one:  *)
(* a head that is left without a receipt is not reviewed again for that.    *)
NewRun ==
    /\ At("off")
    /\ job' = [NoJob EXCEPT !.pc = "pull", !.checkout = head]
    /\ report' = NoReport /\ ending' = "none"
    /\ UNCHANGED <<branch, remote, spent, counted>>

Start == event /\ NewRun /\ event' = FALSE /\ UNCHANGED mishaps

(* The pull request is reopened, its base edited, or the run started again  *)
(* by hand, with the head as it is.                                         *)
Restart == ~event /\ NewRun /\ Mishap /\ UNCHANGED event

(* PullState: the head, if the checkout has it. *)
ReadPull ==
    /\ At("pull")
    /\ job' = IF head \in line[job.checkout]
              THEN [job EXCEPT !.pc = "walk", !.head = head] ELSE NoJob
    /\ UNCHANGED <<branch, remote, event, report, spent, counted, ending, mishaps>>

(* reviewedHead: the newest commit of the pull request with a successful    *)
(* check; none when no commit has one. resolvePull reviews from there when  *)
(* it is an ancestor of the head that was read, else from the base.         *)
ReviewedHead == Max((line[head] \cap checks) \cup {0})
IsAncestor(c, of) == c \in line[of]
BaseOf(h) == IF ReviewedHead # 0 /\ IsAncestor(ReviewedHead, h) THEN ReviewedHead ELSE 0

(* The review itself. An empty range is complete at once, and free.         *)
Review ==
    /\ At("walk")
    /\ LET range == line[job.head] \ After(BaseOf(job.head))
           cost == IF range = {} THEN 0 ELSE 1
       IN /\ report' = [there |-> TRUE, head |-> job.head, found |-> FoundIn(range), cost |-> cost]
          /\ spent' = spent + cost
    /\ job' = [job EXCEPT !.pc = "post"]
    /\ UNCHANGED <<branch, remote, event, counted, ending, mishaps>>

-----------------------------------------------------------------------------
(* render github.                                                          *)

(* The posting job alone is run again, with the same report. *)
PostAgain ==
    /\ At("off") /\ report.there /\ Mishap
    /\ job' = [NoJob EXCEPT !.pc = "post"]
    /\ ending' = "none"
    /\ UNCHANGED <<branch, remote, event, report, spent, counted>>

(* History.Reported: the markers of inline comments and of review bodies.   *)
InlineOnly == {f \in Finding : inline[f] > 0}
Reported == {f \in Finding : inline[f] > 0 \/ dropped[f] > 0}

(* PullState and LatestStatusComment, then the head must still be the one   *)
(* that was reviewed.                                                       *)
ReadState ==
    /\ At("post")
    /\ job' = IF head # report.head THEN NoJob
              ELSE [job EXCEPT !.pc = "files", !.head = head, !.prior = Reported,
                               !.lgtmPosted = (lgtm[head] > 0), !.status = status]
    /\ UNCHANGED <<branch, remote, event, report, spent, counted, ending, mishaps>>

(* ListPullFiles: the patch of the branch as it is now. That of a newer     *)
(* head may show other lines than that of the reviewed one.                 *)
Postable == report.found \ Outside
ReadFiles ==
    /\ At("files")
    /\ \E lines \in IF head = job.head THEN {Postable} ELSE SUBSET report.found :
          job' = [job EXCEPT !.pc = "review", !.lines = lines]
    /\ UNCHANGED <<branch, remote, event, report, spent, counted, ending, mishaps>>

(* render.GitHub: new findings are commented inline up to the cap, those    *)
(* outside the patch are listed with a marker, those over the cap without.  *)
New == report.found \ job.prior
RoomLeft == Cap - Cardinality(report.found \cap job.prior)
Room == Cap
InlineChoices ==
    {S \in SUBSET (New \cap job.lines) :
        Cardinality(S) = Min({Cardinality(New \cap job.lines), Max({0, Room})})}

Lgtm == report.found = {}
PostsReview == IF Lgtm THEN ~job.lgtmPosted ELSE New # {}

(* GitHub refuses a review with a comment on a line its commit's patch does *)
(* not have.                                                                *)
Submit(comments) ==
    LET outside == New \ job.lines
    IN IF comments \subseteq Postable
       THEN /\ inline' = [f \in Finding |-> inline[f] + IF f \in comments THEN 1 ELSE 0]
            /\ dropped' = [f \in Finding |-> dropped[f] + IF f \in outside THEN 1 ELSE 0]
            /\ lgtm' = [lgtm EXCEPT ![job.head] = IF Lgtm THEN @ + 1 ELSE @]
            /\ job' = [job EXCEPT !.pc = "status", !.receipt = (New \cap job.lines \subseteq comments)]
            /\ ending' = IF Cardinality(comments) = Cap /\ ~job'.receipt THEN "full" ELSE ending
       ELSE UNCHANGED <<inline, dropped, lgtm, ending>> /\ job' = NoJob

CreateReview ==
    /\ At("review") /\ PostsReview
    /\ \E comments \in InlineChoices : Submit(comments)
    /\ UNCHANGED <<branch, status, checks, event, report, spent, counted, mishaps>>

NothingNew ==
    /\ At("review") /\ ~PostsReview
    /\ job' = [job EXCEPT !.pc = "status", !.receipt = TRUE]
    /\ UNCHANGED <<branch, remote, event, report, spent, counted, ending, mishaps>>

(* UpsertStatusComment: one run more, and its cost. *)
OwnCost == report.cost
Refunded == job.status.total - report.cost
Total == job.status.total + report.cost

UpsertStatus ==
    /\ At("status")
    /\ status' = [runs |-> job.status.runs + 1, total |-> Total]
    /\ job' = [job EXCEPT !.pc = "check"]
    /\ UNCHANGED <<branch, inline, dropped, lgtm, checks, event, report, spent, counted, ending,
                   mishaps>>

(* HasSuccessfulCheck and CreateCheckRun: the receipt, unless a finding was *)
(* cut by the cap.                                                          *)
HeadNow == head
Receipted == job.head

Receipt ==
    /\ At("check")
    /\ IF job.receipt /\ Receipted \notin checks
       THEN checks' = checks \cup {Receipted} /\ counted' = [counted EXCEPT ![Receipted] = report.cost]
       ELSE UNCHANGED <<checks, counted>>
    /\ job' = NoJob
    /\ UNCHANGED <<branch, inline, dropped, lgtm, status, event, report, spent, ending, mishaps>>

(* The job dies: a call fails, the review fails, it takes too long; or a    *)
(* newer event cancels it, at once or some calls later.                     *)
Die ==
    /\ ~At("off")
    /\ job' = NoJob
    /\ IF event THEN UNCHANGED <<ending, mishaps>> ELSE Mishap /\ ending' = "died"
    /\ UNCHANGED <<branch, remote, event, report, spent, counted>>

Done == At("off") /\ ~event /\ UNCHANGED vars

Work == ReadPull \/ Review \/ ReadState \/ ReadFiles \/ CreateReview \/ NothingNew \/ UpsertStatus \/ Receipt
Next == Push \/ Start \/ Restart \/ PostAgain \/ Work \/ Die \/ Done

Spec == Init /\ [][Next]_vars

(* GitHub runs the workflow of the last event, and a job that runs makes its *)
(* next call. Nothing that costs a mishap is fair, nor is a push.           *)
FairSpec == Spec /\ WF_vars(Start) /\ WF_vars(Work)

-----------------------------------------------------------------------------
(* What the pull request must show.                                        *)

TypeOK ==
    /\ head \in 1 .. pushed /\ pushed \in Commit
    /\ line \in [Commit -> SUBSET Commit] /\ checks \subseteq Commit
    /\ {inline, dropped} \subseteq [Finding -> Nat] /\ lgtm \in [Commit -> Nat]
    /\ {status, job.status} \subseteq [runs : Nat, total : Nat]
    /\ job.pc \in {"off", "pull", "walk", "post", "files", "review", "status", "check"}
    /\ {job.head, job.checkout, report.head} \subseteq {0} \cup Commit
    /\ job.prior \subseteq Finding /\ job.lines \subseteq Finding /\ report.found \subseteq Finding
    /\ counted \in [Commit -> 0 .. 1] /\ spent \in Nat
    /\ event \in BOOLEAN /\ ending \in {"none", "full", "died"}

(* The receipt of a commit means what it says: all that the commit and its  *)
(* ancestors contain is on the pull request, inline or listed. The next     *)
(* review starts there, so what is missing now is never reported            *)
(* (pull.go:49, render.go:175).                                             *)
ReceiptMeansReported == \A c \in checks : FoundIn(line[c]) \subseteq Reported

(* No finding is posted twice, and no LGTM twice for one head, although     *)
(* answers are lost and jobs are run again (render.go:154).                 *)
NoneTwice ==
    /\ \A f \in Finding : inline[f] + dropped[f] <= 1
    /\ \A c \in Commit : lgtm[c] <= 1

(* The cumulative cost of the status comment holds the reviews of all the   *)
(* commits with a receipt, and no review twice except when its posting job  *)
(* is run again: that counts it once more (render.go:164).                  *)
TotalInBounds ==
    /\ status.total >= Cardinality({c \in Commit : counted[c] = 1})
    /\ status.total <= spent + (Mishaps - mishaps)

(* Every head that stays is dealt with, however often the branch moved and   *)
(* runs were cancelled before: it gets its receipt, or the newest run of it *)
(* died, or that run filled a whole review with comments and left the rest. *)
(* What is on the pull request already takes no room from what is not, so   *)
(* that each further run posts a capful (github.go:93, render.go:171-176).  *)
EventuallyConcluded == <>[](head \in checks \/ ending # "none")
=============================================================================
