------------------------------ MODULE Focused ------------------------------
(***************************************************************************)
(* The focused adapter (agent/focused.go): discovery by several lenses at   *)
(* once, one verification child, one publication; a manifest with a ledger *)
(* and the stages that are done, so that an interrupted review resumes.     *)
(*                                                                         *)
(* A stage has one file and one child session, continued from attempt to   *)
(* attempt; only the verification stage can start over, under a new         *)
(* generation. Every write is a rename of a synced file.                    *)
(***************************************************************************)
EXTENDS Integers, FiniteSets

CONSTANTS
    Lens,            \* focusedLenses
    ID,              \* identities of findings
    Loc,             \* locations, as numbers
    Window,          \* locations that close are one canonical location
    Known,           \* findings of the caller's report when the review starts
    MaxSpend,        \* bound: no invocation starts with a larger ledger
    Mishaps          \* bound: crashes, cancellations, failed or unruly children

Item == [id : ID, loc : Loc]
Ids(S) == {i.id : i \in S}
Consistent(S) == \A i, j \in S : i.id = j.id => i = j

ASSUME FocusedAssumption ==
    /\ "verification" \notin Lens
    /\ Loc \subseteq Int /\ Window \in Nat
    /\ Known \subseteq Item /\ Consistent(Known)
    /\ MaxSpend \in Nat /\ Mishaps \in Nat

VARIABLES
    manifest,        \* manifest.json
    file,            \* file[s]: the report of stage s
    public,          \* the caller's report: its findings, and whether it has a summary
    root,            \* the caller: does it want discovery only, is there a run, its
                     \* cost, is it complete
    pc,              \* where the invocation is; "off" when none runs
    m,               \* the manifest in memory
    cancelled,       \* the invocation's context is cancelled or timed out
    waiting,         \* stages whose child is not called yet
    running,         \* stages whose child is running
    outcomes,        \* outcomes not recorded by the coordinator
    failed,          \* some recorded outcome failed (stageErr)
    rejected,        \* history: child sessions whose output was recorded as invalid
    mishaps          \* mishaps left

disk == <<manifest, file, public, root>>
children == <<waiting, running, outcomes>>
vars == <<manifest, file, public, root, pc, m, cancelled, waiting, running,
          outcomes, failed, rejected, mishaps>>

V == "verification"
Stage == Lens \cup {V}

(* focusedStage: the report a stage was completed with stands for its       *)
(* digest, the reports of the lenses for the dependency.                    *)
Digests == [Lens -> SUBSET Item]
NoStage == [done |-> FALSE, digest |-> {}, dep |-> [l \in Lens |-> {}]]

(* focusedManifest. The attempts are kept as their sum, the ledger.         *)
Manifest == [exists : BOOLEAN, ledger : Nat, vgen : 0 .. Mishaps, vreset : BOOLEAN,
             stages : [Stage -> [done : BOOLEAN, digest : SUBSET Item, dep : Digests]]]
NoManifest == [exists |-> FALSE, ledger |-> 0, vgen |-> 0, vreset |-> FALSE,
               stages |-> [s \in Stage |-> NoStage]]

(* A findings file: whether it is there, what was recorded, whether some    *)
(* identity was recorded again, and whether there is a summary.             *)
File == [there : BOOLEAN, items : SUBSET Item, again : BOOLEAN, summary : BOOLEAN]
NoFile == [there |-> FALSE, items |-> {}, again |-> FALSE, summary |-> FALSE]

(* How a child ended: well, with a report that is not valid, or not at all. *)
Outcome == [stage : Stage, end : {"ok", "invalid", "failed"}, cost : 0 .. 1, digest : SUBSET Item]

Init ==
    /\ manifest = NoManifest
    /\ file = [s \in Stage |-> NoFile]
    /\ public = [findings |-> Known, summary |-> FALSE]
    /\ root \in [discoveryOnly : BOOLEAN, run : {FALSE}, cost : {0}, complete : {FALSE}]
    /\ pc = "off" /\ m = NoManifest /\ cancelled = FALSE
    /\ waiting = {} /\ running = {} /\ outcomes = {} /\ failed = FALSE
    /\ rejected = {}
    /\ mishaps = Mishaps

Mishap == mishaps > 0 /\ mishaps' = mishaps - 1

-----------------------------------------------------------------------------
(* The caller, crashes and cancellation.                                   *)

Invoke ==
    /\ pc = "off" /\ ~root.complete /\ manifest.ledger <= MaxSpend
    /\ pc' = IF root.run THEN "resume" ELSE "start"
    /\ root' = [root EXCEPT !.run = TRUE]
    /\ UNCHANGED <<manifest, file, public, m, cancelled, children, failed, rejected, mishaps>>

Stopped ==
    /\ pc' = "off" /\ m' = NoManifest /\ cancelled' = FALSE
    /\ waiting' = {} /\ running' = {} /\ outcomes' = {} /\ failed' = FALSE

(* What the adapter returns as cost: the part of its ledger the caller has  *)
(* not counted. A refusal before the ledger is reconciled returns none.     *)
GrossCost == m.ledger
SwappedCost == root.cost - m.ledger
NewCost == m.ledger - root.cost

Return ==
    /\ pc \in {"refused", "stopped", "published"}
    /\ root' = [root EXCEPT !.cost = @ + (IF pc = "refused" THEN 0 ELSE NewCost),
                            !.complete = (pc = "published")]
    /\ Stopped
    /\ UNCHANGED <<manifest, file, public, rejected, mishaps>>

Crash ==
    /\ pc # "off" /\ Mishap
    /\ Stopped
    /\ UNCHANGED <<disk, rejected>>

Cancel ==
    /\ pc \notin {"off", "refused", "stopped", "published"} /\ ~cancelled /\ Mishap
    /\ cancelled' = TRUE
    /\ UNCHANGED <<disk, pc, m, children, failed, rejected>>

-----------------------------------------------------------------------------
(* Opening.                                                                *)

Open ==
    /\ pc \in {"start", "resume"}
    /\ LET loaded == IF manifest.exists THEN manifest ELSE [NoManifest EXCEPT !.exists = TRUE]
       IN IF \/ cancelled
             \/ ~manifest.exists /\ pc = "resume"
             \/ loaded.ledger < root.cost
          THEN pc' = "refused" /\ UNCHANGED <<manifest, m>>
          ELSE pc' = "check" /\ m' = loaded /\ manifest' = loaded
    /\ UNCHANGED <<file, public, root, cancelled, children, failed, rejected, mishaps>>

(* The configuration binding is not that of the manifest.                   *)
OpenMismatch ==
    /\ pc = "resume" /\ manifest.exists /\ Mishap
    /\ pc' = "refused"
    /\ UNCHANGED <<disk, m, cancelled, children, failed, rejected>>

Done(man, s) == man.stages[s].done
StageIntact(man, s) == Done(man, s) => file[s].items = man.stages[s].digest /\ file[s].summary
StagesAccepted(man) ==
    /\ \A s \in Stage : StageIntact(man, s)
    /\ Done(man, V) => \A l \in Lens : Done(man, l)

EveryLens(l) == TRUE
Undone(l) == ~Done(m, l)

Check ==
    /\ pc = "check"
    /\ IF StagesAccepted(m)
       THEN pc' = "lenses" /\ waiting' = {l \in Lens : Undone(l)}
       ELSE pc' = "stopped" /\ UNCHANGED waiting
    /\ UNCHANGED <<disk, m, cancelled, running, outcomes, failed, rejected, mishaps>>

-----------------------------------------------------------------------------
(* Candidates, and what verification may answer.                           *)

Candidates == public.findings \cup UNION {file[l].items : l \in Lens}
Canonical(id) == CHOOSE c \in Candidates : c.id = id

(* restoreCanonicalLocations: an answer near its candidate is moved there;  *)
(* one that sits exactly on another candidate is ambiguous.                 *)
Near(a, b) == a - b \in -Window .. Window
Restored(S) ==
    {IF i.id \in Ids(Candidates) /\ Near(i.loc, Canonical(i.id).loc)
     THEN Canonical(i.id) ELSE i : i \in S}
Ambiguous(S) ==
    \E i \in S, c \in Candidates :
        i.id \in Ids(Candidates) /\ i # Canonical(i.id) /\ c.id # i.id /\ c.loc = i.loc

(* focusedValidateVerification: candidates at their locations, none twice,  *)
(* and every previously reported one.                                       *)
AllowedWhateverID(f) == f.there /\ ~f.again /\ Consistent(f.items)
Allowed(f) == f.there /\ ~f.again /\ f.items \subseteq Candidates
Preserving(f) == Ids(public.findings) \subseteq Ids(f.items)

-----------------------------------------------------------------------------
(* A child.                                                                *)

Generation(s) == IF s = V THEN m.vgen ELSE 0
Session(s) == <<s, Generation(s)>>

(* The call: focusedClearSummary, then the wrapped agent.                   *)
Call(s) ==
    /\ s \in waiting
    /\ waiting' = waiting \ {s} /\ running' = running \cup {s}
    /\ file' = [file EXCEPT ![s].summary = FALSE]
    /\ UNCHANGED <<manifest, public, root, pc, m, cancelled, outcomes, failed, rejected, mishaps>>

(* The child records a finding. One that moves an identity it recorded      *)
(* before, or in verification answers no candidate, is unruly.              *)
Unruly(s, i) ==
    \/ \E j \in file[s].items : j.id = i.id /\ j # i
    \/ s = V /\ (Ambiguous({i}) \/ ~(Restored({i}) \subseteq Candidates))

Record(s, i) ==
    /\ s \in running /\ ~cancelled
    /\ file' = [file EXCEPT ![s] =
          [there |-> TRUE, items |-> @.items \cup {i},
           again |-> (@.again \/ i.id \in Ids(@.items)), summary |-> @.summary]]
    /\ IF Unruly(s, i) THEN Mishap ELSE UNCHANGED mishaps
    /\ UNCHANGED <<manifest, public, root, pc, m, cancelled, children, failed, rejected>>

Returns(s, end, cost) ==
    /\ running' = running \ {s}
    /\ outcomes' = outcomes \cup
          {[stage |-> s, end |-> end, cost |-> cost,
            digest |-> IF end = "ok" THEN file'[s].items ELSE {}]}

(* The child succeeds, with a summary and a cost. Its report is coalesced   *)
(* and written back; an identity in two places, or an ambiguous answer of   *)
(* the verifier, fails the stage and leaves the file. A verifier that drops *)
(* a finding reported before is unruly.                                     *)
Coalesces(s) == Consistent(file[s].items) /\ (s = V => ~Ambiguous(file[s].items))

Succeeds(s) ==
    /\ s \in running /\ ~cancelled
    /\ IF s = V /\ ~Preserving(file[s]) THEN Mishap ELSE UNCHANGED mishaps
    /\ IF Coalesces(s)
       THEN /\ file' = [file EXCEPT ![s] =
                  [there |-> TRUE, items |-> IF s = V THEN Restored(@.items) ELSE @.items,
                   again |-> FALSE, summary |-> TRUE]]
            /\ Returns(s, "ok", 1)
       ELSE /\ file' = [file EXCEPT ![s].summary = TRUE]
            /\ Returns(s, "invalid", 1)
    /\ UNCHANGED <<manifest, public, root, pc, m, cancelled, waiting, failed, rejected>>

(* The child fails, or the invocation is cancelled under it.                *)
Fails(s) ==
    /\ s \in running
    /\ IF cancelled THEN UNCHANGED mishaps ELSE Mishap
    /\ \E cost \in 0 .. 1 : Returns(s, "failed", cost)
    /\ UNCHANGED <<disk, pc, m, cancelled, waiting, failed, rejected>>

-----------------------------------------------------------------------------
(* The coordinator.                                                        *)

Recorded(man, o, ok) ==
    LET done == [done |-> TRUE, digest |-> o.digest,
                 dep |-> IF o.stage = V THEN [l \in Lens |-> man.stages[l].digest]
                         ELSE NoStage.dep]
    IN  [man EXCEPT !.ledger = @ + o.cost,
                    !.stages = IF ok THEN [@ EXCEPT ![o.stage] = done] ELSE @]

(* record: the attempt joins the ledger, a success completes its lens.      *)
RecordLens ==
    /\ pc = "lenses"
    /\ \E o \in outcomes :
        /\ m' = Recorded(m, o, o.end = "ok")
        /\ outcomes' = outcomes \ {o}
        /\ failed' = (failed \/ o.end # "ok")
        /\ rejected' = IF o.end = "invalid" THEN rejected \cup {Session(o.stage)} ELSE rejected
    /\ manifest' = m'
    /\ UNCHANGED <<file, public, root, pc, cancelled, waiting, running, mishaps>>

(* All lenses are in: candidates that agree go to verification, or are what *)
(* a discovery child publishes.                                             *)
Dependency(man) == [l \in Lens |-> man.stages[l].digest]
Bound(man) == Done(man, V) => man.stages[V].dep = Dependency(man)

Gather ==
    /\ pc = "lenses" /\ waiting = {} /\ running = {} /\ outcomes = {}
    /\ LET agreed == ~failed /\ ~cancelled /\ Consistent(Candidates)
           bound == agreed /\ ~root.discoveryOnly /\ Bound(m)
       IN  pc' = CASE agreed /\ root.discoveryOnly -> "publish"
                   [] bound /\ Done(m, V) -> "publish"
                   [] bound /\ ~Done(m, V) /\ m.vreset -> "empty"
                   [] bound /\ ~Done(m, V) /\ ~m.vreset -> "verify"
                   [] OTHER -> "stopped"
    /\ waiting' = IF pc' = "verify" THEN {V} ELSE {}
    /\ UNCHANGED <<disk, m, cancelled, running, outcomes, failed, rejected, mishaps>>

(* Starting verification over: first the file is emptied, then the flag.    *)
StaleFile == UNCHANGED file
EmptiedFile == file' = [file EXCEPT ![V] = [NoFile EXCEPT !.there = TRUE]]
Empty ==
    /\ pc = "empty" /\ pc' = "unflag"
    /\ EmptiedFile
    /\ UNCHANGED <<manifest, public, root, m, cancelled, children, failed, rejected, mishaps>>

Unflag ==
    /\ pc = "unflag" /\ pc' = "verify"
    /\ m' = [m EXCEPT !.vreset = FALSE] /\ manifest' = m'
    /\ waiting' = {V}
    /\ UNCHANGED <<file, public, root, cancelled, running, outcomes, failed, rejected, mishaps>>

(* An answer that is not allowed, or not there, gives the stage a new       *)
(* generation, also when the child was interrupted in the middle of it.     *)
SameGeneration(man) == [man EXCEPT !.vreset = TRUE]
NewGeneration(man) == [man EXCEPT !.vgen = @ + 1, !.vreset = TRUE]

RecordVerification ==
    /\ pc = "verify"
    /\ \E o \in outcomes :
        LET ok == o.end = "ok" /\ Allowed(file[V]) /\ Preserving(file[V])
            invalid == ~ok /\ ~Allowed(file[V])
        IN  /\ m' = Recorded(IF invalid THEN NewGeneration(m) ELSE m, o, ok)
            /\ rejected' = IF invalid THEN rejected \cup {Session(V)} ELSE rejected
            /\ pc' = IF ok THEN "publish" ELSE "stopped"
    /\ outcomes' = {}
    /\ manifest' = m'
    /\ UNCHANGED <<file, public, root, cancelled, waiting, running, failed, mishaps>>

Publish ==
    /\ pc = "publish"
    /\ IF cancelled \/ (~root.discoveryOnly /\ ~(Allowed(file[V]) /\ Preserving(file[V])))
       THEN pc' = "stopped" /\ UNCHANGED public
       ELSE /\ pc' = "published"
            /\ public' = [findings |-> IF root.discoveryOnly THEN Candidates ELSE file[V].items,
                          summary |-> TRUE]
    /\ UNCHANGED <<manifest, file, root, m, cancelled, children, failed, rejected, mishaps>>

-----------------------------------------------------------------------------
Child(s) == Call(s) \/ (\E i \in Item : Record(s, i)) \/ Succeeds(s) \/ Fails(s)

Coordinator ==
    \/ Open \/ Check \/ RecordLens \/ Gather
    \/ Empty \/ Unflag \/ RecordVerification \/ Publish

Terminated == root.complete /\ UNCHANGED vars

Next ==
    \/ Invoke \/ Return \/ Crash \/ Cancel \/ OpenMismatch
    \/ Coordinator
    \/ \E s \in Stage : Child(s)
    \/ Terminated

Spec == Init /\ [][Next]_vars

(* The coordinator goes on, a child ends (its timeout sees to that), the    *)
(* caller persists what is returned, the operator resumes. Mishaps are      *)
(* bounded, never fair.                                                     *)
Fairness ==
    /\ WF_vars(Coordinator)
    /\ \A s \in Stage : WF_vars(Child(s))
    /\ WF_vars(Return) /\ WF_vars(Invoke)

FairSpec == Spec /\ Fairness

-----------------------------------------------------------------------------
(* Properties.                                                             *)

(* Every variable has its type; among other things each new generation of   *)
(* verification is paid by a mishap of its own.                             *)
TypeOK ==
    /\ manifest \in Manifest /\ m \in Manifest
    /\ file \in [Stage -> File]
    /\ public \in [findings : SUBSET Item, summary : BOOLEAN]
    /\ root \in [discoveryOnly : BOOLEAN, run : BOOLEAN, cost : Nat, complete : BOOLEAN]
    /\ pc \in {"off", "start", "resume", "check", "lenses", "empty", "unflag",
               "verify", "publish", "refused", "stopped", "published"}
    /\ waiting \subseteq Stage /\ running \subseteq Stage /\ outcomes \subseteq Outcome
    /\ cancelled \in BOOLEAN /\ failed \in BOOLEAN
    /\ rejected \subseteq Stage \X (0 .. Mishaps)
    /\ mishaps \in 0 .. Mishaps

(* A resumption is never refused for what the adapter itself left behind:   *)
(* the reports of completed stages stay as they were, although every        *)
(* attempt at a stage writes the same file, a completed verification stays  *)
(* bound to the reports of all lenses, and the ledger on disk covers what   *)
(* the caller counted (the checks of Focused.Run on opening).               *)
ResumeAccepted ==
    /\ StagesAccepted(manifest) /\ Bound(manifest)
    /\ pc = "off" => root.cost <= manifest.ledger

(* The caller's checkpoint of a complete review has the whole ledger, each  *)
(* attempt once, over all resumptions (focusedCostDelta).                   *)
SpendReconciled == root.complete => root.cost = manifest.ledger

(* What a review publishes was found by a lens or reported before, sits     *)
(* where it was found, and was confirmed by the verifier; nothing reported  *)
(* before is lost. What a discovery child publishes is everything its       *)
(* lenses found (focusedValidateVerification, the end of Focused.Run).      *)
Found == Known \cup UNION {manifest.stages[l].digest : l \in Lens}
PublishedOnlyVerified ==
    public.summary =>
        IF root.discoveryOnly THEN public.findings = Found
        ELSE /\ Known \subseteq public.findings
             /\ public.findings \subseteq Found \cap manifest.stages[V].digest

(* A verification session whose answer was recorded as invalid is never     *)
(* continued (agent/focused.go:392-393, RecordVerification).                *)
VerifierNotContinued == V \in running => Session(V) \notin rejected

(* A review that keeps being resumed is eventually complete, or stopped     *)
(* before its first manifest and must be started over.                      *)
FreshRootRequired == root.run /\ ~manifest.exists /\ pc # "start"
EventuallyComplete == <>[](root.complete \/ FreshRootRequired)
=============================================================================
