--------------------------- MODULE FocusedProofs ---------------------------
(***************************************************************************)
(* Proofs about Focused: the inductive invariant, and the safety properties *)
(* that the runs check.                                                     *)
(***************************************************************************)
EXTENDS Focused, TLAPS

-----------------------------------------------------------------------------
(* The inductive invariant.                                                *)

(* The manifest in memory is the one on disk, from its opening to the return; *)
(* no invocation starts cancelled.                                          *)
Opened == {"check", "lenses", "empty", "unflag", "verify", "publish", "stopped", "published"}
Mirrored ==
    /\ pc \in Opened => m = manifest /\ manifest.exists
    /\ ~manifest.exists => manifest = NoManifest
    /\ pc = "off" => ~cancelled

(* Children are in flight in their own part of an invocation, each stage in  *)
(* one place, none that is done.                                            *)
Flying == waiting \cup running \cup {o.stage : o \in outcomes}
InFlight ==
    /\ pc \notin {"lenses", "verify"} => waiting = {} /\ running = {} /\ outcomes = {}
    /\ pc = "lenses" => Flying \subseteq Lens
    /\ pc = "verify" => Flying \subseteq {V}
    /\ waiting \cap running = {}
    /\ \A o \in outcomes : o.stage \notin waiting \cup running
    /\ \A o, q \in outcomes : o.stage = q.stage => o = q
    /\ \A s \in Flying : ~Done(manifest, s)

(* All candidates: what was known before, and what the lenses found. They    *)
(* are settled when every lens is done and no identity is in two places.    *)
Pool == Known \cup UNION {file[l].items : l \in Lens}
LensesDone == \A l \in Lens : Done(manifest, l)
Settled == LensesDone /\ Consistent(Pool)

(* The coordinator's place.                                                 *)
Place ==
    /\ pc = "lenses" /\ ~failed => \A l \in Lens : Done(manifest, l) \/ l \in Flying
    /\ pc \in {"empty", "unflag", "verify", "publish"} => Settled
    /\ pc \in {"empty", "unflag", "verify"} => ~Done(manifest, V) /\ ~root.discoveryOnly
    /\ pc = "publish" /\ ~root.discoveryOnly => Done(manifest, V)
    /\ pc = "unflag" => file[V].items = {}
    /\ pc = "verify" => ~manifest.vreset

(* The verifier answers only settled candidates.                            *)
VerifierLast == file[V].items # {} => Settled

(* A stage that was completed, or will be when its outcome is recorded, has  *)
(* the report that was digested.                                            *)
Accepted == StagesAccepted(manifest) /\ Bound(manifest)
OutcomesKept ==
    \A o \in outcomes : o.end = "ok" => file[o.stage].items = o.digest /\ file[o.stage].summary

(* The verifier's file holds an answer that no well-behaved verifier gives.  *)
Strays(i) == Ambiguous({i}) \/ ~(Restored({i}) \subseteq Candidates)
Stained(S) == ~Consistent(S) \/ \E i \in S : Strays(i)
Tainted == Stained(file[V].items)
AnswersJudged ==
    \A o \in outcomes : o.stage = V =>
        /\ o.end = "ok" => /\ file[V].there /\ ~file[V].again
                           /\ file[V].items \subseteq Candidates \/ Tainted
        /\ o.end = "invalid" => Tainted

(* Every generation of verification is paid by a mishap: one more is spent   *)
(* already when the file is tainted, the invocation is cancelled before its *)
(* end, or the verifier failed.                                             *)
Ended == {"off", "refused", "stopped", "published"}
Owed ==
    \/ Tainted /\ ~manifest.vreset
    \/ cancelled /\ pc \notin Ended
    \/ \E o \in outcomes : o.stage = V /\ o.end = "failed"
Paid == manifest.vgen + mishaps + (IF Owed THEN 1 ELSE 0) <= Mishaps

(* The session whose answer was rejected is of an earlier generation.       *)
RejectedEarlier == \A g \in 0 .. Mishaps : <<V, g>> \in rejected => g < manifest.vgen

(* The caller counted what is in the ledger.                                *)
Counted ==
    /\ root.cost <= manifest.ledger
    /\ root.complete => pc = "off" /\ root.cost = manifest.ledger

(* What is public is known or found, and keeps what was known.              *)
Published ==
    /\ Known \subseteq public.findings /\ public.findings \subseteq Pool
    /\ public.summary =>
          /\ LensesDone
          /\ IF root.discoveryOnly THEN public.findings = Pool
             ELSE Done(manifest, V) /\ public.findings \subseteq manifest.stages[V].digest

Inv ==
    /\ TypeOK /\ Mirrored /\ InFlight /\ Place /\ VerifierLast
    /\ Accepted /\ OutcomesKept /\ AnswersJudged /\ Paid
    /\ RejectedEarlier /\ Counted /\ Published

-----------------------------------------------------------------------------
(* Stages, records and files.                                              *)

LEMMA Stages == V \in Stage /\ V \notin Lens /\ Lens \subseteq Stage /\ \A s \in Stage : s \in Lens \/ s = V
  BY FocusedAssumption DEF Stage, V

LEMMA NoTypes == NoManifest \in Manifest /\ NoFile \in File /\ NoStage.dep \in Digests
  <1>1. NoStage.dep \in Digests
    BY DEF NoStage, Digests
  <1>2. NoFile \in File
    BY DEF NoFile, File
  <1>3. NoStage \in [done : BOOLEAN, digest : SUBSET Item, dep : Digests]
    BY <1>1 DEF NoStage
  <1>4. 0 \in 0 .. Mishaps
    BY FocusedAssumption
  <1> QED
    BY <1>1, <1>2, <1>3, <1>4 DEF NoManifest, Manifest

(* What record adds to the manifest.                                        *)
LEMMA RecordedIs ==
    ASSUME NEW man \in Manifest, NEW o \in Outcome, NEW ok \in BOOLEAN
    PROVE  LET new == Recorded(man, o, ok) IN
           /\ new \in Manifest /\ new.exists = man.exists /\ new.ledger = man.ledger + o.cost
           /\ new.vgen = man.vgen /\ new.vreset = man.vreset
           /\ \A s \in Stage : s # o.stage \/ ~ok => new.stages[s] = man.stages[s]
           /\ ok => /\ new.stages[o.stage].done /\ new.stages[o.stage].digest = o.digest
                    /\ o.stage = V => new.stages[V].dep = Dependency(man)
  <1> DEFINE entry == [done |-> TRUE, digest |-> o.digest,
                       dep |-> IF o.stage = V THEN [l \in Lens |-> man.stages[l].digest]
                               ELSE NoStage.dep]
             stages == IF ok THEN [man.stages EXCEPT ![o.stage] = entry] ELSE man.stages
             cost == man.ledger + o.cost
             new == [man EXCEPT !.ledger = cost, !.stages = stages]
  <1>1. o.stage \in Stage /\ o.cost \in 0 .. 1 /\ o.digest \in SUBSET Item
    BY DEF Outcome
  <1>2. /\ man.stages \in [Stage -> [done : BOOLEAN, digest : SUBSET Item, dep : Digests]]
        /\ man.ledger \in Nat
    BY DEF Manifest
  <1>3. [l \in Lens |-> man.stages[l].digest] \in Digests
    BY <1>2, Stages DEF Digests
  <1>4. entry \in [done : BOOLEAN, digest : SUBSET Item, dep : Digests]
    BY <1>1, <1>3, NoTypes
  <1>5. new = Recorded(man, o, ok)
    BY DEF Recorded
  <1>6. entry.done /\ entry.digest = o.digest /\ (o.stage = V => entry.dep = Dependency(man))
    BY DEF Dependency
  <1> HIDE DEF entry
  <1>7. /\ stages \in [Stage -> [done : BOOLEAN, digest : SUBSET Item, dep : Digests]]
        /\ \A s \in Stage : s # o.stage \/ ~ok => stages[s] = man.stages[s]
        /\ ok => stages[o.stage] = entry
    BY <1>1, <1>2, <1>4
  <1>8. cost \in Nat
    BY <1>1, <1>2
  <1> HIDE DEF stages, cost
  <1>9. /\ new \in Manifest /\ new.exists = man.exists /\ new.ledger = cost /\ new.stages = stages
        /\ new.vgen = man.vgen /\ new.vreset = man.vreset
    BY <1>7, <1>8 DEF Manifest
  <1> HIDE DEF new
  <1>10. /\ \A s \in Stage : s # o.stage \/ ~ok => new.stages[s] = man.stages[s]
         /\ ok => /\ new.stages[o.stage].done /\ new.stages[o.stage].digest = o.digest
                  /\ o.stage = V => new.stages[V].dep = Dependency(man)
    BY <1>6, <1>7, <1>9
  <1> QED
    BY <1>5, <1>9, <1>10 DEF cost

(* A step that writes the file of one stage leaves the others alone.        *)
LEMMA FileWritten ==
    ASSUME NEW f \in [Stage -> File], NEW s \in Stage, NEW h \in File, NEW g, g = [f EXCEPT ![s] = h]
    PROVE  /\ g \in [Stage -> File] /\ g[s] = h
           /\ \A t \in Stage : t # s => g[t] = f[t]
  OBVIOUS

-----------------------------------------------------------------------------
(* What a step leaves alone.                                               *)

LEMMA CandidatesArePool == (Published => Candidates = Pool) /\ (Published' => Candidates' = Pool')
  BY DEF Published, Candidates, Pool

LEMMA TypeInit == Init => TypeOK
  <1> SUFFICES ASSUME Init PROVE TypeOK
    OBVIOUS
  <1>1. Mishaps \in 0 .. Mishaps /\ Known \in SUBSET Item
    BY FocusedAssumption
  <1>2. file \in [Stage -> File]
    BY NoTypes DEF Init
  <1>3. root \in [discoveryOnly : BOOLEAN, run : BOOLEAN, cost : Nat, complete : BOOLEAN]
    <2>1. {FALSE} \subseteq BOOLEAN /\ {0} \subseteq Nat
      OBVIOUS
    <2>2. root \in [discoveryOnly : BOOLEAN, run : {FALSE}, cost : {0}, complete : {FALSE}]
      BY DEF Init
    <2> QED
      BY <2>1, <2>2
  <1>4. /\ manifest = NoManifest /\ m = NoManifest /\ public = [findings |-> Known, summary |-> FALSE]
        /\ pc = "off" /\ waiting = {} /\ running = {} /\ outcomes = {} /\ rejected = {}
        /\ cancelled = FALSE /\ failed = FALSE /\ mishaps = Mishaps
    BY DEF Init
  <1> QED
    BY <1>1, <1>2, <1>3, <1>4, NoTypes DEF TypeOK

LEMMA DiskFrame ==
    ASSUME Inv, UNCHANGED <<file, public>>, manifest'.stages = manifest.stages,
           root'.discoveryOnly = root.discoveryOnly
    PROVE  /\ Pool' = Pool /\ Candidates' = Candidates
           /\ (Settled' <=> Settled) /\ (LensesDone' <=> LensesDone) /\ (Tainted' <=> Tainted)
           /\ VerifierLast' /\ Accepted' /\ Published'
  <1>1. Pool' = Pool /\ Candidates' = Candidates
    BY DEF Pool, Candidates
  <1>2. LensesDone' <=> LensesDone
    BY DEF LensesDone, Done
  <1>3. Settled' <=> Settled
    BY <1>1, <1>2 DEF Settled, Consistent
  <1>4. Tainted' <=> Tainted
    <2>1. \A i : Strays(i)' <=> Strays(i)
      BY <1>1 DEF Strays, Ambiguous, Restored, Canonical
    <2> QED
      BY <2>1 DEF Tainted, Stained, Consistent
  <1>5. VerifierLast'
    BY <1>3 DEF Inv, VerifierLast
  <1>6. Accepted'
    BY DEF Inv, Accepted, StagesAccepted, StageIntact, Done, Bound, Dependency
  <1>7. Published'
    BY <1>1, <1>2 DEF Inv, Published, Done
  <1> QED
    BY <1>1, <1>2, <1>3, <1>4, <1>5, <1>6, <1>7

(* A mishap pays what becomes owed.                                         *)
LEMMA PaidStep ==
    ASSUME TypeOK, TypeOK', Paid, manifest'.vgen = manifest.vgen,
           (mishaps' = mishaps /\ (Owed' => Owed)) \/ mishaps' = mishaps - 1
    PROVE  Paid'
  <1>1. manifest.vgen \in Nat /\ mishaps \in Nat /\ Mishaps \in Nat
    BY FocusedAssumption DEF TypeOK, Manifest
  <1> HIDE DEF Owed
  <1> QED
    BY <1>1 DEF Paid

(* Nothing is in flight after the step, and nothing but the caller's cost    *)
(* changes on disk.                                                         *)
LEMMA QuietStep ==
    ASSUME Inv, TypeOK', Mirrored', Place', Counted',
           UNCHANGED <<manifest, file, public, rejected>>, root'.discoveryOnly = root.discoveryOnly,
           waiting' = {}, running' = {}, outcomes' = {},
           (mishaps' = mishaps /\ (Owed' => Owed)) \/ mishaps' = mishaps - 1
    PROVE  Inv'
  <1>1. VerifierLast' /\ Accepted' /\ Published'
    BY DiskFrame
  <1>2. InFlight' /\ OutcomesKept' /\ AnswersJudged'
    BY DEF InFlight, Flying, OutcomesKept, AnswersJudged
  <1>3. Paid'
    BY PaidStep DEF Inv
  <1>4. RejectedEarlier'
    BY DEF Inv, RejectedEarlier
  <1> QED
    BY <1>1, <1>2, <1>3, <1>4 DEF Inv

LEMMA InitInv == Init => Inv
  <1> SUFFICES ASSUME Init PROVE Inv
    OBVIOUS
  <1>1. /\ manifest = NoManifest /\ (\A s \in Stage : file[s] = NoFile) /\ public = [findings |-> Known, summary |-> FALSE]
        /\ pc = "off" /\ waiting = {} /\ running = {} /\ outcomes = {} /\ rejected = {} /\ ~cancelled
        /\ root.cost = 0 /\ ~root.complete /\ mishaps = Mishaps
    BY DEF Init
  <1>2. TypeOK
    BY TypeInit
  <1>3. \A s \in Stage : file[s].items = {} /\ ~Done(manifest, s)
    BY <1>1 DEF NoFile, NoManifest, NoStage, Done
  <1>4. Mirrored /\ InFlight /\ Place /\ OutcomesKept /\ AnswersJudged /\ RejectedEarlier
    BY <1>1 DEF Mirrored, InFlight, Flying, Place, OutcomesKept, AnswersJudged, RejectedEarlier, Opened
  <1>5. VerifierLast
    BY <1>3, Stages DEF VerifierLast
  <1>6. Accepted
    BY <1>3, Stages DEF Accepted, StagesAccepted, StageIntact, Bound
  <1>7. ~Owed
    BY <1>1, <1>3, Stages DEF Owed, Tainted, Stained, Consistent
  <1>8. Paid /\ Counted
    BY <1>1, <1>7, FocusedAssumption DEF Paid, Counted, NoManifest
  <1>9. Published
    <2>1. Known \subseteq Pool
      BY DEF Pool
    <2>2. public.findings = Known /\ public.summary = FALSE
      BY <1>1
    <2> QED
      BY <2>1, <2>2 DEF Published
  <1> QED
    BY <1>2, <1>4, <1>5, <1>6, <1>8, <1>9 DEF Inv

-----------------------------------------------------------------------------
(* The caller, crashes and cancellation.                                   *)

LEMMA InvokeStep == ASSUME Inv, Invoke PROVE Inv'
  <1>1. /\ pc = "off" /\ pc' \in {"start", "resume"} /\ ~root.complete /\ root' = [root EXCEPT !.run = TRUE]
        /\ UNCHANGED <<manifest, file, public, m, cancelled, children, failed, rejected, mishaps>>
    BY DEF Invoke
  <1>2. root' \in [discoveryOnly : BOOLEAN, run : BOOLEAN, cost : Nat, complete : BOOLEAN]
        /\ root'.cost = root.cost /\ ~root'.complete /\ root'.discoveryOnly = root.discoveryOnly
    BY <1>1 DEF Inv, TypeOK
  <1>3. waiting' = {} /\ running' = {} /\ outcomes' = {}
    BY <1>1 DEF Inv, InFlight, children
  <1>4. TypeOK'
    BY <1>1, <1>2 DEF Inv, TypeOK, children
  <1>5. Mirrored' /\ Place' /\ Counted'
    BY <1>1, <1>2 DEF Inv, Mirrored, Opened, Place, Counted
  <1>6. Owed' => Owed
    <2>1. ~cancelled
      BY <1>1 DEF Inv, Mirrored
    <2> QED
      BY <1>1, <1>2, <1>3, <2>1, DiskFrame DEF Owed
  <1> QED
    BY <1>1, <1>2, <1>3, <1>4, <1>5, <1>6, QuietStep

LEMMA ReturnStep == ASSUME Inv, Return PROVE Inv'
  <1> DEFINE earned == IF pc = "refused" THEN 0 ELSE NewCost
             ended == pc = "published"
  <1>1. /\ pc \in {"refused", "stopped", "published"} /\ Stopped
        /\ UNCHANGED <<manifest, file, public, rejected, mishaps>>
        /\ root' = [root EXCEPT !.cost = @ + earned, !.complete = ended]
    BY DEF Return
  <1>2. /\ root.cost \in Nat /\ manifest.ledger \in Nat /\ root.cost <= manifest.ledger
        /\ pc # "refused" => m.ledger = manifest.ledger
    BY <1>1 DEF Inv, TypeOK, Manifest, Counted, Mirrored, Opened
  <1>3. root.cost + earned \in Nat /\ root.cost + earned <= manifest.ledger
        /\ (ended => root.cost + earned = manifest.ledger)
    BY <1>2 DEF NewCost
  <1> HIDE DEF earned, ended
  <1>4. ended \in BOOLEAN
    BY DEF ended
  <1>5. root' \in [discoveryOnly : BOOLEAN, run : BOOLEAN, cost : Nat, complete : BOOLEAN]
        /\ root'.cost = root.cost + earned /\ root'.complete = ended /\ root'.discoveryOnly = root.discoveryOnly
    BY <1>1, <1>3, <1>4 DEF Inv, TypeOK
  <1>6. TypeOK'
    BY <1>1, <1>5, NoTypes DEF Inv, TypeOK, Stopped
  <1>7. Mirrored' /\ Place' /\ Counted'
    BY <1>1, <1>3, <1>5 DEF Inv, Mirrored, Opened, Place, Counted, Stopped
  <1>8. Owed' => Owed
    BY <1>1, <1>5, DiskFrame DEF Owed, Stopped
  <1> QED
    BY <1>1, <1>5, <1>6, <1>7, <1>8, QuietStep DEF Stopped

LEMMA CrashStep == ASSUME Inv, Crash PROVE Inv'
  <1>1. /\ pc # "off" /\ Stopped /\ UNCHANGED <<manifest, file, public, root, rejected>>
        /\ mishaps > 0 /\ mishaps' = mishaps - 1
    BY DEF Crash, Mishap, disk
  <1>2. TypeOK'
    <2>1. mishaps' \in 0 .. Mishaps
      BY <1>1, FocusedAssumption DEF Inv, TypeOK
    <2> QED
      BY <1>1, <2>1, NoTypes DEF Inv, TypeOK, Stopped
  <1>3. Mirrored' /\ Place' /\ Counted'
    BY <1>1 DEF Inv, Mirrored, Opened, Place, Counted, Stopped
  <1> QED
    BY <1>1, <1>2, <1>3, QuietStep DEF Stopped

(* Cancellation is a mishap.                                                *)
LEMMA CancelStep == ASSUME Inv, Cancel PROVE Inv'
  <1>1. /\ cancelled' = TRUE /\ UNCHANGED <<manifest, file, public, root, pc, m, waiting, running, outcomes, failed, rejected>>
        /\ mishaps > 0 /\ mishaps' = mishaps - 1 /\ pc # "off"
    BY DEF Cancel, Mishap, disk, children
  <1>2. TypeOK'
    BY <1>1, FocusedAssumption DEF Inv, TypeOK
  <1>3. Mirrored' /\ InFlight' /\ OutcomesKept' /\ RejectedEarlier' /\ Counted'
    BY <1>1 DEF Inv, Mirrored, InFlight, Flying, Done, OutcomesKept, RejectedEarlier, Counted
  <1>4. Candidates' = Candidates /\ (Settled' <=> Settled) /\ (Tainted' <=> Tainted)
        /\ VerifierLast' /\ Accepted' /\ Published'
    BY <1>1, DiskFrame
  <1>5. Place' /\ AnswersJudged'
    BY <1>1, <1>4 DEF Inv, Place, Flying, Done, AnswersJudged
  <1>6. Paid'
    BY <1>1, <1>2, PaidStep DEF Inv
  <1> QED
    BY <1>2, <1>3, <1>4, <1>5, <1>6 DEF Inv

-----------------------------------------------------------------------------
(* Opening, and the coordinator's place.                                   *)

LEMMA OpenMismatchStep == ASSUME Inv, OpenMismatch PROVE Inv'
  <1>1. /\ pc = "resume" /\ pc' = "refused" /\ UNCHANGED <<manifest, file, public, root, m, cancelled, waiting, running, outcomes, failed, rejected>>
        /\ mishaps > 0 /\ mishaps' = mishaps - 1
    BY DEF OpenMismatch, Mishap, disk, children
  <1>2. TypeOK'
    BY <1>1, FocusedAssumption DEF Inv, TypeOK
  <1>3. waiting' = {} /\ running' = {} /\ outcomes' = {}
    BY <1>1 DEF Inv, InFlight
  <1>4. Mirrored' /\ Place' /\ Counted'
    BY <1>1 DEF Inv, Mirrored, Opened, Place, Counted
  <1> QED
    BY <1>1, <1>2, <1>3, <1>4, QuietStep

LEMMA OpenStep == ASSUME Inv, Open PROVE Inv'
  <1> DEFINE loaded == IF manifest.exists THEN manifest ELSE [NoManifest EXCEPT !.exists = TRUE]
  <1>1. /\ pc \in {"start", "resume"} /\ UNCHANGED <<file, public, root, cancelled, waiting, running, outcomes, failed, rejected, mishaps>>
        /\ \/ pc' = "refused" /\ UNCHANGED <<manifest, m>>
           \/ pc' = "check" /\ m' = loaded /\ manifest' = loaded /\ ~(loaded.ledger < root.cost)
    BY DEF Open, children
  <1>2. /\ loaded \in Manifest /\ loaded.exists /\ loaded.stages = manifest.stages
        /\ loaded.ledger = manifest.ledger /\ loaded.vgen = manifest.vgen /\ loaded.vreset = manifest.vreset
    <2>1. CASE manifest.exists
      BY <2>1 DEF Inv, TypeOK
    <2>2. CASE ~manifest.exists
      <3>1. manifest = NoManifest
        BY <2>2 DEF Inv, Mirrored
      <3>2. [NoManifest EXCEPT !.exists = TRUE] \in Manifest
        BY NoTypes DEF Manifest
      <3> QED
        BY <2>2, <3>1, <3>2 DEF NoManifest
    <2> QED
      BY <2>1, <2>2
  <1> HIDE DEF loaded
  <1>3. /\ manifest'.stages = manifest.stages /\ manifest'.ledger = manifest.ledger /\ manifest'.vgen = manifest.vgen
        /\ manifest'.vreset = manifest.vreset
        /\ \/ pc' = "refused" /\ UNCHANGED <<manifest, m>>
           \/ pc' = "check" /\ m' = manifest' /\ manifest'.exists /\ manifest' \in Manifest
    BY <1>1, <1>2
  <1>4. waiting' = {} /\ running' = {} /\ outcomes' = {}
    BY <1>1 DEF Inv, InFlight
  <1>5. TypeOK'
    BY <1>1, <1>3 DEF Inv, TypeOK
  <1>6. Mirrored' /\ Place' /\ Counted' /\ RejectedEarlier'
    BY <1>1, <1>3 DEF Inv, Mirrored, Opened, Place, Counted, RejectedEarlier
  <1>7. VerifierLast' /\ Accepted' /\ Published' /\ (Tainted' <=> Tainted)
    BY <1>1, <1>3, DiskFrame
  <1>8. InFlight' /\ OutcomesKept' /\ AnswersJudged'
    BY <1>4 DEF InFlight, Flying, OutcomesKept, AnswersJudged
  <1>9. Owed' => Owed
    BY <1>1, <1>3, <1>4, <1>7 DEF Owed, Ended
  <1>10. Paid'
    BY <1>1, <1>3, <1>5, <1>9, PaidStep DEF Inv
  <1> QED
    BY <1>5, <1>6, <1>7, <1>8, <1>10 DEF Inv

LEMMA CheckStep == ASSUME Inv, Check PROVE Inv'
  <1>1. /\ pc = "check" /\ UNCHANGED <<manifest, file, public, root, m, cancelled, running, outcomes, failed, rejected, mishaps>>
        /\ m = manifest /\ running = {} /\ outcomes = {} /\ waiting = {}
    BY DEF Check, disk, Inv, Mirrored, Opened, InFlight
  <1>2. pc' = "lenses" /\ waiting' = {l \in Lens : ~Done(manifest, l)}
    BY <1>1 DEF Check, Undone, Inv, Accepted
  <1>3. TypeOK'
    BY <1>1, <1>2, Stages DEF Inv, TypeOK
  <1>4. Mirrored' /\ Counted' /\ RejectedEarlier'
    BY <1>1, <1>2 DEF Inv, Mirrored, Opened, Counted, RejectedEarlier
  <1>5. InFlight' /\ OutcomesKept' /\ AnswersJudged'
    BY <1>1, <1>2 DEF InFlight, Flying, Done, OutcomesKept, AnswersJudged
  <1>6. Place'
    BY <1>1, <1>2 DEF Place, Flying, Done
  <1>7. VerifierLast' /\ Accepted' /\ Published' /\ (Tainted' <=> Tainted)
    BY <1>1, DiskFrame
  <1>8. Owed' => Owed
    BY <1>1, <1>2, <1>7 DEF Owed, Ended
  <1>9. Paid'
    BY <1>1, <1>3, <1>8, PaidStep DEF Inv
  <1> QED
    BY <1>3, <1>4, <1>5, <1>6, <1>7, <1>9 DEF Inv

(* All lenses are in.                                                       *)
LEMMA GatherStep == ASSUME Inv, Gather PROVE Inv'
  <1>1. /\ pc = "lenses" /\ waiting = {} /\ running = {} /\ outcomes = {}
        /\ UNCHANGED <<manifest, file, public, root, m, cancelled, running, outcomes, failed, rejected, mishaps>>
        /\ m = manifest
    BY DEF Gather, disk, Inv, Mirrored, Opened
  <1>2. Candidates = Pool /\ Bound(manifest)
    BY CandidatesArePool DEF Inv, Accepted
  <1>3. /\ pc' \in {"stopped", "publish", "empty", "verify"}
        /\ pc' # "stopped" => ~failed /\ Consistent(Pool)
        /\ pc' = "publish" => root.discoveryOnly \/ Done(manifest, V)
        /\ pc' \in {"empty", "verify"} => ~root.discoveryOnly /\ ~Done(manifest, V)
        /\ pc' = "verify" => ~manifest.vreset
        /\ waiting' = IF pc' = "verify" THEN {V} ELSE {}
    BY <1>1, <1>2 DEF Gather
  <1>4. pc' # "stopped" => Settled
    BY <1>1, <1>3 DEF Inv, Place, Flying, Settled, LensesDone
  <1>5. /\ VerifierLast' /\ Accepted' /\ Published' /\ (Tainted' <=> Tainted)
        /\ (Settled' <=> Settled)
    BY <1>1, DiskFrame
  <1>6. TypeOK'
    BY <1>1, <1>3, Stages DEF Inv, TypeOK
  <1>7. Mirrored' /\ Counted' /\ RejectedEarlier'
    BY <1>1, <1>3 DEF Inv, Mirrored, Opened, Counted, RejectedEarlier
  <1>8. InFlight' /\ OutcomesKept' /\ AnswersJudged'
    BY <1>1, <1>3 DEF InFlight, Flying, Done, OutcomesKept, AnswersJudged
  <1>9. Place'
    BY <1>1, <1>3, <1>4, <1>5 DEF Place, Done
  <1>10. Owed' => Owed
    BY <1>1, <1>3, <1>5 DEF Owed, Ended
  <1>11. Paid'
    BY <1>1, <1>6, <1>10, PaidStep DEF Inv
  <1> QED
    BY <1>5, <1>6, <1>7, <1>8, <1>9, <1>11 DEF Inv

-----------------------------------------------------------------------------
(* Verification starting over.                                             *)

LEMMA EmptyStep == ASSUME Inv, Empty PROVE Inv'
  <1>1. /\ pc = "empty" /\ pc' = "unflag" /\ file' = [file EXCEPT ![V] = [NoFile EXCEPT !.there = TRUE]]
        /\ UNCHANGED <<manifest, public, root, m, cancelled, waiting, running, outcomes, failed, rejected, mishaps>>
        /\ m = manifest /\ waiting = {} /\ running = {} /\ outcomes = {}
        /\ ~Done(manifest, V) /\ Settled /\ ~root.discoveryOnly
    BY DEF Empty, EmptiedFile, children, Inv, Mirrored, Opened, Place, InFlight
  <1>2. /\ file' \in [Stage -> File] /\ file'[V].items = {}
        /\ \A l \in Lens : file'[l] = file[l]
    <2>1. [NoFile EXCEPT !.there = TRUE] \in File /\ [NoFile EXCEPT !.there = TRUE].items = {}
      BY NoTypes DEF NoFile, File
    <2> QED
      BY <1>1, <2>1, Stages DEF Inv, TypeOK
  <1>3. TypeOK'
    BY <1>1, <1>2 DEF Inv, TypeOK
  <1>4. Pool' = Pool
    BY <1>2 DEF Pool
  <1>5. Published' /\ Place' /\ VerifierLast'
    BY <1>1, <1>2, <1>4 DEF Inv, Published, Place, VerifierLast, LensesDone, Settled, Done, Consistent
  <1>6. Accepted'
    BY <1>1, <1>2, Stages DEF Inv, Accepted, StagesAccepted, StageIntact, Done, Bound, Dependency
  <1>7. Mirrored' /\ InFlight' /\ OutcomesKept' /\ AnswersJudged' /\ RejectedEarlier' /\ Counted'
    BY <1>1 DEF Inv, Mirrored, Opened, InFlight, Flying, OutcomesKept, AnswersJudged, RejectedEarlier, Counted
  <1>8. Owed' => Owed
    <2>1. ~Tainted'
      BY <1>2 DEF Tainted, Stained, Consistent
    <2> QED
      BY <1>1, <2>1 DEF Owed, Ended
  <1>9. Paid'
    BY <1>1, <1>3, <1>8, PaidStep DEF Inv
  <1> QED
    BY <1>3, <1>5, <1>6, <1>7, <1>9 DEF Inv

LEMMA UnflagStep == ASSUME Inv, Unflag PROVE Inv'
  <1>1. /\ pc = "unflag" /\ pc' = "verify" /\ m' = [manifest EXCEPT !.vreset = FALSE] /\ manifest' = m'
        /\ waiting' = {V} /\ running = {} /\ outcomes = {}
        /\ UNCHANGED <<file, public, root, cancelled, running, outcomes, failed, rejected, mishaps>>
        /\ ~Done(manifest, V) /\ Settled /\ ~root.discoveryOnly /\ file[V].items = {}
    BY DEF Unflag, Inv, Mirrored, Opened, Place, InFlight
  <1>2. /\ manifest' \in Manifest /\ ~manifest'.vreset /\ manifest'.exists = manifest.exists
        /\ manifest'.stages = manifest.stages /\ manifest'.vgen = manifest.vgen /\ manifest'.ledger = manifest.ledger
    BY <1>1 DEF Inv, TypeOK, Manifest
  <1>3. TypeOK'
    BY <1>1, <1>2, Stages DEF Inv, TypeOK
  <1>4. /\ VerifierLast' /\ Accepted' /\ Published' /\ (Tainted' <=> Tainted)
        /\ (Settled' <=> Settled)
    BY <1>1, <1>2, DiskFrame
  <1>5. manifest.exists
    BY <1>1 DEF Inv, Mirrored, Opened
  <1>6. Mirrored' /\ InFlight' /\ OutcomesKept' /\ AnswersJudged'
    BY <1>1, <1>2, <1>5 DEF Inv, Mirrored, Opened, InFlight, Flying, Done, OutcomesKept, AnswersJudged
  <1>7. Place' /\ RejectedEarlier' /\ Counted'
    BY <1>1, <1>2, <1>4 DEF Inv, Place, Done, RejectedEarlier, Counted
  <1>8. Owed' => Owed
    <2>1. ~Tainted'
      BY <1>1 DEF Tainted, Stained, Consistent
    <2> QED
      BY <1>1, <2>1 DEF Owed, Ended
  <1>9. Paid'
    BY <1>1, <1>2, <1>3, <1>8, PaidStep DEF Inv
  <1> QED
    BY <1>3, <1>4, <1>6, <1>7, <1>9 DEF Inv

-----------------------------------------------------------------------------
(* What verification may answer.                                           *)

(* A candidate is canonical: restoring it leaves it where it is, and it      *)
(* strays from nothing (restoreCanonicalLocations).                         *)
LEMMA CandidateFits ==
    ASSUME Consistent(Candidates), Candidates \subseteq Item, NEW c \in Candidates
    PROVE  Canonical(c.id) = c /\ Restored({c}) = {c} /\ ~Strays(c)
  <1>1. Canonical(c.id) = c
    <2>1. \E d \in Candidates : d.id = c.id
      OBVIOUS
    <2>2. Canonical(c.id) \in Candidates /\ Canonical(c.id).id = c.id
      BY <2>1 DEF Canonical
    <2> QED
      BY <2>2 DEF Consistent
  <1>2. c.loc \in Int /\ Window \in Nat
    BY FocusedAssumption DEF Item
  <1>3. Near(c.loc, Canonical(c.id).loc)
    BY <1>1, <1>2 DEF Near
  <1>4. Restored({c}) = {c}
    BY <1>1 DEF Restored
  <1>5. ~Ambiguous({c})
    BY <1>1 DEF Ambiguous
  <1> QED
    BY <1>1, <1>4, <1>5 DEF Strays

LEMMA CandidatesUnstained ==
    ASSUME Consistent(Candidates), Candidates \subseteq Item, NEW S, S \subseteq Candidates
    PROVE  ~Stained(S)
  <1>1. Consistent(S)
    BY DEF Consistent
  <1>2. \A c \in S : ~Strays(c)
    BY CandidateFits
  <1> QED
    BY <1>1, <1>2 DEF Stained

(* An answer that coalesces is moved to candidates, or was stained before    *)
(* and stays so (focusedCoalesce, restoreCanonicalLocations).               *)
LEMMA RestoredAnswer ==
    ASSUME Consistent(Candidates), Candidates \subseteq Item, NEW S, S \subseteq Item
    PROVE  /\ Restored(S) \subseteq Item
           /\ Restored(S) \subseteq Candidates \/ Stained(Restored(S))
           /\ Stained(Restored(S)) => Stained(S)
  <1>1. \A i \in S : \E x : Restored({i}) = {x} /\ x \in Restored(S) /\ (x \in Candidates \/ x = i)
    <2> TAKE i \in S
    <2> DEFINE x == IF i.id \in Ids(Candidates) /\ Near(i.loc, Canonical(i.id).loc)
                    THEN Canonical(i.id) ELSE i
    <2>1. Restored({i}) = {x} /\ x \in Restored(S)
      BY DEF Restored
    <2>2. i.id \in Ids(Candidates) => Canonical(i.id) \in Candidates
      BY DEF Ids, Canonical
    <2> QED
      BY <2>1, <2>2
  <1>2. \A x \in Restored(S) : \E i \in S : Restored({i}) = {x} /\ (x \in Candidates \/ x = i)
    <2> TAKE x \in Restored(S)
    <2>1. PICK i \in S : x = IF i.id \in Ids(Candidates) /\ Near(i.loc, Canonical(i.id).loc)
                             THEN Canonical(i.id) ELSE i
      BY DEF Restored
    <2>2. Restored({i}) = {x}
      BY <2>1 DEF Restored
    <2>3. i.id \in Ids(Candidates) => Canonical(i.id) \in Candidates
      BY DEF Ids, Canonical
    <2> QED
      BY <2>1, <2>2, <2>3
  <1>3. Restored(S) \subseteq Item
    BY <1>2
  <1>4. ASSUME ~(Restored(S) \subseteq Candidates) PROVE Stained(Restored(S))
    <2>1. PICK x \in Restored(S) : x \notin Candidates
      BY <1>4
    <2>2. Restored({x}) = {x}
      BY <1>2, <2>1
    <2> QED
      BY <2>1, <2>2 DEF Stained, Strays
  <1>5. ASSUME ~Stained(S) PROVE ~Stained(Restored(S))
    <2>1. \A i \in S : Restored({i}) \subseteq Candidates
      BY <1>5 DEF Stained, Strays
    <2>2. Restored(S) \subseteq Candidates
      BY <1>2, <2>1
    <2> QED
      BY <2>2, CandidatesUnstained
  <1> QED
    BY <1>3, <1>4, <1>5

LEMMA NotCoalesced == ASSUME ~Coalesces(V) PROVE Tainted
  <1>1. Ambiguous(file[V].items) => \E i \in file[V].items : Ambiguous({i})
    BY DEF Ambiguous
  <1> QED
    BY <1>1 DEF Coalesces, Tainted, Stained, Strays

LEMMA TaintedIs ==
    ASSUME Candidates' = Candidates
    PROVE  Tainted' <=> Stained(file'[V].items)
  <1>1. \A i : Strays(i)' <=> Strays(i)
    BY DEF Strays, Ambiguous, Restored, Canonical
  <1> QED
    BY <1>1 DEF Tainted, Stained, Consistent

LEMMA CandidatesType == ASSUME TypeOK PROVE Candidates \subseteq Item
  <1>1. \A l \in Lens : file[l].items \subseteq Item
    BY Stages DEF TypeOK, File
  <1> QED
    BY <1>1 DEF Candidates, TypeOK

-----------------------------------------------------------------------------
(* Children.                                                               *)

(* A child at stage s writes the file of s only: no lens writes once the     *)
(* verifier runs, and no stage that is done is written.                     *)
LEMMA ChildFrame ==
    ASSUME Inv, NEW s \in Flying, UNCHANGED <<manifest, public, root, pc, m, failed, rejected>>, Flying' = Flying,
           file' \in [Stage -> File], \A t \in Stage : t # s => file'[t] = file[t],
           s # V => file[s].items \subseteq file'[s].items
    PROVE  /\ (s \in Lens /\ pc = "lenses") \/ (s = V /\ pc = "verify")
           /\ Mirrored' /\ Place' /\ VerifierLast' /\ Accepted' /\ RejectedEarlier' /\ Counted' /\ Published'
           /\ s \in Lens => ~Tainted'
           /\ s = V => /\ Candidates' = Candidates /\ Consistent(Candidates) /\ Candidates \subseteq Item
  <1>1. (s \in Lens /\ pc = "lenses") \/ (s = V /\ pc = "verify")
    BY DEF Inv, InFlight, Flying
  <1>2. ~Done(manifest, s)
    BY DEF Inv, InFlight
  <1>3. Mirrored' /\ RejectedEarlier' /\ Counted'
    BY <1>1 DEF Inv, Mirrored, Opened, RejectedEarlier, Counted
  <1>4. Accepted'
    BY <1>2 DEF Inv, Accepted, StagesAccepted, StageIntact, Done, Bound, Dependency
  <1>5. CASE s \in Lens
    <2>1. pc = "lenses" /\ V # s
      BY <1>1, <1>5, Stages
    <2>2. ~LensesDone /\ ~public.summary
      BY <1>2, <1>5 DEF LensesDone, Inv, Published
    <2>3. file[V].items = {} /\ file'[V] = file[V]
      BY <2>1, <2>2, Stages DEF Inv, VerifierLast, Settled
    <2>4. Pool \subseteq Pool'
      <3>1. \A l \in Lens : file[l].items \subseteq file'[l].items
        BY <2>1, <1>5, Stages
      <3> QED
        BY <3>1 DEF Pool
    <2>5. VerifierLast' /\ ~Tainted'
      BY <2>3 DEF VerifierLast, Tainted, Stained, Consistent
    <2>6. Published'
      BY <2>2, <2>4 DEF Inv, Published
    <2>7. Place'
      BY <2>1 DEF Inv, Place, Done
    <2> QED
      BY <1>1, <1>3, <1>4, <1>5, <2>1, <2>5, <2>6, <2>7
  <1>6. CASE s = V
    <2>1. pc = "verify" /\ Settled
      BY <1>1, <1>6, Stages DEF Inv, Place
    <2>2. \A l \in Lens : file'[l] = file[l]
      BY <1>6, Stages
    <2>3. Pool' = Pool /\ Candidates' = Candidates
      BY <2>2 DEF Pool, Candidates
    <2>4. Settled' /\ (LensesDone' <=> LensesDone)
      BY <2>1, <2>3 DEF Settled, LensesDone, Done, Consistent
    <2>5. VerifierLast' /\ Published' /\ Place'
      BY <2>1, <2>3, <2>4 DEF VerifierLast, Inv, Published, Place, Done
    <2>6. Consistent(Candidates) /\ Candidates \subseteq Item
      BY <2>1, CandidatesArePool, CandidatesType DEF Inv, Settled
    <2> QED
      BY <1>1, <1>3, <1>4, <1>6, <2>3, <2>5, <2>6, Stages
  <1> QED
    BY <1>1, <1>5, <1>6

LEMMA CallStep == ASSUME Inv, NEW s \in Stage, Call(s) PROVE Inv'
  <1>1. /\ s \in waiting /\ waiting' = waiting \ {s} /\ running' = running \cup {s}
        /\ file' = [file EXCEPT ![s].summary = FALSE]
        /\ UNCHANGED <<manifest, public, root, pc, m, cancelled, outcomes, failed, rejected, mishaps>>
    BY DEF Call
  <1>2. /\ file' \in [Stage -> File] /\ file'[s].items = file[s].items
        /\ \A t \in Stage : t # s => file'[t] = file[t]
    <2> DEFINE h == [file[s] EXCEPT !.summary = FALSE]
    <2>1. file \in [Stage -> File] /\ file' = [file EXCEPT ![s] = h]
      BY <1>1 DEF Inv, TypeOK
    <2>2. h \in File /\ h.items = file[s].items
      BY <2>1 DEF File
    <2> HIDE DEF h
    <2> QED
      BY <2>1, <2>2, FileWritten
  <1>3. s \in Flying /\ Flying' = Flying
    BY <1>1 DEF Flying
  <1>4. /\ (s \in Lens /\ pc = "lenses") \/ (s = V /\ pc = "verify")
        /\ Mirrored' /\ Place' /\ VerifierLast' /\ Accepted' /\ RejectedEarlier' /\ Counted' /\ Published'
        /\ s \in Lens => ~Tainted'
        /\ s = V => Candidates' = Candidates
    BY <1>1, <1>2, <1>3, ChildFrame
  <1>5. TypeOK'
    BY <1>1, <1>2 DEF Inv, TypeOK
  <1>6. InFlight'
    BY <1>1, <1>3, <1>4 DEF Inv, InFlight, Done
  <1>7. \A o \in outcomes : o.stage \in Stage /\ o.stage # s /\ o.stage # V
    BY <1>1, <1>4, Stages DEF Inv, TypeOK, Outcome, InFlight, Flying
  <1>8. OutcomesKept' /\ AnswersJudged'
    BY <1>1, <1>2, <1>7 DEF Inv, OutcomesKept, AnswersJudged
  <1>9. Tainted' => Tainted
    BY <1>2, <1>4, TaintedIs DEF Tainted
  <1>10. Owed' => Owed
    BY <1>1, <1>9 DEF Owed
  <1>11. Paid'
    BY <1>1, <1>5, <1>10, PaidStep DEF Inv
  <1> QED
    BY <1>4, <1>5, <1>6, <1>8, <1>11 DEF Inv

LEMMA RecordStep == ASSUME Inv, NEW s \in Stage, NEW i \in Item, Record(s, i) PROVE Inv'
  <1>1. /\ s \in running
        /\ UNCHANGED <<manifest, public, root, pc, m, cancelled, waiting, running, outcomes, failed, rejected>>
        /\ IF Unruly(s, i) THEN Mishap ELSE UNCHANGED mishaps
    BY DEF Record, children
  <1>2. /\ file' \in [Stage -> File] /\ file'[s].items = file[s].items \cup {i}
        /\ \A t \in Stage : t # s => file'[t] = file[t]
    <2> DEFINE h == [there |-> TRUE, items |-> file[s].items \cup {i},
                     again |-> (file[s].again \/ i.id \in Ids(file[s].items)), summary |-> file[s].summary]
    <2>1. file \in [Stage -> File] /\ file' = [file EXCEPT ![s] = h]
      BY DEF Record, Inv, TypeOK
    <2>2. h \in File /\ h.items = file[s].items \cup {i}
      BY <2>1 DEF File
    <2> HIDE DEF h
    <2> QED
      BY <2>1, <2>2, FileWritten
  <1>3. s \in Flying /\ Flying' = Flying
    BY <1>1 DEF Flying
  <1>4. /\ (s \in Lens /\ pc = "lenses") \/ (s = V /\ pc = "verify")
        /\ Mirrored' /\ Place' /\ VerifierLast' /\ Accepted' /\ RejectedEarlier' /\ Counted' /\ Published'
        /\ s \in Lens => ~Tainted'
        /\ s = V => Candidates' = Candidates
    BY <1>1, <1>2, <1>3, ChildFrame
  <1>5. mishaps' \in 0 .. Mishaps /\ (mishaps' = mishaps \/ mishaps' = mishaps - 1)
        /\ (mishaps' = mishaps => ~Unruly(s, i))
    BY <1>1, FocusedAssumption DEF Mishap, Inv, TypeOK
  <1>6. TypeOK'
    BY <1>1, <1>2, <1>5 DEF Inv, TypeOK
  <1>7. InFlight'
    BY <1>1, <1>3, <1>4 DEF Inv, InFlight, Done
  <1>8. \A o \in outcomes : o.stage \in Stage /\ o.stage # s /\ o.stage # V
    BY <1>1, <1>4, Stages DEF Inv, TypeOK, Outcome, InFlight, Flying
  <1>9. OutcomesKept' /\ AnswersJudged'
    BY <1>1, <1>2, <1>8 DEF Inv, OutcomesKept, AnswersJudged
  <1>10. ASSUME ~Unruly(s, i), Tainted' PROVE Tainted
    <2>1. s = V
      BY <1>4, <1>10
    <2>2. Stained(file[V].items \cup {i})
      BY <1>2, <1>4, <1>10, <2>1, TaintedIs
    <2>3. ~Strays(i) /\ \A j \in file[V].items : j.id = i.id => j = i
      BY <1>10, <2>1 DEF Unruly, Strays
    <2> QED
      BY <2>2, <2>3 DEF Tainted, Stained, Consistent
  <1>11. mishaps' = mishaps => (Owed' => Owed)
    BY <1>1, <1>5, <1>10 DEF Owed
  <1>12. Paid'
    BY <1>1, <1>5, <1>6, <1>11, PaidStep DEF Inv
  <1> QED
    BY <1>4, <1>6, <1>7, <1>9, <1>12 DEF Inv

(* A child that returns moves to the outcomes, in one place still.          *)
LEMMA ReturnsIs ==
    ASSUME Inv, NEW s \in running, NEW end \in {"ok", "invalid", "failed"}, NEW cost \in 0 .. 1,
           Returns(s, end, cost), file' \in [Stage -> File], UNCHANGED <<manifest, pc, waiting>>
    PROVE  /\ Flying' = Flying /\ running' \subseteq Stage /\ outcomes' \subseteq Outcome
           /\ InFlight'
           /\ \E r \in Outcome : /\ outcomes' = outcomes \cup {r} /\ r.stage = s /\ r.end = end
                                 /\ end = "ok" => r.digest = file'[s].items
           /\ \A o \in outcomes : o.stage \in Stage /\ o.stage # s
  <1> DEFINE r == [stage |-> s, end |-> end, cost |-> cost,
                   digest |-> IF end = "ok" THEN file'[s].items ELSE {}]
  <1>1. s \in Stage /\ running' = running \ {s} /\ outcomes' = outcomes \cup {r}
    BY DEF Returns, Inv, TypeOK
  <1>2. file'[s].items \subseteq Item
    BY <1>1 DEF File
  <1>3. r \in Outcome /\ r.stage = s /\ r.end = end /\ (end = "ok" => r.digest = file'[s].items)
    BY <1>1, <1>2 DEF Outcome
  <1> HIDE DEF r
  <1>4. running' \subseteq Stage /\ outcomes' \subseteq Outcome
    BY <1>1, <1>3 DEF Inv, TypeOK
  <1>5. Flying' = Flying
    BY <1>1, <1>3 DEF Flying
  <1>6. \A o \in outcomes : o.stage \in Stage /\ o.stage # s
    BY DEF Inv, TypeOK, Outcome, InFlight
  <1>7. InFlight'
    <2>1. pc \in {"lenses", "verify"}
      BY DEF Inv, InFlight
    <2>2. /\ pc' = "lenses" => Flying' \subseteq Lens
          /\ pc' = "verify" => Flying' \subseteq {V}
          /\ \A t \in Flying' : ~Done(manifest', t)
      BY <1>5 DEF Inv, InFlight
    <2>3. /\ waiting' \cap running' = {}
          /\ \A o \in outcomes' : o.stage \notin waiting' \cup running'
          /\ \A o, q \in outcomes' : o.stage = q.stage => o = q
      BY <1>1, <1>3, <1>6 DEF Inv, InFlight
    <2> QED
      BY <2>1, <2>2, <2>3 DEF InFlight
  <1> QED
    BY <1>1, <1>3, <1>4, <1>5, <1>6, <1>7

LEMMA FailsStep == ASSUME Inv, NEW s \in Stage, Fails(s) PROVE Inv'
  <1>1. /\ s \in running
        /\ UNCHANGED <<manifest, file, public, root, pc, m, cancelled, waiting, failed, rejected>>
        /\ IF cancelled THEN UNCHANGED mishaps ELSE Mishap
    BY DEF Fails, disk
  <1>2. PICK cost \in 0 .. 1 : Returns(s, "failed", cost)
    BY DEF Fails
  <1>3. file' \in [Stage -> File]
    BY <1>1 DEF Inv, TypeOK
  <1>4. /\ Flying' = Flying /\ running' \subseteq Stage /\ outcomes' \subseteq Outcome
        /\ InFlight'
        /\ \A o \in outcomes : o.stage \in Stage /\ o.stage # s
    BY <1>1, <1>2, <1>3, ReturnsIs
  <1>5. PICK r \in Outcome : outcomes' = outcomes \cup {r} /\ r.stage = s /\ r.end = "failed"
    BY <1>1, <1>2, <1>3, ReturnsIs
  <1>6. s \in Flying
    BY <1>1 DEF Flying
  <1>7. /\ (s \in Lens /\ pc = "lenses") \/ (s = V /\ pc = "verify")
        /\ Mirrored' /\ Place' /\ VerifierLast' /\ Accepted' /\ RejectedEarlier' /\ Counted' /\ Published'
    BY <1>1, <1>3, <1>4, <1>6, ChildFrame
  <1>8. mishaps' \in 0 .. Mishaps /\ ((mishaps' = mishaps /\ cancelled) \/ mishaps' = mishaps - 1)
    BY <1>1, FocusedAssumption DEF Mishap, Inv, TypeOK
  <1>9. TypeOK'
    BY <1>1, <1>3, <1>4, <1>8 DEF Inv, TypeOK
  <1>10. Candidates' = Candidates /\ (Tainted' <=> Tainted)
    BY <1>1, DiskFrame
  <1>11. OutcomesKept' /\ AnswersJudged'
    BY <1>1, <1>5, <1>10 DEF Inv, OutcomesKept, AnswersJudged
  <1>12. mishaps' = mishaps - 1 \/ (mishaps' = mishaps /\ (Owed' => Owed))
    BY <1>7, <1>8 DEF Owed, Ended
  <1>13. Paid'
    BY <1>1, <1>9, <1>12, PaidStep DEF Inv
  <1> QED
    BY <1>4, <1>7, <1>9, <1>11, <1>13 DEF Inv

LEMMA VerifierSettled ==
    ASSUME Inv, V \in Flying
    PROVE  /\ pc = "verify" /\ Settled /\ Consistent(Candidates) /\ Candidates \subseteq Item
           /\ ~manifest.vreset /\ ~Done(manifest, V) /\ ~root.discoveryOnly
  <1>1. pc = "verify"
    BY Stages DEF Inv, InFlight, Flying
  <1>2. Settled /\ Consistent(Candidates) /\ Candidates \subseteq Item
    BY <1>1, CandidatesArePool, CandidatesType DEF Inv, Place, Settled
  <1> QED
    BY <1>1, <1>2 DEF Inv, Place

(* What the end of a child that succeeds leaves in its file.                *)
LEMMA SucceedsFile ==
    ASSUME Inv, NEW s \in Stage, s \in Flying, Succeeds(s)
    PROVE  /\ file' \in [Stage -> File] /\ \A t \in Stage : t # s => file'[t] = file[t]
           /\ file'[s].summary
           /\ s # V => file'[s].items = file[s].items
           /\ s = V => /\ Coalesces(V) => /\ file'[V].there /\ ~file'[V].again
                                          /\ file'[V].items = Restored(file[V].items)
                       /\ ~Coalesces(V) => file'[V].items = file[V].items
  <1>1. file \in [Stage -> File] /\ file[s] \in File
    BY DEF Inv, TypeOK
  <1>2. file[s].items \subseteq Item
    BY <1>1 DEF File
  <1>3. CASE Coalesces(s)
    <2> DEFINE items == IF s = V THEN Restored(file[s].items) ELSE file[s].items
               h == [there |-> TRUE, items |-> items, again |-> FALSE, summary |-> TRUE]
    <2>1. file' = [file EXCEPT ![s] = h]
      BY <1>3 DEF Succeeds
    <2>2. items \subseteq Item
      BY <1>2, VerifierSettled, RestoredAnswer
    <2>3. h \in File /\ h.there /\ ~h.again /\ h.items = items /\ h.summary
      BY <2>2 DEF File
    <2> HIDE DEF h
    <2>4. /\ file' \in [Stage -> File] /\ file'[s] = h
          /\ \A t \in Stage : t # s => file'[t] = file[t]
      BY <1>1, <2>1, <2>3, FileWritten
    <2> QED
      BY <1>3, <2>3, <2>4
  <1>4. CASE ~Coalesces(s)
    <2> DEFINE h == [file[s] EXCEPT !.summary = TRUE]
    <2>1. file' = [file EXCEPT ![s] = h]
      BY <1>4 DEF Succeeds
    <2>2. h \in File /\ h.items = file[s].items /\ h.summary
      BY <1>1 DEF File
    <2> HIDE DEF h
    <2>3. /\ file' \in [Stage -> File] /\ file'[s] = h
          /\ \A t \in Stage : t # s => file'[t] = file[t]
      BY <1>1, <2>1, <2>2, FileWritten
    <2> QED
      BY <1>4, <2>2, <2>3
  <1> QED
    BY <1>3, <1>4

LEMMA SucceedsStep == ASSUME Inv, NEW s \in Stage, Succeeds(s) PROVE Inv'
  <1>1. /\ s \in running
        /\ UNCHANGED <<manifest, public, root, pc, m, cancelled, waiting, failed, rejected>>
        /\ mishaps' = mishaps \/ (mishaps > 0 /\ mishaps' = mishaps - 1)
    BY DEF Succeeds, Mishap
  <1>2. s \in Flying
    BY <1>1 DEF Flying
  <1>3. /\ file' \in [Stage -> File] /\ \A t \in Stage : t # s => file'[t] = file[t]
        /\ file'[s].summary
        /\ s # V => file'[s].items = file[s].items
        /\ s = V => /\ Coalesces(V) => /\ file'[V].there /\ ~file'[V].again
                                       /\ file'[V].items = Restored(file[V].items)
                    /\ ~Coalesces(V) => file'[V].items = file[V].items
    BY <1>2, SucceedsFile
  <1>4. PICK end \in {"ok", "invalid"} : Returns(s, end, 1) /\ (end = "ok" <=> Coalesces(s))
    BY DEF Succeeds
  <1>5. 1 \in 0 .. 1 /\ end \in {"ok", "invalid", "failed"}
    OBVIOUS
  <1>6. /\ Flying' = Flying /\ running' \subseteq Stage /\ outcomes' \subseteq Outcome
        /\ InFlight'
        /\ \A o \in outcomes : o.stage \in Stage /\ o.stage # s
    BY <1>1, <1>3, <1>4, <1>5, ReturnsIs
  <1>7. PICK r \in Outcome : /\ outcomes' = outcomes \cup {r} /\ r.stage = s /\ r.end = end
                             /\ end = "ok" => r.digest = file'[s].items
    BY <1>1, <1>3, <1>4, <1>5, ReturnsIs
  <1>8. /\ (s \in Lens /\ pc = "lenses") \/ (s = V /\ pc = "verify")
        /\ Mirrored' /\ Place' /\ VerifierLast' /\ Accepted' /\ RejectedEarlier' /\ Counted' /\ Published'
        /\ s \in Lens => ~Tainted'
        /\ s = V => Candidates' = Candidates /\ Consistent(Candidates) /\ Candidates \subseteq Item
    BY <1>1, <1>2, <1>3, <1>6, ChildFrame
  <1>9. mishaps' \in 0 .. Mishaps
    BY <1>1, FocusedAssumption DEF Inv, TypeOK
  <1>10. TypeOK'
    BY <1>1, <1>3, <1>6, <1>9 DEF Inv, TypeOK
  <1>11. OutcomesKept'
    BY <1>3, <1>6, <1>7 DEF Inv, OutcomesKept
  <1>12. \A o \in outcomes : o.stage # V
    BY <1>6, <1>8, Stages DEF Inv, InFlight, Flying
  <1>13. s = V => /\ Tainted' => Tainted
                  /\ end = "ok" => file'[V].items \subseteq Candidates' \/ Tainted'
                  /\ end = "invalid" => Tainted'
    <2> SUFFICES ASSUME s = V
                 PROVE  /\ Tainted' => Tainted
                        /\ end = "ok" => file'[V].items \subseteq Candidates' \/ Tainted'
                        /\ end = "invalid" => Tainted'
      OBVIOUS
    <2>1. Tainted' <=> Stained(file'[V].items)
      BY <1>8, TaintedIs
    <2>2. CASE Coalesces(V)
      <3>1. file[V].items \subseteq Item
        BY Stages DEF Inv, TypeOK, File
      <3>2. /\ Restored(file[V].items) \subseteq Candidates \/ Stained(Restored(file[V].items))
            /\ Stained(Restored(file[V].items)) => Stained(file[V].items)
        BY <1>8, <3>1, RestoredAnswer
      <3>3. end = "ok" /\ file'[V].items = Restored(file[V].items)
        BY <1>3, <1>4, <2>2
      <3> QED
        BY <1>8, <2>1, <3>2, <3>3 DEF Tainted
    <2>3. CASE ~Coalesces(V)
      BY <1>3, <1>4, <2>1, <2>3, NotCoalesced DEF Tainted
    <2> QED
      BY <2>2, <2>3
  <1>14. AnswersJudged'
    BY <1>3, <1>4, <1>7, <1>12, <1>13 DEF AnswersJudged
  <1>15. Owed' => Owed
    BY <1>1, <1>5, <1>4, <1>7, <1>8, <1>12, <1>13 DEF Owed
  <1>16. Paid'
    BY <1>1, <1>10, <1>15, PaidStep DEF Inv
  <1> QED
    BY <1>6, <1>8, <1>10, <1>11, <1>14, <1>16 DEF Inv

-----------------------------------------------------------------------------
(* Recording outcomes.                                                     *)

LEMMA RecordLensStep == ASSUME Inv, RecordLens PROVE Inv'
  <1>1. PICK o \in outcomes :
          /\ m' = Recorded(m, o, o.end = "ok") /\ outcomes' = outcomes \ {o}
          /\ failed' = (failed \/ o.end # "ok")
          /\ rejected' = IF o.end = "invalid" THEN rejected \cup {Session(o.stage)} ELSE rejected
    BY DEF RecordLens
  <1>2. /\ pc = "lenses" /\ manifest' = m'
        /\ UNCHANGED <<file, public, root, pc, cancelled, waiting, running, mishaps>>
        /\ m = manifest /\ manifest.exists /\ manifest \in Manifest
    BY DEF RecordLens, Inv, Mirrored, Opened, TypeOK
  <1>3. o \in Outcome /\ o.cost \in 0 .. 1 /\ o.digest \subseteq Item
    BY DEF Inv, TypeOK, Outcome
  <1>4. o.stage \in Lens /\ o.stage \in Stage /\ o.stage # V /\ ~Done(manifest, o.stage)
    <2>1. o.stage \in Flying
      BY DEF Flying
    <2> QED
      BY <1>2, <2>1, Stages DEF Inv, InFlight
  <1> DEFINE ok == o.end = "ok"
  <1>5. /\ manifest' \in Manifest /\ manifest'.exists = manifest.exists
        /\ manifest'.ledger = manifest.ledger + o.cost
        /\ manifest'.vgen = manifest.vgen /\ manifest'.vreset = manifest.vreset
        /\ \A s \in Stage : s # o.stage \/ ~ok => manifest'.stages[s] = manifest.stages[s]
        /\ ok => manifest'.stages[o.stage].done /\ manifest'.stages[o.stage].digest = o.digest
    BY <1>1, <1>2, <1>3, RecordedIs
  <1>6. Session(o.stage) = <<o.stage, 0>>
    BY <1>4 DEF Session, Generation
  <1>7. ~LensesDone /\ ~Done(manifest, V) /\ file[V].items = {} /\ ~public.summary
    BY <1>4 DEF LensesDone, Inv, VerifierLast, Settled, Accepted, StagesAccepted, Published
  <1>8. TypeOK'
    <2>1. rejected' \subseteq Stage \X (0 .. Mishaps)
      BY <1>1, <1>4, <1>6, FocusedAssumption DEF Inv, TypeOK
    <2>2. outcomes' \subseteq Outcome /\ failed' \in BOOLEAN
      BY <1>1 DEF Inv, TypeOK
    <2> QED
      BY <1>2, <1>5, <2>1, <2>2 DEF Inv, TypeOK
  <1>9. Mirrored' /\ Counted'
    BY <1>2, <1>3, <1>5 DEF Mirrored, Opened, Inv, Counted, TypeOK, Manifest
  <1>10. \A s \in Stage : Done(manifest, s)' <=> Done(manifest, s) \/ (s = o.stage /\ ok)
    BY <1>4, <1>5 DEF Done
  <1>11. \A s \in Flying : s \in Stage
    BY DEF Flying, Inv, TypeOK, Outcome
  <1>12. Flying = Flying' \cup {o.stage} /\ o.stage \notin Flying'
    BY <1>1, <1>2 DEF Flying, Inv, InFlight
  <1>13. InFlight'
    <2>1. \A s \in Flying' : ~Done(manifest, s)'
      BY <1>10, <1>11, <1>12 DEF Inv, InFlight
    <2>2. Flying' \subseteq Lens
      BY <1>2, <1>12 DEF Inv, InFlight
    <2> QED
      BY <1>1, <1>2, <2>1, <2>2 DEF Inv, InFlight
  <1>14. Place'
    BY <1>1, <1>2, <1>4, <1>10, <1>12, Stages DEF Inv, Place
  <1>15. VerifierLast' /\ ~Tainted'
    BY <1>2, <1>7 DEF VerifierLast, Tainted, Stained, Consistent
  <1>16. Accepted'
    <2>1. ~Done(manifest, V)'
      BY <1>4, <1>7, <1>10, Stages
    <2>2. ASSUME NEW s \in Stage PROVE StageIntact(manifest, s)'
      <3>1. CASE s = o.stage /\ ok
        BY <1>1, <1>2, <1>5, <3>1 DEF StageIntact, Inv, OutcomesKept
      <3>2. CASE ~(s = o.stage /\ ok)
        BY <1>2, <1>5, <3>2 DEF StageIntact, Done, Inv, Accepted, StagesAccepted
      <3> QED
        BY <3>1, <3>2
    <2> QED
      BY <2>1, <2>2 DEF Accepted, StagesAccepted, Bound
  <1>17. OutcomesKept'
    BY <1>1, <1>2 DEF Inv, OutcomesKept
  <1>18. \A q \in outcomes' : q.stage # V
    BY <1>2, <1>13, Stages DEF InFlight, Flying
  <1>19. AnswersJudged'
    BY <1>18 DEF AnswersJudged
  <1>20. Owed' => Owed
    BY <1>2, <1>15, <1>18 DEF Owed
  <1>21. Paid'
    BY <1>2, <1>5, <1>8, <1>20, PaidStep DEF Inv
  <1>22. RejectedEarlier'
    BY <1>1, <1>4, <1>5, <1>6 DEF Inv, RejectedEarlier
  <1>23. Published'
    <2>1. Pool' = Pool
      BY <1>2 DEF Pool
    <2> QED
      BY <1>2, <1>7, <2>1 DEF Inv, Published
  <1> QED
    BY <1>8, <1>9, <1>13, <1>14, <1>15, <1>16, <1>17, <1>19, <1>21, <1>22, <1>23 DEF Inv

(* An answer that is not allowed was paid by a mishap.                      *)
LEMMA InvalidOwed ==
    ASSUME Inv, NEW o \in outcomes, o.stage = V, ~Allowed(file[V])
    PROVE  Owed
  <1>1. o.end \in {"ok", "invalid", "failed"}
    BY DEF Inv, TypeOK, Outcome
  <1>2. ~manifest.vreset
    BY VerifierSettled DEF Flying
  <1>3. o.end = "ok" => Tainted
    BY DEF Inv, AnswersJudged, Allowed
  <1> QED
    BY <1>1, <1>2, <1>3 DEF Owed, Inv, AnswersJudged

LEMMA RecordVerificationStep == ASSUME Inv, RecordVerification PROVE Inv'
  <1>1. /\ pc = "verify" /\ outcomes' = {} /\ manifest' = m'
        /\ UNCHANGED <<file, public, root, cancelled, waiting, running, failed, mishaps>>
        /\ m = manifest /\ manifest.exists /\ manifest \in Manifest
    BY DEF RecordVerification, Inv, Mirrored, Opened, TypeOK
  <1> DEFINE ok(o) == o.end = "ok" /\ Allowed(file[V]) /\ Preserving(file[V])
             invalid(o) == ~ok(o) /\ ~Allowed(file[V])
  <1>2. PICK o \in outcomes :
          /\ m' = Recorded(IF invalid(o) THEN NewGeneration(m) ELSE m, o, ok(o))
          /\ rejected' = IF invalid(o) THEN rejected \cup {Session(V)} ELSE rejected
          /\ pc' = IF ok(o) THEN "publish" ELSE "stopped"
    BY DEF RecordVerification
  <1>3. o \in Outcome /\ o.cost \in 0 .. 1 /\ o.digest \subseteq Item
    BY DEF Inv, TypeOK, Outcome
  <1>4. o.stage = V /\ V \in Flying /\ waiting = {} /\ running = {}
    BY <1>1 DEF Inv, InFlight, Flying
  <1>5. Settled /\ ~manifest.vreset /\ ~Done(manifest, V) /\ ~root.discoveryOnly /\ ~public.summary
    BY <1>4, VerifierSettled DEF Inv, Published
  <1>6. invalid(o) => Owed
    BY <1>4, InvalidOwed
  <1> DEFINE OK == ok(o)
             bad == invalid(o)
             base == IF bad THEN NewGeneration(manifest) ELSE manifest
  <1>7. m' = Recorded(base, o, OK) /\ OK \in BOOLEAN
    BY <1>1, <1>2
  <1>8. ~(OK /\ bad) /\ (bad => Owed) /\ pc' = (IF OK THEN "publish" ELSE "stopped")
        /\ rejected' = (IF bad THEN rejected \cup {Session(V)} ELSE rejected)
        /\ (OK => o.end = "ok" /\ Allowed(file[V]) /\ Preserving(file[V]))
    BY <1>2, <1>6
  <1> HIDE DEF ok, invalid, OK, bad
  <1>9. bad => manifest.vgen + mishaps + 1 <= Mishaps
    BY <1>8 DEF Inv, Paid
  <1>10. /\ base \in Manifest /\ base.exists = manifest.exists /\ base.ledger = manifest.ledger
         /\ base.stages = manifest.stages
         /\ bad => base.vgen = manifest.vgen + 1 /\ base.vreset
         /\ ~bad => base.vgen = manifest.vgen /\ base.vreset = manifest.vreset
    <2>1. manifest.vgen \in 0 .. Mishaps /\ mishaps \in Nat /\ Mishaps \in Nat
      BY <1>1, FocusedAssumption DEF Manifest, Inv, TypeOK
    <2>2. CASE bad
      <3> DEFINE g == manifest.vgen + 1
      <3>1. g \in 0 .. Mishaps
        BY <1>9, <2>1, <2>2
      <3>2. base = [manifest EXCEPT !.vgen = g, !.vreset = TRUE]
        BY <1>1, <2>2 DEF NewGeneration
      <3> HIDE DEF g, base
      <3>3. /\ base \in Manifest /\ base.vgen = g /\ base.vreset /\ base.exists = manifest.exists
            /\ base.ledger = manifest.ledger /\ base.stages = manifest.stages
        BY <1>1, <3>1, <3>2 DEF Manifest
      <3> QED
        BY <2>2, <3>3 DEF g
    <2>3. CASE ~bad
      BY <1>1, <2>3
    <2> QED
      BY <2>2, <2>3
  <1> HIDE DEF base
  <1>11. /\ manifest' \in Manifest /\ manifest'.exists = base.exists /\ manifest'.ledger = base.ledger + o.cost
         /\ manifest'.vgen = base.vgen /\ manifest'.vreset = base.vreset
         /\ \A s \in Stage : s # o.stage \/ ~OK => manifest'.stages[s] = base.stages[s]
         /\ OK => /\ manifest'.stages[o.stage].done /\ manifest'.stages[o.stage].digest = o.digest
                  /\ manifest'.stages[V].dep = Dependency(base)
    <2>1. manifest' = Recorded(base, o, OK) /\ base \in Manifest
      BY <1>1, <1>7, <1>10
    <2>2. /\ manifest' \in Manifest /\ manifest'.exists = base.exists /\ manifest'.ledger = base.ledger + o.cost
          /\ manifest'.vgen = base.vgen /\ manifest'.vreset = base.vreset
          /\ \A s \in Stage : s # o.stage \/ ~OK => manifest'.stages[s] = base.stages[s]
      BY <1>3, <1>7, <2>1, RecordedIs
    <2>3. OK => /\ manifest'.stages[o.stage].done /\ manifest'.stages[o.stage].digest = o.digest
                /\ o.stage = V => manifest'.stages[V].dep = Dependency(base)
      BY <1>3, <1>7, <2>1, RecordedIs
    <2> QED
      BY <1>4, <2>2, <2>3
  <1>12. /\ \A s \in Stage : s # V \/ ~OK => manifest'.stages[s] = manifest.stages[s]
         /\ OK => /\ manifest'.stages[V].done /\ manifest'.stages[V].digest = o.digest
                  /\ manifest'.stages[V].dep = Dependency(manifest)
    BY <1>4, <1>10, <1>11 DEF Dependency
  <1>13. Session(V) = <<V, manifest.vgen>> /\ manifest.vgen \in 0 .. Mishaps
    BY <1>1 DEF Session, Generation, Manifest
  <1>14. TypeOK'
    <2>1. rejected' \subseteq Stage \X (0 .. Mishaps)
      BY <1>8, <1>13, Stages DEF Inv, TypeOK
    <2> QED
      BY <1>1, <1>8, <1>11, <2>1 DEF Inv, TypeOK
  <1>15. /\ Mirrored' /\ Counted' /\ InFlight' /\ OutcomesKept' /\ AnswersJudged'
    <2>1. manifest.ledger \in Nat /\ root.cost \in Nat
      BY <1>1 DEF Inv, TypeOK, Manifest
    <2>2. Counted'
      BY <1>1, <1>3, <1>10, <1>11, <2>1 DEF Inv, Counted
    <2> QED
      BY <1>1, <1>4, <1>8, <1>10, <1>11, <2>2
      DEF Mirrored, Opened, InFlight, Flying, OutcomesKept, AnswersJudged
  <1>16. Pool' = Pool /\ Candidates' = Candidates /\ (LensesDone' <=> LensesDone)
         /\ (Settled' <=> Settled) /\ (Tainted' <=> Tainted)
    <2>1. Pool' = Pool /\ Candidates' = Candidates
      BY <1>1 DEF Pool, Candidates
    <2>2. LensesDone' <=> LensesDone
      BY <1>12, Stages DEF LensesDone, Done
    <2>3. Settled' <=> Settled
      BY <2>1, <2>2 DEF Settled, Consistent
    <2> QED
      BY <1>1, <2>1, <2>2, <2>3, TaintedIs DEF Tainted
  <1>17. VerifierLast' /\ Published'
    BY <1>1, <1>5, <1>16 DEF VerifierLast, Inv, Published
  <1>18. Place'
    BY <1>5, <1>8, <1>12, <1>16 DEF Place, Done
  <1>19. Accepted'
    <2>1. ASSUME NEW s \in Stage PROVE StageIntact(manifest, s)'
      <3>1. CASE s = V /\ OK
        BY <1>1, <1>4, <1>8, <1>12, <3>1 DEF StageIntact, Inv, OutcomesKept
      <3>2. CASE ~(s = V /\ OK)
        BY <1>1, <1>12, <3>2 DEF StageIntact, Done, Inv, Accepted, StagesAccepted
      <3> QED
        BY <3>1, <3>2
    <2>2. \A l \in Lens : Done(manifest, l)'
      BY <1>5, <1>16 DEF Settled, LensesDone
    <2>3. Bound(manifest)'
      <3>1. Dependency(manifest)' = Dependency(manifest)
        BY <1>12, Stages DEF Dependency
      <3> QED
        BY <1>5, <1>12, <3>1, Stages DEF Bound, Done
    <2> QED
      BY <2>1, <2>2, <2>3 DEF Accepted, StagesAccepted
  <1>20. Paid'
    <2>1. manifest.vgen \in Nat /\ mishaps \in Nat /\ Mishaps \in Nat
      BY <1>13, FocusedAssumption DEF Inv, TypeOK
    <2>2. CASE bad
      <3>1. ~Owed'
        BY <1>1, <1>8, <1>10, <1>11, <2>2 DEF Owed, Ended
      <3> QED
        BY <1>1, <1>9, <1>10, <1>11, <2>1, <2>2, <3>1 DEF Paid
    <2>3. CASE ~bad
      <3>1. Owed' => Owed
        BY <1>1, <1>10, <1>11, <1>16, <2>3 DEF Owed, Ended
      <3> QED
        BY <1>1, <1>10, <1>11, <1>14, <2>3, <3>1, PaidStep DEF Inv
    <2> QED
      BY <2>2, <2>3
  <1>21. RejectedEarlier'
    BY <1>8, <1>10, <1>11, <1>13 DEF Inv, RejectedEarlier
  <1> QED
    BY <1>14, <1>15, <1>17, <1>18, <1>19, <1>20, <1>21 DEF Inv

-----------------------------------------------------------------------------
(* Publication.                                                            *)

LEMMA PublishStep == ASSUME Inv, Publish PROVE Inv'
  <1>1. /\ pc = "publish" /\ pc' \in {"stopped", "published"}
        /\ UNCHANGED <<manifest, file, root, m, cancelled, waiting, running, outcomes, failed, rejected, mishaps>>
        /\ waiting = {} /\ running = {} /\ outcomes = {} /\ Settled
        /\ root.discoveryOnly \/ Done(manifest, V)
    BY DEF Publish, children, Inv, Place, InFlight
  <1>2. Candidates = Pool /\ Candidates \subseteq Item /\ Consistent(Candidates) /\ LensesDone
    BY <1>1, CandidatesArePool, CandidatesType DEF Inv, Settled
  <1> DEFINE findings == IF root.discoveryOnly THEN Candidates ELSE file[V].items
  <1>3. \/ public' = public
        \/ /\ public' = [findings |-> findings, summary |-> TRUE]
           /\ ~root.discoveryOnly => Allowed(file[V]) /\ Preserving(file[V])
    BY DEF Publish
  <1>4. ~root.discoveryOnly => file[V].items = manifest.stages[V].digest
    BY <1>1, Stages DEF Inv, Accepted, StagesAccepted, StageIntact
  <1>5. ASSUME ~root.discoveryOnly, Allowed(file[V]), Preserving(file[V])
        PROVE  Known \subseteq file[V].items /\ file[V].items \subseteq Candidates
    <2>1. file[V].items \subseteq Candidates /\ public.findings \subseteq Candidates /\ Known \subseteq public.findings
      BY <1>2, <1>5 DEF Allowed, Inv, Published
    <2>2. ASSUME NEW k \in Known PROVE k \in file[V].items
      <3>1. k.id \in Ids(file[V].items)
        BY <1>5, <2>1 DEF Preserving, Ids
      <3>2. PICK i \in file[V].items : i.id = k.id
        BY <3>1 DEF Ids
      <3> QED
        BY <1>2, <2>1, <3>2 DEF Consistent
    <2> QED
      BY <2>1, <2>2
  <1>6. Pool' = Pool /\ (LensesDone' <=> LensesDone) /\ (Settled' <=> Settled)
    BY <1>1 DEF Pool, LensesDone, Settled, Done, Consistent
  <1>7. Published'
    <2>1. CASE public' = public
      BY <1>1, <1>6, <2>1 DEF Inv, Published, Done
    <2>2. CASE public' = [findings |-> findings, summary |-> TRUE] /\ root.discoveryOnly
      <3>1. public'.findings = Pool /\ Known \subseteq Pool
        BY <1>2, <2>2 DEF Pool
      <3> QED
        BY <1>1, <1>2, <1>6, <2>2, <3>1 DEF Published
    <2>3. CASE /\ public' = [findings |-> findings, summary |-> TRUE] /\ ~root.discoveryOnly
               /\ Allowed(file[V]) /\ Preserving(file[V])
      <3>1. public'.findings = file[V].items
        BY <2>3
      <3> QED
        BY <1>1, <1>2, <1>4, <1>5, <1>6, <2>3, <3>1 DEF Published, Done
    <2> QED
      BY <1>3, <2>1, <2>2, <2>3
  <1>8. Candidates' = Candidates
    BY <1>2, <1>6, <1>7, CandidatesArePool
  <1>9. Tainted' <=> Tainted
    BY <1>1, <1>8, TaintedIs DEF Tainted
  <1>10. TypeOK'
    <2>1. findings \subseteq Item
      BY <1>2, Stages DEF Inv, TypeOK, File
    <2>2. public' \in [findings : SUBSET Item, summary : BOOLEAN]
      <3> HIDE DEF findings
      <3>1. [findings |-> findings, summary |-> TRUE] \in [findings : SUBSET Item, summary : BOOLEAN]
        BY <2>1
      <3> QED
        BY <1>3, <3>1 DEF Inv, TypeOK
    <2> QED
      BY <1>1, <2>2 DEF Inv, TypeOK
  <1>11. Mirrored' /\ InFlight' /\ Place' /\ OutcomesKept' /\ AnswersJudged' /\ RejectedEarlier' /\ Counted'
    BY <1>1 DEF Inv, Mirrored, Opened, InFlight, Flying, Place, OutcomesKept, AnswersJudged, RejectedEarlier, Counted
  <1>12. VerifierLast' /\ Accepted'
    BY <1>1, <1>6 DEF Inv, VerifierLast, Accepted, StagesAccepted, StageIntact, Done, Bound, Dependency
  <1>13. Owed' => Owed
    BY <1>1, <1>9 DEF Owed, Ended
  <1>14. Paid'
    BY <1>1, <1>10, <1>13, PaidStep DEF Inv
  <1> QED
    BY <1>7, <1>10, <1>11, <1>12, <1>14 DEF Inv

-----------------------------------------------------------------------------
(* Theorems.                                                               *)

LEMMA StutterStep == ASSUME Inv, UNCHANGED vars PROVE Inv'
  <1>1. UNCHANGED <<manifest, file, public, root, pc, m, cancelled, waiting, running, outcomes, failed, rejected, mishaps>>
    BY DEF vars
  <1>2. TypeOK' /\ Mirrored' /\ InFlight' /\ OutcomesKept' /\ RejectedEarlier' /\ Counted'
    BY <1>1 DEF Inv, TypeOK, Mirrored, InFlight, Flying, Done, OutcomesKept, RejectedEarlier, Counted
  <1>3. Candidates' = Candidates /\ (Settled' <=> Settled) /\ (Tainted' <=> Tainted)
        /\ VerifierLast' /\ Accepted' /\ Published'
    BY <1>1, DiskFrame
  <1>4. Place' /\ AnswersJudged'
    BY <1>1, <1>3 DEF Inv, Place, Flying, Done, AnswersJudged
  <1>5. Owed' => Owed
    BY <1>1, <1>3 DEF Owed
  <1>6. Paid'
    BY <1>1, <1>2, <1>5, PaidStep DEF Inv
  <1> QED
    BY <1>2, <1>3, <1>4, <1>6 DEF Inv

(* Every step of the adapter, of its children and of its caller keeps the    *)
(* invariant (Focused.Run, record, and the child's call in runStage).       *)
THEOREM FocusedInvariant == Spec => []Inv
  <1>1. ASSUME Inv, [Next]_vars PROVE Inv'
    <2>1. CASE Invoke \/ Return \/ Crash \/ Cancel
      BY <1>1, <2>1, InvokeStep, ReturnStep, CrashStep, CancelStep
    <2>2. CASE Open \/ OpenMismatch \/ Check \/ Gather
      BY <1>1, <2>2, OpenStep, OpenMismatchStep, CheckStep, GatherStep
    <2>3. CASE Empty \/ Unflag \/ Publish
      BY <1>1, <2>3, EmptyStep, UnflagStep, PublishStep
    <2>4. CASE RecordLens \/ RecordVerification
      BY <1>1, <2>4, RecordLensStep, RecordVerificationStep
    <2>5. ASSUME NEW s \in Stage, Child(s) PROVE Inv'
      BY <1>1, <2>5, CallStep, RecordStep, SucceedsStep, FailsStep DEF Child
    <2>6. CASE UNCHANGED vars \/ Terminated
      BY <1>1, <2>6, StutterStep DEF Terminated
    <2> HIDE DEF vars
    <2> QED
      BY <1>1, <2>1, <2>2, <2>3, <2>4, <2>5, <2>6 DEF Next, Coordinator
  <1> QED
    BY <1>1, InitInv, PTL DEF Spec

(* Every variable keeps its type, for every set of lenses and candidates;    *)
(* a generation of verification costs a mishap of its own.                  *)
THEOREM FocusedTypes == Spec => []TypeOK
  <1>1. Inv => TypeOK
    BY DEF Inv
  <1> QED
    BY <1>1, FocusedInvariant, PTL

(* Focused.Run never refuses what an earlier invocation left: no file of a   *)
(* completed stage changes, and the ledger covers what the caller counted.  *)
THEOREM NeverRefused == Spec => []ResumeAccepted
  <1>1. Inv => ResumeAccepted
    BY DEF Inv, Accepted, Counted, ResumeAccepted
  <1> QED
    BY <1>1, FocusedInvariant, PTL

(* The caller of a complete review has counted the whole ledger             *)
(* (focusedCostDelta).                                                      *)
THEOREM SpendWhole == Spec => []SpendReconciled
  <1>1. Inv => SpendReconciled
    BY DEF Inv, Counted, SpendReconciled
  <1> QED
    BY <1>1, FocusedInvariant, PTL

(* A review publishes confirmed candidates where they were found, and       *)
(* everything reported before; a discovery child publishes all its lenses   *)
(* found (focusedValidateVerification, the end of Focused.Run).             *)
THEOREM OnlyConfirmed == Spec => []PublishedOnlyVerified
  <1>1. ASSUME Inv, public.summary PROVE Pool = Found
    <2>1. \A l \in Lens : file[l].items = manifest.stages[l].digest
      BY <1>1, Stages DEF Inv, Published, LensesDone, Accepted, StagesAccepted, StageIntact
    <2> QED
      BY <2>1 DEF Pool, Found
  <1>2. Inv => PublishedOnlyVerified
    BY <1>1 DEF Inv, Published, PublishedOnlyVerified
  <1> QED
    BY <1>2, FocusedInvariant, PTL

(* A verification session whose answer was rejected is never continued      *)
(* (the generation in focusedManifest).                                     *)
THEOREM NoRejectedVerifier == Spec => []VerifierNotContinued
  <1>1. ASSUME Inv, V \in running PROVE Session(V) \notin rejected
    <2>1. V \in Flying
      BY <1>1 DEF Flying
    <2>2. m = manifest /\ manifest.vgen \in 0 .. Mishaps
      BY <1>1, <2>1, VerifierSettled DEF Inv, TypeOK, Manifest, Mirrored, Opened
    <2>3. ~(manifest.vgen < manifest.vgen)
      BY <2>2
    <2> QED
      BY <1>1, <2>2, <2>3 DEF Inv, RejectedEarlier, Session, Generation
  <1>2. Inv => VerifierNotContinued
    BY <1>1 DEF VerifierNotContinued
  <1> QED
    BY <1>2, FocusedInvariant, PTL
=============================================================================
