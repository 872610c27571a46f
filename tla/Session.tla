------------------------------ MODULE Session ------------------------------
(***************************************************************************)
(* One harness session (agent/agent.go) with its observer (observer.go),    *)
(* its tools (registry.go, bash_boundary.go) and the file it records        *)
(* findings into (findings/findings.go).                                    *)
(*                                                                         *)
(* The session store and the coordinator are a library. As used here: what  *)
(* is stored survives a kill and is continued under the same session ID; a  *)
(* stored item is shown to the observer before the next one is stored; a    *)
(* turn ends when no message waits for an answer and no call is in flight;  *)
(* cancelling its context makes a turn fail, sooner or later.               *)
(***************************************************************************)
EXTENDS Integers, FiniteSets

CONSTANTS
    Args,            \* arguments the model gives record_finding
    Slot,            \* Bash calls one response can make at once
    MaxCalls,        \* Harness.MaxBashCalls: 0 is unlimited, negative disables
    MaxCorrections,  \* maxSummaryCorrections
    MaxResponses,    \* bound: responses with tool calls, in one turn
    MaxRuns,         \* bound: invocations of the session
    Mishaps          \* bound: kills, failed writes, model failures, cancellations

ASSUME SessionAssumption ==
    /\ MaxCalls \in Int
    /\ {MaxCorrections, MaxResponses, MaxRuns, Mishaps} \subseteq Nat

(* Whatever the model writes decodes to these fields (recordFindingArgs).   *)
ASSUME ArgsAssumption ==
    \A a \in Args : a \in [what : {a.what}, start : Int, end : Int, anchor : {a.anchor},
                          severity : {a.severity}, id : {a.id}]

VARIABLES
    session,         \* what the session store has
    file,            \* the findings file
    pc,              \* where the invocation is; "off" when none runs
    attempt,         \* summary corrections asked for
    item,            \* the stored item the observer has not handled yet
    text,            \* observer.finalText, with the message it answered
    observerErr,     \* observer.err is set
    outcome,         \* coordinatorErr, then what the invocation returned
    cancelled,       \* the run's context is cancelled
    used,            \* boundedBash.calls
    bash,            \* bash[b]: the Bash call in slot b
    responses,       \* responses with tool calls, this turn
    runs,            \* invocations so far
    granted,         \* history: Bash calls let through, this invocation
    mine,            \* history: findings recorded in this invocation
    answered,        \* history: the message the appended summary answered
    mishaps          \* mishaps left

tools == <<used, bash, granted>>
vars == <<session, file, pc, attempt, item, text, observerErr, outcome, cancelled,
          tools, responses, runs, mine, answered, mishaps>>

-----------------------------------------------------------------------------
(* Findings.                                                               *)

(* findings.Fingerprint: the identity of a finding that brings none. *)
NoID == <<>>
Fingerprint(f) == <<f.what, f.start, f.end, f.anchor>>

Valid(f) ==
    /\ f.what # "blank"
    /\ f.start >= 1 /\ (f.end = 0 \/ f.end >= f.start)
    /\ f.anchor \in {"", "new", "old"}
    /\ f.severity \in {"error", "warning", "note"}

(* findings.Normalize of a valid finding: the defaults, then the identity.  *)
Normalize(f) ==
    LET ended == [f EXCEPT !.end = IF @ = 0 THEN f.start ELSE @]
        full == [ended EXCEPT !.anchor = IF @ = "" THEN "new" ELSE @]
    IN [full EXCEPT !.id = IF @ = NoID THEN Fingerprint(full) ELSE @]

-----------------------------------------------------------------------------
(* The file: the records its lines parse to, whether some line parses to    *)
(* nothing, and whether the last line lacks its newline.                    *)

NoFile == [found |-> {}, summary |-> "none", torn |-> FALSE, half |-> FALSE]

(* findings.ReadFile: one bad line makes the file unreadable. A missing     *)
(* file has no findings.                                                    *)
Readable == ~file.torn /\ \A f \in file.found : Valid(f)
Read == {Normalize(f) : f \in file.found}

WithFinding(f) == [file EXCEPT !.found = @ \cup {Normalize(f)}, !.half = FALSE]
WithSummary(kind) == [file EXCEPT !.summary = kind, !.half = FALSE]

(* appendLine: a last line without newline is closed first. The write can   *)
(* fail or be cut: before it, within the record, before its newline, or     *)
(* when the file is closed.                                                 *)
Joined(new) == [new EXCEPT !.torn = @ \/ file.half]
Appended(new) == new
Cut(new) == {file, [file EXCEPT !.torn = TRUE, !.half = TRUE],
             [Appended(new) EXCEPT !.half = TRUE], Appended(new)}

(* findings.CheckSummary: a summary within the contract, whose verdict is   *)
(* that of the findings in the file. A text is "none" when blank, "broken"  *)
(* when it is not one line of plain prose, else named by its verdict.       *)
AnyVerdict(t) == t.kind \in {"clean", "issues"}
Accepted(t) == t.kind = IF Read = {} THEN "clean" ELSE "issues"

Text == [kind : {"none", "broken", "clean", "issues"}, answers : 0 .. MaxCorrections]
NoText == [kind |-> "none", answers |-> 0]
NoItem == [kind |-> "none"]
Idle == [at |-> "idle", saw |-> 0]

Init ==
    /\ session = [started |-> FALSE, open |-> FALSE, asked |-> {}, recorded |-> {}]
    /\ file = NoFile
    /\ pc = "off" /\ attempt = 0 /\ item = NoItem /\ text = NoText
    /\ observerErr = FALSE /\ outcome = "none" /\ cancelled = FALSE
    /\ used = 0 /\ bash = [b \in Slot |-> Idle] /\ granted = 0
    /\ responses = 0 /\ runs = 0 /\ mine = {} /\ answered = 0
    /\ mishaps = Mishaps

Mishap == mishaps > 0 /\ mishaps' = mishaps - 1

-----------------------------------------------------------------------------
(* An invocation. Each has its own observer, its own quota and context.     *)

Run ==
    /\ pc = "off" /\ runs < MaxRuns
    /\ runs' = runs + 1 /\ pc' = "open" /\ attempt' = 0 /\ outcome' = "none"
    /\ item' = NoItem /\ text' = NoText /\ observerErr' = FALSE /\ cancelled' = FALSE
    /\ used' = 0 /\ bash' = [b \in Slot |-> Idle] /\ granted' = 0
    /\ mine' = {} /\ answered' = 0 /\ responses' = 0
    /\ UNCHANGED <<session, file, mishaps>>

(* A review that was run with the focused strategy is not resumed here. The *)
(* strategy was changed between two invocations.                            *)
Refuse ==
    /\ pc = "open" /\ runs > 1 /\ attempt = 0 /\ Mishap
    /\ pc' = "off" /\ outcome' = "failed"
    /\ UNCHANGED <<session, file, attempt, item, text, observerErr, cancelled, tools,
                   responses, runs, mine, answered>>

(* turn: the first message has the session's ID, and is ignored when the    *)
(* session had it before; a correction is always new. Calls in flight when  *)
(* the session was left may still complete, or never.                       *)
OpenTurn ==
    /\ pc = "open"
    /\ \E kept \in SUBSET session.asked :
          session' = [session EXCEPT !.started = TRUE, !.asked = kept,
                                     !.open = @ \/ ~session.started \/ attempt > 0]
    /\ pc' = "turn" /\ responses' = 0
    /\ UNCHANGED <<file, attempt, item, text, observerErr, outcome, cancelled, tools,
                   runs, mine, answered, mishaps>>

(* openSession, Submit or the coordinator fails: a cancelled context, or    *)
(* the provider.                                                            *)
TurnFails ==
    /\ pc \in {"open", "turn"} /\ item = NoItem
    /\ (cancelled /\ UNCHANGED mishaps) \/ Mishap
    /\ pc' = "return" /\ outcome' = "failed"
    /\ UNCHANGED <<session, file, attempt, item, text, observerErr, cancelled, tools,
                   responses, runs, mine, answered>>

Settled == item = NoItem /\ session.asked = {} /\ \A b \in Slot : bash[b].at \in {"idle", "granted", "refused"}

(* The model answers, with text and tool calls; calls need another answer.  *)
Respond ==
    /\ pc = "turn" /\ Settled /\ session.open
    /\ \E kind \in {"none", "broken", "clean", "issues"}, record \in SUBSET Args, slots \in SUBSET Slot :
          LET calls == record # {} \/ slots # {}
          IN /\ calls => responses < MaxResponses
             /\ responses' = IF calls THEN responses + 1 ELSE responses
             /\ session' = [session EXCEPT !.open = calls, !.asked = record]
             /\ bash' = [b \in Slot |-> IF b \in slots THEN [Idle EXCEPT !.at = "asked"] ELSE Idle]
             /\ item' = [kind |-> "response", text |-> kind]
    /\ UNCHANGED <<file, pc, attempt, text, observerErr, outcome, cancelled, used, granted,
                   runs, mine, answered, mishaps>>

(* A call of record_finding: arguments that do not normalize are an error   *)
(* for the model to see, others are stored as a completed operation.        *)
RecordFinding(a) ==
    /\ pc = "turn" /\ item = NoItem /\ a \in session.asked
    /\ session' = [session EXCEPT !.asked = @ \ {a},
                                  !.recorded = IF Valid(a) THEN @ \cup {Normalize(a)} ELSE @]
    /\ IF Valid(a)
       THEN item' = [kind |-> "finding", finding |-> Normalize(a)] /\ mine' = mine \cup {Normalize(a)}
       ELSE UNCHANGED <<item, mine>>
    /\ UNCHANGED <<file, pc, attempt, text, observerErr, outcome, cancelled, tools,
                   responses, runs, answered, mishaps>>

EndTurn ==
    /\ pc = "turn" /\ Settled /\ ~session.open
    /\ pc' = "check"
    /\ UNCHANGED <<session, file, attempt, item, text, observerErr, outcome, cancelled,
                   tools, responses, runs, mine, answered, mishaps>>

-----------------------------------------------------------------------------
(* The observer. Its first error stops it and cancels the run.              *)

IgnoredOnceCancelled == cancelled
Ignored == observerErr
Fail == observerErr' = TRUE /\ cancelled' = TRUE

ObserveResponse ==
    /\ item.kind = "response"
    /\ item' = NoItem
    /\ \/ /\ text' = IF Ignored \/ item.text = "none" THEN text
                     ELSE [kind |-> item.text, answers |-> attempt]
          /\ UNCHANGED <<observerErr, cancelled, mishaps>>
       \/ ~Ignored /\ Mishap /\ Fail /\ UNCHANGED text
    /\ UNCHANGED <<session, file, pc, attempt, outcome, tools, responses, runs, mine, answered>>

ObserveFinding ==
    /\ item.kind = "finding"
    /\ item' = NoItem
    /\ \/ Ignored /\ UNCHANGED <<file, observerErr, cancelled, mishaps>>
       \/ ~Ignored /\ file' = Appended(WithFinding(item.finding))
          /\ UNCHANGED <<observerErr, cancelled, mishaps>>
       \/ ~Ignored /\ Mishap /\ Fail /\ file' \in Cut(WithFinding(item.finding))
    /\ UNCHANGED <<session, pc, attempt, text, outcome, tools, responses, runs, mine, answered>>

-----------------------------------------------------------------------------
(* boundedBash: a quota for the calls of one invocation, which may run at   *)
(* the same time. takeCall reads the counter, then swaps it.                *)

Decide(b, at) == bash' = [bash EXCEPT ![b] = [Idle EXCEPT !.at = at]]

TakeCall(b) ==
    /\ pc = "turn" /\ bash[b].at = "asked"
    /\ \/ MaxCalls = 0 /\ Decide(b, "granted") /\ granted' = granted + 1
       \/ MaxCalls # 0 /\ used >= MaxCalls /\ Decide(b, "refused") /\ UNCHANGED granted
       \/ MaxCalls > 0 /\ used < MaxCalls /\ UNCHANGED granted
          /\ bash' = [bash EXCEPT ![b] = [at |-> "loaded", saw |-> used]]
    /\ UNCHANGED <<session, file, pc, attempt, item, text, observerErr, outcome, cancelled,
                   used, responses, runs, mine, answered, mishaps>>

NeverMoved(b) == TRUE
Unmoved(b) == used = bash[b].saw

SwapCall(b) ==
    /\ pc = "turn" /\ bash[b].at = "loaded"
    /\ IF Unmoved(b)
       THEN used' = bash[b].saw + 1 /\ granted' = granted + 1 /\ Decide(b, "granted")
       ELSE Decide(b, "asked") /\ UNCHANGED <<used, granted>>
    /\ UNCHANGED <<session, file, pc, attempt, item, text, observerErr, outcome, cancelled,
                   responses, runs, mine, answered, mishaps>>

-----------------------------------------------------------------------------
(* After a turn: the summary is the last text of the turn. One that breaks  *)
(* the contract goes back to the model, a limited number of times.          *)

Kept == text
Taken == NoText
SameAttempt == attempt
NextAttempt == attempt + 1
PastLimit == attempt > MaxCorrections
Exhausted == attempt = MaxCorrections

CheckSummary ==
    /\ pc = "check"
    /\ text' = Taken
    /\ \/ ~Readable /\ pc' = "return" /\ outcome' = "failed"
          /\ UNCHANGED <<file, attempt, answered, mishaps>>
       \/ /\ Readable /\ Accepted(text)
          /\ pc' = "return" /\ answered' = text.answers
          /\ \/ file' = Appended(WithSummary(text.kind)) /\ outcome' = "ok" /\ UNCHANGED mishaps
             \/ Mishap /\ file' \in Cut(WithSummary(text.kind)) /\ outcome' = "failed"
          /\ UNCHANGED attempt
       \/ /\ Readable /\ ~Accepted(text)
          /\ IF Exhausted
             THEN pc' = "return" /\ outcome' = "failed" /\ UNCHANGED attempt
             ELSE pc' = "open" /\ attempt' = NextAttempt /\ UNCHANGED outcome
          /\ UNCHANGED <<file, answered, mishaps>>
    /\ UNCHANGED <<session, item, observerErr, cancelled, tools, responses, runs, mine>>

CoordinatorOutcome == outcome
Overridden == IF observerErr THEN "failed" ELSE outcome

Return ==
    /\ pc = "return"
    /\ pc' = "off" /\ outcome' = Overridden
    /\ UNCHANGED <<session, file, attempt, item, text, observerErr, cancelled, tools,
                   responses, runs, mine, answered, mishaps>>

-----------------------------------------------------------------------------
(* A kill may cut the append that was under way; a cancellation comes from  *)
(* the caller or its timeout.                                               *)

Kill ==
    /\ pc # "off" /\ Mishap
    /\ pc' = "off" /\ outcome' = "killed" /\ item' = NoItem
    /\ file' \in IF item.kind = "finding" /\ ~Ignored
                 THEN Cut(WithFinding(item.finding)) ELSE {file}
    /\ UNCHANGED <<session, attempt, text, observerErr, cancelled, tools, responses, runs, mine, answered>>

Cancel ==
    /\ pc \notin {"off", "return"} /\ ~cancelled /\ Mishap
    /\ cancelled' = TRUE
    /\ UNCHANGED <<session, file, pc, attempt, item, text, observerErr, outcome, tools,
                   responses, runs, mine, answered>>

(* All invocations are over. *)
Finished == pc = "off" /\ runs = MaxRuns /\ UNCHANGED vars

Progress ==
    \/ OpenTurn \/ TurnFails \/ Respond \/ EndTurn
    \/ \E a \in session.asked : RecordFinding(a)
    \/ ObserveResponse \/ ObserveFinding
    \/ \E b \in Slot : TakeCall(b) \/ SwapCall(b)
    \/ CheckSummary \/ Return

Next == Run \/ Refuse \/ Progress \/ Kill \/ Cancel \/ Finished

Spec == Init /\ [][Next]_vars
FairSpec == Spec /\ WF_vars(Progress)

-----------------------------------------------------------------------------
(* What the session must keep.                                             *)

Finding == {Normalize(a) : a \in {x \in Args : Valid(x)}}

TypeOK ==
    /\ session \in [started : BOOLEAN, open : BOOLEAN, asked : SUBSET Args, recorded : SUBSET Finding]
    /\ file \in [found : SUBSET Finding, summary : {"none", "clean", "issues"},
                 torn : BOOLEAN, half : BOOLEAN]
    /\ pc \in {"off", "open", "turn", "check", "return"}
    /\ attempt \in 0 .. MaxCorrections /\ answered \in 0 .. MaxCorrections
    /\ item = NoItem \/ item.kind = "response" \/ item.finding \in Finding
    /\ text \in Text /\ mine \subseteq Finding
    /\ outcome \in {"none", "ok", "failed", "killed"}
    /\ {observerErr, cancelled} \subseteq BOOLEAN
    /\ bash \in [Slot -> [at : {"idle", "asked", "loaded", "granted", "refused"}, saw : Nat]]
    /\ {used, granted, runs, responses, mishaps} \subseteq Nat

Succeeded == pc = "off" /\ outcome = "ok"

(* Every finding the model was told is recorded, in an invocation that      *)
(* succeeds, is read back from the file as it was recorded: one the         *)
(* observer could not append, or ignored after its first error, fails the   *)
(* invocation even when the coordinator saw nothing (agent.go:226).         *)
NoSilentLoss == Succeeded => Readable /\ mine \subseteq Read

(* A kill loses one finding at most, the one stored and not yet observed,   *)
(* also when the run was being cancelled (observer.go:46): nothing else     *)
(* that was recorded is missing from the file.                              *)
KillLosesOne == pc = "off" /\ outcome = "killed" /\ ~observerErr => Cardinality(mine \ Read) <= 1

(* The summary that was appended answered the last message: a text of an    *)
(* earlier turn, rejected then, is not taken again when a correction is     *)
(* answered with tool calls only (observer.go:121).                         *)
SummaryIsAnswer == Succeeded => answered = attempt

(* Whatever failed or was killed before, a review that succeeds leaves a    *)
(* file whose verdict is that of all the findings in it.                    *)
VerdictMatchesFile == Succeeded => file.summary = IF Read = {} THEN "clean" ELSE "issues"

(* Parallel Bash calls together get exactly the quota: no more are let      *)
(* through, and none is refused before it is used up (bash_boundary.go:57). *)
QuotaExact ==
    /\ MaxCalls > 0 => granted <= MaxCalls
    /\ (\E b \in Slot : bash[b].at = "refused") => granted >= MaxCalls

(* An append that succeeds never damages the file, not even after one that  *)
(* was cut before its newline (findings.go:460).                            *)
OnlyCutsDamage == [][file'.torn /\ ~file.torn => mishaps' < mishaps]_vars

(* An invocation comes to its end, a correction loop included, when the     *)
(* model stops calling tools.                                               *)
Settles == pc # "off" ~> pc = "off"
=============================================================================
