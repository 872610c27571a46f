---------------------------- MODULE SessionProofs ----------------------------
(***************************************************************************)
(* Proofs about Session, for whatever the model records, every number of    *)
(* parallel Bash calls, quota, corrections, invocations and mishaps.        *)
(***************************************************************************)
EXTENDS Session, FiniteSetTheorems, TLAPS

-----------------------------------------------------------------------------
(* The inductive invariant.                                                *)

(* An item waits for the observer only during a turn (Harness.turn).        *)
ItemType ==
    \/ item = NoItem
    \/ item \in [kind : {"response"}, text : {"none", "broken", "clean", "issues"}]
    \/ item \in [kind : {"finding"}, finding : Finding]
ItemInTurn == item # NoItem => pc = "turn"

(* An invocation has no outcome before it returns.                          *)
OutcomeInTime ==
    /\ pc \in {"open", "turn", "check"} => outcome = "none"
    /\ pc = "return" => outcome \in {"ok", "failed"}

(* A text that is held answers the message asked last (takeFinalText).      *)
TextCurrent == text.kind # "none" => text.answers = attempt

(* While no observer error is known, what was recorded is in the file or is *)
(* the item that waits.                                                     *)
Waiting == IF item.kind = "finding" THEN {item.finding} ELSE {}
NoneMissing == pc # "off" /\ ~observerErr => mine \subseteq file.found \cup Waiting

(* A kill loses what waited.                                                *)
AtMostOneLost ==
    pc = "off" /\ outcome = "killed" /\ ~observerErr =>
        \A f, g \in mine \ file.found : f = g

(* An invocation that has accepted a summary has appended the one that      *)
(* answers the last message, to a file it could read and that it fits.      *)
Verdict(found) == IF found = {} THEN "clean" ELSE "issues"
AcceptedLast ==
    outcome = "ok" =>
        /\ answered = attempt
        /\ ~file.torn /\ file.summary = Verdict(file.found)
        /\ ~observerErr => mine \subseteq file.found
        /\ pc = "off" => ~observerErr

(* The counter is the number of calls let through; a call is refused or     *)
(* swaps a value it loaded below the quota (takeCall).                      *)
QuotaCounted ==
    MaxCalls > 0 =>
        /\ granted = used /\ used <= MaxCalls
        /\ \A b \in Slot : /\ bash[b].at = "loaded" => bash[b].saw < MaxCalls
                           /\ bash[b].at = "refused" => used = MaxCalls

Inv ==
    /\ TypeOK /\ ItemType /\ ItemInTurn
    /\ OutcomeInTime /\ TextCurrent
    /\ NoneMissing /\ AtMostOneLost /\ AcceptedLast
    /\ QuotaCounted

-----------------------------------------------------------------------------
(* Findings and the file.                                                  *)

(* A normalized finding is valid and normalizes to itself: what is written  *)
(* is what is read back (findings.Normalize in AppendFinding and in Parse). *)
LEMMA NormalizeTwice ==
    ASSUME NEW f \in Finding
    PROVE  Valid(f) /\ Normalize(f) = f
  <1>1. PICK a \in Args : Valid(a) /\ f = Normalize(a)
    BY DEF Finding
  <1>2. a \in [what : {a.what}, start : Int, end : Int, anchor : {a.anchor},
               severity : {a.severity}, id : {a.id}]
    BY ArgsAssumption
  <1> DEFINE ended == [a EXCEPT !.end = IF @ = 0 THEN a.start ELSE @]
             full == [ended EXCEPT !.anchor = IF @ = "" THEN "new" ELSE @]
  <1>3. /\ full \in [what : {a.what}, start : Int, end : Int, anchor : {"new", "old"},
                     severity : {a.severity}, id : {a.id}]
        /\ full.what = a.what /\ full.start = a.start /\ full.end # 0
        /\ full.end >= full.start /\ full.start >= 1
        /\ full.severity = a.severity /\ full.id = a.id
    <2>1. /\ a.start \in Int /\ a.end \in Int /\ a.start >= 1
          /\ a.end = 0 \/ a.end >= a.start
      BY <1>1, <1>2 DEF Valid
    <2>7. a.anchor \in {"", "new", "old"}
      BY <1>1 DEF Valid
    <2>2. /\ ended \in [what : {a.what}, start : Int, end : Int, anchor : {a.anchor},
                         severity : {a.severity}, id : {a.id}]
          /\ ended.start = a.start /\ ended.end = IF a.end = 0 THEN a.start ELSE a.end
      BY <1>2
    <2> HIDE DEF ended
    <2>3. /\ full \in [what : {a.what}, start : Int, end : Int, anchor : {"new", "old"},
                       severity : {a.severity}, id : {a.id}]
          /\ full.start = ended.start /\ full.end = ended.end
      BY <2>2, <2>7
    <2> HIDE DEF full
    <2>4. full.what = a.what /\ full.severity = a.severity /\ full.id = a.id
      BY <2>3
    <2>5. full.start = a.start /\ full.end = IF a.end = 0 THEN a.start ELSE a.end
      BY <2>2, <2>3
    <2>6. full.end # 0 /\ full.end >= full.start /\ full.start >= 1
      BY <2>1, <2>5
    <2> QED
      BY <2>3, <2>4, <2>5, <2>6
  <1>4. f = [full EXCEPT !.id = IF @ = NoID THEN Fingerprint(full) ELSE @]
    BY <1>1 DEF Normalize
  <1> HIDE DEF full, ended
  <1>5. /\ f.what = full.what /\ f.start = full.start /\ f.end = full.end
        /\ f.anchor = full.anchor /\ f.severity = full.severity
        /\ f.id = IF full.id = NoID THEN Fingerprint(full) ELSE full.id
    BY <1>3, <1>4
  <1>6. f.id # NoID
    BY <1>5 DEF NoID, Fingerprint
  <1>7. f \in [what : {f.what}, start : Int, end : Int, anchor : {"new", "old"},
               severity : {f.severity}, id : {f.id}]
    BY <1>3, <1>4, <1>5
  <1>8. Valid(f)
    BY <1>1, <1>3, <1>5, <1>7 DEF Valid
  <1>9. /\ [f EXCEPT !.end = IF @ = 0 THEN f.start ELSE @] = f
        /\ [f EXCEPT !.anchor = IF @ = "" THEN "new" ELSE @] = f
        /\ [f EXCEPT !.id = IF @ = NoID THEN Fingerprint(f) ELSE @] = f
    BY <1>3, <1>5, <1>6, <1>7
  <1> QED
    BY <1>8, <1>9 DEF Normalize

(* What a reader gets is what the file has, unless a line is cut.           *)
LEMMA ReadBack == ASSUME TypeOK PROVE Read = file.found /\ (Readable <=> ~file.torn)
  <1>1. file.found \subseteq Finding
    BY DEF TypeOK
  <1> QED
    BY <1>1, NormalizeTwice DEF Read, Readable

SessionType == [started : BOOLEAN, open : BOOLEAN, asked : SUBSET Args, recorded : SUBSET Finding]
FileType == [found : SUBSET Finding, summary : {"none", "clean", "issues"},
             torn : BOOLEAN, half : BOOLEAN]
BashType == [Slot -> [at : {"idle", "asked", "loaded", "granted", "refused"}, saw : Nat]]

(* TypeOK, without the sets of variables.                                   *)
Control ==
    /\ pc \in {"off", "open", "turn", "check", "return"}
    /\ outcome \in {"none", "ok", "failed", "killed"}
    /\ observerErr \in BOOLEAN /\ cancelled \in BOOLEAN
    /\ text \in Text /\ mine \subseteq Finding
Counters ==
    /\ attempt \in 0 .. MaxCorrections /\ answered \in 0 .. MaxCorrections
    /\ used \in Nat /\ granted \in Nat /\ runs \in Nat /\ responses \in Nat /\ mishaps \in Nat
Types == /\ session \in SessionType /\ file \in FileType /\ bash \in BashType
         /\ Control /\ Counters /\ ItemType

LEMMA Bounds == MaxCorrections \in Nat /\ MaxResponses \in Nat /\ MaxRuns \in Nat /\ Mishaps \in Nat
  BY SessionAssumption

LEMMA NoTextType == NoText \in Text /\ NoText.kind = "none"
  BY Bounds DEF NoText, Text

LEMMA TypesOK == Types <=> TypeOK /\ ItemType
  <1>1. Types => TypeOK
    BY DEF Types, TypeOK, SessionType, FileType, BashType, Control, Counters, ItemType
  <1>2. TypeOK /\ ItemType => Types
    BY DEF Types, TypeOK, SessionType, FileType, BashType, Control, Counters
  <1> QED
    BY <1>1, <1>2 DEF Types

LEMMA TypesPrimed == Types' <=> TypeOK' /\ ItemType'
  BY TypesOK, PTL

(* What a whole append makes of the file (appendLine).                      *)
LEMMA WholeAppend ==
    ASSUME file \in FileType
    PROVE  /\ \A f \in Finding :
                  /\ WithFinding(f) \in FileType
                  /\ WithFinding(f).found = file.found \cup {f}
                  /\ WithFinding(f).summary = file.summary
                  /\ WithFinding(f).torn = file.torn
           /\ \A kind \in {"clean", "issues"} :
                  /\ WithSummary(kind) \in FileType
                  /\ WithSummary(kind).found = file.found
                  /\ WithSummary(kind).summary = kind
                  /\ WithSummary(kind).torn = file.torn
  <1>1. ASSUME NEW f \in Finding
        PROVE  /\ WithFinding(f) \in FileType
               /\ WithFinding(f).found = file.found \cup {f}
               /\ WithFinding(f).summary = file.summary
               /\ WithFinding(f).torn = file.torn
    <2>1. Normalize(f) = f
      BY NormalizeTwice
    <2> QED
      BY <2>1 DEF WithFinding, FileType
  <1>2. ASSUME NEW kind \in {"clean", "issues"}
        PROVE  /\ WithSummary(kind) \in FileType
               /\ WithSummary(kind).found = file.found
               /\ WithSummary(kind).summary = kind
               /\ WithSummary(kind).torn = file.torn
    BY DEF WithSummary, FileType
  <1> QED
    BY <1>1, <1>2

(* An append that fails or is cut leaves the file as it was or adds what it *)
(* was to add.                                                              *)
LEMMA CutAppend ==
    ASSUME file \in FileType, NEW whole \in FileType, NEW new \in Cut(whole)
    PROVE  /\ new \in FileType
           /\ new.found \in {file.found, whole.found}
  <1>1. CASE new = [file EXCEPT !.torn = TRUE, !.half = TRUE]
    BY <1>1 DEF FileType
  <1>2. CASE new = [whole EXCEPT !.half = TRUE]
    BY <1>2 DEF FileType
  <1>3. CASE new \in {file, whole}
    BY <1>3
  <1> QED
    BY <1>1, <1>2, <1>3 DEF Cut, Appended

-----------------------------------------------------------------------------
(* The invariant, action by action.                                        *)

USE DEF vars, tools

LEMMA InitInv == Init => Inv
  <1> SUFFICES ASSUME Init PROVE Inv
    OBVIOUS
  <1>1. TypeOK
    <2>1. session \in SessionType
      BY DEF Init, SessionType
    <2>2. file \in FileType
      BY DEF Init, FileType, NoFile
    <2>3. bash \in BashType
      BY DEF Init, BashType, Idle
    <2>4. Control
      BY NoTextType DEF Init, Control
    <2>5. Counters
      BY Bounds DEF Init, Counters
    <2>6. ItemType
      BY DEF Init, ItemType
    <2> QED
      BY <2>1, <2>2, <2>3, <2>4, <2>5, <2>6, TypesOK DEF Types
  <1>2. ItemType /\ ItemInTurn /\ OutcomeInTime /\ TextCurrent /\ NoneMissing /\ AtMostOneLost
        /\ AcceptedLast
    BY DEF Init, ItemType, ItemInTurn, OutcomeInTime, TextCurrent, NoText, NoneMissing,
       AtMostOneLost, AcceptedLast
  <1>3. QuotaCounted
    BY SessionAssumption DEF Init, QuotaCounted, Idle
  <1> QED
    BY <1>1, <1>2, <1>3 DEF Inv

(* A new invocation starts from nothing but the session and the file.       *)
LEMMA RunInv == ASSUME Inv, Run PROVE Inv'
  <1>1. TypeOK'
    <2>0. Types
      BY TypesOK DEF Inv
    <2>1. session' \in SessionType /\ file' \in FileType /\ bash' \in BashType
      BY <2>0 DEF Types, Run, BashType, Idle
    <2>2. Control'
      BY <2>0, NoTextType DEF Types, Run, Control
    <2>3. Counters'
      BY <2>0, Bounds DEF Types, Run, Counters
    <2>4. ItemType'
      BY DEF Run, ItemType
    <2> QED
      BY <2>1, <2>2, <2>3, <2>4, TypesPrimed DEF Types
  <1>2. ItemType' /\ ItemInTurn' /\ OutcomeInTime' /\ TextCurrent' /\ NoneMissing' /\ AtMostOneLost'
        /\ AcceptedLast'
    BY DEF Inv, Run, ItemType, ItemInTurn, OutcomeInTime, TextCurrent, NoText, NoneMissing,
       AtMostOneLost, AcceptedLast
  <1>3. QuotaCounted'
    BY SessionAssumption DEF Inv, Run, QuotaCounted, Idle
  <1> QED
    BY <1>1, <1>2, <1>3 DEF Inv

(* Nothing waits when a turn opens or fails.                                *)
LEMMA OpenInv == ASSUME Inv, OpenTurn \/ Refuse \/ TurnFails \/ EndTurn PROVE Inv'
  <1>1. TypeOK'
    <2>0. Types
      BY TypesOK DEF Inv
    <2>1. session' \in SessionType
      BY <2>0 DEF Types, OpenTurn, Refuse, TurnFails, EndTurn, SessionType
    <2>2. file' \in FileType /\ bash' \in BashType /\ ItemType'
      BY <2>0 DEF Types, OpenTurn, Refuse, TurnFails, EndTurn, ItemType
    <2>3. Control'
      BY <2>0 DEF Types, OpenTurn, Refuse, TurnFails, EndTurn, Control
    <2>4. Counters'
      <3>1. /\ attempt' = attempt /\ answered' = answered /\ used' = used /\ granted' = granted
            /\ runs' = runs /\ responses' \in {0, responses}
        BY DEF OpenTurn, Refuse, TurnFails, EndTurn
      <3>2. mishaps' = mishaps \/ (mishaps > 0 /\ mishaps' = mishaps - 1)
        BY DEF OpenTurn, Refuse, TurnFails, EndTurn, Mishap
      <3> QED
        BY <2>0, <3>1, <3>2 DEF Types, Counters
    <2> QED
      BY <2>1, <2>2, <2>3, <2>4, TypesPrimed DEF Types
  <1>2. ItemType' /\ ItemInTurn' /\ OutcomeInTime' /\ TextCurrent'
    BY DEF Inv, OpenTurn, Refuse, TurnFails, EndTurn, Settled, ItemType, ItemInTurn, OutcomeInTime, TextCurrent
  <1>3. NoneMissing' /\ AtMostOneLost' /\ AcceptedLast'
    BY DEF Inv, OpenTurn, Refuse, TurnFails, EndTurn, OutcomeInTime, NoneMissing, Waiting,
       AtMostOneLost, AcceptedLast
  <1>4. QuotaCounted'
    BY DEF Inv, OpenTurn, Refuse, TurnFails, EndTurn, QuotaCounted
  <1> QED
    BY <1>1, <1>2, <1>3, <1>4 DEF Inv

LEMMA RespondInv == ASSUME Inv, Respond PROVE Inv'
  <1>1. TypeOK'
    <2>0. Types
      BY TypesOK DEF Inv
    <2>1. session' \in SessionType
      BY <2>0 DEF Types, Respond, SessionType
    <2>2. file' \in FileType /\ bash' \in BashType /\ ItemType'
      BY <2>0 DEF Types, Respond, BashType, Idle, ItemType
    <2>3. Control'
      BY <2>0 DEF Types, Respond, Control
    <2>4. Counters'
      BY <2>0 DEF Types, Respond, Counters
    <2> QED
      BY <2>1, <2>2, <2>3, <2>4, TypesPrimed DEF Types
  <1>2. ItemType' /\ ItemInTurn' /\ OutcomeInTime' /\ TextCurrent'
    BY DEF Inv, Respond, ItemType, ItemInTurn, OutcomeInTime, TextCurrent
  <1>3. NoneMissing' /\ AtMostOneLost' /\ AcceptedLast'
    BY DEF Inv, Respond, Settled, NoItem, OutcomeInTime, NoneMissing, Waiting,
       AtMostOneLost, AcceptedLast
  <1>4. QuotaCounted'
    BY DEF Inv, Respond, QuotaCounted, Idle
  <1> QED
    BY <1>1, <1>2, <1>3, <1>4 DEF Inv

LEMMA RecordInv == ASSUME Inv, NEW a \in session.asked, RecordFinding(a) PROVE Inv'
  <1>1. Valid(a) => Normalize(a) \in Finding
    BY DEF Inv, TypeOK, Finding
  <1>2. TypeOK'
    <2>0. Types
      BY TypesOK DEF Inv
    <2>1. session' \in SessionType
      BY <1>1, <2>0 DEF Types, RecordFinding, SessionType
    <2>2. file' \in FileType /\ bash' \in BashType /\ ItemType'
      BY <1>1, <2>0 DEF Types, RecordFinding, BashType, Idle, ItemType
    <2>3. Control'
      BY <1>1, <2>0 DEF Types, RecordFinding, Control
    <2>4. Counters'
      BY <1>1, <2>0 DEF Types, RecordFinding, Counters
    <2> QED
      BY <2>1, <2>2, <2>3, <2>4, TypesPrimed DEF Types
  <1>3. ItemType' /\ ItemInTurn' /\ OutcomeInTime' /\ TextCurrent'
    BY <1>1 DEF Inv, RecordFinding, ItemType, ItemInTurn, OutcomeInTime, TextCurrent
  <1>4. NoneMissing' /\ AtMostOneLost' /\ AcceptedLast'
    BY <1>1 DEF Inv, RecordFinding, NoItem, OutcomeInTime, NoneMissing, Waiting,
       AtMostOneLost, AcceptedLast
  <1>5. QuotaCounted'
    BY DEF Inv, RecordFinding, QuotaCounted
  <1> QED
    BY <1>2, <1>3, <1>4, <1>5 DEF Inv

(* The observer takes a text, which answers the last message, or fails.     *)
LEMMA ObserveResponseInv == ASSUME Inv, ObserveResponse PROVE Inv'
  <1>0. Types
    BY TypesOK DEF Inv
  <1>1. item.text \in {"none", "broken", "clean", "issues"} /\ pc = "turn"
    BY <1>0 DEF Inv, ItemInTurn, ObserveResponse, Types, ItemType, NoItem
  <1>2. text' = text \/ (text' = [kind |-> item.text, answers |-> attempt] /\ text' \in Text)
    BY <1>0, <1>1 DEF ObserveResponse, Types, Counters, Text
  <1>3. TypeOK'
    <2>1. session' \in SessionType /\ file' \in FileType /\ bash' \in BashType /\ ItemType'
      BY <1>0 DEF Types, ObserveResponse, ItemType
    <2>2. Control'
      BY <1>0, <1>2 DEF Types, ObserveResponse, Fail, Control
    <2>3. Counters'
      <3>1. mishaps' = mishaps \/ (mishaps > 0 /\ mishaps' = mishaps - 1)
        BY DEF ObserveResponse, Mishap
      <3> QED
        BY <1>0, <3>1 DEF Types, ObserveResponse, Counters
    <2> QED
      BY <2>1, <2>2, <2>3, TypesPrimed DEF Types
  <1>4. ItemType' /\ ItemInTurn' /\ OutcomeInTime' /\ TextCurrent'
    BY <1>1, <1>2 DEF Inv, ObserveResponse, ItemType, ItemInTurn, OutcomeInTime, TextCurrent
  <1>5. NoneMissing'
    BY <1>1 DEF Inv, ObserveResponse, Fail, NoItem, NoneMissing, Waiting
  <1>6. AtMostOneLost' /\ AcceptedLast'
    BY <1>1 DEF Inv, ObserveResponse, OutcomeInTime, AtMostOneLost, AcceptedLast
  <1>7. QuotaCounted'
    BY DEF Inv, ObserveResponse, QuotaCounted
  <1> QED
    BY <1>3, <1>4, <1>5, <1>6, <1>7 DEF Inv

(* A finding is appended, or the observer has failed: then nothing is said  *)
(* of what the file has.                                                    *)
LEMMA ObserveFindingInv == ASSUME Inv, ObserveFinding PROVE Inv'
  <1>0. Types
    BY TypesOK DEF Inv
  <1>1. item.finding \in Finding /\ pc = "turn"
    BY <1>0 DEF Inv, ItemInTurn, ObserveFinding, Types, ItemType, NoItem
  <1>2. /\ WithFinding(item.finding) \in FileType
        /\ WithFinding(item.finding).found = file.found \cup {item.finding}
    BY <1>0, <1>1, WholeAppend DEF Types
  <1>3. file' \in FileType /\ (~observerErr' => observerErr \/ file'.found = file.found \cup {item.finding})
    BY <1>0, <1>1, <1>2, CutAppend DEF ObserveFinding, Appended, Ignored, Fail, Types
  <1>4. TypeOK'
    <2>1. session' \in SessionType /\ file' \in FileType /\ bash' \in BashType /\ ItemType'
      BY <1>0, <1>3 DEF Types, ObserveFinding, ItemType
    <2>2. Control'
      BY <1>0 DEF Types, ObserveFinding, Fail, Control
    <2>3. Counters'
      <3>1. mishaps' = mishaps \/ (mishaps > 0 /\ mishaps' = mishaps - 1)
        BY DEF ObserveFinding, Mishap
      <3> QED
        BY <1>0, <3>1 DEF Types, ObserveFinding, Counters
    <2> QED
      BY <2>1, <2>2, <2>3, TypesPrimed DEF Types
  <1>5. ItemType' /\ ItemInTurn' /\ OutcomeInTime' /\ TextCurrent'
    BY <1>1 DEF Inv, ObserveFinding, ItemType, ItemInTurn, OutcomeInTime, TextCurrent
  <1>6. NoneMissing'
    <2>1. ~observerErr' => ~observerErr
      BY DEF ObserveFinding, Ignored, Fail
    <2>2. Waiting = {item.finding} /\ Waiting' = {}
      BY DEF ObserveFinding, Waiting, NoItem
    <2> QED
      BY <1>1, <1>3, <2>1, <2>2 DEF Inv, ObserveFinding, NoneMissing
  <1>7. AtMostOneLost' /\ AcceptedLast'
    BY <1>1 DEF Inv, ObserveFinding, OutcomeInTime, AtMostOneLost, AcceptedLast
  <1>8. QuotaCounted'
    BY DEF Inv, ObserveFinding, QuotaCounted
  <1> QED
    BY <1>4, <1>5, <1>6, <1>7, <1>8 DEF Inv

(* What a Bash call changes is the quota only.                              *)
BashOnly == /\ UNCHANGED <<session, file, pc, attempt, item, text, observerErr, outcome, cancelled,
                           responses, runs, mine, answered, mishaps>>
            /\ bash' \in BashType /\ used' \in Nat /\ granted' \in Nat
LEMMA QuotaStep == ASSUME Inv, BashOnly, QuotaCounted' PROVE Inv'
  <1>0. Types
    BY TypesOK DEF Inv
  <1>1. TypeOK'
    <2>1. session' \in SessionType /\ file' \in FileType /\ bash' \in BashType /\ ItemType'
      BY <1>0 DEF Types, BashOnly, ItemType
    <2>2. Control'
      BY <1>0 DEF Types, BashOnly, Control
    <2>3. Counters'
      BY <1>0 DEF Types, BashOnly, Counters
    <2> QED
      BY <2>1, <2>2, <2>3, TypesPrimed DEF Types
  <1>2. ItemType' /\ ItemInTurn' /\ OutcomeInTime' /\ TextCurrent'
    BY DEF Inv, BashOnly, ItemType, ItemInTurn, OutcomeInTime, TextCurrent
  <1>3. NoneMissing' /\ AtMostOneLost' /\ AcceptedLast'
    BY DEF Inv, BashOnly, NoneMissing, Waiting, AtMostOneLost, AcceptedLast
  <1> QED
    BY <1>1, <1>2, <1>3 DEF Inv

(* A call is refused at the quota, and loads a value below it.              *)
LEMMA TakeCallInv == ASSUME Inv, NEW b \in Slot, TakeCall(b) PROVE Inv'
  <1>0. bash \in BashType /\ used \in Nat /\ granted \in Nat /\ MaxCalls \in Int
    BY TypesOK, SessionAssumption DEF Inv, Types, Counters
  <1> DEFINE Becomes(call) == bash' = [bash EXCEPT ![b] = call]
  <1>1. \/ MaxCalls = 0 /\ Becomes([at |-> "granted", saw |-> 0]) /\ used' = used /\ granted' = granted + 1
        \/ MaxCalls # 0 /\ used >= MaxCalls /\ Becomes([at |-> "refused", saw |-> 0])
           /\ used' = used /\ granted' = granted
        \/ MaxCalls > 0 /\ used < MaxCalls /\ Becomes([at |-> "loaded", saw |-> used])
           /\ used' = used /\ granted' = granted
    BY DEF TakeCall, Decide, Idle
  <1>2. BashOnly
    BY <1>0, <1>1 DEF TakeCall, BashOnly, BashType
  <1>3. QuotaCounted'
    BY <1>0, <1>1 DEF Inv, QuotaCounted, BashType
  <1> QED
    BY <1>2, <1>3, QuotaStep

(* The swap succeeds only if nobody has counted since the load.             *)
LEMMA SwapCallInv == ASSUME Inv, NEW b \in Slot, SwapCall(b) PROVE Inv'
  <1>0. bash \in BashType /\ used \in Nat /\ granted \in Nat /\ MaxCalls \in Int
    BY TypesOK, SessionAssumption DEF Inv, Types, Counters
  <1>1. \/ used = bash[b].saw /\ used' = used + 1 /\ granted' = granted + 1
           /\ bash' = [bash EXCEPT ![b] = [at |-> "granted", saw |-> 0]]
        \/ bash' = [bash EXCEPT ![b] = [at |-> "asked", saw |-> 0]] /\ used' = used /\ granted' = granted
    BY DEF SwapCall, Unmoved, Decide, Idle
  <1>2. BashOnly
    BY <1>0, <1>1 DEF SwapCall, BashOnly, BashType
  <1>3. QuotaCounted'
    BY <1>0, <1>1 DEF SwapCall, Inv, QuotaCounted, BashType
  <1> QED
    BY <1>2, <1>3, QuotaStep

(* A summary is accepted when it answers the last message and fits all the  *)
(* findings of a file that can be read.                                     *)
LEMMA CheckSummaryInv == ASSUME Inv, CheckSummary PROVE Inv'
  <1>0. Types /\ Read = file.found /\ (Readable <=> ~file.torn)
    BY TypesOK, ReadBack DEF Inv
  <1>1. item = NoItem /\ item' = NoItem /\ Waiting = {} /\ Waiting' = {} /\ mine' = mine
    BY DEF Inv, ItemInTurn, CheckSummary, Waiting, NoItem
  <1>2. ~observerErr => mine \subseteq file.found
    BY <1>1 DEF Inv, NoneMissing, CheckSummary
  <1>3. file' \in FileType /\ file'.found = file.found
    <2>1. CASE file' = file
      BY <2>1, <1>0 DEF Types
    <2>2. CASE text.kind \in {"clean", "issues"} /\ file' = Appended(WithSummary(text.kind))
      BY <2>2, <1>0, WholeAppend DEF Types, Appended
    <2>3. CASE text.kind \in {"clean", "issues"} /\ file' \in Cut(WithSummary(text.kind))
      BY <2>3, <1>0, WholeAppend, CutAppend DEF Types
    <2>4. Accepted(text) => text.kind \in {"clean", "issues"}
      BY DEF Accepted
    <2> QED
      BY <2>1, <2>2, <2>3, <2>4 DEF CheckSummary
  <1>4. TypeOK'
    <2>1. session' \in SessionType /\ file' \in FileType /\ bash' \in BashType /\ ItemType'
      BY <1>0, <1>1, <1>3 DEF Types, CheckSummary, ItemType
    <2>2. Control'
      BY <1>0, NoTextType DEF Types, CheckSummary, Taken, Control
    <2>3. Counters'
      <3>1. mishaps' = mishaps \/ (mishaps > 0 /\ mishaps' = mishaps - 1)
        BY DEF CheckSummary, Mishap
      <3>2. attempt' = attempt \/ (attempt # MaxCorrections /\ attempt' = attempt + 1)
        BY DEF CheckSummary, Exhausted, NextAttempt
      <3>3. answered' = answered \/ answered' = text.answers
        BY DEF CheckSummary
      <3>4. text.answers \in 0 .. MaxCorrections
        BY <1>0 DEF Types, Control, Text
      <3>5. used' = used /\ granted' = granted /\ runs' = runs /\ responses' = responses
        BY DEF CheckSummary
      <3> QED
        BY <1>0, <3>1, <3>2, <3>3, <3>4, <3>5, Bounds DEF Types, Counters
    <2> QED
      BY <2>1, <2>2, <2>3, TypesPrimed DEF Types
  <1>5. ItemType' /\ ItemInTurn'
    BY <1>1 DEF ItemType, ItemInTurn
  <1>6. OutcomeInTime'
    BY DEF Inv, OutcomeInTime, CheckSummary
  <1>7. TextCurrent'
    BY NoTextType DEF TextCurrent, CheckSummary, Taken
  <1>8. NoneMissing'
    BY <1>1, <1>2, <1>3 DEF NoneMissing, CheckSummary
  <1>9. AtMostOneLost'
    BY DEF AtMostOneLost, CheckSummary
  <1>10. AcceptedLast'
    <2>1. SUFFICES ASSUME outcome' = "ok" PROVE AcceptedLast'
      BY DEF AcceptedLast
    <2>2. Accepted(text) /\ ~file.torn /\ answered' = text.answers /\ attempt' = attempt
          /\ file' = WithSummary(text.kind) /\ pc' = "return" /\ observerErr' = observerErr
      BY <1>0, <2>1 DEF CheckSummary, Appended, Inv, OutcomeInTime
    <2>3. text.kind = Verdict(file.found) /\ text.kind \in {"clean", "issues"}
      BY <1>0, <2>2 DEF Accepted, Verdict
    <2>4. text.answers = attempt
      BY <2>3 DEF Inv, TextCurrent
    <2>5. file'.summary = text.kind /\ file'.torn = file.torn
      BY <1>0, <2>2, <2>3, WholeAppend DEF Types
    <2> QED
      BY <1>1, <1>2, <1>3, <2>2, <2>3, <2>4, <2>5 DEF AcceptedLast
  <1>11. QuotaCounted'
    BY DEF Inv, CheckSummary, QuotaCounted
  <1> QED
    BY <1>4, <1>5, <1>6, <1>7, <1>8, <1>9, <1>10, <1>11 DEF Inv

(* An observer error overrides what the coordinator returned.               *)
LEMMA ReturnInv == ASSUME Inv, Return PROVE Inv'
  <1>0. Types
    BY TypesOK DEF Inv
  <1>1. outcome' \in {"ok", "failed"} /\ (outcome' = "ok" => ~observerErr /\ outcome = "ok")
    BY DEF Inv, Return, Overridden, OutcomeInTime
  <1>2. TypeOK'
    <2>1. session' \in SessionType /\ file' \in FileType /\ bash' \in BashType /\ ItemType'
      BY <1>0 DEF Types, Return, ItemType
    <2>2. Control'
      BY <1>0, <1>1 DEF Types, Return, Control
    <2>3. Counters'
      BY <1>0 DEF Types, Return, Counters
    <2> QED
      BY <2>1, <2>2, <2>3, TypesPrimed DEF Types
  <1>3. ItemType' /\ ItemInTurn' /\ OutcomeInTime' /\ TextCurrent'
    BY DEF Inv, Return, ItemType, ItemInTurn, OutcomeInTime, TextCurrent
  <1>4. NoneMissing' /\ AtMostOneLost' /\ AcceptedLast'
    BY <1>1 DEF Inv, Return, NoneMissing, AtMostOneLost, AcceptedLast
  <1>5. QuotaCounted'
    BY DEF Inv, Return, QuotaCounted
  <1> QED
    BY <1>2, <1>3, <1>4, <1>5 DEF Inv

(* A kill drops what waited, and may cut what was being appended.           *)
LEMMA KillInv == ASSUME Inv, Kill PROVE Inv'
  <1>0. Types
    BY TypesOK DEF Inv
  <1>1. file' \in FileType /\ file.found \subseteq file'.found
    <2>1. CASE item.kind = "finding"
      <3>1. item.finding \in Finding
        BY <1>0, <2>1 DEF Types, ItemType, NoItem
      <3>2. /\ WithFinding(item.finding) \in FileType
            /\ file.found \subseteq WithFinding(item.finding).found
        BY <1>0, <3>1, WholeAppend DEF Types
      <3> QED
        BY <1>0, <2>1, <3>2, CutAppend DEF Kill, Types
    <2>2. CASE item.kind # "finding"
      BY <1>0, <2>2 DEF Kill, Types
    <2> QED
      BY <2>1, <2>2
  <1>2. TypeOK'
    <2>1. session' \in SessionType /\ file' \in FileType /\ bash' \in BashType /\ ItemType'
      BY <1>0, <1>1 DEF Types, Kill, ItemType
    <2>2. Control'
      BY <1>0 DEF Types, Kill, Control
    <2>3. Counters'
      BY <1>0 DEF Types, Kill, Mishap, Counters
    <2> QED
      BY <2>1, <2>2, <2>3, TypesPrimed DEF Types
  <1>3. ItemType' /\ ItemInTurn' /\ OutcomeInTime' /\ TextCurrent' /\ NoneMissing' /\ AcceptedLast'
    BY DEF Inv, Kill, ItemType, ItemInTurn, OutcomeInTime, TextCurrent, NoneMissing, AcceptedLast
  <1>4. AtMostOneLost'
    BY <1>1 DEF Inv, Kill, NoneMissing, Waiting, AtMostOneLost
  <1>5. QuotaCounted'
    BY DEF Inv, Kill, QuotaCounted
  <1> QED
    BY <1>2, <1>3, <1>4, <1>5 DEF Inv

LEMMA CancelInv == ASSUME Inv, Cancel PROVE Inv'
  <1>0. Types
    BY TypesOK DEF Inv
  <1>1. TypeOK'
    <2>1. session' \in SessionType /\ file' \in FileType /\ bash' \in BashType /\ ItemType'
      BY <1>0 DEF Types, Cancel, ItemType
    <2>2. Control'
      BY <1>0 DEF Types, Cancel, Control
    <2>3. Counters'
      BY <1>0 DEF Types, Cancel, Mishap, Counters
    <2> QED
      BY <2>1, <2>2, <2>3, TypesPrimed DEF Types
  <1>2. ItemType' /\ ItemInTurn' /\ OutcomeInTime' /\ TextCurrent'
    BY DEF Inv, Cancel, ItemType, ItemInTurn, OutcomeInTime, TextCurrent
  <1>3. NoneMissing' /\ AtMostOneLost' /\ AcceptedLast' /\ QuotaCounted'
    BY DEF Inv, Cancel, NoneMissing, Waiting, AtMostOneLost, AcceptedLast, QuotaCounted
  <1> QED
    BY <1>1, <1>2, <1>3 DEF Inv

LEMMA StutterInv == ASSUME Inv, UNCHANGED vars PROVE Inv'
  <1>0. TypeOK'
    BY DEF Inv, TypeOK
  <1>1. ItemType' /\ ItemInTurn' /\ OutcomeInTime' /\ TextCurrent'
    BY DEF Inv, ItemType, ItemInTurn, OutcomeInTime, TextCurrent
  <1>2. NoneMissing' /\ AtMostOneLost' /\ AcceptedLast' /\ QuotaCounted'
    BY DEF Inv, NoneMissing, Waiting, AtMostOneLost, AcceptedLast, QuotaCounted
  <1> QED
    BY <1>0, <1>1, <1>2 DEF Inv

-----------------------------------------------------------------------------
(* Theorems.                                                               *)

(* Every step of the session, its observer, its tools, a kill or a          *)
(* cancellation keeps the invariant (agent.Run, observer.go, registry.go).  *)
THEOREM SessionInvariant == Spec => []Inv
  <1>1. ASSUME Inv, [Next]_vars PROVE Inv'
    <2>1. CASE Run
      BY <1>1, <2>1, RunInv
    <2>2. CASE OpenTurn \/ Refuse \/ TurnFails \/ EndTurn
      BY <1>1, <2>2, OpenInv
    <2>3. CASE Respond
      BY <1>1, <2>3, RespondInv
    <2>4. CASE \E a \in session.asked : RecordFinding(a)
      BY <1>1, <2>4, RecordInv
    <2>5. CASE ObserveResponse
      BY <1>1, <2>5, ObserveResponseInv
    <2>6. CASE ObserveFinding
      BY <1>1, <2>6, ObserveFindingInv
    <2>7. CASE \E b \in Slot : TakeCall(b) \/ SwapCall(b)
      BY <1>1, <2>7, TakeCallInv, SwapCallInv
    <2>8. CASE CheckSummary
      BY <1>1, <2>8, CheckSummaryInv
    <2>9. CASE Return
      BY <1>1, <2>9, ReturnInv
    <2>10. CASE Kill
      BY <1>1, <2>10, KillInv
    <2>11. CASE Cancel
      BY <1>1, <2>11, CancelInv
    <2>12. CASE UNCHANGED vars \/ Finished
      BY <1>1, <2>12, StutterInv DEF Finished
    <2> HIDE DEF vars, tools
    <2> QED
      BY <1>1, <2>1, <2>2, <2>3, <2>4, <2>5, <2>6, <2>7, <2>8, <2>9, <2>10, <2>11, <2>12
         DEF Next, Progress
  <1> QED
    BY <1>1, InitInv, PTL DEF Spec

(* TypeOK holds for every set of arguments, slots and every bound.          *)
THEOREM SessionTypes == Spec => []TypeOK
  BY SessionInvariant, PTL DEF Inv

(* An invocation that succeeds has every finding it was told in a file it   *)
(* can read: an append that failed, or a finding ignored after it, is never *)
(* hidden by the coordinator's success (agent.go:226, observer.go).         *)
THEOREM NothingSilent == Spec => []NoSilentLoss
  <1>1. Inv => NoSilentLoss
    BY ReadBack DEF Inv, AcceptedLast, NoSilentLoss, Succeeded
  <1> QED
    BY <1>1, SessionInvariant, PTL

(* A kill loses one finding at most, also while the run is being cancelled  *)
(* (observer.go:46).                                                        *)
THEOREM OneLost == Spec => []KillLosesOne
  <1>1. ASSUME Inv, pc = "off", outcome = "killed", ~observerErr
        PROVE  Cardinality(mine \ Read) <= 1
    <2>1. \A f, g \in mine \ Read : f = g
      BY <1>1, ReadBack DEF Inv, AtMostOneLost
    <2>2. CASE mine \ Read = {}
      BY <2>2, FS_EmptySet
    <2>3. CASE mine \ Read # {}
      <3>1. PICK f : mine \ Read = {f}
        BY <2>1, <2>3
      <3> QED
        BY <3>1, FS_Singleton
    <2> QED
      BY <2>2, <2>3
  <1>2. Inv => KillLosesOne
    BY <1>1 DEF KillLosesOne
  <1> QED
    BY <1>2, SessionInvariant, PTL

(* The summary that is appended answered the last message: no text of a     *)
(* rejected turn is taken again (observer.go:121).                          *)
THEOREM LastAnswer == Spec => []SummaryIsAnswer
  <1>1. Inv => SummaryIsAnswer
    BY DEF Inv, AcceptedLast, SummaryIsAnswer, Succeeded
  <1> QED
    BY <1>1, SessionInvariant, PTL

(* A review that succeeds leaves a file whose verdict is that of all its    *)
(* findings, whatever failed before (findings.CheckSummary).                *)
THEOREM VerdictFits == Spec => []VerdictMatchesFile
  <1>1. Inv => VerdictMatchesFile
    BY ReadBack DEF Inv, AcceptedLast, Verdict, VerdictMatchesFile, Succeeded
  <1> QED
    BY <1>1, SessionInvariant, PTL

(* Any number of parallel Bash calls get exactly the quota (takeCall).      *)
THEOREM QuotaKept == Spec => []QuotaExact
  <1>1. ASSUME Inv PROVE QuotaExact
    <2>1. granted \in Nat /\ MaxCalls \in Int
      BY <1>1, TypesOK, SessionAssumption DEF Inv, Types, Counters
    <2>2. CASE MaxCalls > 0
      BY <1>1, <2>1, <2>2 DEF Inv, QuotaCounted, QuotaExact
    <2>3. CASE ~(MaxCalls > 0)
      BY <2>1, <2>3 DEF QuotaExact
    <2> QED
      BY <2>2, <2>3
  <1> QED
    BY <1>1, SessionInvariant, PTL

(* Only an append that failed or was cut damages the file: a whole one      *)
(* never does, not even after one that was cut (appendLine, findings.go).   *)
THEOREM WholeAppendsSafe == Spec => OnlyCutsDamage
  <1>1. ASSUME Inv, [Next]_vars PROVE [file'.torn /\ ~file.torn => mishaps' < mishaps]_vars
    <2>0. Types
      BY <1>1, TypesOK DEF Inv
    <2>1. SUFFICES ASSUME Next, file' # file, mishaps' # mishaps - 1
                   PROVE  file'.torn = file.torn
      <3>1. mishaps \in Nat
        BY <2>0 DEF Types, Counters
      <3> QED
        BY <1>1, <2>1, <3>1
    <2>2. CASE ObserveFinding
      <3>1. item.finding \in Finding
        BY <2>0, <2>2 DEF ObserveFinding, Types, ItemType, NoItem
      <3>2. file' = WithFinding(item.finding)
        BY <2>1, <2>2 DEF ObserveFinding, Appended, Mishap
      <3> QED
        BY <2>0, <3>1, <3>2, WholeAppend DEF Types
    <2>3. CASE CheckSummary
      <3>1. text.kind \in {"clean", "issues"} /\ file' = WithSummary(text.kind)
        BY <2>1, <2>3 DEF CheckSummary, Appended, Accepted, Mishap
      <3> QED
        BY <2>0, <3>1, WholeAppend DEF Types
    <2> QED
      BY <2>1, <2>2, <2>3 DEF Next, Progress, Run, Refuse, OpenTurn, TurnFails, Respond, EndTurn,
         RecordFinding, ObserveResponse, TakeCall, SwapCall, Return, Kill, Cancel, Finished, Mishap
  <1> QED
    BY <1>1, SessionInvariant, PTL DEF Spec, OnlyCutsDamage
=============================================================================
