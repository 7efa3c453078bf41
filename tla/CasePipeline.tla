----------------------------- MODULE CasePipeline ------------------------------
(***************************************************************************)
(* One record on its way through the worker (process_record and            *)
(* _judge_case in worker.py): classification, the deduplication gate, the  *)
(* judge, the row and the alert.  The worker is one coroutine: a case is   *)
(* finished, its alert included, before the next one meets the gate.       *)
(*                                                                         *)
(* The gate's actions are those of CostGate.  The detector's verdict and   *)
(* the judge's reply are inputs: any sequence of them is possible.         *)
(***************************************************************************)
EXTENDS CostGate, Sequences

CONSTANTS Record,     \* what the source may deliver
          MaxReceived \* bound: cases received

(* safety.CATEGORY_SEVERITY, and the order of safety._PATTERNS.  A finding of
   category c is a case of failure mode "safety:c", written c here. *)
CategorySeverity == [prompt_injection |-> "critical", self_harm |-> "critical",
                     abusive_language |-> "high", pii_leak |-> "high"]
CategoryOrder == <<"prompt_injection", "self_harm", "abusive_language", "pii_leak">>

Healthy == "healthy"

(* classify_failure: what upstream says wins, then the first sign in this order.
   "retrieval" stands for an empty list of documents or a marker in the text. *)
ClassifyFailure(r) ==
    IF r.error_type # Healthy       THEN r.error_type            ELSE
    IF "retrieval" \in r.signs      THEN "retrieval_failure"     ELSE
    IF "repetition" \in r.signs     THEN "non_terminating_loop"  ELSE
    IF "unterminated" \in r.signs   THEN "truncated_output"      ELSE Healthy

(* The failure comes first, then one finding per category. *)
Modes(r) ==
    SelectSeq(<<ClassifyFailure(r)>>, LAMBDA m : m # Healthy)
    \o SelectSeq(CategoryOrder, LAMBDA c : c \in r.categories)

(* The gate text of a case is its failure mode and the response: neither the
   tenant nor the prompt. *)
Cases == [r \in Record |-> [i \in DOMAIN Modes(r) |-> <<Modes(r)[i], r.response>>]]

ASSUME RecordAssumption == Cases \in [Record -> Seq(Text)]

Forced(x) ==
    IF x[1] \in DOMAIN CategorySeverity THEN CategorySeverity[x[1]] ELSE "none"

VARIABLES
    stage,       \* of the case at the head of todo: at the gate, at the judge,
                 \*   or waiting for the webhook
    todo,        \* cases of the record in hand
    anomalous,   \* the detector's verdict on the record in hand
    rows,        \* ResultsSink: what was judged
    calls,       \* BaseJudge.calls
    suppressed,  \* SemanticDeduplicator.suppressed
    sent,        \* history: rows whose alert was posted, in order,
    received     \*   and the number of cases taken from records

pipeVars == <<stage, todo, anomalous, rows, calls, suppressed, sent, received>>
allVars == <<vars, pipeVars>>

Row == [n : Nat \ {0}, severity : {"none", "high", "critical"}]

PipelineTypeOK ==
    /\ TypeOK
    /\ stage \in {"gate", "judge", "alert"}
    /\ todo \in Seq(Text)
    /\ anomalous \in BOOLEAN
    /\ rows \subseteq Row
    /\ calls \in Nat /\ suppressed \in Nat /\ received \in Nat
    /\ sent \in Seq(Nat)

PipelineInit ==
    /\ Init
    /\ stage = "gate" /\ todo = <<>> /\ anomalous = FALSE
    /\ rows = {} /\ sent = <<>>
    /\ calls = 0 /\ suppressed = 0 /\ received = 0

------------------------------------------------------------------------------

(* process_record: every record is observed by the detector; a healthy one
   without findings has no case. *)
Receive(r) ==
    /\ todo = <<>>
    /\ received + Len(Cases[r]) <= MaxReceived
    /\ todo' = Cases[r]
    /\ anomalous' \in BOOLEAN
    /\ received' = received + Len(Cases[r])
    /\ UNCHANGED <<vars, stage, rows, calls, suppressed, sent>>

(* Mutated form: a duplicate ends the record, not the case. *)
RemainingNone == <<>>

Remaining == Tail(todo)

(* A duplicate is counted and dropped before the judge. *)
Suppress ==
    /\ stage = "gate" /\ todo # <<>>
    /\ Drop(Head(todo))
    /\ suppressed' = suppressed + 1
    /\ todo' = Remaining
    /\ UNCHANGED <<stage, anomalous, rows, calls, sent, received>>

(* A novel case is in the gate's memory before the judge is asked. *)
Admit ==
    /\ stage = "gate" /\ todo # <<>>
    /\ Judge(Head(todo))
    /\ stage' = "judge"
    /\ UNCHANGED <<todo, anomalous, rows, calls, suppressed, sent, received>>

(* What _invoke brings: a number, or nothing that can be had or read. *)
Reply == {[read |-> FALSE, score |-> 0]}
         \cup [read : {TRUE}, score : {-5, 69, 70, 140}]

SevereThreshold == 70
Fallback == 50

(* BaseJudge.score: an exception of the request or the parser becomes the
   fallback verdict, and a number is clamped to 0 .. 100. *)
JudgedScore(reply) ==
    IF ~reply.read THEN Fallback ELSE
    IF reply.score < 0 THEN 0 ELSE IF reply.score > 100 THEN 100 ELSE reply.score

Severe(reply) == JudgedScore(reply) >= SevereThreshold

Severity(x, reply) ==
    IF Forced(x) = "critical" \/ anomalous THEN "critical" ELSE
    IF Severe(reply) \/ Forced(x) = "high" THEN "high" ELSE "none"

(* Mutated form: the exception of a judge that is not there ends the case. *)
WrittenIfScored(reply) ==
    IF ~reply.read THEN {}
    ELSE {[n |-> admitted, severity |-> Severity(Head(todo), reply)]}

(* results.write comes before the alert. *)
Written(reply) == {[n |-> admitted, severity |-> Severity(Head(todo), reply)]}

Score(reply) ==
    /\ stage = "judge"
    /\ calls' = calls + 1
    /\ rows' = rows \cup Written(reply)
    /\ IF Severity(Head(todo), reply) = "none"
       THEN stage' = "gate" /\ todo' = Tail(todo)
       ELSE stage' = "alert" /\ todo' = todo
    /\ UNCHANGED <<vars, anomalous, suppressed, sent, received>>

(* Mutated form: a post that failed is repeated. *)
SendUntilTaken ==
    /\ stage = "alert"
    /\ \/ stage' = "gate" /\ todo' = Tail(todo)
       \/ stage' = "alert" /\ todo' = todo /\ Len(sent) < MaxCases
    /\ sent' = Append(sent, admitted)
    /\ UNCHANGED <<vars, anomalous, rows, calls, suppressed, received>>

(* AlertClient.send posts once and never raises; whether the engine took the
   alert changes nothing. *)
Send ==
    /\ stage = "alert"
    /\ stage' = "gate" /\ todo' = Tail(todo)
    /\ sent' = Append(sent, admitted)
    /\ UNCHANGED <<vars, anomalous, rows, calls, suppressed, received>>

(* The judge and the webhook take time. *)
Wait == Tick /\ UNCHANGED pipeVars

PipelineNext ==
    \/ \E r \in Record : Receive(r)
    \/ Suppress
    \/ Admit
    \/ \E reply \in Reply : Score(reply)
    \/ Send
    \/ Wait

PipelineSpec == PipelineInit /\ [][PipelineNext]_allVars

------------------------------------------------------------------------------

Sent == {sent[i] : i \in DOMAIN sent}

(* Whatever the gate drops, a near case of the last TTL has a verdict in the
   sink, given by the judge or in its place, and if that verdict called for an
   alert the alert has been posted.  The gate remembers a case before it is
   judged, so this rests on the judge never raising and on the send being
   awaited. *)
DroppedHasVerdict ==
    \A d \in dropped : \E j \in judged :
        /\ <<d.text, j.text>> \in Near
        /\ j.time <= d.time /\ d.time <= j.time + TTL
        /\ \E r \in rows : r.n = j.n /\ (r.severity # "none" => r.n \in Sent)

(* What sweep_summary reports adds up: every case ever extracted is in hand, or
   was suppressed, or cost one call of the judge and left one row. *)
CasesAccounted ==
    /\ {r.n : r \in rows} = 1 .. calls
    /\ received = suppressed + calls + Len(todo) - (IF stage = "alert" THEN 1 ELSE 0)

(* One alert for each row marked alerted, in order, and none for another. *)
AlertedOnce ==
    /\ \A i, j \in DOMAIN sent : i < j => sent[i] < sent[j]
    /\ Sent = {r.n : r \in {q \in rows : q.severity # "none"}}
              \ (IF stage = "alert" THEN {admitted} ELSE {})

(* Critical categories force critical severity regardless of the judge's score
   or the window state (REQ-SAFE-4), so a case of one is dropped only as the
   duplicate of one that was critical. *)
CriticalIsEscalated ==
    \A d \in dropped : Forced(d.text) = "critical" =>
        \E j \in judged :
            /\ <<d.text, j.text>> \in Near
            /\ [n |-> j.n, severity |-> "critical"] \in rows
===============================================================================
