---------------------------- MODULE CaseContract ----------------------------
(***************************************************************************)
(* What the archive promises about a GDPR case, with one atomic step per   *)
(* fact: no instances, no reads that grow stale, no tables.                *)
(*                                                                         *)
(* A case is opened as a draft, at most once submitted with a payload that *)
(* no other case was submitted with, at most once extended, and closed for *)
(* good. The date the controller must answer by is fixed by the submission *)
(* and moves only forward, only by the extension. Answers are recorded     *)
(* while the case waits for one, and nothing is ever taken back.           *)
(***************************************************************************)
EXTENDS Integers

CONSTANTS CaseIds, Requests, AnswerIds, Dates, Null

VARIABLES
  phase,       \* the status of a case
  submission,  \* the payload and receipt date of a submitted case
  extended,    \* an extension was recorded
  due,         \* the date the controller must answer by
  answers      \* the recorded answers: id and date

vars == <<phase, submission, extended, due, answers>>

Submitted(c) == submission[c] # Null

(* Older archives hold cases in any phase, some submitted without a payload. *)
Init ==
  /\ phase \in [CaseIds -> {"ABSENT", "DRAFT", "AWAITING_RESPONSE", "COMPLETED", "CANCELLED"}]
  /\ submission \in [CaseIds -> [request : {0}, received_on : Dates] \cup {Null}]
  /\ due \in [CaseIds -> Dates \cup {Null}]
  /\ \A c \in CaseIds :
       IF Submitted(c)
       THEN phase[c] \notin {"ABSENT", "DRAFT"} /\ due[c] > submission[c].received_on
       ELSE due[c] = Null
  /\ extended = [c \in CaseIds |-> FALSE]
  /\ answers = [c \in CaseIds |-> {}]

Open(c) ==
  /\ phase[c] = "ABSENT"
  /\ phase' = [phase EXCEPT ![c] = "DRAFT"]
  /\ UNCHANGED <<submission, extended, due, answers>>

Submit(c, request, received_on, last_day) ==
  /\ phase[c] = "DRAFT" /\ ~Submitted(c)
  /\ \A other \in CaseIds : Submitted(other) => submission[other].request # request
  /\ last_day > received_on
  /\ phase' = [phase EXCEPT ![c] = "AWAITING_RESPONSE"]
  /\ submission' = [submission EXCEPT ![c] = [request |-> request, received_on |-> received_on]]
  /\ due' = [due EXCEPT ![c] = last_day]
  /\ UNCHANGED <<extended, answers>>

Extend(c, last_day) ==
  /\ phase[c] = "AWAITING_RESPONSE" /\ Submitted(c) /\ ~extended[c]
  /\ last_day >= due[c]
  /\ extended' = [extended EXCEPT ![c] = TRUE]
  /\ due' = [due EXCEPT ![c] = last_day]
  /\ UNCHANGED <<phase, submission, answers>>

Answer(c, id, received_on) ==
  /\ phase[c] = "AWAITING_RESPONSE" /\ Submitted(c)
  /\ received_on >= submission[c].received_on
  /\ \A other \in CaseIds, a \in Dates : <<id, a>> \notin answers[other]
  /\ answers' = [answers EXCEPT ![c] = @ \cup {<<id, received_on>>}]
  /\ UNCHANGED <<phase, submission, extended, due>>

Close(c, last_phase) ==
  /\ \/ phase[c] = "DRAFT" /\ last_phase = "CANCELLED"
     \/ phase[c] = "AWAITING_RESPONSE" /\ last_phase \in {"COMPLETED", "CANCELLED"}
  /\ phase' = [phase EXCEPT ![c] = last_phase]
  /\ UNCHANGED <<submission, extended, due, answers>>

Next ==
  \E c \in CaseIds :
    \/ Open(c)
    \/ \E request \in Requests, d, last_day \in Dates : Submit(c, request, d, last_day)
    \/ \E last_day \in Dates : Extend(c, last_day)
    \/ \E id \in AnswerIds, d \in Dates : Answer(c, id, d)
    \/ \E last_phase \in {"COMPLETED", "CANCELLED"} : Close(c, last_phase)

Spec == Init /\ [][Next]_vars

=============================================================================
