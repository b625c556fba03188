--------------------------- MODULE CaseLifecycle ---------------------------
(***************************************************************************)
(* The GDPR Case: CaseService, RequestApprovalService and                  *)
(* ResponseIntakeService over the repositories that persist a case.        *)
(*                                                                         *)
(* Every operation of these services reads rows on one SQLite connection,  *)
(* decides in Python, and writes on another connection in one transaction  *)
(* that re-checks some of what was read in the WHERE clause of its first   *)
(* statement. Nothing stops two instances of the application from opening  *)
(* the same archive, so between the read and the write of one instance any *)
(* operation of another may commit. An operation is therefore a Begin step *)
(* that leaves what was read (and may by now be stale) in ops[i], and a    *)
(* Commit step that is the whole transaction. Abandon is every way an      *)
(* operation ends without a commit: a WHERE clause that matches no row, a  *)
(* constraint that aborts, a lock that times out, the end of the process.  *)
(***************************************************************************)
EXTENDS Integers, Sequences

CONSTANTS
  Instances,          \* running copies of the application on one archive
  CaseIds,            \* row ids of the table cases
  LegacyIds,          \* the cases an older version of the program wrote
  Contactable,        \* the cases whose target has a privacy e-mail
  Rights,             \* the rights a user picks for new cases
  Grounds,            \* the Article 17 grounds a user picks
  Days,               \* dates, as day numbers
  Calendars,          \* jurisdiction codes, and WeekendOnly
  CompleteCalendars,  \* those whose calendar claims to be complete
  WeekendOnly,        \* the pre-M16 calculation without a calendar
  InitialDue,         \* DeadlineEngine: code, receipt date -> one month on
  ExtendedDue,        \*                                    -> three months on
  MaxApproved,        \* bound on approved_outbound_requests
  MaxResponses,       \* bound on case_responses
  Null                \* SQL NULL, Python None

CaseRight == {"UNSPECIFIED", "ACCESS_PROVENANCE", "ERASURE", "DIRECT_MARKETING_OBJECTION"}

ErasureGround ==
  {"NO_LONGER_NECESSARY", "CONSENT_WITHDRAWN", "OBJECTION", "UNLAWFUL_PROCESSING",
   "LEGAL_OBLIGATION", "CHILD_INFORMATION_SOCIETY_SERVICES"}

(* The values the CHECK of approved_outbound_requests.erasure_ground takes. *)
StorableGround ==
  {"NO_LONGER_NECESSARY", "WITHDRAWN_CONSENT", "OBJECTION_NO_OVERRIDE",
   "UNLAWFUL_PROCESSING", "LEGAL_OBLIGATION", "CHILD_INFORMATION_SOCIETY"}

CaseStatus == {"DRAFT", "AWAITING_RESPONSE", "COMPLETED", "CANCELLED"}

AllowedTransitions ==
  [DRAFT             |-> {"AWAITING_RESPONSE", "CANCELLED"},
   AWAITING_RESPONSE |-> {"COMPLETED", "CANCELLED"},
   COMPLETED         |-> {},
   CANCELLED         |-> {}]

Snapshot == [code : Calendars, initial : Nat, extended : Nat, complete : BOOLEAN]

ASSUME ConstantsAssumption ==
  /\ LegacyIds \subseteq CaseIds
  /\ Contactable \subseteq CaseIds
  /\ Rights \subseteq CaseRight \ {"UNSPECIFIED"}
  /\ Grounds \subseteq ErasureGround
  /\ Days \subseteq Nat
  /\ WeekendOnly \in Calendars \ CompleteCalendars
  /\ InitialDue \in [Calendars -> [Days -> Nat]]
  /\ ExtendedDue \in [Calendars -> [Days -> Nat]]
  /\ MaxApproved \in Nat /\ MaxResponses \in Nat

ASSUME NullAssumption ==
  /\ Null \notin Nat
  /\ Null \notin Snapshot
  /\ Null \notin [request : Nat, received_on : Days]
  /\ Null \notin CaseStatus \cup ErasureGround

(* A month is never empty, and the extended period ends after the initial one. *)
ASSUME DeadlineAssumption ==
  \A code \in Calendars, d \in Days :
    /\ d < InitialDue[code][d]
    /\ InitialDue[code][d] =< ExtendedDue[code][d]

VARIABLES
  cases,      \* table cases: id -> row; status "ABSENT" is an id not yet used
  timeline,   \* table case_events, per case in id order
  approved,   \* table approved_outbound_requests, in id order
  bindings,   \* table case_submission_bindings: case -> approved id, 0 for none
  responses,  \* table case_responses, in id order
  named,      \* the identity has a display name
  ops         \* what each instance's GUI thread is in the middle of

vars == <<cases, timeline, approved, bindings, responses, named, ops>>

-----------------------------------------------------------------------------
(* Rows, deadlines *)

Row == [status : CaseStatus \cup {"ABSENT"}, right : CaseRight,
        received_on : Days \cup {Null}, extension_notified_on : Days \cup {Null},
        snapshot : Snapshot \cup {Null}]

Event == [type : {"CREATED", "STATUS_CHANGED", "REQUEST_SUBMITTED", "EXTENSION_RECORDED"},
          from : CaseStatus \cup {Null}, to : CaseStatus]

Payload == [case_id : CaseIds, legal_basis : CaseRight \ {"UNSPECIFIED"},
            erasure_ground : ErasureGround \cup {Null}]

Response == [case_id : CaseIds, received_on : Days]

(* Mutant: the status a version 2 archive used. *)
NewRowOpen(right) ==
  [status |-> "OPEN", right |-> right, received_on |-> Null,
   extension_notified_on |-> Null, snapshot |-> Null]

NewRow(right) ==
  [status |-> "DRAFT", right |-> right, received_on |-> Null,
   extension_notified_on |-> Null, snapshot |-> Null]

AbsentRow == [NewRow("UNSPECIFIED") EXCEPT !.status = "ABSENT"]

NewEvent(type, from, to) == [type |-> type, from |-> from, to |-> to]

ScheduleFor(code, d) ==
  [code |-> code, initial |-> InitialDue[code][d], extended |-> ExtendedDue[code][d],
   complete |-> code \in CompleteCalendars]

(* CaseService.deadline_for: the snapshot, or the recomputation for rows that
   were submitted before there were snapshots. *)
DeadlineFor(row) ==
  IF row.snapshot # Null THEN row.snapshot ELSE ScheduleFor(WeekendOnly, row.received_on)

Assess(notified_on, schedule) ==
  IF notified_on =< schedule.initial THEN "TIMELY"
  ELSE IF ~schedule.complete THEN "REVIEW_REQUIRED"
  ELSE "LATE"

EffectiveDeadline(row) ==
  LET schedule == DeadlineFor(row)
      timely   == /\ row.extension_notified_on # Null
                  /\ Assess(row.extension_notified_on, schedule) = "TIMELY"
  IN  IF row.received_on = Null THEN Null
      ELSE IF timely THEN schedule.extended ELSE schedule.initial

-----------------------------------------------------------------------------
(* What an instance is in the middle of: the arguments of the call and what
   its reads returned. *)

Idle == [op |-> "idle"]

ComposeOp    == [op : {"compose"}, case_id : CaseIds, erasure_ground : ErasureGround \cup {Null}]
ApproveOp    == [op : {"approve"}, payload : Payload]
SubmitOp     == [op : {"submit"}, case_id : CaseIds, expected : CaseStatus,
                 approved_request_id : Nat, received_on : Days, snapshot : Snapshot]
ExtensionOp  == [op : {"record_extension"}, case_id : CaseIds, notified_on : Days]
TransitionOp == [op : {"transition"}, case_id : CaseIds, expected : CaseStatus, target : CaseStatus]
ResponseOp   == [op : {"record_response"}, response : Response]

Op == {Idle} \cup ComposeOp \cup ApproveOp \cup SubmitOp
             \cup ExtensionOp \cup TransitionOp \cup ResponseOp

Start(i, op) ==
  /\ ops[i] = Idle
  /\ ops' = [ops EXCEPT ![i] = op]
  /\ UNCHANGED <<cases, timeline, approved, bindings, responses, named>>

Finish(i) == ops' = [ops EXCEPT ![i] = Idle]

(* The transaction's INSERT INTO case_events. *)
Log(c, event) == timeline' = [timeline EXCEPT ![c] = Append(timeline[c], event)]

Found(c) == cases[c].status # "ABSENT"

-----------------------------------------------------------------------------
(* Cases an older version left: migrated from schema 2 without a right or a
   receipt date, or submitted before M16 (no snapshot) or M20 (no binding). *)

LegacyRows ==
  [status : CaseStatus, right : {"UNSPECIFIED"}, received_on : {Null},
   extension_notified_on : {Null}, snapshot : {Null}]
  \cup
  [status : {"DRAFT", "CANCELLED"}, right : Rights, received_on : {Null},
   extension_notified_on : {Null}, snapshot : {Null}]
  \cup
  UNION {[status : CaseStatus \ {"DRAFT"}, right : Rights, received_on : {d},
          extension_notified_on : {Null},
          snapshot : {Null} \cup {ScheduleFor(code, d) : code \in Calendars \ {WeekendOnly}}]
         : d \in Days}

LegacyTimeline(row) ==
  LET created   == <<NewEvent("CREATED", Null, "DRAFT")>>
      type      == IF row.received_on = Null THEN "STATUS_CHANGED" ELSE "REQUEST_SUBMITTED"
      submitted == Append(created, NewEvent(type, "DRAFT", "AWAITING_RESPONSE"))
      direct    == row.status = "CANCELLED" /\ row.received_on = Null
  IN  IF row.status = "DRAFT" THEN created
      ELSE IF row.status = "AWAITING_RESPONSE" THEN submitted
      ELSE IF direct THEN Append(created, NewEvent("STATUS_CHANGED", "DRAFT", row.status))
      ELSE Append(submitted, NewEvent("STATUS_CHANGED", "AWAITING_RESPONSE", row.status))

Init ==
  /\ cases \in [CaseIds -> LegacyRows \cup {AbsentRow}]
  /\ \A c \in CaseIds : (cases[c] # AbsentRow) <=> (c \in LegacyIds)
  /\ timeline = [c \in CaseIds |-> IF c \in LegacyIds THEN LegacyTimeline(cases[c]) ELSE <<>>]
  /\ approved = <<>>
  /\ bindings = [c \in CaseIds |-> 0]
  /\ responses = <<>>
  /\ named \in BOOLEAN
  /\ ops = [i \in Instances |-> Idle]

-----------------------------------------------------------------------------
(* CaseService.create_case: what it reads first (target, identity) never
   changes, so it is one step. *)
CreateCase(i, c, right) ==
  /\ ops[i] = Idle
  /\ ~Found(c)
  /\ cases' = [cases EXCEPT ![c] = NewRow(right)]
  /\ timeline' = [timeline EXCEPT ![c] = <<NewEvent("CREATED", Null, "DRAFT")>>]
  /\ UNCHANGED <<approved, bindings, responses, named, ops>>

(* IdentityService.set_display_name, to a name or to None. *)
SetDisplayName(i) ==
  /\ ops[i] = Idle
  /\ named' = ~named
  /\ UNCHANGED <<cases, timeline, approved, bindings, responses, ops>>

-----------------------------------------------------------------------------
(* RequestApprovalService.approve reads the status, then composes the request
   from identity and target, then inserts. *)
BeginApprove(i, c, ground) ==
  /\ cases[c].status = "DRAFT"
  /\ Start(i, [op |-> "compose", case_id |-> c, erasure_ground |-> ground])

(* RequestComposer.compose: an erasure needs a ground, nothing else has one. *)
Composable(right, ground) ==
  /\ right # "UNSPECIFIED"
  /\ (right = "ERASURE") <=> (ground # Null)

Compose(i) ==
  LET op  == ops[i]
      row == cases[op.case_id]
  IN  /\ op.op = "compose"
      /\ named
      /\ Composable(row.right, op.erasure_ground)
      /\ op.case_id \in Contactable
      /\ ops' = [ops EXCEPT ![i] =
           [op |-> "approve",
            payload |-> [case_id |-> op.case_id, legal_basis |-> row.right,
                         erasure_ground |-> op.erasure_ground]]]
      /\ UNCHANGED <<cases, timeline, approved, bindings, responses, named>>

CommitApprove(i) ==
  LET payload == ops[i].payload
  IN  /\ ops[i].op = "approve"
      /\ Len(approved) < MaxApproved
      /\ payload.erasure_ground \in StorableGround \cup {Null}
      /\ approved' = Append(approved, payload)
      /\ Finish(i)
      /\ UNCHANGED <<cases, timeline, bindings, responses, named>>

-----------------------------------------------------------------------------
(* CaseService.submit_case. *)
BeginSubmit(i, c, request, d, code) ==
  /\ Found(c)
  /\ cases[c].right # "UNSPECIFIED"
  /\ "AWAITING_RESPONSE" \in AllowedTransitions[cases[c].status]
  /\ Start(i, [op |-> "submit", case_id |-> c, expected |-> cases[c].status,
               approved_request_id |-> request, received_on |-> d,
               snapshot |-> ScheduleFor(code, d)])

(* Mutant: the update does not look at the status that was read. *)
SubmitMatchesAnyStatus(row, op) == row.received_on = Null

(* The WHERE clause of CaseRepository.submit's update. *)
SubmitMatches(row, op) == row.status = op.expected /\ row.received_on = Null

(* Mutant: any approved payload can be bound to the case. *)
BindableToAnyCase(op) == op.approved_request_id \in DOMAIN approved

(* The INSERT ... SELECT of the binding finds the payload, for this case. *)
Bindable(op) ==
  /\ op.approved_request_id \in DOMAIN approved
  /\ approved[op.approved_request_id].case_id = op.case_id

SubmittedRow(row, op) ==
  [row EXCEPT !.status = "AWAITING_RESPONSE", !.received_on = op.received_on,
              !.snapshot = op.snapshot]

CommitSubmit(i) ==
  LET op == ops[i]
      c  == op.case_id
  IN  /\ op.op = "submit"
      /\ SubmitMatches(cases[c], op)
      /\ cases[c].snapshot = Null            \* trigger: snapshots are immutable
      /\ Bindable(op)
      /\ \A other \in CaseIds : bindings[other] # op.approved_request_id   \* UNIQUE
      /\ bindings[c] = 0                                                   \* PRIMARY KEY
      /\ cases' = [cases EXCEPT ![c] = SubmittedRow(cases[c], op)]
      /\ bindings' = [bindings EXCEPT ![c] = op.approved_request_id]
      /\ Log(c, NewEvent("REQUEST_SUBMITTED", op.expected, "AWAITING_RESPONSE"))
      /\ Finish(i)
      /\ UNCHANGED <<approved, responses, named>>

-----------------------------------------------------------------------------
(* CaseService.record_extension. *)

(* Mutant: the notice may precede the receipt of the request. *)
ExtensionAdmissibleAtAnyTime(row, d) == Assess(d, DeadlineFor(row)) # "LATE"

ExtensionAdmissible(row, d) ==
  /\ d >= row.received_on
  /\ Assess(d, DeadlineFor(row)) # "LATE"

BeginExtension(i, c, d) ==
  /\ cases[c].status = "AWAITING_RESPONSE" /\ cases[c].received_on # Null
  /\ cases[c].extension_notified_on = Null
  /\ ExtensionAdmissible(cases[c], d)
  /\ Start(i, [op |-> "record_extension", case_id |-> c, notified_on |-> d])

(* Mutant: the update overwrites an extension recorded meanwhile. *)
ExtensionMatchesExtended(row) == row.status = "AWAITING_RESPONSE"

(* The WHERE clause of CaseRepository.record_extension. *)
ExtensionMatches(row) ==
  row.status = "AWAITING_RESPONSE" /\ row.extension_notified_on = Null

ExtendedRow(row, op) == [row EXCEPT !.extension_notified_on = op.notified_on]

CommitExtension(i) ==
  LET op == ops[i]
      c  == op.case_id
  IN  /\ op.op = "record_extension"
      /\ ExtensionMatches(cases[c])
      /\ cases' = [cases EXCEPT ![c] = ExtendedRow(cases[c], op)]
      /\ Log(c, NewEvent("EXTENSION_RECORDED", "AWAITING_RESPONSE", "AWAITING_RESPONSE"))
      /\ Finish(i)
      /\ UNCHANGED <<approved, bindings, responses, named>>

-----------------------------------------------------------------------------
(* CaseService.transition_case. *)
BeginTransition(i, c, target) ==
  /\ target # "AWAITING_RESPONSE"
  /\ Found(c)
  /\ target \in AllowedTransitions[cases[c].status]
  /\ Start(i, [op |-> "transition", case_id |-> c, expected |-> cases[c].status,
               target |-> target])

(* Mutant: the update does not compare the status with the one it read. *)
TransitionMatchesAny(row, op) == TRUE

(* The WHERE clause of CaseRepository.transition. *)
TransitionMatches(row, op) == row.status = op.expected

MovedRow(row, op) == [row EXCEPT !.status = op.target]

CommitTransition(i) ==
  LET op == ops[i]
      c  == op.case_id
  IN  /\ op.op = "transition"
      /\ TransitionMatches(cases[c], op)
      /\ cases' = [cases EXCEPT ![c] = MovedRow(cases[c], op)]
      /\ Log(c, NewEvent("STATUS_CHANGED", op.expected, op.target))
      /\ Finish(i)
      /\ UNCHANGED <<approved, bindings, responses, named>>

-----------------------------------------------------------------------------
(* ResponseIntakeService.record_response. *)
BeginResponse(i, c, d) ==
  /\ cases[c].status = "AWAITING_RESPONSE" /\ cases[c].received_on # Null
  /\ d >= cases[c].received_on
  /\ Start(i, [op |-> "record_response", response |-> [case_id |-> c, received_on |-> d]])

(* Mutant: the insert trusts the check of the service. *)
ResponseMatchesAny(row) == TRUE

(* The WHERE clause of CaseResponseRepository.create's INSERT ... SELECT. *)
ResponseMatches(row) == row.status = "AWAITING_RESPONSE"

CommitResponse(i) ==
  LET response == ops[i].response
  IN  /\ ops[i].op = "record_response"
      /\ Len(responses) < MaxResponses
      /\ ResponseMatches(cases[response.case_id])
      /\ responses' = Append(responses, response)
      /\ Finish(i)
      /\ UNCHANGED <<cases, timeline, approved, bindings, named>>

-----------------------------------------------------------------------------
Abandon(i) ==
  /\ ops[i] # Idle
  /\ Finish(i)
  /\ UNCHANGED <<cases, timeline, approved, bindings, responses, named>>

(* One step of an instance. *)
Operate(i) ==
  \/ \E c \in CaseIds, right \in Rights : CreateCase(i, c, right)
  \/ SetDisplayName(i)
  \/ \E c \in CaseIds, ground \in Grounds \cup {Null} : BeginApprove(i, c, ground)
  \/ Compose(i)
  \/ CommitApprove(i)
  \/ \E c \in CaseIds, request \in 1..MaxApproved, d \in Days, code \in Calendars \ {WeekendOnly} :
       BeginSubmit(i, c, request, d, code)
  \/ CommitSubmit(i)
  \/ \E c \in CaseIds, d \in Days : BeginExtension(i, c, d)
  \/ CommitExtension(i)
  \/ \E c \in CaseIds, target \in CaseStatus : BeginTransition(i, c, target)
  \/ CommitTransition(i)
  \/ \E c \in CaseIds, d \in Days : BeginResponse(i, c, d)
  \/ CommitResponse(i)
  \/ Abandon(i)

Next == \E i \in Instances : Operate(i)

Spec == Init /\ [][Next]_vars

-----------------------------------------------------------------------------
(* Types of the tables and of the operations in flight. *)
TypeOK ==
  /\ cases \in [CaseIds -> Row]
  /\ timeline \in [CaseIds -> Seq(Event)]
  /\ approved \in Seq(Payload)
  /\ bindings \in [CaseIds -> Nat]
  /\ responses \in Seq(Response)
  /\ named \in BOOLEAN
  /\ ops \in [Instances -> Op]

LegalEvent(e) ==
  \/ e.type = "EXTENSION_RECORDED" /\ e.from = "AWAITING_RESPONSE" /\ e.to = "AWAITING_RESPONSE"
  \/ e.type # "EXTENSION_RECORDED" /\ e.from # Null /\ e.to \in AllowedTransitions[e.from]

IsHistory(events, status) ==
  /\ events # <<>>
  /\ events[1] = NewEvent("CREATED", Null, "DRAFT")
  /\ \A k \in 2..Len(events) : LegalEvent(events[k]) /\ events[k].from = events[k - 1].to
  /\ events[Len(events)].to = status

(* The timeline of a case is the history of its status: it starts with the
   creation, every event starts where the one before it ended, every change is
   one _ALLOWED_TRANSITIONS permits, and the last one ends at the status of the
   row. The event copies the status that was read, not the one the update
   replaced, so this is what the WHERE clauses are for. *)
TimelineIsHistory ==
  \A c \in CaseIds :
    IF Found(c) THEN IsHistory(timeline[c], cases[c].status) ELSE timeline[c] = <<>>

HasOne(events, type) ==
  \E k \in DOMAIN events :
    /\ events[k].type = type
    /\ \A j \in DOMAIN events : events[j].type = type => j = k

HasNone(events, type) == \A k \in DOMAIN events : events[k].type # type

(* The row and the timeline tell the same story: a receipt date with exactly
   one REQUEST_SUBMITTED event, an extension with exactly one
   EXTENSION_RECORDED event, however many instances recorded one at once. *)
TimelineExplainsRow ==
  \A c \in CaseIds :
    /\ IF cases[c].received_on # Null
       THEN HasOne(timeline[c], "REQUEST_SUBMITTED") ELSE HasNone(timeline[c], "REQUEST_SUBMITTED")
    /\ IF cases[c].extension_notified_on # Null
       THEN HasOne(timeline[c], "EXTENSION_RECORDED") ELSE HasNone(timeline[c], "EXTENSION_RECORDED")

(* A submission is bound to a payload the user approved for that case and its
   right, to no other case's, and comes with a receipt date and a deadline
   snapshot. Only what an older version submitted has no binding. *)
SubmissionProvenance ==
  \A c \in CaseIds :
    LET row == cases[c] IN
    /\ bindings[c] # 0 =>
         /\ bindings[c] \in DOMAIN approved
         /\ approved[bindings[c]].case_id = c
         /\ approved[bindings[c]].legal_basis = row.right
         /\ (row.right = "ERASURE") <=> (approved[bindings[c]].erasure_ground # Null)
         /\ row.received_on # Null /\ row.snapshot # Null
         /\ row.status \notin {"ABSENT", "DRAFT"}
    /\ row.received_on # Null /\ bindings[c] = 0 => c \in LegacyIds
    /\ \A other \in CaseIds \ {c} : bindings[c] # 0 => bindings[other] # bindings[c]

Opened(row) == row.status \notin {"ABSENT", "DRAFT"}

ExtensionInOrder(row, d) ==
  /\ Opened(row) /\ row.received_on # Null
  /\ row.received_on =< d
  /\ Assess(d, DeadlineFor(row)) # "LATE"

ResponseInOrder(row, d) ==
  /\ Opened(row) /\ row.received_on # Null
  /\ row.received_on =< d

(* No date precedes the receipt of the request, and an extension that a
   complete calendar judges was announced within the initial period. *)
DatesInOrder ==
  /\ \A c \in CaseIds :
       cases[c].extension_notified_on # Null =>
         ExtensionInOrder(cases[c], cases[c].extension_notified_on)
  /\ \A k \in DOMAIN responses :
       ResponseInOrder(cases[responses[k].case_id], responses[k].received_on)

PayloadFits(payload, row) ==
  /\ row.status # "ABSENT"
  /\ payload.legal_basis = row.right
  /\ (row.right = "ERASURE") <=> (payload.erasure_ground # Null)

IsSchedule(snapshot, d) == snapshot = ScheduleFor(snapshot.code, d)

ReadsStillHold(op, rows) ==
  /\ op.op = "compose" => rows[op.case_id].status # "ABSENT"
  /\ op.op = "approve" => PayloadFits(op.payload, rows[op.payload.case_id])
  /\ op.op = "submit" => /\ rows[op.case_id].status # "ABSENT"
                         /\ op.expected = "DRAFT"
                         /\ IsSchedule(op.snapshot, op.received_on)
  /\ op.op = "record_extension" => ExtensionInOrder(rows[op.case_id], op.notified_on)
  /\ op.op = "transition" => op.target \in AllowedTransitions[op.expected] \ {"AWAITING_RESPONSE"}
  /\ op.op = "record_response" =>
       ResponseInOrder(rows[op.response.case_id], op.response.received_on)

(* What an operation may still rely on when it commits, however many other
   operations committed since it read: the dates and the snapshot it took from
   the row of its case, and that what it composed fits this row, but neither the
   status nor the absence of an extension, which is why the WHERE clauses compare
   these. Whether the identity still has a name is not among it. *)
StaleReadsAreSafe == \A i \in Instances : ReadsStillHold(ops[i], cases)

-----------------------------------------------------------------------------
(* The tables, read as the facts of CaseContract. *)

Dates ==
  Days \cup {InitialDue[code][d] : code \in Calendars, d \in Days}
       \cup {ExtendedDue[code][d] : code \in Calendars, d \in Days}

SubmissionOf(c) ==
  IF cases[c].received_on = Null THEN Null
  ELSE [request |-> bindings[c], received_on |-> cases[c].received_on]

AnswersTo(c) ==
  {<<k, responses[k].received_on>> : k \in {j \in DOMAIN responses : responses[j].case_id = c}}

Contract == INSTANCE CaseContract WITH
  Requests   <- 1..MaxApproved,
  AnswerIds  <- 1..MaxResponses,
  Dates      <- Dates,
  phase      <- [c \in CaseIds |-> cases[c].status],
  submission <- [c \in CaseIds |-> SubmissionOf(c)],
  extended   <- [c \in CaseIds |-> cases[c].extension_notified_on # Null],
  due        <- [c \in CaseIds |-> EffectiveDeadline(cases[c])],
  answers    <- [c \in CaseIds |-> AnswersTo(c)]

(* The services keep the contract: although every operation decides on rows
   that may be stale, each commit is one step of CaseContract, taken on the
   current state, and everything else changes nothing a reader could see. *)
ImplementsContract == Contract!Spec

-----------------------------------------------------------------------------
(* What the documentation says and the code does not do. *)

(* README: "approval is allowed only while the Case is still DRAFT". *)
ApprovedOnlyWhileDraft ==
  [][\A k \in DOMAIN approved' \ DOMAIN approved :
       cases[approved'[k].case_id].status = "DRAFT"]_vars

(* README: approve "persists the exact recipient, subject, body, legal basis,
   Article 17 ground and identifier selection" of what it composed. *)
ComposedCanBePersisted ==
  \A i \in Instances :
    ops[i].op = "approve" => ops[i].payload.erasure_ground \in StorableGround \cup {Null}

=============================================================================
