------------------------ MODULE CaseLifecycleProofs ------------------------
(***************************************************************************)
(* Theorems about CaseLifecycle, for any number of instances, cases,       *)
(* payloads, responses and dates.                                          *)
(***************************************************************************)
EXTENDS CaseLifecycle, TLAPS

(* An operation in flight carries what its Begin step put there. *)
LEMMA OpFields ==
  ASSUME NEW op \in Op
  PROVE  /\ op.op = "compose" => op \in ComposeOp
         /\ op.op = "approve" => op \in ApproveOp
         /\ op.op = "submit" => op \in SubmitOp
         /\ op.op = "record_extension" => op \in ExtensionOp
         /\ op.op = "transition" => op \in TransitionOp
         /\ op.op = "record_response" => op \in ResponseOp
  BY DEF Op, Idle, ComposeOp, ApproveOp, SubmitOp, ExtensionOp, TransitionOp, ResponseOp

LEMMA IdleOp == Idle \in Op
  BY DEF Op

(* The schedule a calendar gives for a receipt date. *)
LEMMA ScheduleType ==
  ASSUME NEW code \in Calendars, NEW d \in Days
  PROVE  ScheduleFor(code, d) \in Snapshot
  BY ConstantsAssumption DEF ScheduleFor, Snapshot

LEMMA AppendType ==
  ASSUME NEW S, NEW s \in Seq(S), NEW e \in S
  PROVE  /\ Append(s, e) \in Seq(S)
         /\ Len(Append(s, e)) = Len(s) + 1
         /\ Append(s, e)[Len(s) + 1] = e
         /\ \A k \in 1..Len(s) : Append(s, e)[k] = s[k]
  OBVIOUS

(* What the three UPDATE statements make of a row is a row. *)
LEMMA UpdatedRowType ==
  ASSUME NEW row \in Row
  PROVE  /\ \A op \in SubmitOp : SubmittedRow(row, op) \in Row
         /\ \A op \in ExtensionOp : ExtendedRow(row, op) \in Row
         /\ \A op \in TransitionOp : MovedRow(row, op) \in Row
<1>1. ASSUME NEW op \in SubmitOp
      PROVE  SubmittedRow(row, op) \in Row
  <2>1. op.received_on \in Days /\ op.snapshot \in Snapshot
    BY DEF SubmitOp
  <2> QED BY <2>1 DEF SubmittedRow, Row, CaseStatus
<1>2. ASSUME NEW op \in ExtensionOp
      PROVE  ExtendedRow(row, op) \in Row
  <2>1. op.notified_on \in Days
    BY DEF ExtensionOp
  <2> QED BY <2>1 DEF ExtendedRow, Row
<1>3. ASSUME NEW op \in TransitionOp
      PROVE  MovedRow(row, op) \in Row
  <2>1. op.target \in CaseStatus
    BY DEF TransitionOp
  <2> QED BY <2>1 DEF MovedRow, Row
<1> QED
  BY <1>1, <1>2, <1>3

(* Every row an older version can have left is a row of the table. *)
LEMMA LegacyRowType == LegacyRows \cup {AbsentRow} \subseteq Row
<1>1. AbsentRow \in Row
  BY DEF AbsentRow, NewRow, Row, CaseStatus, CaseRight
<1>2. ASSUME NEW d \in Days, NEW code \in Calendars
      PROVE  ScheduleFor(code, d) \in Snapshot
  BY ScheduleType
<1>3. Rights \subseteq CaseRight
  BY ConstantsAssumption
<1>4. \A row \in LegacyRows : row \in Row
  BY <1>2, <1>3 DEF LegacyRows, Row, CaseStatus, CaseRight
<1> QED
  BY <1>1, <1>4

LEMMA LegacyTimelineType ==
  ASSUME NEW row \in LegacyRows
  PROVE  LegacyTimeline(row) \in Seq(Event)
<1> DEFINE created == <<NewEvent("CREATED", Null, "DRAFT")>>
           type == IF row.received_on = Null THEN "STATUS_CHANGED" ELSE "REQUEST_SUBMITTED"
           submitted == Append(created, NewEvent(type, "DRAFT", "AWAITING_RESPONSE"))
<1>1. row.status \in CaseStatus
  BY DEF LegacyRows, CaseStatus
<1>2. created \in Seq(Event)
  BY DEF NewEvent, Event, CaseStatus
<1>3. submitted \in Seq(Event)
  <2>1. NewEvent(type, "DRAFT", "AWAITING_RESPONSE") \in Event
    BY DEF NewEvent, Event, CaseStatus
  <2> QED BY <1>2, <2>1, AppendType
<1>4. NewEvent("STATUS_CHANGED", "DRAFT", row.status) \in Event
  BY <1>1 DEF NewEvent, Event, CaseStatus
<1>5. NewEvent("STATUS_CHANGED", "AWAITING_RESPONSE", row.status) \in Event
  BY <1>1 DEF NewEvent, Event, CaseStatus
<1>6. Append(created, NewEvent("STATUS_CHANGED", "DRAFT", row.status)) \in Seq(Event)
  BY <1>2, <1>4, AppendType
<1>7. Append(submitted, NewEvent("STATUS_CHANGED", "AWAITING_RESPONSE", row.status)) \in Seq(Event)
  BY <1>3, <1>5, AppendType
<1> QED
  BY <1>2, <1>3, <1>6, <1>7 DEF LegacyTimeline

-----------------------------------------------------------------------------
LEMMA InitTypeOK == Init => TypeOK
<1> SUFFICES ASSUME Init PROVE TypeOK
  OBVIOUS
<1>1. cases \in [CaseIds -> Row]
  BY LegacyRowType DEF Init
<1>2. timeline \in [CaseIds -> Seq(Event)]
  <2> SUFFICES ASSUME NEW c \in CaseIds, c \in LegacyIds
               PROVE  LegacyTimeline(cases[c]) \in Seq(Event)
    BY DEF Init
  <2>1. cases[c] \in LegacyRows
    BY DEF Init
  <2> QED BY <2>1, LegacyTimelineType
<1>3. ops \in [Instances -> Op]
  BY IdleOp DEF Init
<1> QED
  BY <1>1, <1>2, <1>3 DEF Init, TypeOK

LEMMA NextTypeOK == TypeOK /\ [Next]_vars => TypeOK'
<1> SUFFICES ASSUME TypeOK, [Next]_vars PROVE TypeOK'
  OBVIOUS
<1> USE DEF TypeOK
<1>1. ASSUME NEW i \in Instances, NEW c \in CaseIds, NEW right \in Rights, CreateCase(i, c, right)
      PROVE  TypeOK'
  <2>1. right \in CaseRight
    BY ConstantsAssumption
  <2>2. NewRow(right) \in Row
    BY <2>1 DEF NewRow, Row, CaseStatus
  <2>3. <<NewEvent("CREATED", Null, "DRAFT")>> \in Seq(Event)
    BY DEF NewEvent, Event, CaseStatus
  <2> QED BY <1>1, <2>2, <2>3 DEF CreateCase
<1>2. ASSUME NEW i \in Instances, SetDisplayName(i)
      PROVE  TypeOK'
  BY <1>2 DEF SetDisplayName
<1>3. ASSUME NEW i \in Instances, NEW c \in CaseIds, NEW ground \in Grounds \cup {Null},
             BeginApprove(i, c, ground)
      PROVE  TypeOK'
  <2>1. [op |-> "compose", case_id |-> c, erasure_ground |-> ground] \in Op
    BY ConstantsAssumption DEF Op, ComposeOp
  <2> QED BY <1>3, <2>1 DEF BeginApprove, Start
<1>4. ASSUME NEW i \in Instances, Compose(i)
      PROVE  TypeOK'
  <2> DEFINE op == ops[i]
             payload == [case_id |-> op.case_id, legal_basis |-> cases[op.case_id].right,
                         erasure_ground |-> op.erasure_ground]
  <2>1. op \in ComposeOp
    BY <1>4, OpFields DEF Compose
  <2>2. cases[op.case_id] \in Row
    BY <2>1 DEF ComposeOp
  <2>3. payload \in Payload
    BY <1>4, <2>1, <2>2 DEF Compose, Composable, ComposeOp, Payload, Row
  <2>4. [op |-> "approve", payload |-> payload] \in Op
    BY <2>3 DEF Op, ApproveOp
  <2> QED BY <1>4, <2>4 DEF Compose
<1>5. ASSUME NEW i \in Instances, CommitApprove(i)
      PROVE  TypeOK'
  <2>1. ops[i].payload \in Payload
    BY <1>5, OpFields DEF CommitApprove, ApproveOp
  <2> QED BY <1>5, <2>1, IdleOp, AppendType DEF CommitApprove, Finish
<1>6. ASSUME NEW i \in Instances, NEW c \in CaseIds, NEW request \in 1..MaxApproved,
             NEW d \in Days, NEW code \in Calendars \ {WeekendOnly},
             BeginSubmit(i, c, request, d, code)
      PROVE  TypeOK'
  <2>1. cases[c].status \in CaseStatus
    BY <1>6 DEF BeginSubmit, Found, Row
  <2>2. ScheduleFor(code, d) \in Snapshot
    BY ScheduleType
  <2>3. request \in Nat
    BY ConstantsAssumption
  <2>4. [op |-> "submit", case_id |-> c, expected |-> cases[c].status,
         approved_request_id |-> request, received_on |-> d,
         snapshot |-> ScheduleFor(code, d)] \in Op
    BY <2>1, <2>2, <2>3 DEF Op, SubmitOp
  <2> QED BY <1>6, <2>4 DEF BeginSubmit, Start
<1>7. ASSUME NEW i \in Instances, CommitSubmit(i)
      PROVE  TypeOK'
  <2> DEFINE op == ops[i]
             c  == op.case_id
             row == SubmittedRow(cases[c], op)
             e == NewEvent("REQUEST_SUBMITTED", op.expected, "AWAITING_RESPONSE")
  <2>1. op \in SubmitOp
    BY <1>7, OpFields DEF CommitSubmit
  <2>2. c \in CaseIds /\ op.approved_request_id \in Nat
    BY <2>1 DEF SubmitOp
  <2>3. row \in Row
    BY <2>1, <2>2, UpdatedRowType
  <2>4. e \in Event
    BY <2>1 DEF NewEvent, Event, SubmitOp, CaseStatus
  <2>5. Append(timeline[c], e) \in Seq(Event)
    BY <2>2, <2>4, AppendType
  <2>6. cases' \in [CaseIds -> Row]
    BY <1>7, <2>2, <2>3 DEF CommitSubmit
  <2>7. timeline' \in [CaseIds -> Seq(Event)]
    BY <1>7, <2>2, <2>5 DEF CommitSubmit, Log
  <2>8. ops' \in [Instances -> Op]
    BY <1>7, IdleOp DEF CommitSubmit, Finish
  <2> QED BY <1>7, <2>2, <2>6, <2>7, <2>8 DEF CommitSubmit
<1>8. ASSUME NEW i \in Instances, NEW c \in CaseIds, NEW d \in Days, BeginExtension(i, c, d)
      PROVE  TypeOK'
  <2>1. [op |-> "record_extension", case_id |-> c, notified_on |-> d] \in Op
    BY DEF Op, ExtensionOp
  <2> QED BY <1>8, <2>1 DEF BeginExtension, Start
<1>9. ASSUME NEW i \in Instances, CommitExtension(i)
      PROVE  TypeOK'
  <2> DEFINE op == ops[i]
             c  == op.case_id
             row == ExtendedRow(cases[c], op)
             e == NewEvent("EXTENSION_RECORDED", "AWAITING_RESPONSE", "AWAITING_RESPONSE")
  <2>1. op \in ExtensionOp
    BY <1>9, OpFields DEF CommitExtension
  <2>2. c \in CaseIds
    BY <2>1 DEF ExtensionOp
  <2>3. row \in Row
    BY <2>1, <2>2, UpdatedRowType
  <2>4. e \in Event
    BY DEF NewEvent, Event, CaseStatus
  <2>5. Append(timeline[c], e) \in Seq(Event)
    BY <2>2, <2>4, AppendType
  <2>6. cases' \in [CaseIds -> Row]
    BY <1>9, <2>2, <2>3 DEF CommitExtension
  <2>7. timeline' \in [CaseIds -> Seq(Event)]
    BY <1>9, <2>2, <2>5 DEF CommitExtension, Log
  <2>8. ops' \in [Instances -> Op]
    BY <1>9, IdleOp DEF CommitExtension, Finish
  <2> QED BY <1>9, <2>2, <2>6, <2>7, <2>8 DEF CommitExtension
<1>10. ASSUME NEW i \in Instances, NEW c \in CaseIds, NEW target \in CaseStatus,
              BeginTransition(i, c, target)
       PROVE  TypeOK'
  <2>1. cases[c].status \in CaseStatus
    BY <1>10 DEF BeginTransition, Found, Row
  <2>2. [op |-> "transition", case_id |-> c, expected |-> cases[c].status, target |-> target] \in Op
    BY <2>1 DEF Op, TransitionOp
  <2> QED BY <1>10, <2>2 DEF BeginTransition, Start
<1>11. ASSUME NEW i \in Instances, CommitTransition(i)
       PROVE  TypeOK'
  <2> DEFINE op == ops[i]
             c  == op.case_id
             row == MovedRow(cases[c], op)
             e == NewEvent("STATUS_CHANGED", op.expected, op.target)
  <2>1. op \in TransitionOp
    BY <1>11, OpFields DEF CommitTransition
  <2>2. c \in CaseIds
    BY <2>1 DEF TransitionOp
  <2>3. row \in Row
    BY <2>1, <2>2, UpdatedRowType
  <2>4. e \in Event
    BY <2>1 DEF NewEvent, Event, TransitionOp
  <2>5. Append(timeline[c], e) \in Seq(Event)
    BY <2>2, <2>4, AppendType
  <2>6. cases' \in [CaseIds -> Row]
    BY <1>11, <2>2, <2>3 DEF CommitTransition
  <2>7. timeline' \in [CaseIds -> Seq(Event)]
    BY <1>11, <2>2, <2>5 DEF CommitTransition, Log
  <2>8. ops' \in [Instances -> Op]
    BY <1>11, IdleOp DEF CommitTransition, Finish
  <2> QED BY <1>11, <2>2, <2>6, <2>7, <2>8 DEF CommitTransition
<1>12. ASSUME NEW i \in Instances, NEW c \in CaseIds, NEW d \in Days, BeginResponse(i, c, d)
       PROVE  TypeOK'
  <2>1. [op |-> "record_response", response |-> [case_id |-> c, received_on |-> d]] \in Op
    BY DEF Op, ResponseOp, Response
  <2> QED BY <1>12, <2>1 DEF BeginResponse, Start
<1>13. ASSUME NEW i \in Instances, CommitResponse(i)
       PROVE  TypeOK'
  <2>1. ops[i].response \in Response
    BY <1>13, OpFields DEF CommitResponse, ResponseOp
  <2> QED BY <1>13, <2>1, IdleOp, AppendType DEF CommitResponse, Finish
<1>14. ASSUME NEW i \in Instances, Abandon(i)
       PROVE  TypeOK'
  BY <1>14, IdleOp DEF Abandon, Finish
<1>15. CASE UNCHANGED vars
  BY <1>15 DEF vars
<1> QED
  BY <1>1, <1>2, <1>3, <1>4, <1>5, <1>6, <1>7, <1>8, <1>9, <1>10, <1>11, <1>12, <1>13,
     <1>14, <1>15 DEF Next, Operate

(* Every table and every operation in flight keeps its type. *)
THEOREM TypeCorrect == Spec => []TypeOK
  BY InitTypeOK, NextTypeOK, PTL DEF Spec

-----------------------------------------------------------------------------
(* The timeline. *)

(* A history that ends where an event starts, with that event appended, is a
   history that ends where the event ends. *)
LEMMA AppendHistory ==
  ASSUME NEW events \in Seq(Event), NEW status, NEW e \in Event,
         IsHistory(events, status), LegalEvent(e), e.from = status
  PROVE  IsHistory(Append(events, e), e.to)
<1> DEFINE longer == Append(events, e)
<1>1. /\ longer \in Seq(Event)
      /\ Len(longer) = Len(events) + 1
      /\ longer[Len(events) + 1] = e
      /\ \A k \in 1..Len(events) : longer[k] = events[k]
  BY AppendType
<1>2. Len(events) \in Nat /\ Len(events) >= 1
  BY DEF IsHistory
<1>3. longer # <<>> /\ longer[1] = NewEvent("CREATED", Null, "DRAFT")
  BY <1>1, <1>2 DEF IsHistory
<1>4. ASSUME NEW k \in 2..Len(longer)
      PROVE  LegalEvent(longer[k]) /\ longer[k].from = longer[k - 1].to
  <2>1. CASE k = Len(longer)
    <3>1. longer[k] = e /\ longer[k - 1] = events[Len(events)]
      BY <1>1, <1>2, <2>1
    <3> QED BY <3>1 DEF IsHistory
  <2>2. CASE k # Len(longer)
    <3>1. k \in 2..Len(events) /\ longer[k] = events[k] /\ longer[k - 1] = events[k - 1]
      BY <1>1, <1>2, <2>2
    <3> QED BY <3>1 DEF IsHistory
  <2> QED BY <2>1, <2>2
<1>5. longer[Len(longer)].to = e.to
  BY <1>1
<1> HIDE DEF longer
<1>6. IsHistory(longer, e.to)
  BY <1>3, <1>4, <1>5 DEF IsHistory
<1> QED
  BY <1>6 DEF longer

LEMMA CreatedHistory == IsHistory(<<NewEvent("CREATED", Null, "DRAFT")>>, "DRAFT")
  BY DEF IsHistory, NewEvent

(* The timeline an older version left is a history too. *)
LEMMA LegacyHistory ==
  ASSUME NEW row \in LegacyRows
  PROVE  IsHistory(LegacyTimeline(row), row.status)
<1> DEFINE created == <<NewEvent("CREATED", Null, "DRAFT")>>
           type == IF row.received_on = Null THEN "STATUS_CHANGED" ELSE "REQUEST_SUBMITTED"
           submission == NewEvent(type, "DRAFT", "AWAITING_RESPONSE")
           submitted == Append(created, submission)
           closure(from) == NewEvent("STATUS_CHANGED", from, row.status)
<1>1. row.status \in CaseStatus
  BY DEF LegacyRows, CaseStatus
<1>2. created \in Seq(Event) /\ IsHistory(created, "DRAFT")
  BY CreatedHistory DEF NewEvent, Event, CaseStatus
<1>3. submitted \in Seq(Event) /\ IsHistory(submitted, "AWAITING_RESPONSE")
  <2>1. submission \in Event
    BY DEF NewEvent, Event, CaseStatus
  <2>2. LegalEvent(submission) /\ submission.from = "DRAFT"
    BY NullAssumption DEF LegalEvent, NewEvent, AllowedTransitions, CaseStatus
  <2>3. IsHistory(submitted, submission.to)
    BY <1>2, <2>1, <2>2, AppendHistory
  <2> QED BY <1>2, <2>1, <2>3, AppendType DEF NewEvent
<1>4. CASE row.status = "DRAFT"
  BY <1>2, <1>4 DEF LegacyTimeline
<1>5. CASE row.status = "AWAITING_RESPONSE"
  BY <1>3, <1>5 DEF LegacyTimeline
<1>6. CASE row.status = "CANCELLED" /\ row.received_on = Null
  <2>1. closure("DRAFT") \in Event
    BY <1>1 DEF NewEvent, Event, CaseStatus
  <2>2. LegalEvent(closure("DRAFT")) /\ closure("DRAFT").from = "DRAFT"
    BY <1>6, NullAssumption DEF LegalEvent, NewEvent, AllowedTransitions, CaseStatus
  <2>3. IsHistory(Append(created, closure("DRAFT")), closure("DRAFT").to)
    BY <1>2, <2>1, <2>2, AppendHistory
  <2> QED BY <1>6, <2>3 DEF LegacyTimeline, NewEvent
<1>7. CASE row.status \in {"COMPLETED", "CANCELLED"} /\ ~(row.status = "CANCELLED" /\ row.received_on = Null)
  <2>1. closure("AWAITING_RESPONSE") \in Event
    BY <1>1 DEF NewEvent, Event, CaseStatus
  <2>2. LegalEvent(closure("AWAITING_RESPONSE")) /\ closure("AWAITING_RESPONSE").from = "AWAITING_RESPONSE"
    BY <1>7, NullAssumption DEF LegalEvent, NewEvent, AllowedTransitions, CaseStatus
  <2>3. IsHistory(Append(submitted, closure("AWAITING_RESPONSE")), closure("AWAITING_RESPONSE").to)
    BY <1>3, <2>1, <2>2, AppendHistory
  <2> QED BY <1>7, <2>3 DEF LegacyTimeline, NewEvent
<1> QED
  BY <1>1, <1>4, <1>5, <1>6, <1>7 DEF CaseStatus

-----------------------------------------------------------------------------
(* What no step takes back from a row, and hence what an operation may rely on
   although it read the row some time ago. *)

Evolves(old, new) ==
  /\ old.status # "ABSENT" => new.status # "ABSENT" /\ new.right = old.right
  /\ Opened(old) => Opened(new)
  /\ old.received_on # Null => /\ new.received_on = old.received_on
                               /\ new.snapshot = old.snapshot

RowShape(row) ==
  /\ ~Opened(row) => row.received_on = Null /\ row.extension_notified_on = Null
  /\ row.received_on = Null => row.snapshot = Null
  /\ row.snapshot # Null => IsSchedule(row.snapshot, row.received_on)

RowShapes == \A c \in CaseIds : RowShape(cases[c])

RowsEvolve == \A c \in CaseIds : Evolves(cases[c], cases'[c])

LEMMA FactsSurvive ==
  ASSUME NEW old, NEW new, Evolves(old, new), NEW d, NEW payload
  PROVE  /\ ResponseInOrder(old, d) => ResponseInOrder(new, d)
         /\ ExtensionInOrder(old, d) => ExtensionInOrder(new, d)
         /\ PayloadFits(payload, old) => PayloadFits(payload, new)
<1>1. ResponseInOrder(old, d) => ResponseInOrder(new, d)
  BY DEF Evolves, ResponseInOrder
<1>2. ASSUME ExtensionInOrder(old, d) PROVE ExtensionInOrder(new, d)
  <2>1. DeadlineFor(new) = DeadlineFor(old)
    BY <1>2 DEF Evolves, ExtensionInOrder, DeadlineFor
  <2> QED BY <1>2, <2>1 DEF Evolves, ExtensionInOrder
<1>3. PayloadFits(payload, old) => PayloadFits(payload, new)
  BY DEF Evolves, PayloadFits
<1> QED
  BY <1>1, <1>2, <1>3

LEMMA ReadsSurvive ==
  ASSUME NEW rows \in [CaseIds -> Row], NEW later \in [CaseIds -> Row],
         \A c \in CaseIds : Evolves(rows[c], later[c]),
         NEW op \in Op, ReadsStillHold(op, rows)
  PROVE  ReadsStillHold(op, later)
<1>1. ASSUME NEW c \in CaseIds, NEW d, ResponseInOrder(rows[c], d)
      PROVE  ResponseInOrder(later[c], d)
  BY <1>1, FactsSurvive
<1>2. ASSUME NEW c \in CaseIds, NEW d, ExtensionInOrder(rows[c], d)
      PROVE  ExtensionInOrder(later[c], d)
  BY <1>2, FactsSurvive
<1>3. ASSUME NEW c \in CaseIds, NEW payload, PayloadFits(payload, rows[c])
      PROVE  PayloadFits(payload, later[c])
  BY <1>3, FactsSurvive
<1>4. op.op = "compose" \/ op.op = "submit" => op.case_id \in CaseIds
  BY OpFields DEF ComposeOp, SubmitOp
<1>5. op.op = "approve" => op.payload.case_id \in CaseIds
  BY OpFields DEF ApproveOp, Payload
<1>6. op.op = "record_extension" => op.case_id \in CaseIds
  BY OpFields DEF ExtensionOp
<1>7. op.op = "record_response" => op.response.case_id \in CaseIds
  BY OpFields DEF ResponseOp, Response
<1> QED
  BY <1>1, <1>2, <1>3, <1>4, <1>5, <1>6, <1>7 DEF ReadsStillHold, Evolves

LEMMA SameRowEvolves == ASSUME NEW row PROVE Evolves(row, row)
  BY DEF Evolves

(* One row changes and no other, as every transaction on cases does. *)
LEMMA OneRowEvolves ==
  ASSUME TypeOK, RowShapes, NEW c \in CaseIds, NEW row \in Row,
         cases' = [cases EXCEPT ![c] = row], Evolves(cases[c], row), RowShape(row)
  PROVE  RowsEvolve /\ RowShapes'
<1>1. ASSUME NEW k \in CaseIds PROVE cases'[k] = IF k = c THEN row ELSE cases[k]
  BY DEF TypeOK
<1>2. RowsEvolve
  BY <1>1, SameRowEvolves DEF RowsEvolve
<1>3. RowShapes'
  BY <1>1 DEF RowShapes
<1> QED
  BY <1>2, <1>3

LEMMA SameRowsEvolve ==
  ASSUME RowShapes, UNCHANGED cases
  PROVE  RowsEvolve /\ RowShapes'
  BY SameRowEvolves DEF RowsEvolve, RowShapes

(* An operation goes on with reads that hold now. The others keep theirs. *)
LEMMA OneReadHolds ==
  ASSUME TypeOK, TypeOK', RowsEvolve, StaleReadsAreSafe,
         NEW i \in Instances, NEW op, ops' = [ops EXCEPT ![i] = op],
         ReadsStillHold(op, cases')
  PROVE  StaleReadsAreSafe'
<1> SUFFICES ASSUME NEW j \in Instances PROVE ReadsStillHold(ops'[j], cases')
  BY DEF StaleReadsAreSafe
<1>1. CASE j = i
  BY <1>1 DEF TypeOK
<1>2. CASE j # i
  <2>1. ops'[j] = ops[j] /\ ops[j] \in Op
    BY <1>2 DEF TypeOK
  <2>2. ReadsStillHold(ops[j], cases)
    BY DEF StaleReadsAreSafe
  <2>3. cases \in [CaseIds -> Row] /\ cases' \in [CaseIds -> Row]
    BY DEF TypeOK
  <2> QED BY <2>1, <2>2, <2>3, ReadsSurvive DEF RowsEvolve
<1> QED
  BY <1>1, <1>2

LEMMA IdleReads == ASSUME NEW rows PROVE ReadsStillHold(Idle, rows)
  BY DEF ReadsStillHold, Idle

LEMMA LegacyRowShape == ASSUME NEW row \in LegacyRows \cup {AbsentRow} PROVE RowShape(row)
<1>1. CASE row = AbsentRow
  BY <1>1 DEF AbsentRow, NewRow, RowShape, Opened
<1>2. ASSUME NEW code \in Calendars, NEW d \in Days
      PROVE  IsSchedule(ScheduleFor(code, d), d)
  BY DEF IsSchedule, ScheduleFor
<1>3. CASE row \in LegacyRows /\ row.received_on = Null
  <2>1. \A d \in Days : d # Null
    BY ConstantsAssumption, NullAssumption
  <2> QED BY <1>3, <2>1 DEF LegacyRows, RowShape
<1>4. CASE row \in LegacyRows /\ row.received_on # Null
  <2>1. PICK d \in Days :
          row \in [status : CaseStatus \ {"DRAFT"}, right : Rights, received_on : {d},
                  extension_notified_on : {Null},
                  snapshot : {Null} \cup {ScheduleFor(code, d) : code \in Calendars \ {WeekendOnly}}]
    BY <1>4 DEF LegacyRows
  <2>2. Opened(row) /\ row.received_on = d
    BY <2>1 DEF Opened, CaseStatus
  <2>3. row.snapshot # Null => IsSchedule(row.snapshot, d)
    BY <1>2, <2>1
  <2> QED BY <1>4, <2>2, <2>3 DEF RowShape
<1> QED
  BY <1>1, <1>3, <1>4

LEMMA InitReads == Init => RowShapes /\ StaleReadsAreSafe
<1> SUFFICES ASSUME Init PROVE RowShapes /\ StaleReadsAreSafe
  OBVIOUS
<1>1. RowShapes
  BY LegacyRowShape DEF Init, RowShapes
<1>2. StaleReadsAreSafe
  BY IdleReads DEF Init, StaleReadsAreSafe
<1> QED
  BY <1>1, <1>2

(* Every step lets the rows evolve and leaves every operation in flight with
   reads it may rely on. *)
LEMMA NextReads ==
  TypeOK /\ RowShapes /\ StaleReadsAreSafe /\ [Next]_vars
    => RowsEvolve /\ RowShapes' /\ StaleReadsAreSafe'
<1> SUFFICES ASSUME TypeOK, RowShapes, StaleReadsAreSafe, [Next]_vars
             PROVE  RowsEvolve /\ RowShapes' /\ StaleReadsAreSafe'
  OBVIOUS
<1>0. TypeOK'
  BY NextTypeOK
<1>a. ASSUME NEW i \in Instances, NEW op, UNCHANGED cases, ops' = [ops EXCEPT ![i] = op],
             ReadsStillHold(op, cases)
      PROVE  RowsEvolve /\ RowShapes' /\ StaleReadsAreSafe'
  <2>1. RowsEvolve /\ RowShapes'
    BY <1>a, SameRowsEvolve
  <2>2. ReadsStillHold(op, cases')
    BY <1>a
  <2> QED BY <1>0, <1>a, <2>1, <2>2, OneReadHolds
<1>b. ASSUME NEW i \in Instances, NEW c \in CaseIds, NEW row \in Row,
             cases' = [cases EXCEPT ![c] = row], ops' = [ops EXCEPT ![i] = Idle],
             Evolves(cases[c], row), RowShape(row)
      PROVE  RowsEvolve /\ RowShapes' /\ StaleReadsAreSafe'
  <2>1. RowsEvolve /\ RowShapes'
    BY <1>b, OneRowEvolves
  <2>2. ReadsStillHold(Idle, cases')
    BY IdleReads
  <2> QED BY <1>0, <1>b, <2>1, <2>2, OneReadHolds
<1>1. ASSUME NEW i \in Instances, NEW c \in CaseIds, NEW right \in Rights, CreateCase(i, c, right)
      PROVE  RowsEvolve /\ RowShapes' /\ StaleReadsAreSafe'
  <2>1. NewRow(right) \in Row /\ RowShape(NewRow(right))
    BY ConstantsAssumption DEF NewRow, Row, CaseStatus, RowShape, Opened
  <2>2. cases[c] \in Row /\ RowShape(cases[c]) /\ cases[c].status = "ABSENT"
    BY <1>1 DEF TypeOK, RowShapes, CreateCase, Found
  <2>3. Evolves(cases[c], NewRow(right))
    BY <2>2 DEF Evolves, RowShape, Opened
  <2>4. ops' = [ops EXCEPT ![i] = Idle]
    BY <1>1 DEF CreateCase, TypeOK
  <2> QED BY <1>1, <1>b, <2>1, <2>3, <2>4 DEF CreateCase
<1>2. ASSUME NEW i \in Instances, SetDisplayName(i)
      PROVE  RowsEvolve /\ RowShapes' /\ StaleReadsAreSafe'
  <2>1. ops' = [ops EXCEPT ![i] = Idle]
    BY <1>2 DEF SetDisplayName, TypeOK
  <2> QED BY <1>2, <1>a, <2>1, IdleReads DEF SetDisplayName
<1>3. ASSUME NEW i \in Instances, NEW c \in CaseIds, NEW ground \in Grounds \cup {Null},
             BeginApprove(i, c, ground)
      PROVE  RowsEvolve /\ RowShapes' /\ StaleReadsAreSafe'
  <2>1. ReadsStillHold([op |-> "compose", case_id |-> c, erasure_ground |-> ground], cases)
    BY <1>3 DEF BeginApprove, ReadsStillHold
  <2> QED BY <1>3, <1>a, <2>1 DEF BeginApprove, Start
<1>4. ASSUME NEW i \in Instances, Compose(i)
      PROVE  RowsEvolve /\ RowShapes' /\ StaleReadsAreSafe'
  <2> DEFINE op == ops[i]
             payload == [case_id |-> op.case_id, legal_basis |-> cases[op.case_id].right,
                         erasure_ground |-> op.erasure_ground]
             next == [op |-> "approve", payload |-> payload]
  <2>1. cases[op.case_id].status # "ABSENT"
    BY <1>4 DEF Compose, StaleReadsAreSafe, ReadsStillHold
  <2>2. PayloadFits(payload, cases[op.case_id])
    BY <1>4, <2>1 DEF Compose, Composable, PayloadFits
  <2>3. ReadsStillHold(next, cases)
    BY <2>2 DEF ReadsStillHold
  <2> QED BY <1>4, <1>a, <2>3 DEF Compose
<1>5. ASSUME NEW i \in Instances, CommitApprove(i)
      PROVE  RowsEvolve /\ RowShapes' /\ StaleReadsAreSafe'
  BY <1>5, <1>a, IdleReads DEF CommitApprove, Finish
<1>6. ASSUME NEW i \in Instances, NEW c \in CaseIds, NEW request \in 1..MaxApproved,
             NEW d \in Days, NEW code \in Calendars \ {WeekendOnly},
             BeginSubmit(i, c, request, d, code)
      PROVE  RowsEvolve /\ RowShapes' /\ StaleReadsAreSafe'
  <2> DEFINE next == [op |-> "submit", case_id |-> c, expected |-> cases[c].status,
                      approved_request_id |-> request, received_on |-> d,
                      snapshot |-> ScheduleFor(code, d)]
  <2>1. cases[c].status = "DRAFT"
    BY <1>6 DEF BeginSubmit, Found, AllowedTransitions, TypeOK, Row, CaseStatus
  <2>2. IsSchedule(ScheduleFor(code, d), d)
    BY DEF IsSchedule, ScheduleFor
  <2>3. ReadsStillHold(next, cases)
    BY <2>1, <2>2 DEF ReadsStillHold
  <2> QED BY <1>6, <1>a, <2>3 DEF BeginSubmit, Start
<1>7. ASSUME NEW i \in Instances, CommitSubmit(i)
      PROVE  RowsEvolve /\ RowShapes' /\ StaleReadsAreSafe'
  <2> DEFINE op == ops[i]
             c  == op.case_id
             row == SubmittedRow(cases[c], op)
  <2>1. op \in SubmitOp
    BY <1>7, OpFields DEF CommitSubmit, TypeOK
  <2>2. c \in CaseIds /\ op.received_on \in Days
    BY <2>1 DEF SubmitOp
  <2>3. cases[c] \in Row /\ row \in Row
    BY <2>1, <2>2, UpdatedRowType DEF TypeOK
  <2>4. op.expected = "DRAFT" /\ IsSchedule(op.snapshot, op.received_on)
    BY <1>7 DEF CommitSubmit, StaleReadsAreSafe, ReadsStillHold
  <2>5. cases[c].status = "DRAFT" /\ cases[c].received_on = Null
    BY <1>7, <2>4 DEF CommitSubmit, SubmitMatches
  <2>6. /\ row.status = "AWAITING_RESPONSE" /\ row.right = cases[c].right
        /\ row.received_on = op.received_on /\ row.snapshot = op.snapshot
    BY <2>3 DEF SubmittedRow, Row
  <2>7. Evolves(cases[c], row)
    BY <2>5, <2>6 DEF Evolves, Opened
  <2>8. RowShape(row)
    BY <2>2, <2>4, <2>6, ConstantsAssumption, NullAssumption DEF RowShape, Opened
  <2> QED BY <1>7, <1>b, <2>2, <2>3, <2>7, <2>8 DEF CommitSubmit, Finish
<1>8. ASSUME NEW i \in Instances, NEW c \in CaseIds, NEW d \in Days, BeginExtension(i, c, d)
      PROVE  RowsEvolve /\ RowShapes' /\ StaleReadsAreSafe'
  <2>1. cases[c].received_on \in Nat /\ d \in Nat
    BY <1>8, ConstantsAssumption DEF BeginExtension, TypeOK, Row
  <2>2. ExtensionInOrder(cases[c], d)
    BY <1>8, <2>1 DEF BeginExtension, ExtensionAdmissible, ExtensionInOrder, Opened
  <2>3. ReadsStillHold([op |-> "record_extension", case_id |-> c, notified_on |-> d], cases)
    BY <2>2 DEF ReadsStillHold
  <2> QED BY <1>8, <1>a, <2>3 DEF BeginExtension, Start
<1>9. ASSUME NEW i \in Instances, CommitExtension(i)
      PROVE  RowsEvolve /\ RowShapes' /\ StaleReadsAreSafe'
  <2> DEFINE op == ops[i]
             c  == op.case_id
             row == ExtendedRow(cases[c], op)
  <2>1. op \in ExtensionOp
    BY <1>9, OpFields DEF CommitExtension, TypeOK
  <2>2. c \in CaseIds
    BY <2>1 DEF ExtensionOp
  <2>3. cases[c] \in Row /\ row \in Row /\ RowShape(cases[c])
    BY <2>1, <2>2, UpdatedRowType DEF TypeOK, RowShapes
  <2>4. cases[c].status = "AWAITING_RESPONSE"
    BY <1>9 DEF CommitExtension, ExtensionMatches
  <2>5. /\ row.status = cases[c].status /\ row.right = cases[c].right
        /\ row.received_on = cases[c].received_on /\ row.snapshot = cases[c].snapshot
    BY <2>3 DEF ExtendedRow, Row
  <2>6. Evolves(cases[c], row)
    BY <2>5 DEF Evolves, Opened
  <2>7. RowShape(row)
    BY <2>3, <2>4, <2>5 DEF RowShape, Opened
  <2> QED BY <1>9, <1>b, <2>2, <2>3, <2>6, <2>7 DEF CommitExtension, Finish
<1>10. ASSUME NEW i \in Instances, NEW c \in CaseIds, NEW target \in CaseStatus,
              BeginTransition(i, c, target)
       PROVE  RowsEvolve /\ RowShapes' /\ StaleReadsAreSafe'
  <2>1. ReadsStillHold([op |-> "transition", case_id |-> c, expected |-> cases[c].status,
                        target |-> target], cases)
    BY <1>10 DEF BeginTransition, ReadsStillHold
  <2> QED BY <1>10, <1>a, <2>1 DEF BeginTransition, Start
<1>11. ASSUME NEW i \in Instances, CommitTransition(i)
       PROVE  RowsEvolve /\ RowShapes' /\ StaleReadsAreSafe'
  <2> DEFINE op == ops[i]
             c  == op.case_id
             row == MovedRow(cases[c], op)
  <2>1. op \in TransitionOp
    BY <1>11, OpFields DEF CommitTransition, TypeOK
  <2>2. c \in CaseIds /\ op.expected \in CaseStatus
    BY <2>1 DEF TransitionOp
  <2>3. cases[c] \in Row /\ row \in Row /\ RowShape(cases[c])
    BY <2>1, <2>2, UpdatedRowType DEF TypeOK, RowShapes
  <2>4. op.target \in AllowedTransitions[op.expected] \ {"AWAITING_RESPONSE"}
    BY <1>11 DEF CommitTransition, StaleReadsAreSafe, ReadsStillHold
  <2>5. cases[c].status = op.expected
    BY <1>11 DEF CommitTransition, TransitionMatches
  <2>6. /\ row.status = op.target /\ row.right = cases[c].right
        /\ row.received_on = cases[c].received_on /\ row.snapshot = cases[c].snapshot
    BY <2>3 DEF MovedRow, Row
  <2>7. row.status \in {"COMPLETED", "CANCELLED"}
    BY <2>2, <2>4, <2>6 DEF AllowedTransitions, CaseStatus
  <2>8. Evolves(cases[c], row)
    BY <2>6, <2>7 DEF Evolves, Opened
  <2>9. RowShape(row)
    BY <2>3, <2>6, <2>7 DEF RowShape, Opened
  <2> QED BY <1>11, <1>b, <2>2, <2>3, <2>8, <2>9 DEF CommitTransition, Finish
<1>12. ASSUME NEW i \in Instances, NEW c \in CaseIds, NEW d \in Days, BeginResponse(i, c, d)
       PROVE  RowsEvolve /\ RowShapes' /\ StaleReadsAreSafe'
  <2>1. cases[c].received_on \in Nat /\ d \in Nat
    BY <1>12, ConstantsAssumption DEF BeginResponse, TypeOK, Row
  <2>2. ResponseInOrder(cases[c], d)
    BY <1>12, <2>1 DEF BeginResponse, ResponseInOrder, Opened
  <2>3. ReadsStillHold([op |-> "record_response",
                        response |-> [case_id |-> c, received_on |-> d]], cases)
    BY <2>2 DEF ReadsStillHold
  <2> QED BY <1>12, <1>a, <2>3 DEF BeginResponse, Start
<1>13. ASSUME NEW i \in Instances, CommitResponse(i)
       PROVE  RowsEvolve /\ RowShapes' /\ StaleReadsAreSafe'
  BY <1>13, <1>a, IdleReads DEF CommitResponse, Finish
<1>14. ASSUME NEW i \in Instances, Abandon(i)
       PROVE  RowsEvolve /\ RowShapes' /\ StaleReadsAreSafe'
  BY <1>14, <1>a, IdleReads DEF Abandon, Finish
<1>15. CASE UNCHANGED vars
  <2>1. RowsEvolve /\ RowShapes'
    BY <1>15, SameRowsEvolve DEF vars
  <2> QED BY <1>15, <2>1 DEF vars, StaleReadsAreSafe
<1> QED
  BY <1>1, <1>2, <1>3, <1>4, <1>5, <1>6, <1>7, <1>8, <1>9, <1>10, <1>11, <1>12, <1>13,
     <1>14, <1>15 DEF Next, Operate

(* The dates, the schedule and the fit of the payload an operation decided on
   still hold when it commits, though no WHERE clause compares them. *)
THEOREM StaleReads == Spec => [](RowShapes /\ StaleReadsAreSafe)
  BY InitTypeOK, NextTypeOK, InitReads, NextReads, PTL DEF Spec

-----------------------------------------------------------------------------
(* The transactions on cases, seen from the tables: which row they replace and
   which event they log. Every other step leaves both tables alone. *)

Creates(c, right) ==
  /\ cases[c].status = "ABSENT" /\ right \in Rights
  /\ cases' = [cases EXCEPT ![c] = NewRow(right)]
  /\ timeline' = [timeline EXCEPT ![c] = <<NewEvent("CREATED", Null, "DRAFT")>>]
  /\ UNCHANGED <<approved, bindings, responses>>

Submits(c, op) ==
  /\ op \in SubmitOp /\ op.case_id = c
  /\ cases[c].status = "DRAFT" /\ cases[c].received_on = Null
  /\ op.expected = "DRAFT" /\ IsSchedule(op.snapshot, op.received_on)
  /\ Bindable(op)
  /\ \A other \in CaseIds : bindings[other] # op.approved_request_id
  /\ cases' = [cases EXCEPT ![c] = SubmittedRow(cases[c], op)]
  /\ bindings' = [bindings EXCEPT ![c] = op.approved_request_id]
  /\ Log(c, NewEvent("REQUEST_SUBMITTED", "DRAFT", "AWAITING_RESPONSE"))
  /\ UNCHANGED <<approved, responses>>

Extends(c, op) ==
  /\ op \in ExtensionOp /\ op.case_id = c
  /\ cases[c].status = "AWAITING_RESPONSE" /\ cases[c].extension_notified_on = Null
  /\ ExtensionInOrder(cases[c], op.notified_on)
  /\ cases' = [cases EXCEPT ![c] = ExtendedRow(cases[c], op)]
  /\ Log(c, NewEvent("EXTENSION_RECORDED", "AWAITING_RESPONSE", "AWAITING_RESPONSE"))
  /\ UNCHANGED <<approved, bindings, responses>>

Moves(c, op) ==
  /\ op \in TransitionOp /\ op.case_id = c
  /\ cases[c].status = op.expected
  /\ op.target \in AllowedTransitions[op.expected] \ {"AWAITING_RESPONSE"}
  /\ cases' = [cases EXCEPT ![c] = MovedRow(cases[c], op)]
  /\ Log(c, NewEvent("STATUS_CHANGED", op.expected, op.target))
  /\ UNCHANGED <<approved, bindings, responses>>

Approves(payload) ==
  /\ payload \in Payload /\ PayloadFits(payload, cases[payload.case_id])
  /\ Len(approved) < MaxApproved
  /\ approved' = Append(approved, payload)
  /\ UNCHANGED <<cases, timeline, bindings, responses>>

Records(response) ==
  /\ response \in Response
  /\ cases[response.case_id].status = "AWAITING_RESPONSE"
  /\ ResponseInOrder(cases[response.case_id], response.received_on)
  /\ Len(responses) < MaxResponses
  /\ responses' = Append(responses, response)
  /\ UNCHANGED <<cases, timeline, approved, bindings>>

TableStep ==
  \/ \E c \in CaseIds, right \in Rights : Creates(c, right)
  \/ \E c \in CaseIds, op \in SubmitOp : Submits(c, op)
  \/ \E c \in CaseIds, op \in ExtensionOp : Extends(c, op)
  \/ \E c \in CaseIds, op \in TransitionOp : Moves(c, op)
  \/ \E payload \in Payload : Approves(payload)
  \/ \E response \in Response : Records(response)
  \/ UNCHANGED <<cases, timeline, approved, bindings, responses>>

LEMMA NextTables == TypeOK /\ StaleReadsAreSafe /\ [Next]_vars => TableStep
<1> SUFFICES ASSUME TypeOK, StaleReadsAreSafe, [Next]_vars PROVE TableStep
  OBVIOUS
<1>1. ASSUME NEW i \in Instances, NEW c \in CaseIds, NEW right \in Rights, CreateCase(i, c, right)
      PROVE  TableStep
  BY <1>1 DEF CreateCase, Found, Creates, TableStep
<1>2. ASSUME NEW i \in Instances, CommitSubmit(i)
      PROVE  TableStep
  <2> DEFINE op == ops[i]
  <2>1. op \in SubmitOp
    BY <1>2, OpFields DEF CommitSubmit, TypeOK
  <2>2. op.case_id \in CaseIds
    BY <2>1 DEF SubmitOp
  <2>3. op.expected = "DRAFT" /\ IsSchedule(op.snapshot, op.received_on)
    BY <1>2 DEF CommitSubmit, StaleReadsAreSafe, ReadsStillHold
  <2>4. Submits(op.case_id, op)
    BY <1>2, <2>1, <2>3 DEF CommitSubmit, SubmitMatches, Submits
  <2> QED BY <2>1, <2>2, <2>4 DEF TableStep
<1>3. ASSUME NEW i \in Instances, CommitExtension(i)
      PROVE  TableStep
  <2> DEFINE op == ops[i]
  <2>1. op \in ExtensionOp
    BY <1>3, OpFields DEF CommitExtension, TypeOK
  <2>2. op.case_id \in CaseIds
    BY <2>1 DEF ExtensionOp
  <2>3. ExtensionInOrder(cases[op.case_id], op.notified_on)
    BY <1>3 DEF CommitExtension, StaleReadsAreSafe, ReadsStillHold
  <2>4. Extends(op.case_id, op)
    BY <1>3, <2>1, <2>3 DEF CommitExtension, ExtensionMatches, Extends
  <2> QED BY <2>1, <2>2, <2>4 DEF TableStep
<1>4. ASSUME NEW i \in Instances, CommitTransition(i)
      PROVE  TableStep
  <2> DEFINE op == ops[i]
  <2>1. op \in TransitionOp
    BY <1>4, OpFields DEF CommitTransition, TypeOK
  <2>2. op.case_id \in CaseIds
    BY <2>1 DEF TransitionOp
  <2>3. op.target \in AllowedTransitions[op.expected] \ {"AWAITING_RESPONSE"}
    BY <1>4 DEF CommitTransition, StaleReadsAreSafe, ReadsStillHold
  <2>4. Moves(op.case_id, op)
    BY <1>4, <2>1, <2>3 DEF CommitTransition, TransitionMatches, Moves
  <2> QED BY <2>1, <2>2, <2>4 DEF TableStep
<1>5. ASSUME NEW i \in Instances, CommitApprove(i)
      PROVE  TableStep
  <2> DEFINE payload == ops[i].payload
  <2>1. payload \in Payload
    BY <1>5, OpFields DEF CommitApprove, TypeOK, ApproveOp
  <2>2. PayloadFits(payload, cases[payload.case_id])
    BY <1>5 DEF CommitApprove, StaleReadsAreSafe, ReadsStillHold
  <2>3. Approves(payload)
    BY <1>5, <2>1, <2>2 DEF CommitApprove, Approves
  <2> QED BY <2>1, <2>3 DEF TableStep
<1>6. ASSUME NEW i \in Instances, CommitResponse(i)
      PROVE  TableStep
  <2> DEFINE response == ops[i].response
  <2>1. response \in Response
    BY <1>6, OpFields DEF CommitResponse, TypeOK, ResponseOp
  <2>2. ResponseInOrder(cases[response.case_id], response.received_on)
    BY <1>6 DEF CommitResponse, StaleReadsAreSafe, ReadsStillHold
  <2>3. Records(response)
    BY <1>6, <2>1, <2>2 DEF CommitResponse, ResponseMatches, Records
  <2> QED BY <2>1, <2>3 DEF TableStep
<1>7. ASSUME UNCHANGED <<cases, timeline, approved, bindings, responses>>
      PROVE  TableStep
  BY <1>7 DEF TableStep
<1> QED
  BY <1>1, <1>2, <1>3, <1>4, <1>5, <1>6, <1>7
     DEF Next, Operate, SetDisplayName, BeginApprove, BeginSubmit, BeginExtension,
         BeginTransition, BeginResponse, Start, Compose, Abandon, vars

(* A transaction that logs an event legal in the status of the row, and leaves
   the row with the status the event names, continues the history. *)
LEMMA LoggedHistory ==
  ASSUME TypeOK, TimelineIsHistory, NEW c \in CaseIds, NEW row \in Row, NEW e \in Event,
         Found(c), cases' = [cases EXCEPT ![c] = row], Log(c, e),
         LegalEvent(e), e.from = cases[c].status, e.to = row.status
  PROVE  TimelineIsHistory'
<1> SUFFICES ASSUME NEW k \in CaseIds
             PROVE  IF Found(k)' THEN IsHistory(timeline'[k], cases'[k].status)
                    ELSE timeline'[k] = <<>>
  BY DEF TimelineIsHistory
<1>1. CASE k = c
  <2>1. cases'[k] = row /\ timeline'[k] = Append(timeline[c], e)
    BY <1>1 DEF TypeOK, Log
  <2>2. timeline[c] \in Seq(Event) /\ IsHistory(timeline[c], cases[c].status)
    BY DEF TypeOK, TimelineIsHistory
  <2>3. IsHistory(Append(timeline[c], e), e.to)
    BY <2>2, AppendHistory
  <2>4. Found(k)'
    BY <2>1 DEF Found, Event, CaseStatus
  <2> QED BY <2>1, <2>3, <2>4
<1>2. CASE k # c
  <2>1. cases'[k] = cases[k] /\ timeline'[k] = timeline[k]
    BY <1>2 DEF TypeOK, Log
  <2> QED BY <2>1 DEF TimelineIsHistory, Found
<1> QED
  BY <1>1, <1>2

LEMMA InitTimeline == Init => TimelineIsHistory
<1> SUFFICES ASSUME Init, NEW c \in CaseIds
             PROVE  IF Found(c) THEN IsHistory(timeline[c], cases[c].status)
                    ELSE timeline[c] = <<>>
  BY DEF TimelineIsHistory
<1>1. CASE c \in LegacyIds
  <2>1. cases[c] \in LegacyRows /\ timeline[c] = LegacyTimeline(cases[c])
    BY <1>1 DEF Init
  <2>2. Found(c)
    BY <2>1 DEF LegacyRows, Found, CaseStatus
  <2> QED BY <2>1, <2>2, LegacyHistory
<1>2. CASE c \notin LegacyIds
  BY <1>2 DEF Init, Found, AbsentRow, NewRow
<1> QED
  BY <1>1, <1>2

LEMMA NextTimeline == TypeOK /\ TimelineIsHistory /\ TableStep => TimelineIsHistory'
<1> SUFFICES ASSUME TypeOK, TimelineIsHistory, TableStep PROVE TimelineIsHistory'
  OBVIOUS
<1>1. ASSUME NEW c \in CaseIds, NEW right \in Rights, Creates(c, right)
      PROVE  TimelineIsHistory'
  <2> SUFFICES ASSUME NEW k \in CaseIds
               PROVE  IF Found(k)' THEN IsHistory(timeline'[k], cases'[k].status)
                      ELSE timeline'[k] = <<>>
    BY DEF TimelineIsHistory
  <2>1. CASE k = c
    <3>1. cases'[k].status = "DRAFT" /\ timeline'[k] = <<NewEvent("CREATED", Null, "DRAFT")>>
      BY <1>1, <2>1 DEF Creates, TypeOK, NewRow
    <3> QED BY <3>1, CreatedHistory DEF Found
  <2>2. CASE k # c
    <3>1. cases'[k] = cases[k] /\ timeline'[k] = timeline[k]
      BY <1>1, <2>2 DEF Creates, TypeOK
    <3> QED BY <3>1 DEF TimelineIsHistory, Found
  <2> QED BY <2>1, <2>2
<1>2. ASSUME NEW c \in CaseIds, NEW op \in SubmitOp, Submits(c, op)
      PROVE  TimelineIsHistory'
  <2> DEFINE e == NewEvent("REQUEST_SUBMITTED", "DRAFT", "AWAITING_RESPONSE")
             row == SubmittedRow(cases[c], op)
  <2>1. cases[c] \in Row /\ row \in Row
    BY UpdatedRowType DEF TypeOK
  <2>2. row.status = "AWAITING_RESPONSE"
    BY <2>1 DEF SubmittedRow, Row
  <2>3. e \in Event /\ e.from = "DRAFT" /\ e.to = "AWAITING_RESPONSE" /\ LegalEvent(e)
    BY NullAssumption DEF NewEvent, Event, CaseStatus, LegalEvent, AllowedTransitions
  <2>4. Found(c) /\ e.from = cases[c].status
    BY <1>2, <2>3 DEF Found, Submits
  <2> HIDE DEF e, row
  <2>5. cases' = [cases EXCEPT ![c] = row] /\ Log(c, e)
    BY <1>2 DEF Submits, e, row
  <2> QED BY <2>1, <2>2, <2>3, <2>4, <2>5, LoggedHistory
<1>3. ASSUME NEW c \in CaseIds, NEW op \in ExtensionOp, Extends(c, op)
      PROVE  TimelineIsHistory'
  <2> DEFINE e == NewEvent("EXTENSION_RECORDED", "AWAITING_RESPONSE", "AWAITING_RESPONSE")
             row == ExtendedRow(cases[c], op)
  <2>1. cases[c] \in Row /\ row \in Row
    BY UpdatedRowType DEF TypeOK
  <2>2. row.status = "AWAITING_RESPONSE"
    BY <1>3, <2>1 DEF ExtendedRow, Row, Extends
  <2>3. /\ e \in Event /\ e.from = "AWAITING_RESPONSE" /\ e.to = "AWAITING_RESPONSE"
        /\ LegalEvent(e)
    BY DEF NewEvent, Event, CaseStatus, LegalEvent
  <2>4. Found(c) /\ e.from = cases[c].status
    BY <1>3, <2>3 DEF Found, Extends
  <2> HIDE DEF e, row
  <2>5. cases' = [cases EXCEPT ![c] = row] /\ Log(c, e)
    BY <1>3 DEF Extends, e, row
  <2> QED BY <2>1, <2>2, <2>3, <2>4, <2>5, LoggedHistory
<1>4. ASSUME NEW c \in CaseIds, NEW op \in TransitionOp, Moves(c, op)
      PROVE  TimelineIsHistory'
  <2> DEFINE e == NewEvent("STATUS_CHANGED", op.expected, op.target)
             row == MovedRow(cases[c], op)
  <2>1. cases[c] \in Row /\ row \in Row
    BY UpdatedRowType DEF TypeOK
  <2>2. row.status = op.target
    BY <2>1 DEF MovedRow, Row
  <2>3. op.expected \in CaseStatus /\ op.target \in CaseStatus
    BY DEF TransitionOp
  <2>4. /\ e \in Event /\ e.from = op.expected /\ e.to = op.target
        /\ LegalEvent(e)
    BY <1>4, <2>3, NullAssumption DEF NewEvent, Event, LegalEvent, Moves
  <2>5. Found(c) /\ e.from = cases[c].status
    BY <1>4, <2>3, <2>4 DEF Found, Moves, CaseStatus
  <2> HIDE DEF e, row
  <2>6. cases' = [cases EXCEPT ![c] = row] /\ Log(c, e)
    BY <1>4 DEF Moves, e, row
  <2> QED BY <2>1, <2>2, <2>4, <2>5, <2>6, LoggedHistory
<1>5. ASSUME UNCHANGED <<cases, timeline>>
      PROVE  TimelineIsHistory'
  BY <1>5 DEF TimelineIsHistory, Found
<1> QED
  BY <1>1, <1>2, <1>3, <1>4, <1>5 DEF TableStep, Approves, Records

(* The timeline of every case is the history of its status, and every change
   in it is one the program allows. *)
THEOREM Timeline == Spec => []TimelineIsHistory
  BY InitTypeOK, NextTypeOK, InitReads, NextReads, NextTables, InitTimeline, NextTimeline,
     PTL DEF Spec

-----------------------------------------------------------------------------
(* The timeline against the row. *)

LEMMA AppendCounts ==
  ASSUME NEW events \in Seq(Event), NEW e \in Event, NEW type
  PROVE  /\ e.type # type /\ HasNone(events, type) => HasNone(Append(events, e), type)
         /\ e.type # type /\ HasOne(events, type) => HasOne(Append(events, e), type)
         /\ e.type = type /\ HasNone(events, type) => HasOne(Append(events, e), type)
<1> DEFINE longer == Append(events, e)
<1>1. /\ longer \in Seq(Event)
      /\ Len(longer) = Len(events) + 1
      /\ longer[Len(events) + 1] = e
      /\ \A k \in 1..Len(events) : longer[k] = events[k]
  BY AppendType
<1>2. DOMAIN events = 1..Len(events) /\ DOMAIN longer = 1..(Len(events) + 1)
  BY <1>1
<1>3. Len(events) \in Nat
  OBVIOUS
<1> HIDE DEF longer
<1>4. e.type # type /\ HasNone(events, type) => HasNone(longer, type)
  BY <1>1, <1>2, <1>3 DEF HasNone
<1>5. ASSUME e.type # type, HasOne(events, type) PROVE HasOne(longer, type)
  <2>1. PICK k \in DOMAIN events :
          events[k].type = type /\ \A j \in DOMAIN events : events[j].type = type => j = k
    BY <1>5 DEF HasOne
  <2> QED BY <1>1, <1>2, <1>3, <1>5, <2>1 DEF HasOne
<1>6. ASSUME e.type = type, HasNone(events, type) PROVE HasOne(longer, type)
  <2>1. Len(events) + 1 \in DOMAIN longer /\ longer[Len(events) + 1].type = type
    BY <1>1, <1>2, <1>3, <1>6
  <2>2. \A j \in DOMAIN longer : longer[j].type = type => j = Len(events) + 1
    BY <1>1, <1>2, <1>3, <1>6 DEF HasNone
  <2> QED BY <2>1, <2>2 DEF HasOne
<1> QED
  BY <1>4, <1>5, <1>6 DEF longer

Explains(events, row) ==
  /\ IF row.received_on # Null
     THEN HasOne(events, "REQUEST_SUBMITTED") ELSE HasNone(events, "REQUEST_SUBMITTED")
  /\ IF row.extension_notified_on # Null
     THEN HasOne(events, "EXTENSION_RECORDED") ELSE HasNone(events, "EXTENSION_RECORDED")

LEMMA ExplainedRow ==
  ASSUME TypeOK, TimelineExplainsRow, NEW c \in CaseIds, NEW row, NEW events,
         cases' = [cases EXCEPT ![c] = row], timeline' = [timeline EXCEPT ![c] = events],
         Explains(events, row)
  PROVE  TimelineExplainsRow'
<1> SUFFICES ASSUME NEW k \in CaseIds PROVE Explains(timeline'[k], cases'[k])
  BY DEF TimelineExplainsRow, Explains
<1>1. CASE k = c
  BY <1>1 DEF TypeOK
<1>2. CASE k # c
  BY <1>2 DEF TypeOK, TimelineExplainsRow, Explains
<1> QED
  BY <1>1, <1>2

LEMMA LegacyExplained ==
  ASSUME NEW row \in LegacyRows
  PROVE  Explains(LegacyTimeline(row), row)
<1> DEFINE created == <<NewEvent("CREATED", Null, "DRAFT")>>
           type == IF row.received_on = Null THEN "STATUS_CHANGED" ELSE "REQUEST_SUBMITTED"
           submission == NewEvent(type, "DRAFT", "AWAITING_RESPONSE")
           submitted == Append(created, submission)
           closure(from) == NewEvent("STATUS_CHANGED", from, row.status)
           Consistent(events) ==
             /\ HasNone(events, "EXTENSION_RECORDED")
             /\ IF row.received_on # Null
                THEN HasOne(events, "REQUEST_SUBMITTED") ELSE HasNone(events, "REQUEST_SUBMITTED")
<1>1. row.status \in CaseStatus /\ row.extension_notified_on = Null
  BY DEF LegacyRows, CaseStatus
<1>2. row.status = "DRAFT" => row.received_on = Null
  BY DEF LegacyRows
<1>3. /\ created \in Seq(Event)
      /\ \A t \in {"REQUEST_SUBMITTED", "EXTENSION_RECORDED"} : HasNone(created, t)
  BY DEF NewEvent, Event, CaseStatus, HasNone
<1>4. submission \in Event /\ submission.type = type
  BY DEF NewEvent, Event, CaseStatus
<1>5. \A from \in CaseStatus : closure(from) \in Event /\ closure(from).type = "STATUS_CHANGED"
  BY <1>1 DEF NewEvent, Event
<1>6. submitted \in Seq(Event) /\ Consistent(submitted)
  <2>1. submitted \in Seq(Event) /\ HasNone(submitted, "EXTENSION_RECORDED")
    BY <1>3, <1>4, AppendCounts, AppendType
  <2>2. CASE row.received_on # Null
    BY <2>1, <2>2, <1>3, <1>4, AppendCounts
  <2>3. CASE row.received_on = Null
    BY <2>1, <2>3, <1>3, <1>4, AppendCounts
  <2> QED BY <2>2, <2>3
<1> HIDE DEF created, submitted, closure
<1>7. Consistent(Append(submitted, closure("AWAITING_RESPONSE")))
  <2>1. /\ closure("AWAITING_RESPONSE") \in Event
        /\ closure("AWAITING_RESPONSE").type = "STATUS_CHANGED"
    BY <1>5 DEF CaseStatus
  <2> QED BY <2>1, <1>6, AppendCounts
<1>8. row.received_on = Null => Consistent(Append(created, closure("DRAFT")))
  <2>1. closure("DRAFT") \in Event /\ closure("DRAFT").type = "STATUS_CHANGED"
    BY <1>5 DEF CaseStatus
  <2> QED BY <2>1, <1>3, AppendCounts
<1>9. Consistent(LegacyTimeline(row))
  BY <1>2, <1>3, <1>6, <1>7, <1>8 DEF LegacyTimeline, created, submitted, closure
<1> QED
  BY <1>1, <1>9 DEF Explains

LEMMA InitExplains == Init => TimelineExplainsRow
<1> SUFFICES ASSUME Init, NEW c \in CaseIds PROVE Explains(timeline[c], cases[c])
  BY DEF TimelineExplainsRow, Explains
<1>1. CASE c \in LegacyIds
  BY <1>1, LegacyExplained DEF Init
<1>2. CASE c \notin LegacyIds
  BY <1>2 DEF Init, AbsentRow, NewRow, Explains, HasNone
<1> QED
  BY <1>1, <1>2

LEMMA NextExplains == TypeOK /\ TimelineExplainsRow /\ TableStep => TimelineExplainsRow'
<1> SUFFICES ASSUME TypeOK, TimelineExplainsRow, TableStep PROVE TimelineExplainsRow'
  OBVIOUS
<1>0. ASSUME NEW c \in CaseIds
      PROVE  cases[c] \in Row /\ timeline[c] \in Seq(Event) /\ Explains(timeline[c], cases[c])
  BY DEF TypeOK, TimelineExplainsRow, Explains
<1>1. ASSUME NEW c \in CaseIds, NEW right \in Rights, Creates(c, right)
      PROVE  TimelineExplainsRow'
  <2>1. Explains(<<NewEvent("CREATED", Null, "DRAFT")>>, NewRow(right))
    BY DEF Explains, NewRow, NewEvent, HasNone
  <2> QED BY <1>1, <2>1, ExplainedRow DEF Creates
<1>2. ASSUME NEW c \in CaseIds, NEW op \in SubmitOp, Submits(c, op)
      PROVE  TimelineExplainsRow'
  <2> DEFINE e == NewEvent("REQUEST_SUBMITTED", "DRAFT", "AWAITING_RESPONSE")
             row == SubmittedRow(cases[c], op)
             events == Append(timeline[c], e)
  <2>1. e \in Event /\ e.type = "REQUEST_SUBMITTED"
    BY DEF NewEvent, Event, CaseStatus
  <2>2. /\ row.received_on = op.received_on
        /\ row.extension_notified_on = cases[c].extension_notified_on
    BY <1>0 DEF SubmittedRow, Row
  <2>3. op.received_on # Null
    BY ConstantsAssumption, NullAssumption DEF SubmitOp
  <2>4. HasNone(timeline[c], "REQUEST_SUBMITTED")
    BY <1>0, <1>2 DEF Explains, Submits
  <2> HIDE DEF e, row
  <2>5. HasOne(events, "REQUEST_SUBMITTED")
    BY <1>0, <2>1, <2>4, AppendCounts
  <2>6. IF row.extension_notified_on # Null
        THEN HasOne(events, "EXTENSION_RECORDED") ELSE HasNone(events, "EXTENSION_RECORDED")
    BY <1>0, <2>1, <2>2, AppendCounts DEF Explains
  <2>7. Explains(events, row)
    BY <2>2, <2>3, <2>5, <2>6 DEF Explains
  <2>8. cases' = [cases EXCEPT ![c] = row] /\ timeline' = [timeline EXCEPT ![c] = events]
    BY <1>2 DEF Submits, Log, e, row
  <2> QED BY <2>7, <2>8, ExplainedRow
<1>3. ASSUME NEW c \in CaseIds, NEW op \in ExtensionOp, Extends(c, op)
      PROVE  TimelineExplainsRow'
  <2> DEFINE e == NewEvent("EXTENSION_RECORDED", "AWAITING_RESPONSE", "AWAITING_RESPONSE")
             row == ExtendedRow(cases[c], op)
             events == Append(timeline[c], e)
  <2>1. e \in Event /\ e.type = "EXTENSION_RECORDED"
    BY DEF NewEvent, Event, CaseStatus
  <2>2. /\ row.received_on = cases[c].received_on
        /\ row.extension_notified_on = op.notified_on
    BY <1>0 DEF ExtendedRow, Row
  <2>3. op.notified_on # Null
    BY ConstantsAssumption, NullAssumption DEF ExtensionOp
  <2>4. HasNone(timeline[c], "EXTENSION_RECORDED")
    BY <1>0, <1>3 DEF Explains, Extends
  <2> HIDE DEF e, row
  <2>5. HasOne(events, "EXTENSION_RECORDED")
    BY <1>0, <2>1, <2>4, AppendCounts
  <2>6. IF row.received_on # Null
        THEN HasOne(events, "REQUEST_SUBMITTED") ELSE HasNone(events, "REQUEST_SUBMITTED")
    BY <1>0, <2>1, <2>2, AppendCounts DEF Explains
  <2>7. Explains(events, row)
    BY <2>2, <2>3, <2>5, <2>6 DEF Explains
  <2>8. cases' = [cases EXCEPT ![c] = row] /\ timeline' = [timeline EXCEPT ![c] = events]
    BY <1>3 DEF Extends, Log, e, row
  <2> QED BY <2>7, <2>8, ExplainedRow
<1>4. ASSUME NEW c \in CaseIds, NEW op \in TransitionOp, Moves(c, op)
      PROVE  TimelineExplainsRow'
  <2> DEFINE e == NewEvent("STATUS_CHANGED", op.expected, op.target)
             row == MovedRow(cases[c], op)
             events == Append(timeline[c], e)
  <2>1. e \in Event /\ e.type = "STATUS_CHANGED"
    BY DEF NewEvent, Event, TransitionOp
  <2>2. /\ row.received_on = cases[c].received_on
        /\ row.extension_notified_on = cases[c].extension_notified_on
    BY <1>0 DEF MovedRow, Row
  <2> HIDE DEF e, row
  <2>3. Explains(events, row)
    BY <1>0, <2>1, <2>2, AppendCounts DEF Explains
  <2>4. cases' = [cases EXCEPT ![c] = row] /\ timeline' = [timeline EXCEPT ![c] = events]
    BY <1>4 DEF Moves, Log, e, row
  <2> QED BY <2>3, <2>4, ExplainedRow
<1>5. ASSUME UNCHANGED <<cases, timeline>>
      PROVE  TimelineExplainsRow'
  BY <1>5 DEF TimelineExplainsRow
<1> QED
  BY <1>1, <1>2, <1>3, <1>4, <1>5 DEF TableStep, Approves, Records

(* A receipt date comes with exactly one submission in the timeline and an
   extension with exactly one recording, whichever instances raced. *)
THEOREM TimelineExplains == Spec => []TimelineExplainsRow
  BY InitTypeOK, NextTypeOK, InitReads, NextReads, NextTables, InitExplains, NextExplains,
     PTL DEF Spec

-----------------------------------------------------------------------------
(* The payload a case was submitted with. *)

ApprovedFit ==
  \A k \in DOMAIN approved : PayloadFits(approved[k], cases[approved[k].case_id])

BoundTo(c) ==
  bindings[c] # 0 =>
    /\ bindings[c] \in DOMAIN approved
    /\ approved[bindings[c]].case_id = c
    /\ cases[c].received_on # Null /\ cases[c].snapshot # Null
    /\ Opened(cases[c])

UnboundAreLegacy ==
  \A c \in CaseIds : cases[c].received_on # Null /\ bindings[c] = 0 => c \in LegacyIds

BoundOnce ==
  \A c, other \in CaseIds : bindings[c] # 0 /\ other # c => bindings[other] # bindings[c]

(* SubmissionProvenance does not say what the payloads no case is bound to yet
   are like: that every one of them fits its case makes it inductive. *)
ProvenanceInv ==
  /\ ApprovedFit
  /\ \A c \in CaseIds : BoundTo(c)
  /\ UnboundAreLegacy
  /\ BoundOnce

LEMMA ProvenanceFollows == ProvenanceInv => SubmissionProvenance
<1> SUFFICES ASSUME ProvenanceInv PROVE SubmissionProvenance
  OBVIOUS
<1>1. ASSUME NEW c \in CaseIds, bindings[c] # 0
      PROVE  PayloadFits(approved[bindings[c]], cases[c])
  BY <1>1 DEF ProvenanceInv, ApprovedFit, BoundTo
<1> QED
  BY <1>1 DEF ProvenanceInv, BoundTo, UnboundAreLegacy, BoundOnce, SubmissionProvenance,
              PayloadFits, Opened

LEMMA InitProvenance == Init => ProvenanceInv
<1> SUFFICES ASSUME Init PROVE ProvenanceInv
  OBVIOUS
<1>1. ApprovedFit
  BY DEF Init, ApprovedFit
<1>2. ASSUME NEW c \in CaseIds PROVE BoundTo(c)
  BY DEF Init, BoundTo
<1>3. UnboundAreLegacy
  BY DEF Init, UnboundAreLegacy, AbsentRow, NewRow
<1>4. BoundOnce
  BY DEF Init, BoundOnce
<1> QED
  BY <1>1, <1>2, <1>3, <1>4 DEF ProvenanceInv

LEMMA NextProvenance ==
  TypeOK /\ TypeOK' /\ RowsEvolve /\ ProvenanceInv /\ TableStep => ProvenanceInv'
<1> SUFFICES ASSUME TypeOK, TypeOK', RowsEvolve, ProvenanceInv, TableStep PROVE ProvenanceInv'
  OBVIOUS
<1>1. ASSUME NEW c \in CaseIds, NEW payload, PayloadFits(payload, cases[c])
      PROVE  PayloadFits(payload, cases'[c])
  BY <1>1, FactsSurvive DEF RowsEvolve
<1>2. ApprovedFit'
  <2>1. ASSUME UNCHANGED approved PROVE ApprovedFit'
    <3> SUFFICES ASSUME NEW k \in DOMAIN approved
                 PROVE  PayloadFits(approved[k], cases'[approved[k].case_id])
      BY <2>1 DEF ApprovedFit
    <3>1. approved[k].case_id \in CaseIds
      <4>1. approved[k] \in Payload
        BY DEF TypeOK
      <4> QED BY <4>1 DEF Payload
    <3> QED BY <1>1, <3>1 DEF ProvenanceInv, ApprovedFit
  <2>2. ASSUME NEW payload \in Payload, Approves(payload) PROVE ApprovedFit'
    <3> SUFFICES ASSUME NEW k \in DOMAIN approved'
                 PROVE  PayloadFits(approved'[k], cases[approved'[k].case_id])
      BY <2>2 DEF ApprovedFit, Approves
    <3>1. CASE k \in DOMAIN approved
      BY <2>2, <3>1, AppendType DEF Approves, ProvenanceInv, ApprovedFit, TypeOK
    <3>2. CASE k \notin DOMAIN approved
      <4>1. k = Len(approved) + 1 /\ approved'[k] = payload
        BY <2>2, <3>2, AppendType DEF Approves, TypeOK
      <4> QED BY <2>2, <4>1 DEF Approves
    <3> QED BY <3>1, <3>2
  <2> QED BY <2>1, <2>2 DEF TableStep, Creates, Submits, Extends, Moves, Records
<1>3. ASSUME NEW c \in CaseIds, NEW op \in SubmitOp, Submits(c, op)
      PROVE  (\A k \in CaseIds : BoundTo(k)') /\ UnboundAreLegacy' /\ BoundOnce'
  <2>1. /\ \A k \in CaseIds : k # c => cases'[k] = cases[k] /\ bindings'[k] = bindings[k]
        /\ cases'[c] = SubmittedRow(cases[c], op)
        /\ bindings'[c] = op.approved_request_id
        /\ approved' = approved
    BY <1>3 DEF Submits, TypeOK
  <2>2. bindings'[c] # 0 /\ bindings'[c] \in DOMAIN approved /\ approved[bindings'[c]].case_id = c
    BY <1>3, <2>1 DEF Submits, Bindable, TypeOK
  <2>3. /\ cases'[c].status = "AWAITING_RESPONSE" /\ cases'[c].received_on = op.received_on
        /\ cases'[c].snapshot = op.snapshot
    BY <2>1 DEF SubmittedRow, TypeOK, Row
  <2>4. op.received_on # Null /\ op.snapshot # Null
    BY ConstantsAssumption, NullAssumption DEF SubmitOp
  <2>5. BoundTo(c)'
    BY <2>1, <2>2, <2>3, <2>4 DEF BoundTo, Opened
  <2>6. \A k \in CaseIds : BoundTo(k)'
    BY <2>1, <2>5 DEF BoundTo, ProvenanceInv
  <2>7. UnboundAreLegacy'
    BY <2>1, <2>2 DEF UnboundAreLegacy, ProvenanceInv
  <2>8. BoundOnce'
    BY <1>3, <2>1 DEF BoundOnce, ProvenanceInv, Submits
  <2> QED BY <2>6, <2>7, <2>8
<1>4. ASSUME UNCHANGED bindings,
             \A k \in DOMAIN approved : k \in DOMAIN approved' /\ approved'[k] = approved[k],
             \A c \in CaseIds : cases[c].received_on = Null => cases'[c].received_on = Null
      PROVE  (\A k \in CaseIds : BoundTo(k)') /\ UnboundAreLegacy' /\ BoundOnce'
  <2>1. ASSUME NEW k \in CaseIds PROVE BoundTo(k)'
    BY <1>4 DEF BoundTo, ProvenanceInv, RowsEvolve, Evolves
  <2>2. UnboundAreLegacy'
    BY <1>4 DEF UnboundAreLegacy, ProvenanceInv
  <2>3. BoundOnce'
    BY <1>4 DEF BoundOnce, ProvenanceInv
  <2> QED BY <2>1, <2>2, <2>3
<1>5. ASSUME NEW c \in CaseIds, NEW right \in Rights, Creates(c, right)
      PROVE  \A k \in CaseIds : cases[k].received_on = Null => cases'[k].received_on = Null
  BY <1>5 DEF Creates, NewRow, TypeOK
<1>6. ASSUME NEW c \in CaseIds, NEW op \in ExtensionOp, Extends(c, op)
      PROVE  \A k \in CaseIds : cases[k].received_on = Null => cases'[k].received_on = Null
  BY <1>6 DEF Extends, ExtendedRow, TypeOK, Row
<1>7. ASSUME NEW c \in CaseIds, NEW op \in TransitionOp, Moves(c, op)
      PROVE  \A k \in CaseIds : cases[k].received_on = Null => cases'[k].received_on = Null
  BY <1>7 DEF Moves, MovedRow, TypeOK, Row
<1>8. ASSUME NEW payload \in Payload, Approves(payload)
      PROVE  \A k \in DOMAIN approved : k \in DOMAIN approved' /\ approved'[k] = approved[k]
  BY <1>8, AppendType DEF Approves, TypeOK
<1>9. (\A k \in CaseIds : BoundTo(k)') /\ UnboundAreLegacy' /\ BoundOnce'
  <2>1. ASSUME NEW c \in CaseIds, NEW right \in Rights, Creates(c, right)
        PROVE  (\A k \in CaseIds : BoundTo(k)') /\ UnboundAreLegacy' /\ BoundOnce'
    BY <1>4, <1>5, <2>1 DEF Creates
  <2>2. ASSUME NEW c \in CaseIds, NEW op \in ExtensionOp, Extends(c, op)
        PROVE  (\A k \in CaseIds : BoundTo(k)') /\ UnboundAreLegacy' /\ BoundOnce'
    BY <1>4, <1>6, <2>2 DEF Extends
  <2>3. ASSUME NEW c \in CaseIds, NEW op \in TransitionOp, Moves(c, op)
        PROVE  (\A k \in CaseIds : BoundTo(k)') /\ UnboundAreLegacy' /\ BoundOnce'
    BY <1>4, <1>7, <2>3 DEF Moves
  <2>4. ASSUME NEW payload \in Payload, Approves(payload)
        PROVE  (\A k \in CaseIds : BoundTo(k)') /\ UnboundAreLegacy' /\ BoundOnce'
    BY <1>4, <1>8, <2>4 DEF Approves
  <2>5. ASSUME UNCHANGED <<cases, approved, bindings>>
        PROVE  (\A k \in CaseIds : BoundTo(k)') /\ UnboundAreLegacy' /\ BoundOnce'
    BY <1>4, <2>5
  <2> QED BY <1>3, <2>1, <2>2, <2>3, <2>4, <2>5 DEF TableStep, Records
<1> QED
  BY <1>2, <1>9 DEF ProvenanceInv

(* A submitted case is bound to a payload approved for it and its right, which
   no other case is bound to. *)
THEOREM Provenance == Spec => []SubmissionProvenance
  BY InitTypeOK, NextTypeOK, InitReads, NextReads, NextTables, InitProvenance, NextProvenance,
     ProvenanceFollows, PTL DEF Spec

-----------------------------------------------------------------------------
(* Dates. *)

LEMMA InitDates == Init => DatesInOrder
<1> SUFFICES ASSUME Init PROVE DatesInOrder
  OBVIOUS
<1>1. \A c \in CaseIds : cases[c].extension_notified_on = Null
  BY DEF Init, LegacyRows, AbsentRow, NewRow
<1> QED
  BY <1>1 DEF Init, DatesInOrder

LEMMA NextDates ==
  TypeOK /\ RowsEvolve /\ DatesInOrder /\ TableStep => DatesInOrder'
<1> SUFFICES ASSUME TypeOK, RowsEvolve, DatesInOrder, TableStep PROVE DatesInOrder'
  OBVIOUS
<1>1. ASSUME NEW c \in CaseIds, NEW d
      PROVE  /\ ExtensionInOrder(cases[c], d) => ExtensionInOrder(cases'[c], d)
             /\ ResponseInOrder(cases[c], d) => ResponseInOrder(cases'[c], d)
  BY FactsSurvive DEF RowsEvolve
<1>2. ASSUME NEW c \in CaseIds, cases'[c].extension_notified_on # Null
      PROVE  ExtensionInOrder(cases'[c], cases'[c].extension_notified_on)
  <2>1. CASE cases'[c].extension_notified_on = cases[c].extension_notified_on
    BY <1>1, <1>2, <2>1 DEF DatesInOrder
  <2>2. CASE cases'[c].extension_notified_on # cases[c].extension_notified_on
    <3>1. ASSUME NEW k \in CaseIds, NEW right \in Rights, Creates(k, right) PROVE FALSE
      BY <1>2, <2>2, <3>1 DEF Creates, NewRow, TypeOK
    <3>2. ASSUME NEW k \in CaseIds, NEW op \in SubmitOp, Submits(k, op) PROVE FALSE
      BY <2>2, <3>2 DEF Submits, SubmittedRow, TypeOK, Row
    <3>3. ASSUME NEW k \in CaseIds, NEW op \in TransitionOp, Moves(k, op) PROVE FALSE
      BY <2>2, <3>3 DEF Moves, MovedRow, TypeOK, Row
    <3>4. ASSUME NEW k \in CaseIds, NEW op \in ExtensionOp, Extends(k, op)
          PROVE  k = c /\ cases'[c].extension_notified_on = op.notified_on
      BY <2>2, <3>4 DEF Extends, ExtendedRow, TypeOK, Row
    <3>5. PICK k \in CaseIds, op \in ExtensionOp : Extends(k, op)
      BY <2>2, <3>1, <3>2, <3>3 DEF TableStep, Approves, Records
    <3> QED BY <1>1, <3>4, <3>5 DEF Extends
  <2> QED BY <2>1, <2>2
<1>3. ASSUME NEW k \in DOMAIN responses'
      PROVE  ResponseInOrder(cases'[responses'[k].case_id], responses'[k].received_on)
  <2>1. ASSUME UNCHANGED responses
        PROVE  ResponseInOrder(cases'[responses'[k].case_id], responses'[k].received_on)
    <3>1. responses[k] \in Response /\ k \in DOMAIN responses
      BY <2>1 DEF TypeOK
    <3> QED BY <1>1, <2>1, <3>1 DEF DatesInOrder, Response
  <2>2. ASSUME NEW response \in Response, Records(response)
        PROVE  ResponseInOrder(cases'[responses'[k].case_id], responses'[k].received_on)
    <3>1. CASE k \in DOMAIN responses
      BY <2>2, <3>1, AppendType DEF Records, DatesInOrder, TypeOK
    <3>2. CASE k \notin DOMAIN responses
      <4>1. responses'[k] = response
        BY <2>2, <3>2, AppendType DEF Records, TypeOK
      <4> QED BY <2>2, <4>1 DEF Records
    <3> QED BY <3>1, <3>2
  <2> QED BY <2>1, <2>2 DEF TableStep, Creates, Submits, Extends, Moves, Approves
<1> QED
  BY <1>2, <1>3 DEF DatesInOrder

(* No extension and no response is dated before the receipt of the request,
   and no extension is recorded that a complete calendar calls late. *)
THEOREM Dated == Spec => []DatesInOrder
  BY InitTypeOK, NextTypeOK, InitReads, NextReads, NextTables, InitDates, NextDates,
     PTL DEF Spec

=============================================================================
