------------------------- MODULE CaseContractProofs -------------------------
(***************************************************************************)
(* CaseLifecycle implements CaseContract, for any number of instances,     *)
(* cases, payloads, responses and dates.                                   *)
(***************************************************************************)
EXTENDS CaseLifecycleProofs

(* The abstract variables. *)
Phase == [c \in CaseIds |-> cases[c].status]
Submission == [c \in CaseIds |-> SubmissionOf(c)]
Extended == [c \in CaseIds |-> cases[c].extension_notified_on # Null]
Due == [c \in CaseIds |-> EffectiveDeadline(cases[c])]
Answers == [c \in CaseIds |-> AnswersTo(c)]

(* What the simulation needs of the concrete state besides its types. *)
Bounded == Len(approved) =< MaxApproved

SimulationInv == TypeOK /\ RowShapes /\ DatesInOrder /\ ProvenanceInv /\ Bounded

LEMMA BoundedInduction ==
  /\ Init => Bounded
  /\ TypeOK /\ Bounded /\ TableStep => Bounded'
<1>1. Init => Bounded
  BY ConstantsAssumption DEF Init, Bounded
<1>2. ASSUME TypeOK, Bounded, NEW payload \in Payload, Approves(payload)
      PROVE  Bounded'
  <2>1. Len(approved) \in Nat /\ Len(approved') = Len(approved) + 1
    BY <1>2, AppendType DEF Approves, TypeOK
  <2> QED BY <1>2, <2>1, ConstantsAssumption DEF Approves, Bounded
<1>3. UNCHANGED approved => (Bounded => Bounded')
  BY DEF Bounded
<1> QED
  BY <1>1, <1>2, <1>3 DEF TableStep, Creates, Submits, Extends, Moves, Records

-----------------------------------------------------------------------------
(* Deadlines *)

LEMMA ScheduleOrder ==
  ASSUME NEW snapshot \in Snapshot, NEW d \in Days, IsSchedule(snapshot, d)
  PROVE  /\ snapshot.initial \in Dates /\ snapshot.extended \in Dates
         /\ snapshot.initial > d /\ snapshot.extended >= snapshot.initial
<1>1. snapshot.code \in Calendars
  BY DEF Snapshot
<1>2. /\ snapshot.initial = InitialDue[snapshot.code][d]
      /\ snapshot.extended = ExtendedDue[snapshot.code][d]
  BY DEF IsSchedule, ScheduleFor
<1>3. /\ InitialDue[snapshot.code][d] \in Dates /\ InitialDue[snapshot.code][d] \in Nat
      /\ ExtendedDue[snapshot.code][d] \in Dates /\ ExtendedDue[snapshot.code][d] \in Nat
      /\ d \in Nat
  BY <1>1, ConstantsAssumption DEF Dates
<1>4. d < InitialDue[snapshot.code][d] /\ InitialDue[snapshot.code][d] =< ExtendedDue[snapshot.code][d]
  BY <1>1, DeadlineAssumption
<1> QED
  BY <1>2, <1>3, <1>4

LEMMA DeadlineOrder ==
  ASSUME NEW row \in Row, RowShape(row), row.received_on # Null
  PROVE  /\ DeadlineFor(row).initial \in Dates /\ DeadlineFor(row).extended \in Dates
         /\ DeadlineFor(row).initial > row.received_on
         /\ DeadlineFor(row).extended >= DeadlineFor(row).initial
         /\ DeadlineFor(row).initial \in Nat /\ DeadlineFor(row).extended \in Nat
<1>1. row.received_on \in Days
  BY DEF Row
<1>2. ScheduleFor(WeekendOnly, row.received_on) \in Snapshot
  BY <1>1, ScheduleType, ConstantsAssumption
<1>3. IsSchedule(ScheduleFor(WeekendOnly, row.received_on), row.received_on)
  BY DEF IsSchedule, ScheduleFor
<1>4. DeadlineFor(row) \in Snapshot /\ IsSchedule(DeadlineFor(row), row.received_on)
  BY <1>2, <1>3 DEF DeadlineFor, RowShape, Row
<1> QED
  BY <1>1, <1>4, ScheduleOrder DEF Snapshot

-----------------------------------------------------------------------------
LEMMA InitSimulates == Init => Contract!Init
<1> SUFFICES ASSUME Init PROVE Contract!Init
  OBVIOUS
<1>0. TypeOK /\ RowShapes
  BY InitTypeOK, InitReads
<1>1. \A c \in CaseIds : cases[c].extension_notified_on = Null
  BY DEF Init, LegacyRows, AbsentRow, NewRow
<1>2. Phase \in [CaseIds -> {"ABSENT", "DRAFT", "AWAITING_RESPONSE", "COMPLETED", "CANCELLED"}]
  BY <1>0 DEF Phase, TypeOK, Row, CaseStatus
<1>3. Submission \in [CaseIds -> [request : {0}, received_on : Dates] \cup {Null}]
  <2>1. ASSUME NEW c \in CaseIds
        PROVE  SubmissionOf(c) \in [request : {0}, received_on : Dates] \cup {Null}
    BY <1>0 DEF SubmissionOf, Init, TypeOK, Row, Dates
  <2> QED BY <2>1 DEF Submission
<1>4. ASSUME NEW c \in CaseIds
      PROVE  /\ EffectiveDeadline(cases[c]) \in Dates \cup {Null}
             /\ IF SubmissionOf(c) # Null
                THEN /\ cases[c].status \notin {"ABSENT", "DRAFT"}
                     /\ EffectiveDeadline(cases[c]) > SubmissionOf(c).received_on
                ELSE EffectiveDeadline(cases[c]) = Null
  <2>1. CASE cases[c].received_on = Null
    BY <2>1 DEF SubmissionOf, EffectiveDeadline
  <2>2. CASE cases[c].received_on # Null
    <3>1. EffectiveDeadline(cases[c]) = DeadlineFor(cases[c]).initial
      BY <1>1, <2>2 DEF EffectiveDeadline
    <3>2. cases[c] \in Row /\ RowShape(cases[c])
      BY <1>0 DEF TypeOK, RowShapes
    <3>3. SubmissionOf(c) = [request |-> bindings[c], received_on |-> cases[c].received_on]
      BY <2>2 DEF SubmissionOf
    <3>4. bindings[c] \in Nat /\ cases[c].received_on \in Days
      BY <1>0, <2>2 DEF TypeOK, Row
    <3>5. SubmissionOf(c) # Null /\ SubmissionOf(c).received_on = cases[c].received_on
      BY <3>3, <3>4, NullAssumption
    <3>6. cases[c].status \notin {"ABSENT", "DRAFT"}
      BY <2>2, <3>2 DEF RowShape, Opened
    <3> QED BY <2>2, <3>1, <3>2, <3>5, <3>6, DeadlineOrder
  <2> QED BY <2>1, <2>2
<1>5. Extended = [c \in CaseIds |-> FALSE]
  BY <1>1 DEF Extended
<1>6. Answers = [c \in CaseIds |-> {}]
  BY DEF Answers, AnswersTo, Init
<1> QED
  BY <1>2, <1>3, <1>4, <1>5, <1>6
     DEF Contract!Init, Contract!Submitted, Phase, Submission, Extended, Due, Answers

-----------------------------------------------------------------------------
(* Every transaction is a step of the contract. *)

LEMMA CreateSimulates ==
  ASSUME SimulationInv, NEW c \in CaseIds, NEW right \in Rights, Creates(c, right)
  PROVE  Contract!Open(c)
<1>1. /\ \A k \in CaseIds : k # c => cases'[k] = cases[k]
      /\ cases'[c] = NewRow(right)
  BY DEF Creates, SimulationInv, TypeOK
<1>2. cases[c].received_on = Null /\ cases[c].extension_notified_on = Null
  BY DEF SimulationInv, RowShapes, RowShape, Opened, Creates
<1>3. /\ cases'[c].received_on = Null /\ cases'[c].extension_notified_on = Null
      /\ cases'[c].status = "DRAFT"
  BY <1>1 DEF NewRow
<1>4. Phase[c] = "ABSENT" /\ Phase' = [Phase EXCEPT ![c] = "DRAFT"]
  <2>1. cases[c].status = "ABSENT"
    BY DEF Creates
  <2> QED BY <1>1, <1>3, <2>1 DEF Phase
<1>5. Submission' = Submission
  BY <1>1, <1>2, <1>3 DEF Submission, SubmissionOf, Creates
<1>6. Extended' = Extended
  BY <1>1, <1>2, <1>3 DEF Extended
<1>7. Due' = Due
  BY <1>1, <1>2, <1>3 DEF Due, EffectiveDeadline
<1>8. Answers' = Answers
  BY DEF Answers, AnswersTo, Creates
<1> QED
  BY <1>4, <1>5, <1>6, <1>7, <1>8
     DEF Contract!Open, Phase, Submission, Extended, Due, Answers

LEMMA MoveSimulates ==
  ASSUME SimulationInv, NEW c \in CaseIds, NEW op \in TransitionOp, Moves(c, op)
  PROVE  \E last_phase \in {"COMPLETED", "CANCELLED"} : Contract!Close(c, last_phase)
<1>1. cases[c] \in Row
  BY DEF SimulationInv, TypeOK
<1>2. /\ \A k \in CaseIds : k # c => cases'[k] = cases[k]
      /\ cases'[c] = MovedRow(cases[c], op)
  BY DEF Moves, SimulationInv, TypeOK
<1>3. /\ cases'[c].status = op.target
      /\ cases'[c].received_on = cases[c].received_on
      /\ cases'[c].extension_notified_on = cases[c].extension_notified_on
      /\ cases'[c].snapshot = cases[c].snapshot
  BY <1>1, <1>2 DEF MovedRow, Row
<1>4. \/ cases[c].status = "DRAFT" /\ op.target = "CANCELLED"
      \/ cases[c].status = "AWAITING_RESPONSE" /\ op.target \in {"COMPLETED", "CANCELLED"}
  BY DEF Moves, TransitionOp, CaseStatus, AllowedTransitions
<1>5. Phase[c] = cases[c].status /\ Phase' = [Phase EXCEPT ![c] = op.target]
  BY <1>2, <1>3 DEF Phase
<1>6. Submission' = Submission
  BY <1>2, <1>3 DEF Submission, SubmissionOf, Moves
<1>7. Extended' = Extended
  BY <1>2, <1>3 DEF Extended
<1>8. Due' = Due
  <2>1. \A k \in CaseIds : EffectiveDeadline(cases'[k]) = EffectiveDeadline(cases[k])
    BY <1>2, <1>3 DEF EffectiveDeadline, DeadlineFor
  <2> QED BY <2>1 DEF Due
<1>9. Answers' = Answers
  BY DEF Answers, AnswersTo, Moves
<1>10. Contract!Close(c, op.target)
  BY <1>4, <1>5, <1>6, <1>7, <1>8, <1>9
     DEF Contract!Close, Phase, Submission, Extended, Due, Answers
<1> QED
  BY <1>4, <1>10

LEMMA SubmitSimulates ==
  ASSUME SimulationInv, NEW c \in CaseIds, NEW op \in SubmitOp, Submits(c, op)
  PROVE  \E request \in 1..MaxApproved, d \in Dates, last_day \in Dates :
           Contract!Submit(c, request, d, last_day)
<1> DEFINE request == op.approved_request_id
           d == op.received_on
           last_day == op.snapshot.initial
<1>1. cases[c] \in Row /\ RowShape(cases[c])
  BY DEF SimulationInv, TypeOK, RowShapes
<1>2. /\ \A k \in CaseIds : k # c => cases'[k] = cases[k] /\ bindings'[k] = bindings[k]
      /\ cases'[c] = SubmittedRow(cases[c], op) /\ bindings'[c] = request
  BY DEF Submits, SimulationInv, TypeOK
<1>3. /\ cases'[c].status = "AWAITING_RESPONSE"
      /\ cases'[c].received_on = d
      /\ cases'[c].extension_notified_on = Null
      /\ cases'[c].snapshot = op.snapshot
  <2>1. cases[c].extension_notified_on = Null
    BY <1>1 DEF RowShape, Opened, Submits
  <2> QED BY <1>1, <1>2, <2>1 DEF SubmittedRow, Row
<1>4. d \in Days /\ op.snapshot \in Snapshot /\ request \in Nat /\ IsSchedule(op.snapshot, d)
  BY DEF SubmitOp, Submits
<1>5. d # Null /\ op.snapshot # Null
  BY <1>4, ConstantsAssumption, NullAssumption
<1>6. last_day \in Dates /\ last_day > d /\ d \in Dates
  BY <1>4, ScheduleOrder DEF Dates
<1>7. request \in 1..MaxApproved
  BY ConstantsAssumption DEF Submits, Bindable, SimulationInv, TypeOK, Bounded
<1>8. EffectiveDeadline(cases'[c]) = last_day
  BY <1>3, <1>5 DEF EffectiveDeadline, DeadlineFor
<1>9. /\ SubmissionOf(c)' = [request |-> request, received_on |-> d]
      /\ SubmissionOf(c) = Null
  BY <1>2, <1>3, <1>5 DEF SubmissionOf, Submits
<1>10. \A k \in CaseIds : SubmissionOf(k) # Null => SubmissionOf(k).request # request
  BY DEF SubmissionOf, Submits
<1>11. \A k \in CaseIds : k # c => SubmissionOf(k)' = SubmissionOf(k)
  BY <1>2 DEF SubmissionOf
<1> HIDE DEF request, d, last_day
<1>12. Phase[c] = "DRAFT" /\ Phase' = [Phase EXCEPT ![c] = "AWAITING_RESPONSE"]
  <2>1. cases[c].status = "DRAFT"
    BY DEF Submits
  <2> QED BY <1>2, <1>3, <2>1 DEF Phase
<1>13. Submission' = [Submission EXCEPT ![c] = [request |-> request, received_on |-> d]]
  BY <1>9, <1>11 DEF Submission
<1>14. Due' = [Due EXCEPT ![c] = last_day]
  BY <1>2, <1>8 DEF Due
<1>15. Extended' = Extended
  <2>1. cases[c].extension_notified_on = Null
    BY <1>1 DEF RowShape, Opened, Submits
  <2> QED BY <1>2, <1>3, <2>1 DEF Extended
<1>16. Answers' = Answers
  BY DEF Answers, AnswersTo, Submits
<1>17. Contract!Submit(c, request, d, last_day)
  BY <1>6, <1>9, <1>10, <1>12, <1>13, <1>14, <1>15, <1>16
     DEF Contract!Submit, Contract!Submitted, Phase, Submission, Extended, Due, Answers
<1> QED
  BY <1>6, <1>7, <1>17

LEMMA ExtendSimulates ==
  ASSUME SimulationInv, SimulationInv', NEW c \in CaseIds, NEW op \in ExtensionOp, Extends(c, op)
  PROVE  \E last_day \in Dates : Contract!Extend(c, last_day)
<1>0. PICK last_day : last_day = EffectiveDeadline(cases'[c])
  OBVIOUS
<1>1. cases[c] \in Row /\ RowShape(cases[c])
  BY DEF SimulationInv, TypeOK, RowShapes
<1>2. /\ \A k \in CaseIds : k # c => cases'[k] = cases[k]
      /\ cases'[c] = ExtendedRow(cases[c], op)
  BY DEF Extends, SimulationInv, TypeOK
<1>3. /\ cases'[c].status = cases[c].status
      /\ cases'[c].received_on = cases[c].received_on
      /\ cases'[c].extension_notified_on = op.notified_on
      /\ cases'[c].snapshot = cases[c].snapshot
  BY <1>1, <1>2 DEF ExtendedRow, Row
<1>4. /\ cases[c].status = "AWAITING_RESPONSE" /\ cases[c].received_on # Null
      /\ cases[c].extension_notified_on = Null /\ op.notified_on # Null
  BY ConstantsAssumption, NullAssumption DEF Extends, ExtensionInOrder, ExtensionOp
<1>5. DeadlineFor(cases'[c]) = DeadlineFor(cases[c])
  BY <1>3 DEF DeadlineFor
<1>6. EffectiveDeadline(cases[c]) = DeadlineFor(cases[c]).initial
  BY <1>4 DEF EffectiveDeadline
<1>7. last_day \in {DeadlineFor(cases[c]).initial, DeadlineFor(cases[c]).extended}
  BY <1>0, <1>3, <1>4, <1>5 DEF EffectiveDeadline
<1>8. last_day \in Dates /\ last_day >= EffectiveDeadline(cases[c])
  BY <1>1, <1>4, <1>6, <1>7, DeadlineOrder
<1>9. Phase[c] = "AWAITING_RESPONSE" /\ Phase' = Phase
  BY <1>2, <1>3, <1>4 DEF Phase
<1>10. SubmissionOf(c) # Null
  <2>1. bindings[c] \in Nat /\ cases[c].received_on \in Days
    BY <1>1, <1>4 DEF SimulationInv, TypeOK, Row
  <2> QED BY <1>4, <2>1, NullAssumption DEF SubmissionOf
<1>11. Submission' = Submission
  <2>1. bindings' = bindings
    BY DEF Extends
  <2> QED BY <1>2, <1>3, <2>1 DEF Submission, SubmissionOf
<1>12. Extended[c] = FALSE /\ Extended' = [Extended EXCEPT ![c] = TRUE]
  BY <1>2, <1>3, <1>4 DEF Extended
<1>13. Due' = [Due EXCEPT ![c] = last_day]
  BY <1>0, <1>2 DEF Due
<1>14. Answers' = Answers
  BY DEF Answers, AnswersTo, Extends
<1>15. Contract!Extend(c, last_day)
  BY <1>8, <1>9, <1>10, <1>11, <1>12, <1>13, <1>14
     DEF Contract!Extend, Contract!Submitted, Phase, Submission, Extended, Due, Answers
<1> QED
  BY <1>8, <1>15

LEMMA RecordSimulates ==
  ASSUME SimulationInv, NEW response \in Response, Records(response)
  PROVE  \E id \in 1..MaxResponses, d \in Dates : Contract!Answer(response.case_id, id, d)
<1> DEFINE c == response.case_id
           id == Len(responses) + 1
           d == response.received_on
<1>1. c \in CaseIds /\ d \in Days /\ d \in Dates
  BY DEF Response, Dates
<1>2. responses \in Seq(Response) /\ Len(responses) \in Nat
  BY DEF SimulationInv, TypeOK
<1>3. id \in 1..MaxResponses
  BY <1>2, ConstantsAssumption DEF Records
<1>4. /\ DOMAIN responses' = DOMAIN responses \cup {id} /\ id \notin DOMAIN responses
      /\ responses'[id] = response
      /\ \A k \in DOMAIN responses : responses'[k] = responses[k]
  BY <1>2, AppendType DEF Records
<1>5. /\ cases[c].status = "AWAITING_RESPONSE" /\ cases[c].received_on # Null
      /\ d >= cases[c].received_on
  <2>1. cases[c].received_on # Null /\ cases[c].received_on =< d
    BY DEF Records, ResponseInOrder
  <2>2. cases[c].received_on \in Nat /\ d \in Nat
    BY <1>1, <2>1, ConstantsAssumption DEF SimulationInv, TypeOK, Row
  <2> QED BY <2>1, <2>2 DEF Records
<1>6. SubmissionOf(c) # Null /\ SubmissionOf(c).received_on = cases[c].received_on
  <2>1. bindings[c] \in Nat /\ cases[c].received_on \in Days
    BY <1>1, <1>5 DEF SimulationInv, TypeOK, Row
  <2> QED BY <1>5, <2>1, NullAssumption DEF SubmissionOf
<1>7. UNCHANGED <<cases, bindings>>
  BY DEF Records
<1> HIDE DEF id
<1>8. AnswersTo(c)' = AnswersTo(c) \cup {<<id, d>>}
  BY <1>4 DEF AnswersTo
<1>9. \A k \in CaseIds : k # c => AnswersTo(k)' = AnswersTo(k)
  BY <1>4 DEF AnswersTo
<1>10. \A k \in CaseIds, a \in Dates : <<id, a>> \notin AnswersTo(k)
  BY <1>4 DEF AnswersTo
<1> HIDE DEF c, d
<1>11. Answers' = [Answers EXCEPT ![c] = @ \cup {<<id, d>>}]
  BY <1>1, <1>8, <1>9 DEF Answers
<1>12. Contract!Answer(c, id, d)
  BY <1>1, <1>5, <1>6, <1>7, <1>10, <1>11
     DEF Contract!Answer, Contract!Submitted, Answers, SubmissionOf
<1> QED
  BY <1>1, <1>3, <1>12 DEF c

LEMMA StepSimulates ==
  SimulationInv /\ SimulationInv' /\ TableStep => [Contract!Next]_(Contract!vars)
<1> SUFFICES ASSUME SimulationInv, SimulationInv', TableStep
             PROVE  [Contract!Next]_(Contract!vars)
  OBVIOUS
<1>1. ASSUME NEW c \in CaseIds, NEW right \in Rights, Creates(c, right)
      PROVE  Contract!Next
  BY <1>1, CreateSimulates DEF Contract!Next
<1>2. ASSUME NEW c \in CaseIds, NEW op \in SubmitOp, Submits(c, op)
      PROVE  Contract!Next
  BY <1>2, SubmitSimulates DEF Contract!Next
<1>3. ASSUME NEW c \in CaseIds, NEW op \in ExtensionOp, Extends(c, op)
      PROVE  Contract!Next
  BY <1>3, ExtendSimulates DEF Contract!Next
<1>4. ASSUME NEW c \in CaseIds, NEW op \in TransitionOp, Moves(c, op)
      PROVE  Contract!Next
  BY <1>4, MoveSimulates DEF Contract!Next
<1>5. ASSUME NEW response \in Response, Records(response)
      PROVE  Contract!Next
  <2>1. response.case_id \in CaseIds
    BY DEF Response
  <2> QED BY <1>5, <2>1, RecordSimulates DEF Contract!Next
<1>6. ASSUME UNCHANGED <<cases, bindings, responses>>
      PROVE  UNCHANGED Contract!vars
  BY <1>6 DEF Contract!vars, SubmissionOf, AnswersTo
<1> QED
  BY <1>1, <1>2, <1>3, <1>4, <1>5, <1>6 DEF TableStep, Approves

(* What the services do to the tables, on reads that may be stale, is what the
   contract allows one atomic step to do. *)
THEOREM Refines == Spec => ImplementsContract
<1>1. Init => SimulationInv /\ StaleReadsAreSafe
  BY InitTypeOK, InitReads, InitDates, InitProvenance, BoundedInduction DEF SimulationInv
<1>2. SimulationInv /\ StaleReadsAreSafe /\ [Next]_vars
        => SimulationInv' /\ StaleReadsAreSafe' /\ TableStep
  BY NextTypeOK, NextReads, NextTables, NextDates, NextProvenance, BoundedInduction
     DEF SimulationInv
<1> QED
  BY <1>1, <1>2, InitSimulates, StepSimulates, PTL DEF Spec, ImplementsContract, Contract!Spec

=============================================================================
