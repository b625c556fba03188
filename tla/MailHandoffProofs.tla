------------------------- MODULE MailHandoffProofs -------------------------
(***************************************************************************)
(* Theorems about MailHandoff, for any number of instances, requests and   *)
(* attempts.                                                               *)
(***************************************************************************)
EXTENDS MailHandoff, CaseLifecycleProofs, FiniteSetTheorems

(* A handoff under way carries what its step needs. *)
LEMMA HandoffFields ==
  ASSUME NEW handoff \in Handoff
  PROVE  /\ handoff.step # "none" => handoff.request \in Nat
         /\ handoff.step \in {"open", "record"} => handoff.attempt \in Nat
         /\ handoff.step = "record" => handoff.accepted \in BOOLEAN
  BY DEF Handoff, NoHandoff

LEMMA HandoffStepIsCaseStep == [HandoffNext]_allVars => [Next]_vars
<1> SUFFICES ASSUME [HandoffNext]_allVars PROVE [Next]_vars
  OBVIOUS
<1>1. ASSUME NEW i \in Instances, OperateOnCases(i) PROVE [Next]_vars
  BY <1>1 DEF OperateOnCases, Next
<1>2. ASSUME NEW i \in Instances, NEW request \in DOMAIN approved, BeginHandoff(i, request)
      PROVE  [Next]_vars
  BY <1>2 DEF BeginHandoff
<1>3. ASSUME NEW i \in Instances, Authorize(i) PROVE [Next]_vars
  BY <1>3 DEF Authorize
<1>4. ASSUME NEW i \in Instances, NEW attempt \in 1..MaxAttempts, RequestHandoff(i, attempt)
      PROVE  [Next]_vars
  BY <1>4 DEF RequestHandoff
<1>5. ASSUME NEW i \in Instances, NEW accepted \in BOOLEAN, OpenMessage(i, accepted)
      PROVE  [Next]_vars
  BY <1>5 DEF OpenMessage
<1>6. ASSUME NEW i \in Instances, RecordOutcome(i) PROVE [Next]_vars
  BY <1>6 DEF RecordOutcome
<1>7. ASSUME NEW i \in Instances, AbandonHandoff(i) PROVE [Next]_vars
  BY <1>7 DEF AbandonHandoff
<1>8. CASE UNCHANGED allVars
  BY <1>8 DEF allVars
<1> QED
  BY <1>1, <1>2, <1>3, <1>4, <1>5, <1>6, <1>7, <1>8 DEF HandoffNext

(* Handing requests off does not touch the cases: every behaviour of
   OutboundDeliveryService next to the case services is one of the case
   services alone, so all that CaseLifecycleProofs shows of them still holds. *)
THEOREM CasesUndisturbed == HandoffSpec => Spec
<1>1. HandoffInit => Init
  BY DEF HandoffInit
<1> QED
  BY <1>1, HandoffStepIsCaseStep, PTL DEF HandoffSpec, Spec

LEMMA NextHandoffTypeOK ==
  TypeOK /\ HandoffTypeOK /\ [HandoffNext]_allVars => HandoffTypeOK'
<1> SUFFICES ASSUME TypeOK, HandoffTypeOK, [HandoffNext]_allVars PROVE HandoffTypeOK'
  OBVIOUS
<1> USE DEF HandoffTypeOK
<1>1. ASSUME NEW i \in Instances, OperateOnCases(i) PROVE HandoffTypeOK'
  BY <1>1 DEF OperateOnCases, handoffVars
<1>2. ASSUME NEW i \in Instances, NEW request \in DOMAIN approved, BeginHandoff(i, request)
      PROVE  HandoffTypeOK'
  <2>1. request \in Nat
    BY DEF TypeOK
  <2>2. [step |-> "authorize", request |-> request] \in Handoff
    BY <2>1 DEF Handoff
  <2> QED BY <1>2, <2>2 DEF BeginHandoff, Proceed
<1>3. ASSUME NEW i \in Instances, Authorize(i) PROVE HandoffTypeOK'
  <2>1. handoffs[i].request \in Nat
    BY <1>3, HandoffFields DEF Authorize
  <2>2. [step |-> "request", request |-> handoffs[i].request] \in Handoff
    BY <2>1 DEF Handoff
  <2> QED BY <1>3, <2>1, <2>2 DEF Authorize, Proceed
<1>4. ASSUME NEW i \in Instances, NEW attempt \in 1..MaxAttempts, RequestHandoff(i, attempt)
      PROVE  HandoffTypeOK'
  <2>1. handoffs[i].request \in Nat /\ attempt \in Nat
    BY <1>4, HandoffFields, MaxAttemptsAssumption DEF RequestHandoff
  <2>2. [step |-> "open", request |-> handoffs[i].request, attempt |-> attempt] \in Handoff
    BY <2>1 DEF Handoff
  <2>3. NewDelivery(attempt, handoffs[i].request, "HANDOFF_REQUESTED") \in DeliveryEvent
    BY <2>1 DEF NewDelivery, DeliveryEvent, DeliveryEventType
  <2> QED BY <1>4, <2>2, <2>3 DEF RequestHandoff, Proceed
<1>5. ASSUME NEW i \in Instances, NEW accepted \in BOOLEAN, OpenMessage(i, accepted)
      PROVE  HandoffTypeOK'
  <2>1. handoffs[i].request \in Nat /\ handoffs[i].attempt \in Nat
    BY <1>5, HandoffFields DEF OpenMessage
  <2>2. [step |-> "record", request |-> handoffs[i].request, attempt |-> handoffs[i].attempt,
         accepted |-> accepted] \in Handoff
    BY <2>1 DEF Handoff
  <2> QED BY <1>5, <2>1, <2>2 DEF OpenMessage, Proceed
<1>6. ASSUME NEW i \in Instances, RecordOutcome(i) PROVE HandoffTypeOK'
  <2>1. handoffs[i].request \in Nat /\ handoffs[i].attempt \in Nat
    BY <1>6, HandoffFields DEF RecordOutcome
  <2>2. NewDelivery(handoffs[i].attempt, handoffs[i].request, Outcome(handoffs[i].accepted))
          \in DeliveryEvent
    BY <2>1 DEF NewDelivery, DeliveryEvent, DeliveryEventType, Outcome
  <2>3. NoHandoff \in Handoff
    BY DEF Handoff
  <2> QED BY <1>6, <2>2, <2>3 DEF RecordOutcome, Proceed
<1>7. ASSUME NEW i \in Instances, AbandonHandoff(i) PROVE HandoffTypeOK'
  BY <1>7 DEF AbandonHandoff, Proceed, Handoff
<1>8. CASE UNCHANGED allVars
  BY <1>8 DEF allVars, handoffVars
<1> QED
  BY <1>1, <1>2, <1>3, <1>4, <1>5, <1>6, <1>7, <1>8 DEF HandoffNext

LEMMA InitHandoffTypeOK == HandoffInit => HandoffTypeOK
  BY DEF HandoffInit, HandoffTypeOK, Handoff

(* The handoff tables and the handoffs in flight keep their types: nothing but
   one of the three event types reaches outbound_delivery_events. *)
THEOREM HandoffTypeCorrect == HandoffSpec => []HandoffTypeOK
<1>1. HandoffSpec => []TypeOK
  BY CasesUndisturbed, TypeCorrect, PTL
<1> QED
  BY <1>1, InitHandoffTypeOK, NextHandoffTypeOK, PTL DEF HandoffSpec

-----------------------------------------------------------------------------
(* Attempts *)

InFlight(handoff) == handoff.step \in {"open", "record"}

(* The log holds the request of an attempt and nothing else about it. *)
Traced(handoff) ==
  \E k \in DOMAIN deliveries :
    /\ deliveries[k] = NewDelivery(handoff.attempt, handoff.request, "HANDOFF_REQUESTED")
    /\ \A j \in EventsOf(handoff.attempt) : j = k

(* A handoff knows whether its message was opened. *)
Informed(handoff) ==
  (handoff.step = "record" /\ handoff.accepted) <=> (handoff.attempt \in opened)

FlightsInv ==
  /\ \A i \in Instances : InFlight(handoffs[i]) => Traced(handoffs[i]) /\ Informed(handoffs[i])
  /\ \A i, j \in Instances :
       InFlight(handoffs[i]) /\ InFlight(handoffs[j]) /\ handoffs[i].attempt = handoffs[j].attempt
         => i = j

OpenedTraced == \A attempt \in opened : \E k \in EventsOf(attempt) : IsRequest(k)

AttemptsInv == FlightsInv /\ OpenedTraced /\ AttemptsWellFormed /\ OutcomesAreTrue

(* What one INSERT does to the log. *)
LEMMA DeliveryAppended ==
  ASSUME deliveries \in Seq(DeliveryEvent), NEW e \in DeliveryEvent,
         deliveries' = Append(deliveries, e), NEW n, n = Len(deliveries) + 1
  PROVE  /\ n \in Nat /\ n \notin DOMAIN deliveries
         /\ DOMAIN deliveries' = DOMAIN deliveries \cup {n}
         /\ deliveries'[n] = e
         /\ \A k \in DOMAIN deliveries : k \in Nat /\ k =< n /\ deliveries'[k] = deliveries[k]
         /\ \A attempt : EventsOf(attempt)' =
              EventsOf(attempt) \cup (IF e.attempt_id = attempt THEN {n} ELSE {})
<1>1. /\ n \in Nat /\ n \notin DOMAIN deliveries
      /\ DOMAIN deliveries' = DOMAIN deliveries \cup {n}
      /\ deliveries'[n] = e
      /\ \A k \in DOMAIN deliveries : k \in Nat /\ k =< n /\ deliveries'[k] = deliveries[k]
  OBVIOUS
<1>2. ASSUME NEW attempt
      PROVE  EventsOf(attempt)' =
               EventsOf(attempt) \cup (IF e.attempt_id = attempt THEN {n} ELSE {})
  BY <1>1 DEF EventsOf
<1> QED
  BY <1>1, <1>2

LEMMA RequestKeepsAttempts ==
  ASSUME HandoffTypeOK, AttemptsInv,
         NEW i \in Instances, NEW attempt \in 1..MaxAttempts, RequestHandoff(i, attempt)
  PROVE  AttemptsInv'
<1> DEFINE request == handoffs[i].request
           e == NewDelivery(attempt, request, "HANDOFF_REQUESTED")
           n == Len(deliveries) + 1
           flight == [step |-> "open", request |-> request, attempt |-> attempt]
<1>1. e \in DeliveryEvent
  BY HandoffFields, MaxAttemptsAssumption
     DEF RequestHandoff, HandoffTypeOK, NewDelivery, DeliveryEvent, DeliveryEventType
<1>2. deliveries \in Seq(DeliveryEvent) /\ deliveries' = Append(deliveries, e)
  BY DEF RequestHandoff, HandoffTypeOK
<1>3. /\ n \in Nat /\ n \notin DOMAIN deliveries
      /\ DOMAIN deliveries' = DOMAIN deliveries \cup {n}
      /\ deliveries'[n] = e
      /\ \A k \in DOMAIN deliveries : k \in Nat /\ k =< n /\ deliveries'[k] = deliveries[k]
      /\ \A a : EventsOf(a)' = EventsOf(a) \cup (IF e.attempt_id = a THEN {n} ELSE {})
  BY <1>1, <1>2, DeliveryAppended
<1>4. e.attempt_id = attempt /\ e.approved_request_id = request /\ e.event_type = "HANDOFF_REQUESTED"
  BY DEF NewDelivery
<1>5. \A k \in DOMAIN deliveries : deliveries[k].attempt_id # attempt
  BY DEF RequestHandoff, Fresh
<1>6. EventsOf(attempt)' = {n} /\ \A a : a # attempt => EventsOf(a)' = EventsOf(a)
  BY <1>3, <1>4, <1>5 DEF EventsOf
<1>7. handoffs'[i] = flight /\ \A j \in Instances \ {i} : handoffs'[j] = handoffs[j]
  BY DEF RequestHandoff, Proceed, HandoffTypeOK
<1>8. opened' = opened /\ attempt \notin opened
  <2>1. EventsOf(attempt) = {}
    BY <1>5 DEF EventsOf
  <2> QED BY <2>1 DEF RequestHandoff, AttemptsInv, OpenedTraced
<1>9. \A j \in Instances : InFlight(handoffs[j]) => handoffs[j].attempt # attempt
  BY <1>5 DEF AttemptsInv, FlightsInv, Traced, NewDelivery
<1>10. FlightsInv'
  <2>1. Traced(handoffs[i])'
    BY <1>3, <1>6, <1>7 DEF Traced
  <2>2. Informed(handoffs[i])'
    BY <1>7, <1>8 DEF Informed
  <2>3. ASSUME NEW j \in Instances \ {i}, InFlight(handoffs[j])
        PROVE  Traced(handoffs[j])' /\ Informed(handoffs[j])'
    <3>1. Traced(handoffs[j]) /\ Informed(handoffs[j])
      BY <2>3 DEF AttemptsInv, FlightsInv
    <3>2. EventsOf(handoffs[j].attempt)' = EventsOf(handoffs[j].attempt)
      BY <1>6, <1>7, <1>9, <2>3
    <3> QED BY <1>3, <1>7, <1>8, <3>1, <3>2 DEF Traced, Informed
  <2>4. \A j \in Instances : InFlight(handoffs'[j]) => Traced(handoffs[j])' /\ Informed(handoffs[j])'
    BY <1>7, <2>1, <2>2, <2>3
  <2>5. ASSUME NEW j \in Instances, NEW l \in Instances, InFlight(handoffs'[j]),
               InFlight(handoffs'[l]), handoffs'[j].attempt = handoffs'[l].attempt
        PROVE  j = l
    BY <1>7, <1>9, <2>5 DEF AttemptsInv, FlightsInv
  <2> QED BY <2>4, <2>5 DEF FlightsInv, InFlight
<1>11. OpenedTraced'
  BY <1>3, <1>6, <1>8 DEF AttemptsInv, OpenedTraced, IsRequest, EventsOf
<1>12. AttemptsWellFormed'
  <2> SUFFICES ASSUME NEW k \in DOMAIN deliveries'
               PROVE  \E first \in EventsOf(deliveries[k].attempt_id)' :
                        /\ IsRequest(first)' /\ first =< k
                        /\ deliveries'[first].approved_request_id = deliveries'[k].approved_request_id
                        /\ \A other \in EventsOf(deliveries[k].attempt_id)' \ {first} :
                             ~IsRequest(other)' /\ (k # first => other = k)
    BY DEF AttemptsWellFormed
  <2>1. CASE k = n
    BY <1>3, <1>4, <1>6, <2>1 DEF IsRequest
  <2>2. CASE k # n
    <3>1. k \in DOMAIN deliveries /\ deliveries'[k] = deliveries[k]
      BY <1>3, <2>2
    <3>2. EventsOf(deliveries[k].attempt_id)' = EventsOf(deliveries[k].attempt_id)
      BY <1>5, <1>6, <3>1
    <3>3. PICK first \in EventsOf(deliveries[k].attempt_id) :
            /\ IsRequest(first) /\ first =< k
            /\ deliveries[first].approved_request_id = deliveries[k].approved_request_id
            /\ \A other \in EventsOf(deliveries[k].attempt_id) \ {first} :
                 ~IsRequest(other) /\ (k # first => other = k)
      BY <3>1 DEF AttemptsInv, AttemptsWellFormed
    <3>4. \A j \in EventsOf(deliveries[k].attempt_id) : deliveries'[j] = deliveries[j]
      BY <1>3 DEF EventsOf
    <3> QED BY <3>1, <3>2, <3>3, <3>4 DEF IsRequest
  <2> QED BY <2>1, <2>2
<1>13. OutcomesAreTrue'
  BY <1>3, <1>4, <1>8 DEF AttemptsInv, OutcomesAreTrue
<1> QED
  BY <1>10, <1>11, <1>12, <1>13 DEF AttemptsInv

LEMMA OpenKeepsAttempts ==
  ASSUME HandoffTypeOK, AttemptsInv,
         NEW i \in Instances, NEW accepted \in BOOLEAN, OpenMessage(i, accepted)
  PROVE  AttemptsInv'
<1> DEFINE a == handoffs[i].attempt
           flight == [step |-> "record", request |-> handoffs[i].request, attempt |-> a,
                      accepted |-> accepted]
<1>1. handoffs'[i] = flight /\ \A j \in Instances \ {i} : handoffs'[j] = handoffs[j]
  BY DEF OpenMessage, Proceed, HandoffTypeOK
<1>2. deliveries' = deliveries /\ opened' = IF accepted THEN opened \cup {a} ELSE opened
  BY DEF OpenMessage
<1>3. InFlight(handoffs[i]) /\ handoffs[i].step = "open"
  BY DEF OpenMessage, InFlight
<1>4. Traced(handoffs[i]) /\ a \notin opened
  BY <1>3 DEF AttemptsInv, FlightsInv, Informed
<1>5. PICK k \in DOMAIN deliveries :
        /\ deliveries[k] = NewDelivery(a, handoffs[i].request, "HANDOFF_REQUESTED")
        /\ \A j \in EventsOf(a) : j = k
  BY <1>4 DEF Traced
<1>6. \A j \in Instances \ {i} : InFlight(handoffs[j]) => handoffs[j].attempt # a
  BY <1>3 DEF AttemptsInv, FlightsInv
<1>7. \A b : EventsOf(b)' = EventsOf(b)
  BY <1>2 DEF EventsOf
<1>8. FlightsInv'
  <2>1. Traced(handoffs[i])'
    BY <1>1, <1>2, <1>5, <1>7 DEF Traced
  <2>2. Informed(handoffs[i])'
    BY <1>1, <1>2, <1>4 DEF Informed
  <2>3. ASSUME NEW j \in Instances \ {i}, InFlight(handoffs[j])
        PROVE  Traced(handoffs[j])' /\ Informed(handoffs[j])'
    <3>1. Traced(handoffs[j]) /\ Informed(handoffs[j])
      BY <2>3 DEF AttemptsInv, FlightsInv
    <3> QED BY <1>1, <1>2, <1>6, <1>7, <2>3, <3>1 DEF Traced, Informed
  <2>4. \A j \in Instances : InFlight(handoffs'[j]) => Traced(handoffs[j])' /\ Informed(handoffs[j])'
    BY <1>1, <2>1, <2>2, <2>3
  <2>5. ASSUME NEW j \in Instances, NEW l \in Instances, InFlight(handoffs'[j]),
               InFlight(handoffs'[l]), handoffs'[j].attempt = handoffs'[l].attempt
        PROVE  j = l
    BY <1>1, <1>6, <2>5 DEF AttemptsInv, FlightsInv
  <2> QED BY <2>4, <2>5 DEF FlightsInv, InFlight
<1>9. OpenedTraced'
  <2>1. k \in EventsOf(a) /\ IsRequest(k)
    BY <1>5 DEF EventsOf, IsRequest, NewDelivery
  <2> QED BY <1>2, <1>7, <2>1 DEF AttemptsInv, OpenedTraced, IsRequest
<1>10. AttemptsWellFormed'
  BY <1>2 DEF AttemptsInv, AttemptsWellFormed, EventsOf, IsRequest
<1>11. OutcomesAreTrue'
  <2> SUFFICES ASSUME NEW m \in DOMAIN deliveries
               PROVE  /\ deliveries[m].event_type = "HANDOFF_ACCEPTED"
                           => deliveries[m].attempt_id \in opened'
                      /\ deliveries[m].event_type = "HANDOFF_REJECTED"
                           => deliveries[m].attempt_id \notin opened'
    BY <1>2 DEF OutcomesAreTrue
  <2>1. CASE deliveries[m].attempt_id = a
    <3>1. m = k
      BY <1>5, <2>1 DEF EventsOf
    <3> QED BY <1>5, <3>1 DEF NewDelivery
  <2>2. CASE deliveries[m].attempt_id # a
    BY <1>2, <2>2 DEF AttemptsInv, OutcomesAreTrue
  <2> QED BY <2>1, <2>2
<1> QED
  BY <1>8, <1>9, <1>10, <1>11 DEF AttemptsInv

LEMMA RecordKeepsAttempts ==
  ASSUME HandoffTypeOK, AttemptsInv, NEW i \in Instances, RecordOutcome(i)
  PROVE  AttemptsInv'
<1> PICK a : a = handoffs[i].attempt
  OBVIOUS
<1> DEFINE request == handoffs[i].request
           e == NewDelivery(a, request, Outcome(handoffs[i].accepted))
           n == Len(deliveries) + 1
<1>1. e \in DeliveryEvent
  BY HandoffFields
     DEF RecordOutcome, HandoffTypeOK, NewDelivery, DeliveryEvent, DeliveryEventType, Outcome
<1>2. deliveries \in Seq(DeliveryEvent) /\ deliveries' = Append(deliveries, e)
  BY DEF RecordOutcome, HandoffTypeOK
<1>3. /\ n \in Nat /\ n \notin DOMAIN deliveries
      /\ DOMAIN deliveries' = DOMAIN deliveries \cup {n}
      /\ deliveries'[n] = e
      /\ \A k \in DOMAIN deliveries : k \in Nat /\ k =< n /\ deliveries'[k] = deliveries[k]
      /\ \A b : EventsOf(b)' = EventsOf(b) \cup (IF e.attempt_id = b THEN {n} ELSE {})
  BY <1>1, <1>2, DeliveryAppended
<1>4. /\ e.attempt_id = a /\ e.approved_request_id = request
      /\ e.event_type = Outcome(handoffs[i].accepted)
  BY DEF NewDelivery
<1>5. InFlight(handoffs[i]) /\ handoffs[i].step = "record"
  BY DEF RecordOutcome, InFlight
<1>6. Traced(handoffs[i]) /\ (handoffs[i].accepted <=> a \in opened)
  BY <1>5 DEF AttemptsInv, FlightsInv, Informed
<1>7. PICK r \in DOMAIN deliveries :
        /\ deliveries[r] = NewDelivery(a, request, "HANDOFF_REQUESTED")
        /\ \A j \in EventsOf(a) : j = r
  BY <1>6 DEF Traced
<1>8. EventsOf(a)' = {r, n} /\ \A b : b # a => EventsOf(b)' = EventsOf(b)
  BY <1>3, <1>4, <1>7 DEF EventsOf, NewDelivery
<1>9. ~InFlight(handoffs'[i]) /\ \A j \in Instances \ {i} : handoffs'[j] = handoffs[j]
  BY DEF RecordOutcome, Proceed, HandoffTypeOK, NoHandoff, InFlight
<1>10. \A j \in Instances \ {i} : InFlight(handoffs[j]) => handoffs[j].attempt # a
  BY <1>5 DEF AttemptsInv, FlightsInv
<1>11. opened' = opened
  BY DEF RecordOutcome
<1>12. FlightsInv'
  <2>1. ASSUME NEW j \in Instances \ {i}, InFlight(handoffs[j])
        PROVE  Traced(handoffs[j])' /\ Informed(handoffs[j])'
    <3>1. Traced(handoffs[j]) /\ Informed(handoffs[j])
      BY <2>1 DEF AttemptsInv, FlightsInv
    <3>2. EventsOf(handoffs[j].attempt)' = EventsOf(handoffs[j].attempt)
      BY <1>8, <1>9, <1>10, <2>1
    <3> QED BY <1>3, <1>9, <1>11, <3>1, <3>2 DEF Traced, Informed
  <2>2. \A j \in Instances : InFlight(handoffs'[j]) => Traced(handoffs[j])' /\ Informed(handoffs[j])'
    BY <1>9, <2>1
  <2>3. ASSUME NEW j \in Instances, NEW l \in Instances, InFlight(handoffs'[j]),
               InFlight(handoffs'[l]), handoffs'[j].attempt = handoffs'[l].attempt
        PROVE  j = l
    BY <1>9, <2>3 DEF AttemptsInv, FlightsInv
  <2> QED BY <2>2, <2>3 DEF FlightsInv, InFlight
<1>13. OpenedTraced'
  <2> SUFFICES ASSUME NEW b \in opened PROVE \E k \in EventsOf(b)' : IsRequest(k)'
    BY <1>11 DEF OpenedTraced
  <2>1. PICK k \in EventsOf(b) : IsRequest(k)
    BY DEF AttemptsInv, OpenedTraced
  <2>2. k \in EventsOf(b)' /\ deliveries'[k] = deliveries[k]
    BY <1>3 DEF EventsOf
  <2> QED BY <2>1, <2>2 DEF IsRequest
<1>14. AttemptsWellFormed'
  <2> SUFFICES ASSUME NEW k \in DOMAIN deliveries'
               PROVE  \E first \in EventsOf(deliveries[k].attempt_id)' :
                        /\ IsRequest(first)' /\ first =< k
                        /\ deliveries'[first].approved_request_id = deliveries'[k].approved_request_id
                        /\ \A other \in EventsOf(deliveries[k].attempt_id)' \ {first} :
                             ~IsRequest(other)' /\ (k # first => other = k)
    BY DEF AttemptsWellFormed
  <2>1. CASE deliveries'[k].attempt_id = a
    <3>1. k \in {r, n}
      BY <1>3, <1>7, <2>1 DEF EventsOf
    <3>2. deliveries'[r] = NewDelivery(a, request, "HANDOFF_REQUESTED") /\ r =< k
      BY <1>3, <1>7, <3>1
    <3>3. deliveries'[r].event_type = "HANDOFF_REQUESTED"
          /\ deliveries'[r].approved_request_id = request
      BY <3>2 DEF NewDelivery
    <3>4. deliveries'[n].event_type # "HANDOFF_REQUESTED"
          /\ deliveries'[n].approved_request_id = request
      BY <1>3, <1>4 DEF Outcome
    <3> QED BY <1>8, <2>1, <3>1, <3>2, <3>3, <3>4 DEF IsRequest
  <2>2. CASE deliveries'[k].attempt_id # a
    <3>1. k \in DOMAIN deliveries /\ deliveries'[k] = deliveries[k]
      BY <1>3, <1>4, <2>2
    <3>2. EventsOf(deliveries[k].attempt_id)' = EventsOf(deliveries[k].attempt_id)
      BY <1>8, <2>2, <3>1
    <3>3. PICK first \in EventsOf(deliveries[k].attempt_id) :
            /\ IsRequest(first) /\ first =< k
            /\ deliveries[first].approved_request_id = deliveries[k].approved_request_id
            /\ \A other \in EventsOf(deliveries[k].attempt_id) \ {first} :
                 ~IsRequest(other) /\ (k # first => other = k)
      BY <3>1 DEF AttemptsInv, AttemptsWellFormed
    <3>4. \A j \in EventsOf(deliveries[k].attempt_id) : deliveries'[j] = deliveries[j]
      BY <1>3 DEF EventsOf
    <3> QED BY <3>1, <3>2, <3>3, <3>4 DEF IsRequest
  <2> QED BY <2>1, <2>2
<1>15. OutcomesAreTrue'
  <2>1. /\ e.event_type = "HANDOFF_ACCEPTED" => a \in opened
        /\ e.event_type = "HANDOFF_REJECTED" => a \notin opened
    BY <1>4, <1>6 DEF Outcome
  <2> QED BY <1>3, <1>4, <1>11, <2>1 DEF AttemptsInv, OutcomesAreTrue
<1> QED
  BY <1>12, <1>13, <1>14, <1>15 DEF AttemptsInv

(* A step that neither writes to the log nor opens a message, and starts no
   attempt. *)
LEMMA QuietKeepsAttempts ==
  ASSUME AttemptsInv, UNCHANGED <<deliveries, opened>>,
         \A j \in Instances : handoffs'[j] = handoffs[j] \/ ~InFlight(handoffs'[j])
  PROVE  AttemptsInv'
<1>1. \A a : EventsOf(a)' = EventsOf(a)
  BY DEF EventsOf
<1>2. FlightsInv'
  <2>1. ASSUME NEW j \in Instances, InFlight(handoffs'[j])
        PROVE  handoffs'[j] = handoffs[j] /\ Traced(handoffs[j])' /\ Informed(handoffs[j])'
    <3>1. handoffs'[j] = handoffs[j]
      BY <2>1
    <3>2. Traced(handoffs[j]) /\ Informed(handoffs[j])
      BY <2>1, <3>1 DEF AttemptsInv, FlightsInv
    <3> QED BY <1>1, <3>1, <3>2 DEF Traced, Informed
  <2>2. ASSUME NEW j \in Instances, NEW l \in Instances, InFlight(handoffs'[j]),
               InFlight(handoffs'[l]), handoffs'[j].attempt = handoffs'[l].attempt
        PROVE  j = l
    BY <2>1, <2>2 DEF AttemptsInv, FlightsInv
  <2> QED BY <2>1, <2>2 DEF FlightsInv, InFlight
<1>3. OpenedTraced'
  BY <1>1 DEF AttemptsInv, OpenedTraced, IsRequest
<1>4. AttemptsWellFormed' /\ OutcomesAreTrue'
  BY DEF AttemptsInv, AttemptsWellFormed, OutcomesAreTrue, EventsOf, IsRequest
<1> QED
  BY <1>2, <1>3, <1>4 DEF AttemptsInv

LEMMA NextAttempts == HandoffTypeOK /\ AttemptsInv /\ [HandoffNext]_allVars => AttemptsInv'
<1> SUFFICES ASSUME HandoffTypeOK, AttemptsInv, [HandoffNext]_allVars PROVE AttemptsInv'
  OBVIOUS
<1> USE DEF HandoffTypeOK, InFlight
<1>1. ASSUME NEW i \in Instances, OperateOnCases(i) PROVE AttemptsInv'
  BY <1>1, QuietKeepsAttempts DEF OperateOnCases, handoffVars
<1>2. ASSUME NEW i \in Instances, NEW request \in DOMAIN approved, BeginHandoff(i, request)
      PROVE  AttemptsInv'
  <2>1. \A j \in Instances : handoffs'[j] = handoffs[j] \/ ~InFlight(handoffs'[j])
    BY <1>2 DEF BeginHandoff, Proceed
  <2> QED BY <1>2, <2>1, QuietKeepsAttempts DEF BeginHandoff
<1>3. ASSUME NEW i \in Instances, Authorize(i) PROVE AttemptsInv'
  <2>1. \A j \in Instances : handoffs'[j] = handoffs[j] \/ ~InFlight(handoffs'[j])
    BY <1>3 DEF Authorize, Proceed
  <2> QED BY <1>3, <2>1, QuietKeepsAttempts DEF Authorize
<1>4. ASSUME NEW i \in Instances, NEW attempt \in 1..MaxAttempts, RequestHandoff(i, attempt)
      PROVE  AttemptsInv'
  BY <1>4, RequestKeepsAttempts
<1>5. ASSUME NEW i \in Instances, NEW accepted \in BOOLEAN, OpenMessage(i, accepted)
      PROVE  AttemptsInv'
  BY <1>5, OpenKeepsAttempts
<1>6. ASSUME NEW i \in Instances, RecordOutcome(i) PROVE AttemptsInv'
  BY <1>6, RecordKeepsAttempts
<1>7. ASSUME NEW i \in Instances, AbandonHandoff(i) PROVE AttemptsInv'
  <2>1. \A j \in Instances : handoffs'[j] = handoffs[j] \/ ~InFlight(handoffs'[j])
    BY <1>7 DEF AbandonHandoff, Proceed, NoHandoff
  <2> QED BY <1>7, <2>1, QuietKeepsAttempts DEF AbandonHandoff
<1>8. CASE UNCHANGED allVars
  BY <1>8, QuietKeepsAttempts DEF allVars, handoffVars
<1> QED
  BY <1>1, <1>2, <1>3, <1>4, <1>5, <1>6, <1>7, <1>8 DEF HandoffNext

LEMMA InitAttempts == HandoffInit => AttemptsInv
<1> SUFFICES ASSUME HandoffInit PROVE AttemptsInv
  OBVIOUS
<1>1. DOMAIN deliveries = {} /\ opened = {}
  BY DEF HandoffInit
<1>2. \A i \in Instances : ~InFlight(handoffs[i])
  BY DEF HandoffInit, NoHandoff, InFlight
<1> QED
  BY <1>1, <1>2 DEF AttemptsInv, FlightsInv, OpenedTraced, AttemptsWellFormed, OutcomesAreTrue

LEMMA AttemptsHold == HandoffSpec => [](HandoffTypeOK /\ AttemptsInv)
  BY HandoffTypeCorrect, InitAttempts, NextAttempts, PTL DEF HandoffSpec

(* outbound_delivery_events: the events of an attempt are HANDOFF_REQUESTED and
   then at most one outcome, for one request, however many instances write. *)
THEOREM Attempts == HandoffSpec => []AttemptsWellFormed
  BY AttemptsHold, PTL DEF AttemptsInv

(* No outcome is invented, wherever an instance crashes. *)
THEOREM TrueOutcomes == HandoffSpec => []OutcomesAreTrue
  BY AttemptsHold, PTL DEF AttemptsInv

-----------------------------------------------------------------------------
(* Approved payloads behind the log *)

ApprovedGrow == DOMAIN approved \subseteq DOMAIN approved'

LEMMA NextApprovedGrow == TypeOK /\ StaleReadsAreSafe /\ [Next]_vars => ApprovedGrow
<1> SUFFICES ASSUME TypeOK, TableStep PROVE ApprovedGrow
  BY NextTables
<1>1. ASSUME NEW payload \in Payload, Approves(payload) PROVE ApprovedGrow
  <2>1. approved \in Seq(Payload) /\ approved' = Append(approved, payload)
    BY <1>1 DEF TypeOK, Approves
  <2> QED BY <2>1 DEF ApprovedGrow
<1>2. CASE approved' = approved
  BY <1>2 DEF ApprovedGrow
<1> QED
  BY <1>1, <1>2 DEF TableStep, Creates, Submits, Extends, Moves, Records

ApprovalsInv ==
  /\ \A k \in DOMAIN deliveries : deliveries[k].approved_request_id \in DOMAIN approved
  /\ \A i \in Instances : handoffs[i].step # "none" => handoffs[i].request \in DOMAIN approved

LEMMA NextApprovals ==
  HandoffTypeOK /\ ApprovalsInv /\ ApprovedGrow /\ [HandoffNext]_allVars => ApprovalsInv'
<1> SUFFICES ASSUME HandoffTypeOK, ApprovalsInv, ApprovedGrow, [HandoffNext]_allVars
             PROVE  ApprovalsInv'
  OBVIOUS
<1> USE DEF ApprovalsInv, ApprovedGrow, HandoffTypeOK
<1>1. ASSUME NEW i \in Instances, OperateOnCases(i) PROVE ApprovalsInv'
  BY <1>1 DEF OperateOnCases, handoffVars
<1>2. ASSUME NEW i \in Instances, NEW request \in DOMAIN approved, BeginHandoff(i, request)
      PROVE  ApprovalsInv'
  BY <1>2 DEF BeginHandoff, Proceed
<1>3. ASSUME NEW i \in Instances, Authorize(i) PROVE ApprovalsInv'
  BY <1>3 DEF Authorize, Proceed
<1>4. ASSUME NEW i \in Instances, NEW attempt \in 1..MaxAttempts, RequestHandoff(i, attempt)
      PROVE  ApprovalsInv'
  <2>1. handoffs[i].request \in DOMAIN approved
    BY <1>4 DEF RequestHandoff
  <2>2. \A j \in Instances : handoffs'[j].step # "none" => handoffs'[j].request \in DOMAIN approved'
    BY <1>4, <2>1 DEF RequestHandoff, Proceed
  <2>3. deliveries' = Append(deliveries, NewDelivery(attempt, handoffs[i].request, "HANDOFF_REQUESTED"))
    BY <1>4 DEF RequestHandoff
  <2>4. \A k \in DOMAIN deliveries' : deliveries'[k].approved_request_id \in DOMAIN approved'
    BY <2>1, <2>3 DEF NewDelivery
  <2> QED BY <2>2, <2>4
<1>5. ASSUME NEW i \in Instances, NEW accepted \in BOOLEAN, OpenMessage(i, accepted)
      PROVE  ApprovalsInv'
  BY <1>5 DEF OpenMessage, Proceed
<1>6. ASSUME NEW i \in Instances, RecordOutcome(i) PROVE ApprovalsInv'
  <2>1. handoffs[i].request \in DOMAIN approved
    BY <1>6 DEF RecordOutcome
  <2>2. \A j \in Instances : handoffs'[j].step # "none" => handoffs'[j].request \in DOMAIN approved'
    BY <1>6 DEF RecordOutcome, Proceed, NoHandoff
  <2>3. deliveries' = Append(deliveries,
          NewDelivery(handoffs[i].attempt, handoffs[i].request, Outcome(handoffs[i].accepted)))
    BY <1>6 DEF RecordOutcome
  <2>4. \A k \in DOMAIN deliveries' : deliveries'[k].approved_request_id \in DOMAIN approved'
    BY <2>1, <2>3 DEF NewDelivery
  <2> QED BY <2>2, <2>4
<1>7. ASSUME NEW i \in Instances, AbandonHandoff(i) PROVE ApprovalsInv'
  BY <1>7 DEF AbandonHandoff, Proceed, NoHandoff
<1>8. CASE UNCHANGED allVars
  BY <1>8 DEF allVars, handoffVars
<1> QED
  BY <1>1, <1>2, <1>3, <1>4, <1>5, <1>6, <1>7, <1>8 DEF HandoffNext

LEMMA InitApprovals == HandoffInit => ApprovalsInv
  BY DEF HandoffInit, ApprovalsInv, NoHandoff

(* A message that was opened has its HANDOFF_REQUESTED event, and every event
   refers to a payload in approved_outbound_requests, whatever failed since. *)
THEOREM NeverSilent == HandoffSpec => []NoSilentHandoff
<1>1. HandoffSpec => [](TypeOK /\ StaleReadsAreSafe)
  BY CasesUndisturbed, TypeCorrect, StaleReads, PTL
<1>2. TypeOK /\ StaleReadsAreSafe /\ [HandoffNext]_allVars => ApprovedGrow
  BY HandoffStepIsCaseStep, NextApprovedGrow
<1>3. HandoffSpec => []ApprovalsInv
  BY <1>1, <1>2, HandoffTypeCorrect, InitApprovals, NextApprovals, PTL DEF HandoffSpec
<1>4. AttemptsInv /\ ApprovalsInv => NoSilentHandoff
  BY DEF AttemptsInv, OpenedTraced, ApprovalsInv, NoSilentHandoff
<1> QED
  BY <1>3, <1>4, AttemptsHold, PTL

-----------------------------------------------------------------------------
(* Egress decisions: one for every attempt. The decisions are told apart by an
   injection from what needs one: the attempts in the log and the handoffs that
   are authorized but not yet in the log. *)

LEMMA ExtendInjection ==
  ASSUME NEW S, NEW T, NEW f \in Injection(S, T), NEW a, a \notin S, NEW b, b \notin T
  PROVE  Injection(S \cup {a}, T \cup {b}) # {}
<1> DEFINE g == [x \in S \cup {a} |-> IF x = a THEN b ELSE f[x]]
<1>1. f \in [S -> T] /\ \A x, y \in S : f[x] = f[y] => x = y
  BY DEF Injection, IsInjective
<1>2. g \in [S \cup {a} -> T \cup {b}]
  BY <1>1
<1>3. \A x, y \in S \cup {a} : g[x] = g[y] => x = y
  BY <1>1
<1>4. g \in Injection(S \cup {a}, T \cup {b})
  BY <1>2, <1>3 DEF Injection, IsInjective
<1> QED
  BY <1>4

LEMMA RenameInjection ==
  ASSUME NEW S, NEW T, NEW f \in Injection(S, T), NEW a \in S, NEW b, b \notin S
  PROVE  Injection((S \ {a}) \cup {b}, T) # {}
<1> DEFINE R == (S \ {a}) \cup {b}
           g == [x \in R |-> IF x = b THEN f[a] ELSE f[x]]
<1>1. f \in [S -> T] /\ \A x, y \in S : f[x] = f[y] => x = y
  BY DEF Injection, IsInjective
<1>2. g \in [R -> T]
  BY <1>1
<1>3. \A x, y \in R : g[x] = g[y] => x = y
  BY <1>1
<1>4. g \in Injection(R, T)
  BY <1>2, <1>3 DEF Injection, IsInjective
<1> QED
  BY <1>4

LEMMA RestrictInjection ==
  ASSUME NEW S, NEW T, NEW f \in Injection(S, T), NEW R \in SUBSET S
  PROVE  Injection(R, T) # {}
<1> DEFINE g == [x \in R |-> f[x]]
<1>1. f \in [S -> T] /\ \A x, y \in S : f[x] = f[y] => x = y
  BY DEF Injection, IsInjective
<1>2. g \in [R -> T] /\ \A x, y \in R : g[x] = g[y] => x = y
  BY <1>1
<1>3. g \in Injection(R, T)
  BY <1>2 DEF Injection, IsInjective
<1> QED
  BY <1>3

(* What an allowed egress decision is spent on: an attempt in the table, or a
   handoff about to write one. *)
Claims(request) ==
  {<<"attempt", k>> : k \in RequestedAttempts(request)}
  \cup
  {<<"handoff", i>> : i \in {j \in Instances :
     handoffs[j].step = "request" /\ handoffs[j].request = request}}

(* No two claims rest on one decision. *)
AuthorizedInv ==
  \A request \in Nat : Injection(Claims(request), DecisionsFor(request)) # {}

(* A step that makes neither a claim nor a decision. *)
LEMMA NoClaimMade ==
  ASSUME AuthorizedInv, decisions' = decisions,
         \A request \in Nat : RequestedAttempts(request)' = RequestedAttempts(request),
         \A j \in Instances : handoffs'[j] = handoffs[j] \/ handoffs'[j].step # "request"
  PROVE  AuthorizedInv'
<1> SUFFICES ASSUME NEW request \in Nat
             PROVE  Injection(Claims(request)', DecisionsFor(request)') # {}
  BY DEF AuthorizedInv
<1>1. PICK f \in Injection(Claims(request), DecisionsFor(request)) : TRUE
  BY DEF AuthorizedInv
<1>2. DecisionsFor(request)' = DecisionsFor(request)
  BY DEF DecisionsFor
<1>3. Claims(request)' \in SUBSET Claims(request)
  BY DEF Claims
<1> QED
  BY <1>1, <1>2, <1>3, RestrictInjection

LEMMA AuthorizeKeepsAuthorized ==
  ASSUME HandoffTypeOK, AuthorizedInv, NEW i \in Instances, Authorize(i)
  PROVE  AuthorizedInv'
<1> SUFFICES ASSUME NEW request \in Nat
             PROVE  Injection(Claims(request)', DecisionsFor(request)') # {}
  BY DEF AuthorizedInv
<1> DEFINE n == Len(decisions) + 1
<1>1. PICK f \in Injection(Claims(request), DecisionsFor(request)) : TRUE
  BY DEF AuthorizedInv
<1>2. RequestedAttempts(request)' = RequestedAttempts(request)
  BY DEF Authorize, RequestedAttempts, IsRequest
<1>3. /\ handoffs'[i] = [step |-> "request", request |-> handoffs[i].request]
      /\ \A j \in Instances \ {i} : handoffs'[j] = handoffs[j]
      /\ handoffs[i].step = "authorize"
  BY DEF Authorize, Proceed, HandoffTypeOK
<1>4. /\ n \notin DOMAIN decisions /\ DOMAIN decisions' = DOMAIN decisions \cup {n}
      /\ decisions'[n] = handoffs[i].request
      /\ \A k \in DOMAIN decisions : decisions'[k] = decisions[k]
  <2>1. handoffs[i].request \in Nat
    BY HandoffFields DEF Authorize, HandoffTypeOK
  <2>2. decisions \in Seq(Nat) /\ decisions' = Append(decisions, handoffs[i].request)
    BY DEF Authorize, HandoffTypeOK
  <2> QED BY <2>1, <2>2
<1>5. CASE handoffs[i].request = request
  <2>1. Claims(request)' = Claims(request) \cup {<<"handoff", i>>}
    BY <1>2, <1>3, <1>5 DEF Claims
  <2>2. <<"handoff", i>> \notin Claims(request)
    BY <1>3 DEF Claims
  <2>3. DecisionsFor(request)' = DecisionsFor(request) \cup {n} /\ n \notin DecisionsFor(request)
    BY <1>4, <1>5 DEF DecisionsFor
  <2> QED BY <1>1, <2>1, <2>2, <2>3, ExtendInjection
<1>6. CASE handoffs[i].request # request
  <2>1. Claims(request)' = Claims(request)
    BY <1>2, <1>3, <1>6 DEF Claims
  <2>2. DecisionsFor(request)' = DecisionsFor(request)
    BY <1>4, <1>6 DEF DecisionsFor
  <2> QED BY <1>1, <2>1, <2>2
<1> QED
  BY <1>5, <1>6

LEMMA RequestKeepsAuthorized ==
  ASSUME HandoffTypeOK, AuthorizedInv,
         NEW i \in Instances, NEW attempt \in 1..MaxAttempts, RequestHandoff(i, attempt)
  PROVE  AuthorizedInv'
<1> SUFFICES ASSUME NEW request \in Nat
             PROVE  Injection(Claims(request)', DecisionsFor(request)') # {}
  BY DEF AuthorizedInv
<1> DEFINE e == NewDelivery(attempt, handoffs[i].request, "HANDOFF_REQUESTED")
           n == Len(deliveries) + 1
<1>1. PICK f \in Injection(Claims(request), DecisionsFor(request)) : TRUE
  BY DEF AuthorizedInv
<1>2. DecisionsFor(request)' = DecisionsFor(request)
  BY DEF RequestHandoff, DecisionsFor
<1>3. /\ handoffs'[i].step = "open" /\ handoffs[i].step = "request"
      /\ \A j \in Instances \ {i} : handoffs'[j] = handoffs[j]
  BY DEF RequestHandoff, Proceed, HandoffTypeOK
<1>4. e \in DeliveryEvent
  BY HandoffFields, MaxAttemptsAssumption
     DEF RequestHandoff, HandoffTypeOK, NewDelivery, DeliveryEvent, DeliveryEventType
<1>5. deliveries \in Seq(DeliveryEvent) /\ deliveries' = Append(deliveries, e)
  BY DEF RequestHandoff, HandoffTypeOK
<1>6. /\ n \notin DOMAIN deliveries /\ DOMAIN deliveries' = DOMAIN deliveries \cup {n}
      /\ deliveries'[n] = e
      /\ \A k \in DOMAIN deliveries : deliveries'[k] = deliveries[k]
  BY <1>4, <1>5, DeliveryAppended
<1>7. e.event_type = "HANDOFF_REQUESTED" /\ e.approved_request_id = handoffs[i].request
  BY DEF NewDelivery
<1>8. CASE handoffs[i].request = request
  <2>1. RequestedAttempts(request)' = RequestedAttempts(request) \cup {n}
        /\ n \notin RequestedAttempts(request)
    BY <1>6, <1>7, <1>8 DEF RequestedAttempts, IsRequest
  <2>2. Claims(request)' = (Claims(request) \ {<<"handoff", i>>}) \cup {<<"attempt", n>>}
    BY <1>3, <2>1 DEF Claims
  <2>3. <<"handoff", i>> \in Claims(request) /\ <<"attempt", n>> \notin Claims(request)
    BY <1>3, <1>8, <2>1 DEF Claims
  <2> QED BY <1>1, <1>2, <2>2, <2>3, RenameInjection
<1>9. CASE handoffs[i].request # request
  <2>1. RequestedAttempts(request)' = RequestedAttempts(request)
    BY <1>6, <1>7, <1>9 DEF RequestedAttempts, IsRequest
  <2>2. Claims(request)' = Claims(request)
    BY <1>3, <1>9, <2>1 DEF Claims
  <2> QED BY <1>1, <1>2, <2>2
<1> QED
  BY <1>8, <1>9

LEMMA OutcomeKeepsAuthorized ==
  ASSUME HandoffTypeOK, AuthorizedInv, NEW i \in Instances, RecordOutcome(i)
  PROVE  AuthorizedInv'
<1> DEFINE e == NewDelivery(handoffs[i].attempt, handoffs[i].request, Outcome(handoffs[i].accepted))
           n == Len(deliveries) + 1
<1>1. e \in DeliveryEvent /\ e.event_type # "HANDOFF_REQUESTED"
  BY HandoffFields
     DEF RecordOutcome, HandoffTypeOK, NewDelivery, DeliveryEvent, DeliveryEventType, Outcome
<1>2. deliveries \in Seq(DeliveryEvent) /\ deliveries' = Append(deliveries, e)
  BY DEF RecordOutcome, HandoffTypeOK
<1>3. /\ n \notin DOMAIN deliveries /\ DOMAIN deliveries' = DOMAIN deliveries \cup {n}
      /\ deliveries'[n] = e
      /\ \A k \in DOMAIN deliveries : deliveries'[k] = deliveries[k]
  BY <1>1, <1>2, DeliveryAppended
<1>4. \A request \in Nat : RequestedAttempts(request)' = RequestedAttempts(request)
  BY <1>1, <1>3 DEF RequestedAttempts, IsRequest
<1>5. decisions' = decisions /\ \A j \in Instances :
        handoffs'[j] = handoffs[j] \/ handoffs'[j].step # "request"
  BY DEF RecordOutcome, Proceed, NoHandoff, HandoffTypeOK
<1> QED
  BY <1>4, <1>5, NoClaimMade

LEMMA NextAuthorized ==
  HandoffTypeOK /\ AuthorizedInv /\ [HandoffNext]_allVars => AuthorizedInv'
<1> SUFFICES ASSUME HandoffTypeOK, AuthorizedInv, [HandoffNext]_allVars PROVE AuthorizedInv'
  OBVIOUS
<1> DEFINE Unmoved ==
      /\ decisions' = decisions /\ deliveries' = deliveries
      /\ \A j \in Instances : handoffs'[j] = handoffs[j] \/ handoffs'[j].step # "request"
<1>1. ASSUME Unmoved PROVE AuthorizedInv'
  <2>1. \A request \in Nat : RequestedAttempts(request)' = RequestedAttempts(request)
    BY <1>1 DEF RequestedAttempts, IsRequest
  <2> QED BY <1>1, <2>1, NoClaimMade
<1>2. ASSUME NEW i \in Instances, OperateOnCases(i) PROVE Unmoved
  BY <1>2 DEF OperateOnCases, handoffVars
<1>3. ASSUME NEW i \in Instances, NEW request \in DOMAIN approved, BeginHandoff(i, request)
      PROVE  Unmoved
  BY <1>3 DEF BeginHandoff, Proceed, HandoffTypeOK
<1>4. ASSUME NEW i \in Instances, NEW accepted \in BOOLEAN, OpenMessage(i, accepted)
      PROVE  Unmoved
  BY <1>4 DEF OpenMessage, Proceed, HandoffTypeOK
<1>5. ASSUME NEW i \in Instances, AbandonHandoff(i) PROVE Unmoved
  BY <1>5 DEF AbandonHandoff, Proceed, NoHandoff, HandoffTypeOK
<1>6. CASE UNCHANGED allVars
  BY <1>1, <1>6 DEF allVars, handoffVars
<1> HIDE DEF Unmoved
<1> QED
  BY <1>1, <1>2, <1>3, <1>4, <1>5, <1>6, AuthorizeKeepsAuthorized, RequestKeepsAuthorized,
     OutcomeKeepsAuthorized DEF HandoffNext

LEMMA InitAuthorized == HandoffInit => AuthorizedInv
<1> SUFFICES ASSUME HandoffInit, NEW request \in Nat
             PROVE  Injection(Claims(request), DecisionsFor(request)) # {}
  BY DEF AuthorizedInv
<1>1. Claims(request) = {}
  BY DEF HandoffInit, Claims, RequestedAttempts, NoHandoff
<1>2. [x \in {} |-> x] \in Injection({}, DecisionsFor(request))
  BY DEF Injection, IsInjective
<1> QED
  BY <1>1, <1>2

LEMMA AuthorizedIsEnough ==
  TypeOK /\ HandoffTypeOK /\ AuthorizedInv => EveryAttemptAuthorized
<1> SUFFICES ASSUME TypeOK, HandoffTypeOK, AuthorizedInv, NEW request \in DOMAIN approved
             PROVE  Cardinality(RequestedAttempts(request)) =< Cardinality(DecisionsFor(request))
  BY DEF EveryAttemptAuthorized
<1> DEFINE S == RequestedAttempts(request)
           T == DecisionsFor(request)
<1>1. PICK f \in Injection(Claims(request), T) : TRUE
  BY DEF AuthorizedInv, TypeOK
<1>2. f \in [Claims(request) -> T] /\ \A x, y \in Claims(request) : f[x] = f[y] => x = y
  BY <1>1 DEF Injection, IsInjective
<1>3. \A k \in S : <<"attempt", k>> \in Claims(request)
  BY DEF Claims
<1> DEFINE g == [k \in S |-> f[<<"attempt", k>>]]
<1>4. g \in [S -> T] /\ \A j, k \in S : g[j] = g[k] => j = k
  BY <1>2, <1>3
<1>5. g \in Injection(S, T)
  BY <1>4 DEF Injection, IsInjective
<1>6. IsFiniteSet(T)
  <2>1. T \in SUBSET (1..Len(decisions)) /\ Len(decisions) \in Nat
    BY DEF DecisionsFor, HandoffTypeOK
  <2>2. IsFiniteSet(1..Len(decisions))
    BY <2>1, FS_Interval
  <2> HIDE DEF T
  <2> QED BY <2>1, <2>2, FS_Subset
<1> QED
  BY <1>5, <1>6, FS_Injection

(* Whoever authorizes and whoever gives up in between, a request never has more
   attempts than allowed egress decisions. *)
THEOREM AttemptsAuthorized == HandoffSpec => []EveryAttemptAuthorized
<1>1. HandoffSpec => []TypeOK
  BY CasesUndisturbed, TypeCorrect, PTL
<1> QED
  BY <1>1, HandoffTypeCorrect, InitAuthorized, NextAuthorized, AuthorizedIsEnough, PTL
     DEF HandoffSpec

=============================================================================
