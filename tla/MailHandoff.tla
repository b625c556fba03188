----------------------------- MODULE MailHandoff -----------------------------
(***************************************************************************)
(* OutboundDeliveryService: an approved request is handed to the default   *)
(* mail client, next to everything CaseLifecycle's services do.            *)
(*                                                                         *)
(* A handoff is three transactions (the egress decision, the request, the  *)
(* outcome) around a call of the operating system, and the Case is looked  *)
(* at only before the first. AbandonHandoff is a crash, or an exception of *)
(* a transaction, between any two of them.                                 *)
(***************************************************************************)
EXTENDS CaseLifecycle, FiniteSets

CONSTANT MaxAttempts   \* bound on the egress decisions, and so on the attempts

ASSUME MaxAttemptsAssumption == MaxAttempts \in Nat

VARIABLES
  handoffs,    \* what each instance's handoff_approved_request is about to do
  decisions,   \* table outbound_audit: the requests whose egress was allowed
  deliveries,  \* table outbound_delivery_events, in id order
  opened       \* the attempts the operating system opened a message for

handoffVars == <<handoffs, decisions, deliveries, opened>>
allVars == <<vars, handoffVars>>

-----------------------------------------------------------------------------
DeliveryEventType == {"HANDOFF_REQUESTED", "HANDOFF_ACCEPTED", "HANDOFF_REJECTED"}

DeliveryEvent ==
  [attempt_id : Nat, approved_request_id : Nat, event_type : DeliveryEventType]

NewDelivery(attempt, request, type) ==
  [attempt_id |-> attempt, approved_request_id |-> request, event_type |-> type]

NoHandoff == [step |-> "none"]

Handoff ==
  {NoHandoff}
  \cup [step : {"authorize", "request"}, request : Nat]
  \cup [step : {"open"}, request : Nat, attempt : Nat]
  \cup [step : {"record"}, request : Nat, attempt : Nat, accepted : BOOLEAN]

(* The next step of an instance's handoff. *)
Proceed(i, handoff) == handoffs' = [handoffs EXCEPT ![i] = handoff]

(* Mutant: attempts are told apart by the request only. *)
FreshPerRequest(attempt, request) == attempt = request

(* uuid4: an id no attempt has yet. *)
Fresh(attempt, request) ==
  \A k \in DOMAIN deliveries : deliveries[k].attempt_id # attempt

(* Mutant: whatever the mail client answered. *)
OutcomeAlwaysAccepted(accepted) == "HANDOFF_ACCEPTED"

(* Mutant: an event type the table does not know. *)
OutcomeFailed(accepted) == IF accepted THEN "HANDOFF_ACCEPTED" ELSE "HANDOFF_FAILED"

Outcome(accepted) == IF accepted THEN "HANDOFF_ACCEPTED" ELSE "HANDOFF_REJECTED"

-----------------------------------------------------------------------------
BeginHandoff(i, request) ==
  /\ ops[i] = Idle /\ handoffs[i] = NoHandoff
  /\ request \in DOMAIN approved
  /\ cases[approved[request].case_id].status = "DRAFT"
  /\ Proceed(i, [step |-> "authorize", request |-> request])
  /\ UNCHANGED <<vars, decisions, deliveries, opened>>

(* Mutant: a request that was authorized once is not asked about again. *)
AuthorizeOnce(i) ==
  LET request == handoffs[i].request
  IN  /\ handoffs[i].step = "authorize"
      /\ Len(decisions) < MaxAttempts
      /\ decisions' = IF \E k \in DOMAIN decisions : decisions[k] = request
                      THEN decisions ELSE Append(decisions, request)
      /\ Proceed(i, [step |-> "request", request |-> request])
      /\ UNCHANGED <<vars, deliveries, opened>>

(* EgressPolicy.require_allowed: the user approved, so the decision is ALLOW,
   and it is recorded before anything happens. *)
Authorize(i) ==
  /\ handoffs[i].step = "authorize"
  /\ Len(decisions) < MaxAttempts
  /\ decisions' = Append(decisions, handoffs[i].request)
  /\ Proceed(i, [step |-> "request", request |-> handoffs[i].request])
  /\ UNCHANGED <<vars, deliveries, opened>>

(* Mutant: the message is opened without a trace of the attempt. *)
RequestUnrecorded(i, attempt) ==
  /\ handoffs[i].step = "request"
  /\ Proceed(i, [step |-> "open", request |-> handoffs[i].request, attempt |-> attempt])
  /\ UNCHANGED <<vars, decisions, deliveries, opened>>

RequestHandoff(i, attempt) ==
  LET request == handoffs[i].request
  IN  /\ handoffs[i].step = "request"
      /\ Fresh(attempt, request)
      /\ deliveries' = Append(deliveries, NewDelivery(attempt, request, "HANDOFF_REQUESTED"))
      /\ Proceed(i, [step |-> "open", request |-> request, attempt |-> attempt])
      /\ UNCHANGED <<vars, decisions, opened>>

(* open_message: True, or False or an OSError. *)
OpenMessage(i, accepted) ==
  /\ handoffs[i].step = "open"
  /\ opened' = IF accepted THEN opened \cup {handoffs[i].attempt} ELSE opened
  /\ Proceed(i, [step |-> "record", request |-> handoffs[i].request,
                 attempt |-> handoffs[i].attempt, accepted |-> accepted])
  /\ UNCHANGED <<vars, decisions, deliveries>>

RecordOutcome(i) ==
  LET handoff == handoffs[i]
  IN  /\ handoff.step = "record"
      /\ deliveries' = Append(deliveries,
           NewDelivery(handoff.attempt, handoff.request, Outcome(handoff.accepted)))
      /\ Proceed(i, NoHandoff)
      /\ UNCHANGED <<vars, decisions, opened>>

AbandonHandoff(i) ==
  /\ handoffs[i] # NoHandoff
  /\ Proceed(i, NoHandoff)
  /\ UNCHANGED <<vars, decisions, deliveries, opened>>

(* The GUI thread that hands a request off does nothing else meanwhile. *)
OperateOnCases(i) ==
  /\ handoffs[i] = NoHandoff
  /\ Operate(i)
  /\ UNCHANGED handoffVars

HandoffInit ==
  /\ Init
  /\ handoffs = [i \in Instances |-> NoHandoff]
  /\ decisions = <<>>
  /\ deliveries = <<>>
  /\ opened = {}

HandoffNext ==
  \E i \in Instances :
    \/ OperateOnCases(i)
    \/ \E request \in DOMAIN approved : BeginHandoff(i, request)
    \/ Authorize(i)
    \/ \E attempt \in 1..MaxAttempts : RequestHandoff(i, attempt)
    \/ \E accepted \in BOOLEAN : OpenMessage(i, accepted)
    \/ RecordOutcome(i)
    \/ AbandonHandoff(i)

HandoffSpec == HandoffInit /\ [][HandoffNext]_allVars

-----------------------------------------------------------------------------
EventsOf(attempt) == {k \in DOMAIN deliveries : deliveries[k].attempt_id = attempt}

IsRequest(k) == deliveries[k].event_type = "HANDOFF_REQUESTED"

(* Types of the handoff tables and of the handoffs in flight. *)
HandoffTypeOK ==
  /\ handoffs \in [Instances -> Handoff]
  /\ decisions \in Seq(Nat)
  /\ deliveries \in Seq(DeliveryEvent)
  /\ opened \subseteq Nat

(* However the attempts of several instances interleave in the table, and
   wherever one of them ends, the events of an attempt are HANDOFF_REQUESTED
   and then at most one outcome, all for one request. *)
AttemptsWellFormed ==
  \A k \in DOMAIN deliveries :
    \E first \in EventsOf(deliveries[k].attempt_id) :
      /\ IsRequest(first) /\ first =< k
      /\ deliveries[first].approved_request_id = deliveries[k].approved_request_id
      /\ \A other \in EventsOf(deliveries[k].attempt_id) \ {first} :
           ~IsRequest(other) /\ (k # first => other = k)

(* No outcome is invented: an attempt is recorded as accepted only if a message
   was opened for it and as rejected only if none was. What became of an
   attempt without an outcome is left open. *)
OutcomesAreTrue ==
  \A k \in DOMAIN deliveries :
    /\ deliveries[k].event_type = "HANDOFF_ACCEPTED" => deliveries[k].attempt_id \in opened
    /\ deliveries[k].event_type = "HANDOFF_REJECTED" => deliveries[k].attempt_id \notin opened

(* No message is opened silently: whatever failed since, the attempt is in the
   event table, and a payload the user approved is behind every event. *)
NoSilentHandoff ==
  /\ \A attempt \in opened : \E k \in EventsOf(attempt) : IsRequest(k)
  /\ \A k \in DOMAIN deliveries : deliveries[k].approved_request_id \in DOMAIN approved

RequestedAttempts(request) ==
  {k \in DOMAIN deliveries : IsRequest(k) /\ deliveries[k].approved_request_id = request}

DecisionsFor(request) == {k \in DOMAIN decisions : decisions[k] = request}

(* Every attempt has an egress decision of its own, whoever made them: a
   decision that was paid for one attempt never covers a second. *)
EveryAttemptAuthorized ==
  \A request \in DOMAIN approved :
    Cardinality(RequestedAttempts(request)) =< Cardinality(DecisionsFor(request))

-----------------------------------------------------------------------------
(* README: "the approved payload may be handed off only while its Case remains
   DRAFT". The code compares the status once, two transactions earlier. *)
OpenedOnlyWhileDraft ==
  [][\A attempt \in opened' \ opened : \A k \in EventsOf(attempt) :
       cases[approved[deliveries[k].approved_request_id].case_id].status = "DRAFT"]_allVars

=============================================================================
