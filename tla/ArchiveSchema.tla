----------------------------- MODULE ArchiveSchema -----------------------------
(***************************************************************************)
(* The SQLite schema, as the statements that create and migrate it, in     *)
(* their order.                                                            *)
(*                                                                         *)
(* A schema is the set of what a CREATE or an ALTER can find in its way:   *)
(* tables, the columns that came later than their table, indexes and       *)
(* triggers, each written as a pair of what it is and the table it is on.  *)
(* A statement is the set of what it creates.                              *)
(***************************************************************************)
EXTENDS Integers, Sequences

CurrentVersion == 10   \* CURRENT_SCHEMA_VERSION

Table(t) == {<<"table", t>>}

Indexes(t, columns) == [k \in DOMAIN columns |-> {<<columns[k], t>>}]

AppendOnlyTriggers(t) == << {<<"no_update", t>>}, {<<"no_delete", t>>} >>

(* A table whose rows are written once. *)
AppendOnly(t, columns) ==
  <<Table(t)>> \o Indexes(t, columns) \o AppendOnlyTriggers(t)

(* What exists once these statements were executed. *)
Created(statements) == UNION {statements[k] : k \in DOMAIN statements}

-----------------------------------------------------------------------------
(* Version 1. *)
IdentitySchema ==
  << Table("schema_meta"), Table("identities"), Table("identifiers") >>
  \o Indexes("identifiers", <<"identity_id">>)

TargetsSchema == << Table("targets") >>

(* Version 2: _create_m2_schema. *)
CaseIndexes == Indexes("cases", <<"identity_id", "target_id", "status">>)

M2Schema ==
  TargetsSchema \o << Table("cases") >> \o CaseIndexes
  \o AppendOnly("case_events", <<"case_id">>)

(* Version 3 makes a case a request for a right, with its dates. *)
RightColumns ==
  {<<c, "cases">> : c \in {"right_type.column", "received_on", "extension_notified_on"}}

RenamedTables == << Table("cases_v3"), Table("case_events_v3") >>

CaseSchemaV3 ==
  << Table("cases") \cup RightColumns >> \o CaseIndexes
  \o Indexes("cases", <<"right_type">>) \o AppendOnly("case_events", <<"case_id">>)

(* Version 6 adds the deadline snapshot, one column a statement. *)
DeadlineColumns ==
  Indexes("cases", <<"deadline_jurisdiction", "initial_due_on", "extended_due_on",
                     "holiday_dates_json", "holiday_source",
                     "holiday_calendar_complete">>)

SnapshotTriggers ==
  << {<<"deadline_snapshot_complete", "cases">>},
     {<<"deadline_snapshot_immutable", "cases">>} >>

CaseSchemaV6 ==
  << Table("cases") \cup RightColumns \cup Created(DeadlineColumns) >> \o CaseIndexes
  \o Indexes("cases", <<"right_type">>) \o AppendOnly("case_events", <<"case_id">>)
  \o SnapshotTriggers

InvestigationSchema ==
  << Table("investigations") >> \o Indexes("investigations", <<"identity_id", "status">>)
  \o << Table("artifacts"), Table("investigation_artifacts") >>
  \o Indexes("investigation_artifacts", <<"artifact_id">>)
  \o << Table("evidence") >> \o Indexes("evidence", <<"investigation_id", "artifact_id">>)
  \o << Table("claims") >> \o Indexes("claims", <<"investigation_id", "status">>)
  \o << Table("claim_evidence") >> \o Indexes("claim_evidence", <<"evidence_id">>)
  \o << {<<"no_update", "artifacts">>} >>

AuditSchema == AppendOnly("outbound_audit", <<"created_at">>)

ApprovedRequestSchema == AppendOnly("approved_outbound_requests", <<"case_id">>)

DeliverySchema == AppendOnly("outbound_delivery_events", <<"request", "attempt">>)

BindingSchema == AppendOnly("case_submission_bindings", << >>)

ResponseSchema == AppendOnly("case_responses", <<"case_id">>)

-----------------------------------------------------------------------------
(* _migrate: the statements that commit one by one before the version does.
   Those of version 3 that follow its two CREATEs do not, see Rebuilt. *)
Migration ==
  [v \in 2..CurrentVersion |->
     CASE v = 2 -> M2Schema
       [] v = 3 -> RenamedTables
       [] v = 4 -> InvestigationSchema
       [] v = 5 -> AuditSchema
       [] v = 6 -> DeadlineColumns \o SnapshotTriggers
       [] v = 7 -> ApprovedRequestSchema
       [] v = 8 -> DeliverySchema
       [] v = 9 -> BindingSchema
       [] v = 10 -> ResponseSchema]

(* _migrate_v2_to_v3 after its CREATEs, in the transaction that the first
   INSERT opens: the case tables are dropped with all that is on them, the new
   ones take their names, indexes and triggers are made again. *)
Rebuilt(schema) ==
  {o \in schema : o[2] \notin {"cases", "case_events", "cases_v3", "case_events_v3"}}
  \cup Created(CaseSchemaV3)

(* Mutant: the case tables of a new archive lack the snapshot. *)
CreationWithoutSnapshot ==
  IdentitySchema \o TargetsSchema \o CaseSchemaV3 \o InvestigationSchema \o AuditSchema
  \o ApprovedRequestSchema \o DeliverySchema \o BindingSchema \o ResponseSchema

(* _create_current_schema, up to the row of schema_meta. *)
Creation ==
  IdentitySchema \o TargetsSchema \o CaseSchemaV6 \o InvestigationSchema \o AuditSchema
  \o ApprovedRequestSchema \o DeliverySchema \o BindingSchema \o ResponseSchema

(* What an archive of a version consists of, as the migrations make it; what a
   later version of the program added is not known here. *)
SchemaOf[v \in 1..CurrentVersion] ==
  IF v = 1 THEN Created(IdentitySchema)
  ELSE IF v = 3 THEN Rebuilt(SchemaOf[2])
  ELSE SchemaOf[v - 1] \cup Created(Migration[v])

=============================================================================
