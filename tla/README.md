# GDPR Hunter, specified

A TLA+ verification of the parts of GDPR Hunter where order matters: what
happens to a case when reads are stale, when two copies of the program share an
archive, when a step fails half way, when a date falls at the edge of a month,
when a worker thread, the event queue and the page answer each other late, when
a start ends in the middle of a migration.
Sources are named relative to `src/`.

## The system

GDPR Hunter is a single-user desktop program: a Qt window whose page calls
Python slots, services that own the rules, repositories that own SQL, one
SQLite archive, encrypted files next to it, a key in the credential store of
the operating system, and three ways out: the mail client, public documents,
a model server.

| Component | State it keeps | Operations | Talks to |
| --- | --- | --- | --- |
| Case lifecycle: `case_service`, `case_repository` | tables `cases`, `case_events`, `case_submission_bindings` | create, submit, record extension, transition, deadline of a row | identity, target, composer, deadlines |
| Request approval: `request_approval_service` and its repository | `approved_outbound_requests`, append-only | approve, get | case service, composer |
| Request composition: `request_composer` | none | compose | rights policy |
| Response intake: `response_intake_service` and its repository | `case_responses`, append-only | record, get | case service |
| Mail handoff: `outbound_delivery_service`, `native_mail` | `outbound_delivery_events`, append-only | handoff | approval, case service, egress policy, mail client |
| Egress policy: `egress_policy`, `outbound_audit_repository` | `outbound_audit`, append-only | evaluate, require | handoff, research, model analysis |
| Deadlines: `deadline_engine`, `holiday_calendar` | none | calculate, assess, snapshot | case service |
| Schema: `database` | `schema_meta`, constraints, triggers | create, migrate 1 to 10 | every repository |
| Identity, targets | `identities`, `identifiers`, `targets` | set name, add identifier, add target | case service, composer |
| Investigations: `investigation_service` and its repository | investigations, artifacts, evidence, claims | import, analyze, research, claim, attach, transition | artifact store, research, egress |
| Artifact store | encrypted files | store, read, delete | investigations |
| Research: `research_service`, `network_policy` | none | bounded fetch with redirects and cancellation | sockets |
| Runners: `research_runner`, `model_analysis_runner` | one worker thread each | start, relay, shutdown | bridge, services |
| Proposals: `model_analysis_service`, `proposal_review_service` | one-time tokens in memory | register, accept, discard | inference, investigations |
| Bridge and controller | none of their own | one slot per user action | page, services, runners |
| Web views: `app.js`, `case_workflow.js` | flags and contexts of pending calls | call, render | bridge |
| Startup: `main`, `secret_store` | the master key | read or create the key, open the archive | keyring, database |

What makes each of them correct:

- **Case lifecycle.** A case moves only along its transitions. Its timeline is
  the history of its status. A submission is bound to a payload approved for
  that case, once. Dates are in order. The deadline follows from what was
  stored at submission.
- **Approval and handoff.** Only what was approved leaves, for the case it was
  approved for, and a log that may be incomplete but not wrong says so.
- **Deadlines.** The first working day from the nominal end on, for every date.
- **Investigations.** One fetched document is recorded once and, if it was only
  cancelled, completely; no row without a file, no file without a row unless
  the file system failed on this very file; nothing is fetched without a
  decision in the audit; research ends, and a cancellation lets no more go out
  than one request to each address of the host being asked.
- **Runners, proposals, views.** At most one worker each, a token spent at most
  once and never lost, a page that shows what the service would accept, a
  runner that becomes free again, a shutdown that ends.
- **Startup.** The key that encrypted an archive is never replaced; the version
  of an archive never promises more than its schema has; what is opened is
  complete.

### What is hard

*Concurrency.* Within one instance, slots run one at a time on the GUI thread
(`ui/bridge.py:317` relies on it). The research worker touches investigations
only, but it does so next to the GUI thread, a connection per call. What comes
back from a worker is queued to the GUI thread, and what the page hears and
sends is queued in both directions. Nothing keeps a second instance from opening the same
archive, though: there is no lock file, and SQLite lets both in. Every service
operation reads on one connection and writes on another
(`core/storage/database.py:58`), so another instance's commit can fall between.
The `WHERE status = ?` of the repositories are there for that, and the case
modules check whether they are enough.

*Failure.* A commit either happens or does not; a handoff is three commits
around a call that cannot be undone; files and rows are not written together,
and a file is written under another name first; a request that failed is sent to
the next address;
the statements of a migration commit one by one; an exception no clause names
ends a worker or a slot without a message.

*Edges.* The 31st of a month, leap years, Easter, weekends, the end of a year.

`PROJECT.json` lists the hazards line by line with the properties that cover
them.

## The modules

| Module | Models | State |
| --- | --- | --- |
| `CaseLifecycle` | case service, approval and intake over their tables, any number of instances | `cases`, `timeline`, `approved`, `bindings`, `responses`: the tables; `named`: the identity has a name; `ops`: the operation each instance is in the middle of |
| `CaseContract` | what a case promises, one atomic step per fact | `phase`, `submission`, `extended`, `due`, `answers` |
| `MailHandoff` | extends `CaseLifecycle` with the handoff | `handoffs`: step of each instance; `decisions`, `deliveries`: tables; `opened`: messages the mail client opened |
| `Deadlines` | month arithmetic, holidays, roll-forward, on real dates | `received`, `jurisdiction`, `holidays`, `due` |
| `Investigation` | the investigation service, the artifact store and public research on two threads | `stored`, `temporaries`, `files`: the artifact store, its `.tmp` and its `.dat` files; `artifacts`, `evidence`, `audit`: tables; `ops`: where each thread is, with its local variables |
| `ReviewDesk` | page, bridge, review service, both runners | `threads`, `queue`: Qt's threads and events; `proposals`, `live`: tokens; `page`, `toBackend`, `toPage`: the page and its channel; `closing` |
| `ArchiveSchema` | the statements of a creation and of each migration, as constants | |
| `ArchiveStartup` | extends `ArchiveSchema` with starts, key and files | `file`, `schema`, `version`, `rows`: the database; `artifacts`, `blobs`: files; `keyring`, `lost`, `made`: keys; `starts`: where each instance is |
| `MCCaseLifecycle`, `MCMailHandoff`, `MCInvestigation` | constants for TLC | |
| `CaseLifecycleProofs`, `CaseContractProofs`, `MailHandoffProofs`, `InvestigationProofs`, `ReviewDeskProofs`, `ReviewDeskPageProofs`, `ArchiveStartupProofs`, `DeadlinesProofs` | theorems | |

`MailHandoff` composes with the case services. `Investigation` and `ReviewDesk`
meet at the runner: `ReviewDesk` has the thread and knows of its work only how
it ended, `Investigation` has the work and knows of its thread only whether it
was interrupted.

### CaseLifecycle

An operation is a `Begin` action and a `Commit` action. `Begin` has the checks
the service makes on what it read, and stores in `ops[i]` what the service keeps
in local variables: the arguments, the status it expects, the snapshot it
computed. `Commit` is the whole transaction, on the tables as they are then:
the `WHERE` clause (`SubmitMatches`, `ExtensionMatches`, `TransitionMatches`,
`ResponseMatches`), the constraints that could abort it (the immutable snapshot
trigger, the primary key and the `UNIQUE` of the bindings, the `CHECK` of the
grounds), the row and its event. A transaction that would fail is not enabled,
and `Abandon` ends the operation, as does a locked database or the end of the
process. A transaction is one step because SQLite runs one writer at a time and
rolls back the rest. `approve` has three steps, for it reads the status and the
data it composes from separately.

| Action | Code |
| --- | --- |
| `CreateCase` | `CaseService.create_case`, `CaseRepository.create` |
| `BeginApprove`, `Compose`, `CommitApprove` | `RequestApprovalService.approve`, `preview_request`, `RequestComposer.compose`, `ApprovedOutboundRequestRepository.create` |
| `BeginSubmit`, `CommitSubmit` | `CaseService.submit_case`, `CaseRepository.submit` |
| `BeginExtension`, `CommitExtension` | `record_extension` of both |
| `BeginTransition`, `CommitTransition` | `transition_case`, `transition` |
| `BeginResponse`, `CommitResponse` | `ResponseIntakeService.record_response`, `CaseResponseRepository.create` |
| `SetDisplayName` | `IdentityService.set_display_name` |
| `Abandon` | any way out without a commit |

Abstractions. A date is a day number, and the deadline engine a pair of
functions `InitialDue` and `ExtendedDue` per calendar, with the assumption
`DeadlineAssumption` that `DeadlinesProofs` proves of real dates. Message text,
identifiers and encryption are left out; a payload is its case, its right and
its ground. Targets never change once created, so they are the constant
`Contactable`. Initial states hold any case an older version could have left:
without a right (schema 2), without a snapshot (before schema 6) or without a
binding (before schema 9), but without an extension. The shipped calendars are never complete, so
`LATE` occurs only with a calendar like the one `tests/test_m16_jurisdiction_deadlines.py`
injects; `CompleteCalendars` covers both.

### CaseContract

No instances, no stale reads, no tables: a case is opened, submitted with a
payload no other case has, extended at most once, answered, closed. The due
date is set by the submission and moves only forward. `ImplementsContract`
states that `CaseLifecycle` implements it, with the effective deadline the
service displays as `due`. It is checked in `case_dates`, where the dates vary,
and in `case_submission`, where two cases compete for the payloads, and proved (`Refines`) for any number of cases.

### MailHandoff

`BeginHandoff` has the service's checks. `Authorize`, `RequestHandoff` and
`RecordOutcome` are the three transactions, `OpenMessage` the call between the
last two, which returns a Boolean or raises (`accepted = FALSE` stands for
`False` and for `OSError`). `AbandonHandoff` can end it between any two. An
instance in a handoff does nothing else, and every other may do anything
`CaseLifecycle` allows. `Fresh` is `uuid4`: an id not in use. `opened` is what
the world knows and the archive may not.

### Deadlines

Dates are records, arithmetic on them is the code's, and `Ordinal` is Python's
`toordinal`. The loop of `_next_working_day` is the action `RollForward`, the
initial deadline first. Month arithmetic is compared with a definition by sets
(the last date of the target month whose day is not beyond the day of receipt),
weekdays with a count of days modulo 7, Easter with the computus of Clavius.

### Investigation

One process, two threads, one action per call of the database, the artifact
store or the network; that is the grain at which the two interleave, since each
call opens a connection of its own.

| Action | Code |
| --- | --- |
| `ImportArtifact`, `StoreDocument` | `import_artifact` up to the temporary file of `ArtifactStore.store`, on either thread |
| `ReplaceTemporary` | the rename that ends `ArtifactStore.store` |
| `InsertArtifact`, `UndoImport` | `add_artifact_metadata`, and the `except` that deletes the file |
| `AddUserEvidence` | `AppController.add_user_evidence` |
| `AnalyzeArtifact`, `AnalyzeDocument`, `InsertEvidence` | `analyze_artifact`: one read of the Evidence there is, then one INSERT per missing row |
| `StartArtifactResearch`, `StartModelResearch`, `RequestInterruption` | the runner's `start_*` and the interruption of its thread |
| `ReadSources`, `NextSource`, `Authorize` | `research_artifact_urls`, `research_model_evidence`, and `_research_url_evidence` up to the fetch |
| `CheckUrl`, `ReceiveRedirect`, `ReceiveDocument`, `ReceiveFailure` | a round of `fetch_public_document`, the network choosing |
| `SendRequest`, `AddressFails` | the loop of `_request_pinned` over the host's addresses |
| `BeginUnit` | the last cancellation check, before a document is persisted |
| `Raise`, `Crash` | a call raises; the process ends |

A payload is a model value and `Findings` says what the analyzer finds in it. A
URL answers with any payload, a redirect or a failure. The rows of a document
are made at once (`DocumentRows`) and inserted one by one. An operation keeps
the positions it has still to handle as a set and takes the least (`First`), as
the loops over lists in id order do. Two reads of the
Evidence in `ReadSources` are one step, as only the worker writes what the
second looks for.

A file is in `temporaries` from the moment it is opened to the rename, and in
`files` from then until it is deleted. `Raise` at the step `replace` is an
exception of the write, the sync or the rename: the `.tmp` stays, because the
`try` of `import_artifact` begins only after the store. `Raise` at `undo` is a
deletion that fails after the row did, which needs no further fault of the
bound: a full disk may cause both. `abandoned` remembers the files whose own
writing, renaming or deletion failed or was cut off by the end of the process,
and `FilesHaveRows` excuses no others.

The policy hands the transport all public addresses of a host (`addresses`).
While there are some `left`, an `OSError` or `HTTPException`, before the request
was sent or after it, takes the loop to the next (`AddressFails`), and nothing
there asks whether the research was cancelled. `late` counts the requests that
go out after a cancellation, and `CancellationIsPrompt` bounds them by the
addresses of the one host: it is not a single request in the code.

### ReviewDesk

Page and GUI thread exchange messages in order (`toBackend`, `toPage`), and the
page acts on what it heard last: it can click twice before the reply to the
first click. Every `Deliver...` action is one turn of the GUI thread's event
loop, and every bridge slot is one step (`bridge.py:317`). A worker's `run`
ends in a result, a failure, or an exception that only `finally` sees
(`WorkerReturns`); `completed` then queues `quit`, the thread ends
(`ThreadStops`), and `finished` frees the runner. `CloseWindow` is
`aboutToQuit`: from there on the queue stands still, and each `shutdown` tells
its thread to quit and waits, research first. The wait gives up on a worker that
is still in its call, as the code's bounded wait does.

`escaped` says that an exception nothing catches swallowed a message: it ended
a worker, or was raised by `get_bootstrap_state` in a slot before it replied.
The page is not told then, and `ShownProposalsResolve` and `FlagsFollowRunners`
except it.

### ArchiveSchema and ArchiveStartup

Python's sqlite3 opens a transaction for INSERT, UPDATE and DELETE and not for
CREATE or ALTER. The statements of `_create_current_schema` and of a migration
therefore commit one by one, in spite of the `with connection` around them, and
the version row follows last. `ArchiveSchema` writes a schema as the set of the
tables, later columns, indexes and triggers that a CREATE or ALTER may find in
its way, and each script as its sequence of statements; `Rebuilt` is the rest of
the migration to version 3, which does run in a transaction because it starts
with an INSERT. `SchemaOf[v]` is what the migrations make of version 1.

`ArchiveStartup` runs `build_controller` for any number of instances: `Launch`
(does an archive exist?), `GetKey` and `SetKey` (two calls of the keyring),
`KeyringFails`, `Connect`, `ReadVersion`, `Execute` for each statement,
`InsertVersion` or `SetVersion`. A running instance encrypts rows and files with
its key (`StoreRow`, `StoreArtifact`). `EndEarly` is a crash, a full disk or a
lock; `LoseKey`, `RestoreKey` and `LoseDatabase` are what
`docs/ARCHIVE_RECOVERY.md` is about.

## What is checked

`tlc -workers 2 -config X.cfg M`; all runs end within seconds to a minute or two.

| Run | Config | Shows |
| --- | --- | --- |
| case_submission | `CaseSubmission.cfg` | `TypeOK`, `TimelineIsHistory`, `TimelineExplainsRow`, `SubmissionProvenance`, `ImplementsContract` hold with two instances, two cases (one of an older version), two payloads |
| case_dates | `CaseDates.cfg` | `DatesInOrder`, `StaleReadsAreSafe`, `ImplementsContract` hold on one case with four dates, two rights, a complete and two incomplete calendars, two answers |
| mail_handoff | `MailHandoff.cfg` | `HandoffTypeOK`, `AttemptsWellFormed`, `OutcomesAreTrue`, `NoSilentHandoff`, `EveryAttemptAuthorized` hold for two instances, two payloads, two attempts |
| deadlines | `Deadlines.cfg` | `FirstWorkingDay`, `DueDatesInOrder`, `EasterFollowsComputus` for all dates of 23 years |
| investigation | `Investigation.cfg` | `RowsHaveFiles`, `FilesHaveRows`, `ResearchedOnce`, `CancelKeepsUnitsWhole`, `AnalysisComplete`, `EveryFetchAudited`, `CancellationIsPrompt`, `ResearchAdvances`, `ResearchEnds` and the types hold for two threads, two payloads, a URL named twice, a redirect, hosts of up to two addresses and a fault |
| review_desk | `ReviewDesk.cfg` | `ProposalUsedOnce`, `ResearchNotWasted`, `ShownProposalsResolve`, `FlagsFollowRunners`, `NoStaleEvent`, `NothingStranded`, `RunnersRecover`, `ShutdownEnds` and the types hold for two Investigations, three clicks, and analyses that answer with up to two proposals |
| archive_startup | `ArchiveStartup.cfg` | `KeyFitsArchive`, `VersionTellsSchema`, `OpenedIsCurrent`, `RefusedForAReason` and the types hold for two instances, no archive or one of version 1 to 11, and one early end |
| approval_race | `ApprovalRace.cfg` | `ApprovedOnlyWhileDraft` is violated |
| erasure_ground | `ErasureGround.cfg` | `ComposedCanBePersisted` is violated |
| handoff_race | `HandoffRace.cfg` | `OpenedOnlyWhileDraft` is violated |
| year_end | `YearEnd.cfg` | `DeadlinesAreNoHolidays` is violated |
| key_race | `KeyRace.cfg` | `KeyNeverReplaced` is violated |

**Bounds.** Two instances are enough to put any commit between a read and a
commit, and the proofs below are for any number. Two cases and two payloads are
what it takes to bind a payload to the wrong case or twice. With a month of one
day and an extended period of three (`MCCaseLifecycle`), dates 0 to 3 put a
notice before the receipt, on it, within and after the initial deadline.
`MaxApproved`, `MaxResponses` and `MaxAttempts` bound append-only tables.
The years of `Deadlines.cfg` are the leap, century and first-and-last years of
the Italian calendar and those in which the exceptions of the Easter algorithms
apply. `Investigation.cfg` has one Investigation, for they share nothing but
tables; two research operations, the second of which meets what the first left;
one redirect over its limit; two addresses, so that a request is sent again and
the last address can fail as well; one fault, as what the next fault finds is an idle
thread again. Three clicks (`ReviewDesk.cfg`) are an analysis and two uses of
its proposals, or a second analysis with an old proposal still shown.
`MaxKeys` of two makes a second key possible. Instances run the same code, so they are a symmetry set;
no liveness is
checked where symmetry is used.

**Fairness.** `Investigation` assumes weak fairness of the two threads once they
were called: a transaction is short and waits a bounded time for a lock, and a
request is answered or fails in the end. `TIMEOUT_SECONDS` is for each operation
on the socket and not for the request, but every read that does not time out
brings at least a byte of an answer that is limited in size. `ReviewDesk` assumes that the page and the event loop take
the next message, that a call of a worker returns, and that a shutdown goes on,
for Qt does the first two and all waits are bounded. Users, windows that close,
failures and crashes are never fair, nor is any step of a case or a handoff.

**Deadlock.** These runs switch the check off. The calculation of a deadline
stops when it is done; a closed application stays closed (`ReviewDesk.cfg`);
and in `Investigation.cfg`, `ArchiveStartup.cfg` and `KeyRace.cfg` nothing is
left to do once the bounds on what users, keys and faults may do are used up.

**Mutants.** Definitions whose comment begins with "Mutant" are plausible
faults (a dropped comparison, a missing clamp); for each property one of them
is put in place of the original to see that the property notices.

## What the runs found

1. *Approval after the draft* (`approval_race`). README: "approval is allowed
   only while the Case is still `DRAFT`". The INSERT of an approval does not
   look at the case, so one instance can approve a case the other has just
   cancelled. Every other write of a case re-checks its status.
2. *Grounds that cannot be stored* (`erasure_ground`). Three values of
   `ErasureGround` differ from the three the CHECK of the table takes. Such an
   erasure request can be previewed and never approved.
3. *Handoff after the draft* (`handoff_race`). README: "the approved payload may
   be handed off only while its Case remains `DRAFT`". The status is read once,
   two commits before the mail client opens.
4. *New Year's Day as a deadline* (`year_end`). The holiday snapshot ends with
   the year of the nominal end, and the roll-forward may pass it: a request
   received on 30 September 2023 is due, in its extended period, on
   1 January 2024.
5. *Two first keys* (`key_race`). `secret_store.py:15`: "An existing archive must
   never be paired with a replacement master key." Two first launches both find
   neither an archive nor a key; the second `set_password` replaces the key that
   the first has begun to encrypt with. `KeyFitsArchive` shows that it does not
   happen as long as no start overlaps another one; it says nothing of which
   overlaps are to blame, nor of what comes after one.

The first, the third and the fifth need two instances; the second and the
fourth only the right input.

What else came up while modelling, and contradicts nothing the repository says:

- *Half a document.* `CancelKeepsUnitsWhole` is about cancellations, as the
  comment at `investigation_service.py:232` is. A call that raises, or a crash,
  between the marker row and the rest leaves a URL that counts as researched
  without its final URL or its findings, and every later run skips it.
- *Files left over.* A store that fails at the write, the sync or the rename
  leaves an encrypted `.tmp` file, and an undo whose deletion fails an encrypted
  file without a row. Nothing looks for them later. `FilesHaveRows` says that
  these, and the end of the process, are the only ways.
- *More than one request after a cancellation.* A host with several addresses
  is asked at each of them in turn when they fail, up to `TIMEOUT_SECONDS` for
  each operation, and a cancellation is noticed when the last one has answered
  or failed.
- *Findings twice.* `analyze_artifact` is idempotent one call at a time
  (`tests/test_m5_artifact_analysis.py:111`). The GUI thread and the worker can
  analyze the same fetched document at once, and both insert what they found
  missing. `AnalysisComplete` holds, a count of one row per finding would not.
- *A page left waiting.* An exception that no clause names (`sqlite3.Error` in
  the model worker, or in the state that a slot sends before its reply) frees
  the runner, by `RunnersRecover`, but the page keeps its flag until a reload.
  A failed analysis clears the proposals shown, which the service still has.
- *An archive between two versions.* A start that ends in a creation or a
  migration leaves some of its statements committed. Every later start then
  finds a table that already exists, or no version row, and is refused: the
  archive is intact (`VersionTellsSchema`) and cannot be opened without repair.
- *Left-over tables.* A start that read version 2 and is overtaken by another
  migration may add `cases_v3` to a current archive. Nothing reads it.

## What is proved

TLAPS checks these for every value of the constants that meets the assumptions
(`tlapm X.tla` for each module `X` named ...`Proofs`).

| Theorem | States |
| --- | --- |
| `TypeCorrect` | `TypeOK` |
| `StaleReads` | `StaleReadsAreSafe`, with the shapes of rows |
| `Timeline` | `TimelineIsHistory` |
| `TimelineExplains` | `TimelineExplainsRow` |
| `Provenance` | `SubmissionProvenance` |
| `Dated` | `DatesInOrder` |
| `Refines` | `ImplementsContract` |
| `CasesUndisturbed` | `HandoffSpec => Spec`: the theorems above hold next to handoffs, too |
| `HandoffTypeCorrect` | `HandoffTypeOK` |
| `Attempts` | `AttemptsWellFormed` |
| `TrueOutcomes` | `OutcomesAreTrue` |
| `NeverSilent` | `NoSilentHandoff` |
| `AttemptsAuthorized` | `EveryAttemptAuthorized` |
| `FilesOfRows`, `RowsOfFiles` (`InvestigationProofs`) | `RowsHaveFiles`, `FilesHaveRows` |
| `FetchesAudited` | `EveryFetchAudited` |
| `CancelledPromptly`, `AlwaysAdvances` | `CancellationIsPrompt`, `ResearchAdvances` |
| `TypesHold` (`InvestigationProofs`) | `TypeOK` |
| `UrlsResearchedOnce`, `UnitsWhole`, `AnalysesComplete` | `ResearchedOnce`, `CancelKeepsUnitsWhole`, `AnalysisComplete` |
| `TypeCorrect`, `UsedAtMostOnce`, `NotWasted`, `EventsAreFresh`, `NoneStranded` (`ReviewDeskProofs`) | `TypeOK`, `ProposalUsedOnce`, `ResearchNotWasted`, `NoStaleEvent`, `NothingStranded` |
| `ShownResolve`, `FlagsFollow` (`ReviewDeskPageProofs`) | `ShownProposalsResolve`, `FlagsFollowRunners` |
| `KeyFits` (`ArchiveStartupProofs`) | `KeyFitsArchive` |
| `TypesHold`, `VersionKept`, `OpensCurrent`, `RefusalsHaveReasons` (`ArchiveStartupProofs`) | `TypeOK`, `VersionTellsSchema`, `OpenedIsCurrent`, `RefusedForAReason` |
| `FirstWorkingDays`, `InOrder`, `EasterIsRight` (`DeadlinesProofs`) | `FirstWorkingDay`, `DueDatesInOrder`, `EasterFollowsComputus` |

Every invariant of every passing run is in this list, and so are the refinement
and the action property `ResearchAdvances`.

Assumptions: `ConstantsAssumption` (sets and functions of the right kind),
`NullAssumption` (Null is none of the values it stands in for),
`MaxAttemptsAssumption` (a natural number) and, for
`Refines` only, `DeadlineAssumption` (a deadline comes after the receipt, the
extended one not before the initial one). TLC evaluates them on the constants
of every case run, and `InOrder` proves the last one of real dates, whatever the
year and the holidays. `DeadlinesProofs` itself assumes only that years are
positive numbers (`YearsAssumption`), `ReviewDeskProofs` that its bounds are
numbers, `ArchiveStartupProofs` nothing about the schema but its definition in
`ArchiveSchema`. `InvestigationProofs` assumes that the URLs are among the values
and that findings are sequences of values, of which, as of ids and payloads,
there is one at least (`DataAssumption`).

The argument. What an operation decided on is either re-checked by its commit
or cannot change back: that is `StaleReadsAreSafe`, and `StaleReads` proves it
inductive together with `RowShapes`, which relates the columns of a row (a
receipt date is never on a draft, a snapshot always agrees with its receipt
date). It is proved
first because the other proofs need it: an event written by a commit starts at
the status that was read, and is a legal change of the present status only
because the commit compared the two. `NextTables` splits every step once into
the six ways the tables change (`TableStep`), so later proofs have one step per
change rather than one per action. `Provenance` needs `ProvenanceInv`: an
approved payload fits the row of its case (`ApprovedFit`), rights do not
change, and a binding is set once. `Refines` maps each commit to one step of
the contract and everything else to a stutter, from these invariants and the
length of `approved`.

The handoff proofs start from `CasesUndisturbed`. `AttemptsInv` is inductive:
besides the two properties of the log it says of every handoff between its
request and its outcome that the log has its request and nothing else about the
attempt, that it knows whether the message was opened, and that no other
handoff has the same attempt (`FlightsInv`). Only with the last of these can an
instance record its outcome without completing an attempt of another one.
`EveryAttemptAuthorized` compares two cardinalities, which no step lets one
count directly. `AuthorizedInv` gives the reason instead: an injection from what
decisions are spent on (the attempts in the log and the handoffs that are
authorized but not yet logged) to the decisions. Authorizing extends it, writing
the request renames one element, and giving up only makes its domain smaller.

`InvestigationProofs` starts from the fields of an operation (`Shape`), which is
all the files, the audit and the cancellation need: nothing they promise depends
on what a payload is. `FilesInv` adds to
`RowsHaveFiles` that an operation which holds a file without a row
(`Importing`) is the only one with that key, and where its file is (`Place`:
under the temporary name until the rename). Without the first, undoing one
import could delete the file of another. That no key is under both names makes a
rename leave nothing behind. `FilesHaveRows` is inductive with these: whoever
stops importing has inserted the row, deleted the file, or is the reason that
the file is in `abandoned`. `AuditInv` says for every URL and actor that
the fetches, and the decision the worker has not used yet (`Pending`), are no
more than the decisions; a redirect sends another request, but for the same
decision and not as a fetch of its own. `Prompt` says that a late
request is one of an operation which is cancelled and still goes through
addresses, and that there are no more of them than addresses it tried (`Tried`,
the ones it gave up and the one it waits for): each address is sent the request
once, and the next round would notice the cancellation.

The recording proof is about what is half done. `RInv` says of a thread in the
middle of a unit or an analysis that the rows it has still to insert are part of
that unit and the rest of them are in the table, and of the worker that its set
of URLs already done, with the one it is at, covers every marker in the table.
Only the worker writes markers, and tables only grow, so what one thread found
there the other cannot take back. An artifact that holds a URL twice is
why `ResearchedOnce` is not obvious: the worker listed both before it recorded
the first, and skips the second because it has learned the URL since. Rows are
handled in order (`First`, `AfterFirst`), and that there is a first one
(`FirstIs`) is the well-ordering of the naturals.

`AlwaysAdvances` is the safety half of `ResearchEnds`: each step of the worker
goes down an order without endless descents (`Nearer`: fewer URLs, else fewer
redirects left, else fewer addresses and steps, else fewer rows). An address
that fails takes the worker a step back, from the answer to the request, so each
address counts for two steps. It needs from `RInv` that a
unit under way has a URL and a row to put behind it.

`ReviewDeskProofs`: `QueueInv` says that the events of a runner in the queue are
those of the thread it has, and that the end of the thread is the last of them,
so that no event is left when the runner takes a new thread. `UsedInv` says of
every token that it was used once at most, and never if it still resolves or is
yet to be given out. `MessagesInv` says that a message names proposals that
exist, which the type of the page rests on. `NothingStranded` is inductive with
them. It is the safety half of `RunnersRecover` and `ShutdownEnds`: what still
has to happen for a thread to end is in the queue while the GUI thread takes
from it, and was said to the thread itself once it does not.

`ReviewDeskPageProofs`: `ShownProposalsResolve` says nothing while a message is
in transit, so it is not inductive. `ShownInv` says of each token in a view, and
in each view still on its way to the page, that it resolves or that a message
behind it takes it off again. It needs `OwnedInv`: views, answers and requests
name a token under the Investigation it was registered for, or the reply to a
request would take it off the wrong view. `FlagsFollowRunners` is silent in the
same way. `FlagInv` says of each runner that the last message about it in
transit, or the flag of the page if there is none, tells what it does, and
`ResultsOnce` that its queue holds at most one result: with two, the page would
hear an end while the runner has another to announce.

`ArchiveStartupProofs`: as long as no starts overlapped, one start at most is under
way (`LonelyInv`); whatever is encrypted, and every key that an instance holds,
is one key, the one in the keyring or, if that is empty, the one last lost from
it; and while a start may still make a key, nothing is encrypted and nothing is
open (`KeyInv`). The schema proofs start from lemmas about the
scripts alone: no script creates an object twice, or one that the version it
starts from has, and a creation makes what the migrations end in. `SchemaInv`
says what is true however starts overlap. What a creator has executed is in the
schema, and of two creators one never got past its first statement, the table
of the version; what a migrator has executed is there as long as the version is
still the one it read, and it does not get past the UPDATE otherwise. Objects
are dropped only in the transaction of `Rebuilt`. This gives `VersionKept`.
`AloneInv` adds what is true while no starts overlapped: as long as none ended
early either, the schema is that of the version and what the one start under way
has executed, so no statement of it meets an object in its way. `OpensCurrent`
takes from it that nothing is left over, and `RefusalsHaveReasons` that a start
is not refused for nothing.

`DeadlinesProofs`: `RolledInv` says that every day from the nominal end to the
present candidate is one that the loop rolls over. `FirstWorkingDays` then needs
that the code's month arithmetic gives the date the definition by sets chooses
(`AddMonthsIsNominalEnd`), and its weekdays those of counting modulo 7
(`FreeDays`). `InOrder` needs that dates of a later month have a higher number,
which follows from the first day of a month being the first day of the previous
one plus its length, leap days and turns of centuries included (`MonthsFollow`):
the receipt is then before both nominal ends, and the initial deadline cannot
have rolled past a later extended one, which is a working day itself.
`EasterIsRight` compares two programs for every year there is. A year is
400q + 100d + 4e + k (`YearSplit`). In these numbers the century terms of both
algorithms are the same solar and lunar corrections (`SolarCorrection`,
`LunarCorrection`), so both find the same age of the moon; the full moon is that
many days after 21 March, one less for the two epacts that the calendar excepts
(`Corrected`); and the Sunday after it is the same one, for 97q + 24d + e leap
days before the year make the ordinal of the day found a multiple of 7.

Only model-checked: liveness under fairness (`ResearchEnds`,
`RunnersRecover`, `ShutdownEnds`) and with it anything about `ENABLED`, both of
which are beyond this prover. So is what a recursive definition computes for
every input, for the induction theorems of the library take an operator as a
parameter. The only recursive function here, `SchemaOf`, goes over ten versions,
which the proofs unroll; and where a proof needs a least element it takes it
from the well-ordering of the naturals.

## Not modelled

Left out for good: the cipher, settings, window, wording, DTOs, prompt and
parser of the model, the HTTP exchange with it, sockets and TLS. They are pure
functions or input and output, without a protocol.

Left out because one INSERT cannot interleave with anything: creating an
Investigation, a claim or a target, adding an identifier. `transition_claim`,
`attach_evidence` and the transition of an Investigation have no caller outside
the tests.

Left out though it has a hazard: the preview context of `case_workflow.js`. The
page shows a composed request and approves its arguments, and the service
composes again; a display name changed in between, by a call still on its way or
by another instance, is approved without having been shown, though
`index.html:152` says that approval stores "exactly this" text. A module
`CaseView` with the page's messages, as in `ReviewDesk`, would state it.

Two instances that research or analyze the same Investigation are not modelled
either: research then repeats, as nothing in a table keeps a URL from being
researched twice.

What could be proved next: a bound on how far a deadline rolls. That its loop
ends is left out, for it needs only that a set of holidays is finite.

A transaction is one step in every module, so the rollback of SQLite itself is
assumed and not checked (`case_repository.py:108`).
