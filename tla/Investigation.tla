---------------------------- MODULE Investigation ----------------------------
(***************************************************************************)
(* InvestigationService: artifacts are imported and analyzed on the GUI    *)
(* thread while a research worker fetches public documents and records     *)
(* what it found, for the same Investigations.                             *)
(*                                                                         *)
(* Every repository call opens a connection of its own, so the two threads *)
(* interleave between any two calls; a fetched document is a file, an      *)
(* artifact row and several Evidence rows, one transaction each. The user  *)
(* may cancel the research at any moment, any call may raise, the deletion *)
(* of a failed import's file included, and the process may end between any *)
(* two of them. A file is written under a temporary name first, and a      *)
(* request is sent to one address of the host after the other.             *)
(*                                                                         *)
(* A URL, a payload and a piece of text are model values: Findings gives   *)
(* what the analyzer extracts from a payload, in its order, and which      *)
(* document a URL answers with is the network's choice.                    *)
(***************************************************************************)
EXTENDS Integers, Sequences, FiniteSets

CONSTANTS
  Ids,            \* the Investigations' ids
  Urls,           \* the HTTP(S) URLs
  Values,         \* the values an analyzer extracts, the Urls among them
  Contents,       \* the payloads: imported texts and fetched documents
  Findings,       \* what ArtifactAnalyzer.analyze extracts from each payload
  MAX_REDIRECTS,
  MaxAddresses,   \* bound on the public addresses a host resolves to
  MaxInputs,      \* the user adds nothing once there are this many files and
                  \* Evidence rows
  MaxResearch,    \* bound on the research operations started
  MaxFaults       \* bound on the calls that raise and on the crashes

ASSUME DataAssumption ==
  /\ Ids # {} /\ Contents # {} /\ Values # {}
  /\ Urls \subseteq Values /\ Findings \in [Contents -> Seq(Values)]

ASSUME BoundsAssumption ==
  /\ MAX_REDIRECTS \in Nat /\ MaxAddresses \in Nat /\ MaxInputs \in Nat
  /\ MaxResearch \in Nat /\ MaxFaults \in Nat

VARIABLES
  stored,     \* the payload of every file the artifact store ever wrote
  temporaries, \* the storage keys, indices of stored, whose .tmp file exists
  files,      \* those whose .dat file exists
  artifacts,  \* tables artifacts and investigation_artifacts, in id order
  evidence,   \* table evidence, in id order
  audit,      \* table outbound_audit: the research fetches that were allowed
  ops,        \* what each thread is doing
  fetches,    \* history: the documents asked for, as in audit
  analyzed,   \* history: the artifacts an analysis of which finished
  abandoned,  \* history: the files whose own writing, renaming or deletion
              \* raised, or was under way when the process ended
  research,   \* history: the number of research operations started
  raised,     \* history: the calls that raised
  crashes     \* history: the crashes

data == <<stored, temporaries, files, artifacts, evidence, audit>>
history == <<fetches, analyzed, abandoned, research, raised, crashes>>
vars == <<data, ops, history>>

-----------------------------------------------------------------------------
Threads == {"gui", "worker"}

Actor == {"USER", "MODEL"}   \* OutboundActor

Text == Values \cup {"hop"}  \* "hop": the text of a redirect, never a URL

Locator == {"user", "research.request", "research.redirect",
            "research.final_url", "finding"} \X Nat

Provenance == {"USER_STATEMENT", "DETERMINISTIC_ANALYSIS", "REMOTE_DOCUMENT"}

Row(id, artifact, provenance, value, locator, index) ==
  [investigation |-> id, artifact |-> artifact, provenance |-> provenance,
   value |-> value, locator |-> <<locator, index>>]

Evidence ==
  [investigation : Ids, artifact : Nat, provenance : Provenance,
   value : Text, locator : Locator]

Steps == {"idle", "sources", "next", "authorize", "check",
          "request", "response", "persist", "store", "replace", "insert", "undo",
          "record", "read", "write"}

(* An operation of a thread: where it stands, and its local variables.
   artifact is 0 until there is one; sources holds the ids of the Evidence whose
   URLs are still to research, the least being the current one, and is empty
   outside research; rows holds the positions, in the document or among the
   findings, of the Evidence still to insert. addresses is the number of
   addresses of the URL the transport is asking, and left the number of those
   its loop has not given up. asked tells that the current URL itself was
   requested, and not only authorized; cancelled is the worker thread's
   isInterruptionRequested, and late counts the requests sent in spite of it. *)
Operation ==
  [step : Steps, id : Ids, artifact : Nat, actor : Actor,
   sources : SUBSET Nat, done : SUBSET Values, url : Values, hops : Nat,
   addresses : Nat, left : Nat, content : Contents, key : Nat, rows : SUBSET Nat,
   asked : BOOLEAN, cancelled : BOOLEAN, late : Nat]

Nothing ==
  [step |-> "idle", id |-> CHOOSE i \in Ids : TRUE, artifact |-> 0,
   actor |-> "USER", sources |-> {}, done |-> {},
   url |-> CHOOSE v \in Values : TRUE, hops |-> 0, addresses |-> 0, left |-> 0,
   content |-> CHOOSE c \in Contents : TRUE, key |-> 0, rows |-> {},
   asked |-> FALSE, cancelled |-> FALSE, late |-> 0]

Elements(seq) == {seq[k] : k \in DOMAIN seq}

(* What a loop over ids, or over positions, is at. *)
First(ids) == CHOOSE k \in ids : \A j \in ids : k <= j

AfterFirst(ids) == ids \ {First(ids)}

(* The operation returns, or raises: nothing of it is left. *)
Return(t) == ops' = [ops EXCEPT ![t] = Nothing]

Continue(t, op) == ops' = [ops EXCEPT ![t] = op]

(* Mutant: the worker asks whether it was cancelled only when it starts. *)
CancelledAtStart(t) == ops[t].cancelled /\ ops[t].step = "sources"

(* _raise_if_cancelled: only research is given a cancellation check. *)
Cancelled(t) == ops[t].cancelled

LateIn(op) == IF op.cancelled THEN op.late + 1 ELSE op.late

-----------------------------------------------------------------------------
(* list_evidence(investigation_id). *)
EvidenceOf(id) == {r \in Elements(evidence) : r.investigation = id}

(* source_evidence: what was extracted from the artifact and is a URL. *)
SourcesOf(id, artifact) ==
  {k \in DOMAIN evidence :
     /\ evidence[k].investigation = id /\ evidence[k].artifact = artifact
     /\ evidence[k].provenance = "DETERMINISTIC_ANALYSIS"
     /\ evidence[k].value \in Urls}

(* source_url. *)
SourceUrl(op) == evidence[First(op.sources)].value

(* _research_fingerprints, as the URLs whose fingerprint is there. *)
Researched(id) ==
  {u \in Urls : \E r \in EvidenceOf(id) :
     r.provenance = "REMOTE_DOCUMENT" /\ r.value = u
     /\ r.locator = <<"research.request", 0>>}

(* Mutant: a researched URL is not remembered. *)
Forgotten(done, url) == done

(* existing.add(fingerprint). *)
Learned(done, url) == done \cup {url}

(* The candidates of the analyzer as the rows they become. *)
Candidates(id, artifact) ==
  LET found == Findings[stored[artifacts[artifact].key]]
  IN  [k \in DOMAIN found |->
         Row(id, artifact, "DETERMINISTIC_ANALYSIS", found[k], "finding", k)]

(* Mutant: the key of an existing row leaves out its artifact. *)
MissingAnywhere(id, artifact) ==
  LET candidates == Candidates(id, artifact)
  IN  {k \in DOMAIN candidates :
         \A e \in EvidenceOf(id) : [e EXCEPT !.artifact = artifact] # candidates[k]}

(* The findings analyze_artifact will add: those it did not see. *)
Missing(id, artifact) ==
  LET candidates == Candidates(id, artifact)
  IN  {k \in DOMAIN candidates : candidates[k] \notin EvidenceOf(id)}

(* Mutant: a provenance the table's CHECK does not list. *)
DownloadedRow(id, artifact, value, locator, index) ==
  Row(id, artifact, "DOWNLOAD", value, locator, index)

RemoteRow(id, artifact, value, locator, index) ==
  Row(id, artifact, "REMOTE_DOCUMENT", value, locator, index)

(* The Evidence of a fetched document: the marker that stops its URL from
   being researched again, the redirects, and where they led. *)
DocumentRows(op) ==
  LET row(value, locator, index) ==
        RemoteRow(op.id, op.artifact, value, locator, index)
  IN  [k \in 1..(op.hops + 2) |->
         IF k = 1 THEN row(SourceUrl(op), "research.request", 0)
         ELSE IF k <= op.hops + 1 THEN row("hop", "research.redirect", k - 1)
         ELSE row(op.url, "research.final_url", 0)]

(* The Evidence that is inserted next, of a document or of an analysis. *)
NextRow(op) ==
  IF op.step = "record" THEN DocumentRows(op)[First(op.rows)]
  ELSE Candidates(op.id, op.artifact)[First(op.rows)]

-----------------------------------------------------------------------------
(* import_artifact up to the replace of ArtifactStore.store: under a new key,
   the encrypted payload is in a temporary file. *)
WriteTemporary(t, op, content) ==
  /\ stored' = Append(stored, content)
  /\ temporaries' = temporaries \cup {Len(stored) + 1}
  /\ Continue(t, [op EXCEPT !.step = "replace", !.key = Len(stored) + 1])
  /\ UNCHANGED <<files, artifacts, evidence, audit, history>>

ImportArtifact(id, content) ==
  /\ ops["gui"].step = "idle"
  /\ Len(stored) + Len(evidence) < MaxInputs
  /\ WriteTemporary("gui", [Nothing EXCEPT !.id = id], content)

(* The temporary file takes the name of the artifact's file. *)
ReplaceTemporary(t) ==
  LET op == ops[t]
  IN  /\ op.step = "replace"
      /\ temporaries' = temporaries \ {op.key}
      /\ files' = files \cup {op.key}
      /\ Continue(t, [op EXCEPT !.step = "insert"])
      /\ UNCHANGED <<stored, artifacts, evidence, audit, history>>

(* add_artifact_metadata: the artifact and its attachment, one transaction. *)
InsertArtifact(t) ==
  LET op == ops[t]
  IN  /\ op.step = "insert"
      /\ artifacts' = Append(artifacts, [investigation |-> op.id, key |-> op.key])
      /\ IF t = "gui" THEN Return(t)
         ELSE Continue(t, [op EXCEPT !.step = "record", !.artifact = Len(artifacts) + 1,
                                     !.rows = 1..(op.hops + 2)])
      /\ UNCHANGED <<stored, temporaries, files, evidence, audit, history>>

(* Mutant: the file of a failed import stays. *)
KeepFile(key) == files

DeleteFile(key) == files \ {key}

(* The transaction raised: import_artifact deletes the file and raises. *)
UndoImport(t) ==
  /\ ops[t].step = "undo"
  /\ files' = DeleteFile(ops[t].key)
  /\ Return(t)
  /\ UNCHANGED <<stored, temporaries, artifacts, evidence, audit, history>>

(* addUserEvidence: never attached to an artifact. *)
AddUserEvidence(id, value) ==
  /\ ops["gui"].step = "idle"
  /\ Len(stored) + Len(evidence) < MaxInputs
  /\ evidence' = Append(evidence, Row(id, 0, "USER_STATEMENT", value, "user", 0))
  /\ UNCHANGED <<stored, temporaries, files, artifacts, audit, ops, history>>

-----------------------------------------------------------------------------
(* The end of analyze_artifact: the GUI's call returns, and the worker goes on
   to the next URL, having added this one to the URLs it knows. *)
FinishAnalysis(t, op) ==
  /\ analyzed' = analyzed \cup {op.artifact}
  /\ IF t = "gui" THEN Return(t)
     ELSE Continue(t, [op EXCEPT
            !.step = "next", !.artifact = 0, !.hops = 0, !.key = 0, !.asked = FALSE,
            !.rows = {}, !.sources = AfterFirst(@),
            !.done = Learned(op.done, SourceUrl(op))])

(* analyze_artifact up to its loop: the artifact, its file, and the Evidence
   there is are read once. Without its file the call raises. *)
CompareFindings(t, op) ==
  LET missing == Missing(op.id, op.artifact)
  IN  /\ IF artifacts[op.artifact].key \notin files
         THEN Return(t) /\ UNCHANGED analyzed
         ELSE IF missing = {} THEN FinishAnalysis(t, op)
         ELSE /\ Continue(t, [op EXCEPT !.step = "write", !.rows = missing])
              /\ UNCHANGED analyzed
      /\ UNCHANGED <<data, fetches, abandoned, research, raised, crashes>>

AnalyzeArtifact(id, artifact) ==
  /\ ops["gui"].step = "idle"
  /\ artifact \in DOMAIN artifacts /\ artifacts[artifact].investigation = id
  /\ CompareFindings("gui", [Nothing EXCEPT !.id = id, !.artifact = artifact])

AnalyzeDocument(t) ==
  /\ ops[t].step = "read"
  /\ CompareFindings(t, ops[t])

(* Mutant: a cancelled worker stops between two rows. *)
StopsBetweenRows(t) == Cancelled(t)

(* Nothing is asked between the rows of a unit. *)
StopsRecording(t) == FALSE

(* add_evidence for the next row. *)
InsertEvidence(t) ==
  LET op == ops[t]
      rest == [op EXCEPT !.rows = AfterFirst(@)]
  IN  /\ op.step \in {"record", "write"}
      /\ evidence' = Append(evidence, NextRow(op))
      /\ IF StopsRecording(t) THEN Return(t) /\ UNCHANGED analyzed
         ELSE IF rest.rows # {} THEN Continue(t, rest) /\ UNCHANGED analyzed
         ELSE IF op.step = "write" THEN FinishAnalysis(t, rest)
         ELSE Continue(t, [rest EXCEPT !.step = "read"]) /\ UNCHANGED analyzed
      /\ UNCHANGED <<stored, temporaries, files, artifacts, audit,
                     fetches, abandoned, research, raised, crashes>>

-----------------------------------------------------------------------------
(* The runner starts the worker, uninterrupted, with what the user approved:
   the URLs of an artifact, or the URL of an Evidence a model proposed. *)
StartWorker(op) ==
  /\ ops["worker"].step = "idle"
  /\ research < MaxResearch
  /\ research' = research + 1
  /\ Continue("worker", [op EXCEPT !.step = "sources"])
  /\ UNCHANGED <<data, fetches, analyzed, abandoned, raised, crashes>>

StartArtifactResearch(id, artifact) ==
  /\ artifact \in DOMAIN artifacts
  /\ StartWorker([Nothing EXCEPT !.id = id, !.artifact = artifact])

StartModelResearch(k) ==
  /\ k \in DOMAIN evidence
  /\ StartWorker([Nothing EXCEPT !.id = evidence[k].investigation,
                    !.actor = "MODEL", !.sources = {k}])

(* The user stops the research, or closes the window. *)
RequestInterruption ==
  /\ ops["worker"].step # "idle" /\ ~ops["worker"].cancelled
  /\ Continue("worker", [ops["worker"] EXCEPT !.cancelled = TRUE])
  /\ UNCHANGED <<data, history>>

(* What is to be researched, a ValueError when there is nothing, and what was
   researched already. Only this thread writes what the two reads look for
   beyond the sources, so they are one step. *)
ReadSources ==
  LET op == ops["worker"]
      sources == IF op.actor = "MODEL" THEN op.sources
                 ELSE SourcesOf(op.id, op.artifact)
  IN  /\ op.step = "sources"
      /\ IF Cancelled("worker") \/ sources = {} THEN Return("worker")
         ELSE Continue("worker", [op EXCEPT
                !.step = "next", !.artifact = 0, !.sources = sources,
                !.done = Researched(op.id)])
      /\ UNCHANGED <<data, history>>

(* _research_url_evidence up to the policy: the next URL, unless there is
   none, the worker was cancelled, the value is no URL, or it is known. *)
NextSource ==
  LET op == ops["worker"]
  IN  /\ op.step = "next"
      /\ IF op.sources = {} THEN Return("worker")
         ELSE IF Cancelled("worker") \/ SourceUrl(op) \notin Urls
              THEN Return("worker")
         ELSE IF SourceUrl(op) \in op.done
              THEN Continue("worker", [op EXCEPT !.sources = AfterFirst(@)])
         ELSE Continue("worker", [op EXCEPT !.step = "authorize",
                                            !.url = SourceUrl(op)])
      /\ UNCHANGED <<data, history>>

(* Mutant: a decision that was recorded once is not recorded again. *)
DecidedOnce(destination, actor) ==
  LET decision == [destination |-> destination, actor |-> actor]
  IN  IF decision \in Elements(audit) THEN audit ELSE Append(audit, decision)

Decided(destination, actor) ==
  Append(audit, [destination |-> destination, actor |-> actor])

(* EgressPolicy.require_allowed: the decision is recorded, one transaction. *)
Authorize ==
  LET op == ops["worker"]
  IN  /\ op.step = "authorize"
      /\ audit' = Decided(op.url, op.actor)
      /\ Continue("worker", [op EXCEPT !.step = "check"])
      /\ UNCHANGED <<stored, temporaries, files, artifacts, evidence, history>>

(* One round of fetch_public_document up to the transport: the policy resolves
   the host to one or more public addresses, or refuses the URL. *)
CheckUrl(addresses) ==
  LET op == ops["worker"]
  IN  /\ op.step = "check"
      /\ IF Cancelled("worker") \/ addresses = 0 THEN Return("worker")
         ELSE Continue("worker", [op EXCEPT !.step = "request",
                                    !.addresses = addresses, !.left = addresses])
      /\ UNCHANGED <<data, history>>

(* _request_pinned is connected to an address, and its request goes out. *)
SendRequest ==
  LET op == ops["worker"]
  IN  /\ op.step = "request"
      /\ fetches' = IF op.asked THEN fetches
                    ELSE Append(fetches, [destination |-> op.url, actor |-> op.actor])
      /\ Continue("worker", [op EXCEPT !.step = "response", !.asked = TRUE,
                                         !.late = LateIn(op)])
      /\ UNCHANGED <<data, analyzed, abandoned, research, raised, crashes>>

(* Mutant: the loop goes back to the address it has just tried. *)
SameAddress(left) == left

NextAddress(left) == left - 1

(* An OSError or an HTTPException, while connecting or after the request was
   sent: the loop goes on to the next address, if there is one, and does not
   ask whether the research was cancelled. *)
AddressFails ==
  LET op == ops["worker"]
  IN  /\ op.step \in {"request", "response"}
      /\ IF op.left = 1 THEN Return("worker")
         ELSE Continue("worker", [op EXCEPT !.step = "request",
                                            !.left = NextAddress(op.left)])
      /\ UNCHANGED <<data, history>>

(* Mutant: a redirect is followed without being counted. *)
UncountedHop(hops) == hops

CountedHop(hops) == hops + 1

ReceiveRedirect(destination) ==
  LET op == ops["worker"]
  IN  /\ op.step = "response"
      /\ IF Cancelled("worker") \/ op.hops >= MAX_REDIRECTS THEN Return("worker")
         ELSE Continue("worker", [op EXCEPT !.step = "check", !.url = destination,
                                    !.hops = CountedHop(@), !.addresses = 0, !.left = 0])
      /\ UNCHANGED <<data, history>>

ReceiveDocument(content) ==
  LET op == ops["worker"]
  IN  /\ op.step = "response"
      /\ IF Cancelled("worker") THEN Return("worker")
         ELSE Continue("worker", [op EXCEPT !.step = "persist", !.content = content,
                                    !.addresses = 0, !.left = 0])
      /\ UNCHANGED <<data, history>>

(* A request that cannot be encoded, an error status, a document too large or
   of another type. *)
ReceiveFailure ==
  /\ ops["worker"].step \in {"request", "response"}
  /\ Return("worker")
  /\ UNCHANGED <<data, history>>

(* The last place a cancellation is honoured. *)
BeginUnit ==
  LET op == ops["worker"]
  IN  /\ op.step = "persist"
      /\ IF Cancelled("worker") THEN Return("worker")
         ELSE Continue("worker", [op EXCEPT !.step = "store"])
      /\ UNCHANGED <<data, history>>

StoreDocument ==
  LET op == ops["worker"]
  IN  op.step = "store" /\ WriteTemporary("worker", op, op.content)

-----------------------------------------------------------------------------
(* Mutant: the try block of the import reaches over the first Evidence. *)
UndoneWide(step) == step \in {"insert", "record"}

Undone(step) == step = "insert"

(* A file that has no row yet is in the hands of the thread that imports it. *)
Importing(op) == op.step \in {"replace", "insert", "undo"}

(* A call of the database, the artifact store or the cipher raises: the
   operation raises too, except that an import deletes the file of a row that
   failed first. What the store does not get done with a file stays undone: a
   temporary file that is not written or not renamed, a file that is not
   deleted. A deletion may fail along with the row, without a further fault. *)
Raise(t) ==
  LET op == ops[t]
  IN  /\ raised + crashes < MaxFaults \/ op.step = "undo"
      /\ op.step \in {"sources", "authorize", "store", "replace", "insert", "undo",
                      "record", "read", "write"}
      /\ IF Undone(op.step) THEN Continue(t, [op EXCEPT !.step = "undo"])
         ELSE Return(t)
      /\ abandoned' = IF op.step \in {"replace", "undo"} THEN abandoned \cup {op.key}
                      ELSE abandoned
      /\ raised' = raised + 1
      /\ UNCHANGED <<data, fetches, analyzed, research, crashes>>

(* The process ends, and is started again: the tables and the files remain. *)
Crash ==
  /\ raised + crashes < MaxFaults
  /\ \E t \in Threads : ops[t].step # "idle"
  /\ ops' = [t \in Threads |-> Nothing]
  /\ abandoned' = abandoned \cup {ops[t].key : t \in {u \in Threads : Importing(ops[u])}}
  /\ crashes' = crashes + 1
  /\ UNCHANGED <<data, fetches, analyzed, research, raised>>

-----------------------------------------------------------------------------
Init ==
  /\ stored = << >> /\ temporaries = {} /\ files = {} /\ artifacts = << >>
  /\ evidence = << >> /\ audit = << >>
  /\ ops = [t \in Threads |-> Nothing]
  /\ fetches = << >> /\ analyzed = {} /\ abandoned = {}
  /\ research = 0 /\ raised = 0 /\ crashes = 0

(* What the user does. *)
UserStep ==
  \/ \E id \in Ids, content \in Contents : ImportArtifact(id, content)
  \/ \E id \in Ids, value \in Values : AddUserEvidence(id, value)
  \/ \E id \in Ids, a \in DOMAIN artifacts : AnalyzeArtifact(id, a)
  \/ \E id \in Ids, a \in DOMAIN artifacts : StartArtifactResearch(id, a)
  \/ \E k \in DOMAIN evidence : StartModelResearch(k)
  \/ RequestInterruption

(* What a thread does once it is called. *)
ThreadStep(t) ==
  \/ ReplaceTemporary(t) \/ InsertArtifact(t) \/ UndoImport(t)
  \/ AnalyzeDocument(t) \/ InsertEvidence(t)

WorkerStep ==
  \/ ReadSources \/ NextSource \/ Authorize
  \/ \E addresses \in 0..MaxAddresses : CheckUrl(addresses)
  \/ SendRequest \/ AddressFails
  \/ \E destination \in Urls : ReceiveRedirect(destination)
  \/ \E content \in Contents : ReceiveDocument(content)
  \/ ReceiveFailure \/ BeginUnit \/ StoreDocument

Next ==
  \/ UserStep
  \/ \E t \in Threads : ThreadStep(t)
  \/ WorkerStep
  \/ \E t \in Threads : Raise(t)
  \/ Crash

(* A thread that was called goes on: a transaction is short, and a request is
   answered or fails. TIMEOUT_SECONDS holds for every single operation on the
   socket, so a server may answer slowly, but not for ever: each read brings at
   least a byte of an answer that is limited in size. *)
Fairness ==
  /\ \A t \in Threads : WF_vars(ThreadStep(t))
  /\ WF_vars(WorkerStep)

Spec == Init /\ [][Next]_vars /\ Fairness

-----------------------------------------------------------------------------
(* Every table, file and operation is what the schema and the code make it. *)
TypeOK ==
  /\ stored \in Seq(Contents)
  /\ \A keys \in {temporaries, files, abandoned} : keys \subseteq DOMAIN stored
  /\ artifacts \in Seq([investigation : Ids, key : Nat])
  /\ evidence \in Seq(Evidence)
  /\ audit \in Seq([destination : Urls, actor : Actor])
  /\ fetches \in Seq([destination : Urls, actor : Actor])
  /\ ops \in [Threads -> Operation]
  /\ analyzed \subseteq DOMAIN artifacts
  /\ research \in Nat /\ raised \in Nat /\ crashes \in Nat

(* An artifact the user can see can be read: whatever fails, and wherever the
   process ends, no row is left whose encrypted file is gone. The file is
   written first and only a failed row takes it back. *)
RowsHaveFiles == \A a \in DOMAIN artifacts : artifacts[a].key \in files

(* What is no artifact goes away again: an encrypted file without a row, or
   under its temporary name, belongs to an import under way, unless the file
   system failed on this very file or the process ended (artifact_store.py:23,
   investigation_service.py:87). An import whose row alone failed leaves
   nothing, whatever the other thread does meanwhile. *)
FilesHaveRows ==
  \A key \in temporaries \cup files :
    \/ key \in files \ temporaries /\ \E a \in DOMAIN artifacts : artifacts[a].key = key
    \/ \E t \in Threads : Importing(ops[t]) /\ ops[t].key = key
    \/ key \in abandoned

(* The rows that say a URL was researched. *)
Markers == {k \in DOMAIN evidence : evidence[k].locator[1] = "research.request"}

(* A URL is researched at most once for an Investigation, though an artifact
   may hold it twice, the user may start again, and any step may fail. *)
ResearchedOnce ==
  \A j, k \in Markers :
    /\ evidence[j].investigation = evidence[k].investigation
    /\ evidence[j].value = evidence[k].value
    => j = k

(* The document of a marker with its final URL and everything the analyzer
   finds in it. *)
Whole(k) ==
  LET id == evidence[k].investigation
      artifact == evidence[k].artifact
  IN  /\ \E r \in EvidenceOf(id) :
            r.artifact = artifact /\ r.locator = <<"research.final_url", 0>>
      /\ Elements(Candidates(id, artifact)) \subseteq EvidenceOf(id)

(* A cancellation never splits the persistence of a fetched document
   (investigation_service.py:232): as long as nothing raised, a marker's
   document is whole, or the worker is still recording it. *)
CancelKeepsUnitsWhole ==
  raised + crashes = 0 =>
    \A k \in Markers :
      \/ Whole(k)
      \/ /\ ops["worker"].step \in {"record", "read", "write"}
         /\ ops["worker"].artifact = evidence[k].artifact

(* After an analysis that finished, everything the analyzer finds in the
   artifact is Evidence of that artifact, whatever the other thread recorded
   meanwhile and though another artifact holds the same text. *)
AnalysisComplete ==
  \A a \in analyzed :
    LET id == artifacts[a].investigation
    IN  Elements(Candidates(id, a)) \subseteq EvidenceOf(id)

(* Every document that was asked for was allowed first, for the same URL and
   the same actor, each by a decision of its own that is in the audit. The
   redirects of a document and its host's further addresses share the decision:
   fetch_public_document knows of none. *)
EveryFetchAudited ==
  \A f \in Elements(fetches) :
    Cardinality({k \in DOMAIN fetches : fetches[k] = f})
      <= Cardinality({k \in DOMAIN audit : audit[k] = f})

(* After a cancellation the document being asked for is asked for at most once
   more from each address of its host (research_service.py:200), and what it
   answers is neither followed nor recorded. *)
CancellationIsPrompt ==
  LET op == ops["worker"]
  IN  /\ op.late <= op.addresses
      /\ op.late > 0 => op.step \in {"request", "response"}

(* How far each step is from the end of its URL's unit, apart from the
   addresses that may still fail. *)
StepsLeft ==
  [undo |-> 1, write |-> 1, read |-> 2, record |-> 3, insert |-> 4, replace |-> 5,
   store |-> 6, persist |-> 7, response |-> 8, request |-> 9, check |-> 10,
   authorize |-> 11, next |-> 12, sources |-> 13]

AddressesLeft(op) ==
  IF op.step \in {"request", "response"} THEN op.left
  ELSE IF op.step \in {"check", "authorize", "next", "sources"} THEN MaxAddresses
  ELSE 0

(* An address that fails costs one step back, from the response. *)
StepsAhead(op) == StepsLeft[op.step] + 2 * AddressesLeft(op)

(* The one is nearer to the end of the research than the other: fewer URLs,
   then fewer redirects it could still follow, then fewer addresses and steps,
   then fewer rows, and at last the cancellation, which comes once. *)
Nearer(new, old) ==
  \/ new.step = "idle"
  \/ new.step # "sources" /\ old.step = "sources"
  \/ /\ new.step # "sources"
     /\ new.sources \subseteq old.sources /\ new.sources # old.sources
  \/ /\ new.step # "sources" /\ new.sources = old.sources
     /\ new.hops > old.hops /\ new.hops <= MAX_REDIRECTS
  \/ /\ new.sources = old.sources /\ new.hops = old.hops
     /\ \/ StepsAhead(new) < StepsAhead(old)
        \/ /\ new.step = old.step
           /\ new.rows \subseteq old.rows /\ new.rows # old.rows
  \/ ~old.cancelled /\ new = [old EXCEPT !.cancelled = TRUE]

(* Research never goes round in circles: every step of the worker, whichever
   way the network, the store or the user turn it, brings its end nearer
   (investigation_service.py:197-272, research_service.py:96). *)
ResearchAdvances ==
  [][LET old == ops["worker"]
         new == ops'["worker"]
     IN  old.step # "idle" /\ new # old => Nearer(new, old)]_vars

(* A research operation ends, whatever the network answers. *)
ResearchEnds == ops["worker"].step # "idle" ~> ops["worker"].step = "idle"

=============================================================================
