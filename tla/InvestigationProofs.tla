-------------------------- MODULE InvestigationProofs --------------------------
(***************************************************************************)
(* Proofs about Investigation, for any Investigations, URLs, payloads and  *)
(* bounds, and for every interleaving of the two threads, of calls that    *)
(* raise, of cancellations and of crashes.                                 *)
(*                                                                         *)
(* IInv is about files, requests and cancellations: files and rows stay    *)
(* together, no fetch goes out unaudited, a cancellation is honoured. None *)
(* of it depends on what a payload is, so an operation is known there by   *)
(* its fields only. RInv is about what is recorded: the types, the rows a  *)
(* thread has still to insert, and what the worker knows of the URLs that  *)
(* were researched. RowsHaveFiles, which analyze_artifact relies on to be  *)
(* able to read the document it has just recorded, is its link to IInv.    *)
(* The last part shows that a research worker only moves towards its end.  *)
(***************************************************************************)
EXTENDS Investigation, FiniteSetTheorems, SequenceTheorems, WellFoundedInduction, TLAPS

Fields ==
  {"step", "id", "artifact", "actor", "sources", "done", "url", "hops",
   "addresses", "left", "content", "key", "rows", "asked", "cancelled", "late"}

IsSeq(s) == s \in Seq(Elements(s))

Count(s, e) == Cardinality({k \in DOMAIN s : s[k] = e})

Shape ==
  /\ DOMAIN ops = Threads /\ \A t \in Threads : DOMAIN ops[t] = Fields
  /\ IsSeq(stored) /\ IsSeq(artifacts) /\ IsSeq(audit) /\ IsSeq(fetches)

(* Where the file is that an import is working on. *)
Place(o) == IF o.step = "replace" THEN temporaries ELSE files

FilesInv ==
  /\ temporaries \subseteq DOMAIN stored /\ files \subseteq DOMAIN stored
  /\ temporaries \cap files = {}
  /\ RowsHaveFiles
  /\ \A t \in Threads : Importing(ops[t]) =>
       /\ ops[t].key \in Place(ops[t])
       /\ \A a \in DOMAIN artifacts : artifacts[a].key # ops[t].key
  /\ \A t, u \in Threads : Importing(ops[t]) /\ Importing(ops[u]) /\ ops[t].key = ops[u].key
                           => t = u

(* The operation goes through the addresses of its URL's host. *)
Asks(o) == o.step \in {"request", "response"}

(* The addresses the request was sent to, at most. *)
Tried(o) == o.addresses - o.left + (IF o.step = "response" THEN 1 ELSE 0)

(* A request is late only while a cancelled operation goes through addresses,
   and it was sent at most once to each of those tried. *)
Prompt(o) ==
  /\ o.late = 0 \/ (o.cancelled /\ Asks(o))
  /\ Asks(o) => /\ o.late \in Nat /\ o.addresses \in Nat /\ o.left \in 1..o.addresses
                /\ o.late <= Tried(o)

(* A decision that no request was sent for yet. *)
Asking(o) == o.step \in {"check", "request"} /\ ~o.asked

Decision(o) == [destination |-> o.url, actor |-> o.actor]

Answered(o) == o.step = "response" => o.asked

Pending(f) == IF Asking(ops["worker"]) /\ Decision(ops["worker"]) = f THEN 1 ELSE 0

AuditInv == \A f : Count(fetches, f) + Pending(f) <= Count(audit, f)

IInv ==
  /\ Shape /\ FilesInv /\ FilesHaveRows /\ AuditInv
  /\ \A t \in Threads : Prompt(ops[t]) /\ Answered(ops[t])

-----------------------------------------------------------------------------
LEMMA AppendIsSeq ==
  ASSUME NEW s, IsSeq(s), NEW e
  PROVE  /\ IsSeq(Append(s, e)) /\ Len(s) \in Nat /\ DOMAIN s = 1..Len(s)
         /\ DOMAIN Append(s, e) = 1..(Len(s) + 1) /\ Append(s, e)[Len(s) + 1] = e
         /\ \A k \in DOMAIN s : Append(s, e)[k] = s[k]
<1> DEFINE S == Elements(s) \cup {e}
<1>1. s \in Seq(Elements(s)) /\ Len(s) \in Nat /\ DOMAIN s = 1..Len(s)
  BY DEF IsSeq
<1>2. \A k \in 1..Len(s) : s[k] \in S
  BY <1>1 DEF Elements
<1>3. s \in Seq(S) /\ e \in S
  BY <1>1, <1>2
<1>4. /\ Append(s, e) \in Seq(S)
      /\ DOMAIN Append(s, e) = 1..(Len(s) + 1) /\ Append(s, e)[Len(s) + 1] = e
      /\ \A k \in DOMAIN s : Append(s, e)[k] = s[k]
  BY <1>1, <1>3
<1>5. \A a \in Seq(S) : a \in Seq(Elements(a))
  <2> TAKE a \in Seq(S)
  <2>1. a \in [1..Len(a) -> S] /\ Len(a) \in Nat /\ DOMAIN a = 1..Len(a)
    OBVIOUS
  <2>2. a \in [1..Len(a) -> Elements(a)]
    BY <2>1 DEF Elements
  <2> QED
    BY <2>1, <2>2
<1> QED
  BY <1>1, <1>4, <1>5 DEF IsSeq

LEMMA CountIsNat == ASSUME NEW s, IsSeq(s), NEW t PROVE Count(s, t) \in Nat
<1>1. Len(s) \in Nat /\ DOMAIN s = 1..Len(s)
  BY DEF IsSeq
<1>2. IsFiniteSet(DOMAIN s)
  BY <1>1, FS_Interval
<1>3. IsFiniteSet({k \in DOMAIN s : s[k] = t})
  BY <1>2, FS_Subset
<1> QED
  BY <1>3, FS_CardinalityType DEF Count

LEMMA CountAppend ==
  ASSUME NEW s, IsSeq(s), NEW e, NEW t
  PROVE  Count(Append(s, e), t) = IF e = t THEN Count(s, t) + 1 ELSE Count(s, t)
<1> DEFINE A == {k \in DOMAIN s : s[k] = t}
           B == {k \in DOMAIN Append(s, e) : Append(s, e)[k] = t}
           n == Len(s)
<1>1. /\ n \in Nat /\ DOMAIN s = 1..n /\ DOMAIN Append(s, e) = 1..(n + 1)
      /\ Append(s, e)[n + 1] = e /\ \A k \in 1..n : Append(s, e)[k] = s[k]
  BY AppendIsSeq
<1>2. IsFiniteSet(A)
  <2>1. IsFiniteSet(1..n)
    BY <1>1, FS_Interval
  <2> QED
    BY <1>1, <2>1, FS_Subset
<1>3. CASE e = t
  <2>1. B = A \cup {n + 1} /\ n + 1 \notin A
    BY <1>1, <1>3
  <2>2. Cardinality(B) = Cardinality(A) + 1
    BY <1>2, <2>1, FS_AddElement
  <2> QED
    BY <1>3, <2>2 DEF Count
<1>4. CASE e # t
  <2>1. B = A
    BY <1>1, <1>4
  <2> QED
    BY <1>4, <2>1 DEF Count
<1> QED
  BY <1>3, <1>4

LEMMA NothingFields ==
  /\ DOMAIN Nothing = Fields /\ Nothing.step = "idle" /\ Nothing.late = 0
BY DEF Nothing, Fields

LEMMA Continues ==
  ASSUME Shape, NEW t \in Threads, NEW s, Continue(t, s)
  PROVE  /\ DOMAIN ops' = Threads
         /\ \A u \in Threads : ops'[u] = IF u = t THEN s ELSE ops[u]
BY DEF Shape, Continue

LEMMA Returns == ASSUME NEW t, Return(t) PROVE Continue(t, Nothing)
BY DEF Return, Continue

-----------------------------------------------------------------------------
LEMMA InitIInv == Init => IInv
<1> SUFFICES ASSUME Init PROVE IInv
  OBVIOUS
<1>1. IsSeq(<< >>)
  BY DEF IsSeq, Elements
<1>2. Shape
  BY <1>1, NothingFields DEF Init, Shape
<1>3. \A t \in Threads : ops[t] = Nothing
  BY DEF Init
<1>4. FilesInv /\ FilesHaveRows
  BY <1>3, NothingFields DEF Init, FilesInv, RowsHaveFiles, FilesHaveRows, Importing
<1>5. AuditInv
  BY <1>1, <1>3, NothingFields, CountIsNat DEF Init, AuditInv, Pending, Asking, Threads
<1> QED
  BY <1>2, <1>3, <1>4, <1>5, NothingFields DEF IInv, Prompt, Asks, Answered

(* An operation goes on without touching a file, and asks for nothing new. *)
Quiet(o, s) ==
  /\ DOMAIN s = Fields
  /\ Importing(s) <=> Importing(o)
  /\ s.step = "replace" <=> o.step = "replace"
  /\ Importing(s) => s.key = o.key
  /\ Prompt(s) /\ Answered(s)
  /\ Asking(s) => Asking(o) /\ Decision(s) = Decision(o)

LEMMA QuietIInv ==
  ASSUME IInv, NEW t \in Threads, NEW s, Continue(t, s), Quiet(ops[t], s),
         UNCHANGED <<stored, temporaries, files, artifacts, abandoned, audit, fetches>>
  PROVE  IInv'
<1> USE DEF IInv, Quiet
<1>1. DOMAIN ops' = Threads /\ \A u \in Threads : ops'[u] = IF u = t THEN s ELSE ops[u]
  BY Continues
<1>2. Shape'
  BY <1>1 DEF Shape
<1>3. FilesInv'
  <2>1. \A u \in Threads : /\ Importing(ops'[u]) <=> Importing(ops[u])
                           /\ Importing(ops'[u]) => ops'[u].key = ops[u].key
                           /\ Place(ops[u])' = IF ops'[u].step = "replace" THEN temporaries
                                               ELSE files
                           /\ ops'[u].step = "replace" <=> ops[u].step = "replace"
    BY <1>1 DEF Place
  <2> QED
    BY <2>1 DEF FilesInv, RowsHaveFiles, Place
<1>4. FilesHaveRows'
  BY <1>1 DEF FilesHaveRows, Importing
<1>5. \A f : Count(fetches, f)' = Count(fetches, f) /\ Count(audit, f)' = Count(audit, f)
  BY DEF Count
<1>6. \A f : Pending(f)' \in {0, 1} /\ (Pending(f)' = 1 => Pending(f) = 1)
  BY <1>1 DEF Pending, Threads
<1>7. AuditInv'
  BY <1>5, <1>6, CountIsNat DEF AuditInv, Shape, Pending
<1> QED
  BY <1>1, <1>2, <1>3, <1>4, <1>7

(* The steps that touch no file. *)
Untouched ==
  UNCHANGED <<stored, temporaries, files, artifacts, abandoned, audit, fetches>>

LEMMA NothingQuiet ==
  ASSUME NEW o, ~Importing(o) PROVE Quiet(o, Nothing)
BY NothingFields DEF Quiet, Importing, Prompt, Asks, Answered, Asking

LEMMA FinishQuiet ==
  ASSUME Shape, NEW t \in Threads, NEW o, DOMAIN o = Fields, Prompt(o),
         o.step \in {"idle", "read", "write"}, FinishAnalysis(t, o)
  PROVE  \E s : Continue(t, s) /\ \A p : ~Importing(p) => Quiet(p, s)
<1>1. CASE t = "gui"
  BY <1>1, Returns, NothingQuiet DEF FinishAnalysis
<1>2. CASE t # "gui"
  <2>1. PICK s : s = [o EXCEPT
            !.step = "next", !.artifact = 0, !.hops = 0, !.key = 0, !.asked = FALSE,
            !.rows = {}, !.sources = AfterFirst(@),
            !.done = Learned(o.done, SourceUrl(o))]
    OBVIOUS
  <2>2. /\ DOMAIN s = Fields /\ s.step = "next" /\ s.late = o.late
        /\ s.cancelled = o.cancelled
    BY <2>1 DEF Fields
  <2>3. Continue(t, s)
    BY <1>2, <2>1 DEF FinishAnalysis
  <2>4. \A p : ~Importing(p) => Quiet(p, s)
    BY <2>2 DEF Quiet, Importing, Prompt, Answered, Asking, Asks
  <2> QED
    BY <2>3, <2>4
<1> QED
  BY <1>1, <1>2

LEMMA CompareQuiet ==
  ASSUME IInv, NEW t \in Threads, ~Importing(ops[t]), NEW o, DOMAIN o = Fields, Prompt(o),
         o.step \in {"idle", "read"}, CompareFindings(t, o)
  PROVE  IInv'
<1>1. Untouched
  BY DEF CompareFindings, data, Untouched
<1>2. \E s : Continue(t, s) /\ Quiet(ops[t], s)
  <2>1. CASE Return(t)
    BY <2>1, Returns, NothingQuiet
  <2>2. CASE FinishAnalysis(t, o)
    BY <2>2, FinishQuiet DEF IInv
  <2>3. CASE Continue(t, [o EXCEPT !.step = "write", !.rows = Missing(o.id, o.artifact)])
    <3>1. PICK s : s = [o EXCEPT !.step = "write", !.rows = Missing(o.id, o.artifact)]
      OBVIOUS
    <3>2. DOMAIN s = Fields /\ s.step = "write" /\ s.late = o.late /\ s.cancelled = o.cancelled
      BY <3>1 DEF Fields
    <3>3. Quiet(ops[t], s)
      BY <3>2 DEF Quiet, Importing, Prompt, Answered, Asking, Asks
    <3> QED
      BY <2>3, <3>1, <3>3
  <2> QED
    BY <2>1, <2>2, <2>3 DEF CompareFindings
<1> QED
  BY <1>1, <1>2, QuietIInv DEF Untouched

LEMMA AnalyzeIInv ==
  ASSUME IInv, NEW id, NEW a, AnalyzeArtifact(id, a) PROVE IInv'
<1>1. PICK o : o = [Nothing EXCEPT !.id = id, !.artifact = a]
  OBVIOUS
<1>2. DOMAIN o = Fields /\ o.step = "idle" /\ o.late = 0
  BY <1>1, NothingFields DEF Fields
<1>3. CompareFindings("gui", o) /\ ops["gui"].step = "idle" /\ "gui" \in Threads
  BY <1>1 DEF AnalyzeArtifact, Threads
<1> QED
  BY <1>2, <1>3, CompareQuiet DEF Importing, Prompt, Asks

LEMMA AnalyzeDocumentIInv ==
  ASSUME IInv, NEW t \in Threads, AnalyzeDocument(t) PROVE IInv'
BY CompareQuiet DEF AnalyzeDocument, IInv, Shape, Importing

LEMMA InsertEvidenceIInv ==
  ASSUME IInv, NEW t \in Threads, InsertEvidence(t) PROVE IInv'
<1>1. Untouched
  BY DEF InsertEvidence, Untouched
<1>2. /\ DOMAIN ops[t] = Fields /\ Prompt(ops[t]) /\ ops[t].step \in {"record", "write"}
      /\ ~Importing(ops[t])
  BY DEF InsertEvidence, IInv, Shape, Importing
<1>3. PICK r : r = [ops[t] EXCEPT !.rows = AfterFirst(ops[t].rows)]
  OBVIOUS
<1>4. DOMAIN r = Fields /\ r.step = ops[t].step /\ r.late = ops[t].late
      /\ r.cancelled = ops[t].cancelled
  BY <1>2, <1>3 DEF Fields
<1>5. PICK q : q = [r EXCEPT !.step = "read"]
  OBVIOUS
<1>6. DOMAIN q = Fields /\ q.step = "read" /\ q.late = r.late /\ q.cancelled = r.cancelled
  BY <1>4, <1>5 DEF Fields
<1>7. Prompt(r) /\ Prompt(q)
  BY <1>2, <1>4, <1>6 DEF Prompt, Asks
<1>8. Quiet(ops[t], r) /\ Quiet(ops[t], q)
  BY <1>2, <1>4, <1>6, <1>7 DEF Quiet, Importing, Answered, Asking
<1>9. \E s : Continue(t, s) /\ Quiet(ops[t], s)
  <2>1. \/ Continue(t, r)
        \/ ops[t].step = "write" /\ FinishAnalysis(t, r)
        \/ Continue(t, q)
    BY <1>3, <1>4, <1>5 DEF InsertEvidence, StopsRecording
  <2>2. CASE ops[t].step = "write" /\ FinishAnalysis(t, r)
    BY <1>2, <1>4, <1>7, <2>2, FinishQuiet DEF IInv
  <2> QED
    BY <1>8, <2>1, <2>2
<1> QED
  BY <1>1, <1>9, QuietIInv DEF Untouched

LEMMA StartsWorker ==
  ASSUME IInv, NEW op, DOMAIN op = Fields, op.late = 0, StartWorker(op) PROVE IInv'
<1>1. Untouched /\ "worker" \in Threads /\ ~Importing(ops["worker"])
  BY DEF StartWorker, data, Untouched, Threads, Importing
<1>2. PICK s : s = [op EXCEPT !.step = "sources"]
  OBVIOUS
<1>3. DOMAIN s = Fields /\ s.step = "sources" /\ s.late = 0
  BY <1>2 DEF Fields
<1>4. Continue("worker", s) /\ Quiet(ops["worker"], s)
  BY <1>1, <1>2, <1>3 DEF StartWorker, Quiet, Importing, Prompt, Asks, Answered, Asking
<1> QED
  BY <1>1, <1>4, QuietIInv DEF Untouched

LEMMA StartIInv ==
  ASSUME IInv, \/ \E id, a : StartArtifactResearch(id, a)
               \/ \E k : StartModelResearch(k)
  PROVE  IInv'
<1>1. ASSUME NEW id, NEW a, StartArtifactResearch(id, a) PROVE IInv'
  <2>1. PICK o : o = [Nothing EXCEPT !.id = id, !.artifact = a]
    OBVIOUS
  <2>2. DOMAIN o = Fields /\ o.late = 0
    BY <2>1, NothingFields DEF Fields
  <2> QED
    BY <1>1, <2>1, <2>2, StartsWorker DEF StartArtifactResearch
<1>2. ASSUME NEW k, StartModelResearch(k) PROVE IInv'
  <2>1. PICK o : o = [Nothing EXCEPT !.id = evidence[k].investigation,
                        !.actor = "MODEL", !.sources = {k}]
    OBVIOUS
  <2>2. DOMAIN o = Fields /\ o.late = 0
    BY <2>1, NothingFields DEF Fields
  <2> QED
    BY <1>2, <2>1, <2>2, StartsWorker DEF StartModelResearch
<1> QED
  BY <1>1, <1>2

LEMMA InterruptIInv == ASSUME IInv, RequestInterruption PROVE IInv'
<1> DEFINE w == ops["worker"]
<1>1. Untouched /\ "worker" \in Threads /\ DOMAIN w = Fields /\ Prompt(w) /\ Answered(w)
  BY DEF RequestInterruption, data, history, Untouched, Threads, IInv, Shape
<1>2. PICK s : s = [w EXCEPT !.cancelled = TRUE]
  OBVIOUS
<1>3. /\ DOMAIN s = Fields /\ s.step = w.step /\ s.late = w.late /\ s.cancelled
      /\ s.key = w.key /\ s.asked = w.asked /\ s.url = w.url /\ s.actor = w.actor
      /\ s.addresses = w.addresses /\ s.left = w.left
  BY <1>1, <1>2 DEF Fields
<1>4. Continue("worker", s)
  BY <1>2 DEF RequestInterruption
<1>5. Prompt(s)
  BY <1>1, <1>3 DEF Prompt, Asks, Tried
<1>6. Quiet(w, s)
  BY <1>1, <1>3, <1>5 DEF Quiet, Importing, Answered, Asking, Decision
<1> QED
  BY <1>1, <1>4, <1>6, QuietIInv DEF Untouched

(* The worker goes on, without a file, to anything but an answer. *)
LEMMA EarlyIInv ==
  ASSUME IInv, Untouched, ~Importing(ops["worker"]),
         NEW s, Continue("worker", s), DOMAIN s = Fields, ~Importing(s), Prompt(s),
         s.step # "response", Asking(s) => Asking(ops["worker"]) /\
                                           Decision(s) = Decision(ops["worker"])
  PROVE  IInv'
<1>1. "worker" \in Threads /\ Quiet(ops["worker"], s)
  BY DEF Threads, Quiet, Answered, Importing
<1> QED
  BY <1>1, QuietIInv DEF Untouched

LEMMA WorkerReturnsIInv ==
  ASSUME IInv, Untouched, ~Importing(ops["worker"]), Return("worker") PROVE IInv'
BY Returns, NothingQuiet, QuietIInv DEF Untouched, Threads

LEMMA ReadSourcesIInv == ASSUME IInv, ReadSources PROVE IInv'
<1> DEFINE w == ops["worker"]
<1>1. /\ Untouched /\ DOMAIN w = Fields /\ w.step = "sources" /\ ~Importing(w) /\ w.late = 0
  BY DEF ReadSources, data, history, Untouched, IInv, Shape, Importing, Threads, Prompt, Asks
<1>2. ASSUME NEW v, NEW d, Continue("worker", [w EXCEPT
                !.step = "next", !.artifact = 0, !.sources = v, !.done = d])
      PROVE  IInv'
  <2>1. PICK s : s = [w EXCEPT !.step = "next", !.artifact = 0, !.sources = v, !.done = d]
    OBVIOUS
  <2>2. DOMAIN s = Fields /\ s.step = "next" /\ s.late = 0
    BY <1>1, <2>1 DEF Fields
  <2> QED
    BY <1>1, <1>2, <2>1, <2>2, EarlyIInv DEF Importing, Prompt, Asks, Asking
<1> QED
  BY <1>1, <1>2, WorkerReturnsIInv DEF ReadSources

LEMMA NextSourceIInv == ASSUME IInv, NextSource PROVE IInv'
<1> DEFINE w == ops["worker"]
<1>1. Untouched /\ DOMAIN w = Fields /\ w.step = "next" /\ ~Importing(w) /\ Prompt(w)
  BY DEF NextSource, data, history, Untouched, IInv, Shape, Importing, Threads
<1>2. CASE Return("worker")
  BY <1>1, <1>2, WorkerReturnsIInv
<1>3. CASE Continue("worker", [w EXCEPT !.sources = AfterFirst(w.sources)])
  <2>1. PICK s : s = [w EXCEPT !.sources = AfterFirst(w.sources)]
    OBVIOUS
  <2>2. DOMAIN s = Fields /\ s.step = "next" /\ s.late = w.late /\ s.cancelled = w.cancelled
    BY <1>1, <2>1 DEF Fields
  <2> QED
    BY <1>1, <1>3, <2>1, <2>2, EarlyIInv DEF Importing, Prompt, Asks, Asking
<1>4. CASE ~Cancelled("worker") /\
           Continue("worker", [w EXCEPT !.step = "authorize", !.url = SourceUrl(w)])
  <2>1. PICK s : s = [w EXCEPT !.step = "authorize", !.url = SourceUrl(w)]
    OBVIOUS
  <2>2. DOMAIN s = Fields /\ s.step = "authorize" /\ s.late = w.late
    BY <1>1, <2>1 DEF Fields
  <2>3. w.late = 0
    BY <1>1, <1>4 DEF Prompt, Asks, Cancelled
  <2> QED
    BY <1>1, <1>4, <2>1, <2>2, <2>3, EarlyIInv DEF Importing, Prompt, Asks, Asking
<1> QED
  BY <1>2, <1>3, <1>4 DEF NextSource

LEMMA CheckUrlIInv ==
  ASSUME IInv, NEW n \in 0..MaxAddresses, CheckUrl(n) PROVE IInv'
<1> DEFINE w == ops["worker"]
<1>1. /\ Untouched /\ DOMAIN w = Fields /\ w.step = "check" /\ ~Importing(w) /\ w.late = 0
  BY DEF CheckUrl, data, history, Untouched, IInv, Shape, Importing, Threads, Prompt, Asks
<1>2. CASE n # 0 /\ Continue("worker", [w EXCEPT !.step = "request",
                                                 !.addresses = n, !.left = n])
  <2>1. PICK s : s = [w EXCEPT !.step = "request", !.addresses = n, !.left = n]
    OBVIOUS
  <2>2. /\ DOMAIN s = Fields /\ s.step = "request" /\ s.late = 0
        /\ s.asked = w.asked /\ s.url = w.url /\ s.actor = w.actor
        /\ s.addresses = n /\ s.left = n
    BY <1>1, <2>1 DEF Fields
  <2>3. Prompt(s)
    BY <1>2, <2>2, BoundsAssumption DEF Prompt, Asks, Tried
  <2> QED
    BY <1>1, <1>2, <2>1, <2>2, <2>3, EarlyIInv DEF Importing, Asking, Decision
<1> QED
  BY <1>1, <1>2, WorkerReturnsIInv DEF CheckUrl

(* The next address: as many were tried as are no longer left. *)
LEMMA AddressFailsIInv == ASSUME IInv, AddressFails PROVE IInv'
<1> DEFINE w == ops["worker"]
<1>1. /\ Untouched /\ DOMAIN w = Fields /\ Asks(w) /\ ~Importing(w) /\ Prompt(w)
  BY DEF AddressFails, data, history, Untouched, IInv, Shape, Importing, Threads, Asks
<1>2. CASE Return("worker")
  BY <1>1, <1>2, WorkerReturnsIInv
<1>3. CASE w.left # 1 /\ Continue("worker", [w EXCEPT !.step = "request",
                                                      !.left = NextAddress(w.left)])
  <2>1. PICK n : n = w.left - 1
    OBVIOUS
  <2>2. PICK s : s = [w EXCEPT !.step = "request", !.left = n]
    OBVIOUS
  <2>3. /\ DOMAIN s = Fields /\ s.step = "request" /\ s.late = w.late /\ s.left = n
        /\ s.addresses = w.addresses /\ s.cancelled = w.cancelled
        /\ s.asked = w.asked /\ s.url = w.url /\ s.actor = w.actor
    BY <1>1, <2>2 DEF Fields
  <2>4. Prompt(s)
    BY <1>1, <1>3, <2>1, <2>3 DEF Prompt, Asks, Tried
  <2>5. Asking(s) => Asking(w) /\ Decision(s) = Decision(w)
    <3>1. w.step = "response" => w.asked
      BY DEF IInv, Answered, Threads
    <3> QED
      BY <1>1, <2>3, <3>1 DEF Asking, Decision, Asks
  <2>6. Continue("worker", s)
    BY <1>3, <2>1, <2>2 DEF NextAddress
  <2> QED
    BY <1>1, <2>3, <2>4, <2>5, <2>6, EarlyIInv DEF Importing
<1> QED
  BY <1>2, <1>3 DEF AddressFails

LEMMA ReceiveIInv ==
  ASSUME IInv, \/ \E d : ReceiveRedirect(d)
               \/ \E c : ReceiveDocument(c)
               \/ ReceiveFailure
  PROVE  IInv'
<1> DEFINE w == ops["worker"]
<1>1. Untouched /\ DOMAIN w = Fields /\ Asks(w) /\ ~Importing(w) /\ Prompt(w)
  BY DEF ReceiveRedirect, ReceiveDocument, ReceiveFailure, data, history, Untouched,
         IInv, Shape, Importing, Threads, Asks
<1>2. CASE Return("worker")
  BY <1>1, <1>2, WorkerReturnsIInv
<1>3. ASSUME NEW d, ~Cancelled("worker"), w.step = "response",
             Continue("worker", [w EXCEPT !.step = "check", !.url = d,
                                   !.hops = CountedHop(w.hops), !.addresses = 0, !.left = 0])
      PROVE  IInv'
  <2>1. PICK s : s = [w EXCEPT !.step = "check", !.url = d, !.hops = CountedHop(w.hops),
                               !.addresses = 0, !.left = 0]
    OBVIOUS
  <2>2. DOMAIN s = Fields /\ s.step = "check" /\ s.late = w.late /\ s.asked = w.asked
    BY <1>1, <2>1 DEF Fields
  <2>3. w.late = 0 /\ w.asked
    BY <1>1, <1>3 DEF Prompt, Asks, Cancelled, IInv, Answered, Threads
  <2> QED
    BY <1>1, <1>3, <2>1, <2>2, <2>3, EarlyIInv DEF Importing, Prompt, Asks, Asking
<1>4. ASSUME NEW c, ~Cancelled("worker"),
             Continue("worker", [w EXCEPT !.step = "persist", !.content = c,
                                          !.addresses = 0, !.left = 0])
      PROVE  IInv'
  <2>1. PICK s : s = [w EXCEPT !.step = "persist", !.content = c,
                               !.addresses = 0, !.left = 0]
    OBVIOUS
  <2>2. DOMAIN s = Fields /\ s.step = "persist" /\ s.late = w.late
    BY <1>1, <2>1 DEF Fields
  <2>3. w.late = 0
    BY <1>1, <1>4 DEF Prompt, Asks, Cancelled
  <2> QED
    BY <1>1, <1>4, <2>1, <2>2, <2>3, EarlyIInv DEF Importing, Prompt, Asks, Asking
<1> QED
  BY <1>2, <1>3, <1>4 DEF ReceiveRedirect, ReceiveDocument, ReceiveFailure

LEMMA BeginUnitIInv == ASSUME IInv, BeginUnit PROVE IInv'
<1> DEFINE w == ops["worker"]
<1>1. /\ Untouched /\ DOMAIN w = Fields /\ w.step = "persist" /\ ~Importing(w) /\ w.late = 0
  BY DEF BeginUnit, data, history, Untouched, IInv, Shape, Importing, Threads, Prompt, Asks
<1>2. CASE Continue("worker", [w EXCEPT !.step = "store"])
  <2>1. PICK s : s = [w EXCEPT !.step = "store"]
    OBVIOUS
  <2>2. DOMAIN s = Fields /\ s.step = "store" /\ s.late = 0
    BY <1>1, <2>1 DEF Fields
  <2> QED
    BY <1>1, <1>2, <2>1, <2>2, EarlyIInv DEF Importing, Prompt, Asks, Asking
<1> QED
  BY <1>1, <1>2, WorkerReturnsIInv DEF BeginUnit

(* What the store did not get done with the file of an import is abandoned. *)
LEMMA AbandonIInv ==
  ASSUME IInv, NEW t \in Threads, Continue(t, Nothing),
         abandoned' = abandoned \cup {ops[t].key},
         UNCHANGED <<stored, temporaries, files, artifacts, audit, fetches>>
  PROVE  IInv'
<1> USE DEF IInv
<1>1. /\ DOMAIN ops' = Threads
      /\ \A u \in Threads : ops'[u] = IF u = t THEN Nothing ELSE ops[u]
  BY Continues
<1>2. ~Importing(Nothing) /\ Prompt(Nothing) /\ Answered(Nothing) /\ ~Asking(Nothing)
  BY NothingFields DEF Importing, Prompt, Asks, Answered, Asking
<1>3. Shape'
  BY <1>1, NothingFields DEF Shape
<1>4. FilesInv'
  BY <1>1, <1>2 DEF FilesInv, RowsHaveFiles, Place
<1>5. FilesHaveRows'
  BY <1>1 DEF FilesHaveRows
<1>6. AuditInv'
  <2>1. \A f : Count(fetches, f)' = Count(fetches, f) /\ Count(audit, f)' = Count(audit, f)
    BY DEF Count
  <2>2. \A f : Pending(f)' \in {0, 1} /\ (Pending(f)' = 1 => Pending(f) = 1)
    BY <1>1, <1>2 DEF Pending, Threads
  <2> QED
    BY <2>1, <2>2, CountIsNat DEF AuditInv, Shape, Pending
<1> QED
  BY <1>1, <1>2, <1>3, <1>4, <1>5, <1>6

LEMMA RaiseIInv == ASSUME IInv, NEW t \in Threads, Raise(t) PROVE IInv'
<1>1. /\ UNCHANGED <<stored, temporaries, files, artifacts, audit, fetches>>
      /\ DOMAIN ops[t] = Fields /\ Prompt(ops[t])
  BY DEF Raise, data, IInv, Shape
<1>2. CASE ops[t].step = "insert"
  <2>1. PICK s : s = [ops[t] EXCEPT !.step = "undo"]
    OBVIOUS
  <2>2. /\ DOMAIN s = Fields /\ s.step = "undo" /\ s.late = ops[t].late
        /\ s.cancelled = ops[t].cancelled /\ s.key = ops[t].key
    BY <1>1, <2>1 DEF Fields
  <2>3. Continue(t, s) /\ abandoned' = abandoned
    BY <1>2, <2>1 DEF Raise, Undone
  <2>4. Quiet(ops[t], s)
    BY <1>1, <1>2, <2>2 DEF Quiet, Importing, Prompt, Asks, Answered, Asking
  <2> QED
    BY <1>1, <2>3, <2>4, QuietIInv
<1>3. CASE ops[t].step \in {"replace", "undo"}
  <2>1. Continue(t, Nothing) /\ abandoned' = abandoned \cup {ops[t].key}
    BY <1>3, Returns DEF Raise, Undone
  <2> QED
    BY <1>1, <2>1, AbandonIInv
<1>4. CASE ops[t].step \notin {"insert", "replace", "undo"}
  <2>1. Continue(t, Nothing) /\ Quiet(ops[t], Nothing) /\ abandoned' = abandoned
    BY <1>1, <1>4, Returns, NothingQuiet DEF Raise, Undone, Importing
  <2> QED
    BY <1>1, <2>1, QuietIInv
<1> QED
  BY <1>2, <1>3, <1>4

LEMMA UnchangedIInv ==
  ASSUME IInv, Untouched, ops' = ops PROVE IInv'
<1> USE DEF IInv, Untouched
<1>1. Shape' /\ FilesInv' /\ FilesHaveRows'
  BY DEF Shape, FilesInv, RowsHaveFiles, FilesHaveRows, Place
<1>2. \A f : /\ Count(fetches, f)' = Count(fetches, f) /\ Count(audit, f)' = Count(audit, f)
            /\ Pending(f)' = Pending(f)
  BY DEF Count, Pending
<1>3. AuditInv'
  BY <1>2 DEF AuditInv
<1> QED
  BY <1>1, <1>3

-----------------------------------------------------------------------------
(* The audit. *)
LEMMA SameFiles ==
  ASSUME IInv, NEW t \in Threads, NEW s, Continue(t, s), ~Importing(ops[t]), ~Importing(s),
         UNCHANGED <<stored, temporaries, files, artifacts, abandoned>>
  PROVE  FilesInv' /\ FilesHaveRows'
<1>1. DOMAIN ops' = Threads /\ \A u \in Threads : ops'[u] = IF u = t THEN s ELSE ops[u]
  BY Continues DEF IInv
<1>2. FilesInv'
  BY <1>1 DEF IInv, FilesInv, RowsHaveFiles, Importing, Place
<1> QED
  BY <1>1, <1>2 DEF IInv, FilesHaveRows, Importing

LEMMA AuthorizeIInv == ASSUME IInv, Authorize PROVE IInv'
<1> DEFINE w == ops["worker"]
<1> USE DEF IInv
<1>1. /\ "worker" \in Threads /\ DOMAIN w = Fields /\ w.step = "authorize" /\ w.late = 0
      /\ ~Importing(w)
  BY DEF Authorize, Shape, Importing, Threads, Prompt, Asks
<1>2. PICK s : s = [w EXCEPT !.step = "check"]
  OBVIOUS
<1>3. /\ DOMAIN s = Fields /\ s.step = "check" /\ s.late = 0
      /\ s.url = w.url /\ s.actor = w.actor /\ ~Importing(s)
  BY <1>1, <1>2 DEF Fields, Importing
<1>4. /\ Continue("worker", s)
      /\ UNCHANGED <<stored, temporaries, files, artifacts, abandoned, fetches>>
      /\ audit' = Append(audit, Decision(w))
  BY <1>2 DEF Authorize, history, Decided, Decision
<1>5. DOMAIN ops' = Threads /\ \A u \in Threads : ops'[u] = IF u = "worker" THEN s ELSE ops[u]
  BY <1>1, <1>4, Continues
<1>6. Shape' /\ \A t \in Threads : Prompt(ops'[t]) /\ Answered(ops'[t])
  <2>1. IsSeq(audit')
    BY <1>4, AppendIsSeq DEF Shape
  <2> QED
    BY <1>3, <1>4, <1>5, <2>1 DEF Shape, Prompt, Asks, Answered
<1>7. FilesInv' /\ FilesHaveRows'
  BY <1>1, <1>3, <1>4, SameFiles
<1> HIDE DEF w
<1>8. ASSUME NEW f PROVE Count(fetches', f) + Pending(f)' <= Count(audit', f)
  <2>1. Count(audit', f) = IF Decision(w) = f THEN Count(audit, f) + 1 ELSE Count(audit, f)
    BY <1>4, CountAppend DEF Shape
  <2>2. Pending(f) = 0
    BY <1>1 DEF Pending, Asking, w
  <2>3. Pending(f)' \in {0, 1} /\ (Pending(f)' = 1 => Decision(w) = f)
    BY <1>1, <1>3, <1>5 DEF Pending, Decision
  <2>4. Count(fetches, f) \in Nat /\ Count(audit, f) \in Nat /\ Count(fetches, f) <= Count(audit, f)
    BY <2>2, CountIsNat DEF Shape, AuditInv
  <2> QED
    BY <1>4, <2>1, <2>3, <2>4
<1>9. AuditInv'
  BY <1>8 DEF AuditInv, Count
<1> QED
  BY <1>6, <1>7, <1>9

LEMMA SendIInv == ASSUME IInv, SendRequest PROVE IInv'
<1> DEFINE w == ops["worker"]
<1> USE DEF IInv
<1>1. /\ "worker" \in Threads /\ DOMAIN w = Fields /\ w.step = "request" /\ Prompt(w)
      /\ ~Importing(w)
  BY DEF SendRequest, Shape, Importing, Threads
<1>2. PICK s : s = [w EXCEPT !.step = "response", !.asked = TRUE, !.late = LateIn(w)]
  OBVIOUS
<1>3. /\ DOMAIN s = Fields /\ s.step = "response" /\ s.late = LateIn(w) /\ s.asked
      /\ s.cancelled = w.cancelled /\ s.addresses = w.addresses /\ s.left = w.left
      /\ ~Importing(s)
  BY <1>1, <1>2 DEF Fields, Importing
<1>4. /\ Continue("worker", s)
      /\ UNCHANGED <<stored, temporaries, files, artifacts, abandoned, audit>>
      /\ \/ w.asked /\ fetches' = fetches
         \/ ~w.asked /\ fetches' = Append(fetches, Decision(w))
  BY <1>2 DEF SendRequest, data, Decision
<1>5. DOMAIN ops' = Threads /\ \A u \in Threads : ops'[u] = IF u = "worker" THEN s ELSE ops[u]
  BY <1>1, <1>4, Continues
<1>6. Shape' /\ \A t \in Threads : Prompt(ops'[t]) /\ Answered(ops'[t])
  <2>1. IsSeq(fetches')
    <3>1. IsSeq(fetches) /\ IsSeq(Append(fetches, Decision(w)))
      BY AppendIsSeq DEF Shape
    <3>2. fetches' = fetches \/ fetches' = Append(fetches, Decision(w))
      BY <1>4
    <3> HIDE DEF w
    <3> QED
      BY <3>1, <3>2
  <2>2. Prompt(s) /\ Answered(s)
    BY <1>1, <1>3 DEF Prompt, Asks, Tried, Answered, LateIn
  <2> QED
    BY <1>3, <1>4, <1>5, <2>1, <2>2 DEF Shape
<1>7. FilesInv' /\ FilesHaveRows'
  BY <1>1, <1>3, <1>4, SameFiles
<1> HIDE DEF w
<1>8. ASSUME NEW f PROVE Count(fetches', f) + Pending(f)' <= Count(audit', f)
  <2>1. Pending(f)' = 0
    BY <1>1, <1>3, <1>5 DEF Pending, Asking
  <2>2. Count(fetches, f) \in Nat /\ Count(audit, f) \in Nat
        /\ Count(fetches, f) + Pending(f) <= Count(audit, f) /\ Pending(f) \in {0, 1}
    BY CountIsNat DEF Shape, AuditInv, Pending
  <2>3. CASE w.asked /\ fetches' = fetches
    BY <1>4, <2>1, <2>2, <2>3
  <2>4. CASE ~w.asked /\ fetches' = Append(fetches, Decision(w))
    <3>1. Count(fetches', f) = IF Decision(w) = f THEN Count(fetches, f) + 1 ELSE Count(fetches, f)
      BY <2>4, CountAppend DEF Shape
    <3>2. Decision(w) = f => Pending(f) = 1
      BY <1>1, <2>4 DEF Pending, Asking, w
    <3> QED
      BY <1>4, <2>1, <2>2, <3>1, <3>2
  <2> QED
    BY <1>4, <2>3, <2>4
<1>9. AuditInv'
  BY <1>8 DEF AuditInv, Count
<1> QED
  BY <1>6, <1>7, <1>9

-----------------------------------------------------------------------------
(* The files and their rows. *)
LEMMA NoNewRequest ==
  ASSUME IInv, NEW t \in Threads, NEW s, Continue(t, s), ~Asking(s),
         UNCHANGED <<audit, fetches>>
  PROVE  AuditInv'
<1>1. \A u \in Threads : ops'[u] = IF u = t THEN s ELSE ops[u]
  BY Continues DEF IInv
<1>2. \A f : Count(fetches, f)' = Count(fetches, f) /\ Count(audit, f)' = Count(audit, f)
  BY DEF Count
<1>3. \A f : Pending(f)' \in {0, 1} /\ (Pending(f)' = 1 => Pending(f) = 1)
  BY <1>1 DEF Pending, Threads
<1> QED
  BY <1>2, <1>3, CountIsNat DEF IInv, AuditInv, Shape, Pending

LEMMA WritesFile ==
  ASSUME IInv, NEW t \in Threads, ~Importing(ops[t]), NEW c, stored' = Append(stored, c),
         temporaries' = temporaries \cup {Len(stored) + 1},
         UNCHANGED <<files, artifacts, abandoned, audit, fetches>>,
         NEW s, Continue(t, s), DOMAIN s = Fields, s.step = "replace",
         s.key = Len(stored) + 1, Prompt(s)
  PROVE  IInv'
<1> DEFINE n == Len(stored)
<1> USE DEF IInv
<1>1. DOMAIN ops' = Threads /\ \A u \in Threads : ops'[u] = IF u = t THEN s ELSE ops[u]
  BY Continues
<1>2. n \in Nat /\ DOMAIN stored = 1..n /\ DOMAIN stored' = 1..(n + 1) /\ IsSeq(stored')
  BY AppendIsSeq DEF Shape
<1>3. /\ n + 1 \notin files /\ n + 1 \notin temporaries /\ n + 1 \in DOMAIN stored'
      /\ files \subseteq DOMAIN stored' /\ temporaries \subseteq DOMAIN stored'
  BY <1>2 DEF FilesInv
<1>4. temporaries' = temporaries \cup {n + 1} /\ s.key = n + 1 /\ Importing(s)
  BY DEF Importing
<1> HIDE DEF n
<1>5. Shape'
  BY <1>1, <1>2 DEF Shape
<1>6. FilesInv'
  <2>1. /\ temporaries' \subseteq DOMAIN stored' /\ files' \subseteq DOMAIN stored'
        /\ temporaries' \cap files' = {} /\ RowsHaveFiles'
    BY <1>3, <1>4 DEF FilesInv, RowsHaveFiles
  <2>2. \A a \in DOMAIN artifacts : artifacts[a].key # n + 1
    BY <1>3 DEF FilesInv, RowsHaveFiles
  <2>3. \A u \in Threads : Importing(ops[u]) => ops[u].key # n + 1
    BY <1>3 DEF FilesInv, Place
  <2>4. \A u \in Threads : Importing(ops'[u]) =>
           /\ ops'[u].key \in Place(ops[u])'
           /\ \A a \in DOMAIN artifacts' : artifacts'[a].key # ops'[u].key
    BY <1>1, <1>4, <2>2 DEF FilesInv, Place
  <2>5. \A u, v \in Threads :
           Importing(ops'[u]) /\ Importing(ops'[v]) /\ ops'[u].key = ops'[v].key => u = v
    BY <1>1, <1>4, <2>3 DEF FilesInv
  <2> QED
    BY <2>1, <2>4, <2>5 DEF FilesInv, Place
<1>7. FilesHaveRows'
  BY <1>1, <1>3, <1>4 DEF FilesHaveRows
<1>8. AuditInv'
  BY NoNewRequest DEF Asking
<1> QED
  BY <1>1, <1>5, <1>6, <1>7, <1>8 DEF Answered

LEMMA ImportIInv ==
  ASSUME IInv, NEW id, NEW c, ImportArtifact(id, c) PROVE IInv'
<1>1. PICK o : o = [Nothing EXCEPT !.id = id]
  OBVIOUS
<1>2. DOMAIN o = Fields /\ o.late = 0
  BY <1>1, NothingFields DEF Fields
<1>3. PICK s : s = [o EXCEPT !.step = "replace", !.key = Len(stored) + 1]
  OBVIOUS
<1>4. DOMAIN s = Fields /\ s.step = "replace" /\ s.key = Len(stored) + 1 /\ s.late = 0
  BY <1>2, <1>3 DEF Fields
<1>5. /\ "gui" \in Threads /\ ~Importing(ops["gui"]) /\ stored' = Append(stored, c)
      /\ temporaries' = temporaries \cup {Len(stored) + 1} /\ Continue("gui", s)
      /\ UNCHANGED <<files, artifacts, abandoned, audit, fetches>>
  BY <1>1, <1>3 DEF ImportArtifact, WriteTemporary, Threads, Importing, history
<1> QED
  BY <1>4, <1>5, WritesFile DEF Prompt, Asks

LEMMA StoreIInv == ASSUME IInv, StoreDocument PROVE IInv'
<1> DEFINE w == ops["worker"]
<1>1. /\ "worker" \in Threads /\ DOMAIN w = Fields /\ w.step = "store" /\ w.late = 0
      /\ ~Importing(w)
  BY DEF StoreDocument, IInv, Shape, Importing, Threads, Prompt, Asks
<1>2. PICK s : s = [w EXCEPT !.step = "replace", !.key = Len(stored) + 1]
  OBVIOUS
<1>3. DOMAIN s = Fields /\ s.step = "replace" /\ s.key = Len(stored) + 1 /\ s.late = 0
  BY <1>1, <1>2 DEF Fields
<1>4. /\ stored' = Append(stored, w.content)
      /\ temporaries' = temporaries \cup {Len(stored) + 1}
      /\ Continue("worker", s) /\ UNCHANGED <<files, artifacts, abandoned, audit, fetches>>
  BY <1>2 DEF StoreDocument, WriteTemporary, history
<1> QED
  BY <1>1, <1>3, <1>4, WritesFile DEF Prompt, Asks

(* Only the import's own file moves. *)
LEMMA ReplaceIInv == ASSUME IInv, NEW t \in Threads, ReplaceTemporary(t) PROVE IInv'
<1> DEFINE op == ops[t]
<1> USE DEF IInv
<1>1. /\ DOMAIN op = Fields /\ op.step = "replace" /\ Importing(op) /\ Prompt(op)
      /\ temporaries' = temporaries \ {op.key} /\ files' = files \cup {op.key}
      /\ UNCHANGED <<stored, artifacts, abandoned, audit, fetches>>
  BY DEF ReplaceTemporary, Shape, Importing, history
<1>2. PICK s : s = [op EXCEPT !.step = "insert"]
  OBVIOUS
<1>3. /\ DOMAIN s = Fields /\ s.step = "insert" /\ s.key = op.key /\ s.late = op.late
      /\ s.cancelled = op.cancelled
  BY <1>1, <1>2 DEF Fields
<1>4. Continue(t, s)
  BY <1>2 DEF ReplaceTemporary
<1>5. DOMAIN ops' = Threads /\ \A u \in Threads : ops'[u] = IF u = t THEN s ELSE ops[u]
  BY <1>4, Continues
<1>6. Prompt(s) /\ Importing(s) /\ ~Asking(s) /\ Answered(s)
  BY <1>1, <1>3 DEF Prompt, Asks, Importing, Asking, Answered
<1>7. op.key \in temporaries /\ \A a \in DOMAIN artifacts : artifacts[a].key # op.key
  BY <1>1 DEF FilesInv, Place
<1>8. \A u \in Threads : u # t /\ Importing(ops[u]) => ops[u].key # op.key
  BY <1>1 DEF FilesInv
<1> HIDE DEF op
<1>9. Shape'
  BY <1>1, <1>3, <1>5 DEF Shape
<1>10. FilesInv'
  <2>1. /\ temporaries' \subseteq DOMAIN stored' /\ files' \subseteq DOMAIN stored'
        /\ temporaries' \cap files' = {} /\ RowsHaveFiles'
    BY <1>1, <1>7 DEF FilesInv, RowsHaveFiles
  <2>2. \A u \in Threads : u # t /\ Importing(ops[u]) =>
           /\ ops[u].key \in Place(ops[u])'
           /\ \A a \in DOMAIN artifacts : artifacts[a].key # ops[u].key
    BY <1>1, <1>5, <1>8 DEF FilesInv, Place
  <2>3. s.key \in Place(s)' /\ \A a \in DOMAIN artifacts : artifacts[a].key # s.key
    BY <1>1, <1>3, <1>7 DEF Place
  <2>4. \A u, v \in Threads :
           Importing(ops'[u]) /\ Importing(ops'[v]) /\ ops'[u].key = ops'[v].key => u = v
    BY <1>3, <1>5, <1>8 DEF FilesInv
  <2>5. \A u \in Threads : Importing(ops'[u]) =>
           /\ ops'[u].key \in Place(ops[u])'
           /\ \A a \in DOMAIN artifacts' : artifacts'[a].key # ops'[u].key
    BY <1>1, <1>5, <2>2, <2>3 DEF Place
  <2> QED
    BY <2>1, <2>4, <2>5 DEF FilesInv, Place
<1>11. FilesHaveRows'
  <2> SUFFICES ASSUME NEW key \in temporaries' \cup files'
               PROVE  \/ /\ key \in files' \ temporaries'
                         /\ \E a \in DOMAIN artifacts' : artifacts'[a].key = key
                      \/ \E u \in Threads : Importing(ops'[u]) /\ ops'[u].key = key
                      \/ key \in abandoned'
    BY DEF FilesHaveRows
  <2>1. CASE key = op.key
    BY <1>3, <1>5, <1>6, <2>1
  <2>2. CASE key # op.key
    <3>1. CASE \E u \in Threads : Importing(ops[u]) /\ ops[u].key = key
      BY <1>5, <2>2, <3>1 DEF op
    <3> QED
      BY <1>1, <2>2, <3>1 DEF FilesHaveRows
  <2> QED
    BY <2>1, <2>2
<1>12. AuditInv'
  BY <1>1, <1>4, <1>6, NoNewRequest
<1> QED
  BY <1>5, <1>6, <1>9, <1>10, <1>11, <1>12

LEMMA InsertIInv == ASSUME IInv, NEW t \in Threads, InsertArtifact(t) PROVE IInv'
<1> DEFINE op == ops[t]
           row == [investigation |-> op.id, key |-> op.key]
<1> USE DEF IInv
<1>1. /\ DOMAIN op = Fields /\ op.step = "insert" /\ Importing(op) /\ Prompt(op)
      /\ artifacts' = Append(artifacts, row)
      /\ UNCHANGED <<stored, temporaries, files, abandoned, audit, fetches>>
  BY DEF InsertArtifact, Shape, Importing, history
<1>2. PICK s : Continue(t, s) /\ DOMAIN s = Fields /\ Prompt(s) /\ s.step \in {"idle", "record"}
  <2>1. CASE t = "gui"
    BY <2>1, Returns, NothingFields DEF InsertArtifact, Prompt, Asks
  <2>2. CASE t # "gui"
    <3>1. PICK s : s = [op EXCEPT !.step = "record", !.artifact = Len(artifacts) + 1,
                                  !.rows = 1..(op.hops + 2)]
      OBVIOUS
    <3>2. /\ DOMAIN s = Fields /\ s.step = "record" /\ s.late = op.late
          /\ s.cancelled = op.cancelled
      BY <1>1, <3>1 DEF Fields
    <3>3. Prompt(s)
      BY <1>1, <3>2 DEF Prompt, Asks
    <3>4. Continue(t, s)
      BY <2>2, <3>1 DEF InsertArtifact
    <3> QED
      BY <3>2, <3>3, <3>4
  <2> QED
    BY <2>1, <2>2
<1>3. DOMAIN ops' = Threads /\ \A u \in Threads : ops'[u] = IF u = t THEN s ELSE ops[u]
  BY <1>2, Continues
<1>4. /\ IsSeq(artifacts') /\ Len(artifacts) \in Nat /\ DOMAIN artifacts = 1..Len(artifacts)
      /\ DOMAIN artifacts' = 1..(Len(artifacts) + 1) /\ artifacts'[Len(artifacts) + 1] = row
      /\ \A a \in DOMAIN artifacts : artifacts'[a] = artifacts[a]
  BY <1>1, AppendIsSeq DEF Shape
<1>5. row.key = op.key /\ op.key \in files \ temporaries /\ ~Importing(s)
  BY <1>1, <1>2 DEF FilesInv, Importing, Place
<1> HIDE DEF row
<1>6. \A a \in DOMAIN artifacts' : \/ a \in DOMAIN artifacts /\ artifacts'[a] = artifacts[a]
                                   \/ artifacts'[a].key = op.key
  BY <1>4, <1>5
<1>7. \A u \in Threads : Importing(ops'[u]) => u # t /\ Importing(ops[u]) /\ ops'[u] = ops[u]
                                               /\ ops[u].key # op.key
  BY <1>1, <1>3, <1>5 DEF FilesInv
<1> HIDE DEF op
<1>8. Shape'
  BY <1>1, <1>2, <1>3, <1>4 DEF Shape
<1>9. FilesInv'
  <2>1. /\ temporaries' \subseteq DOMAIN stored' /\ files' \subseteq DOMAIN stored'
        /\ temporaries' \cap files' = {} /\ RowsHaveFiles'
    BY <1>1, <1>5, <1>6 DEF FilesInv, RowsHaveFiles
  <2>2. \A u \in Threads : Importing(ops'[u]) =>
           /\ ops'[u].key \in Place(ops[u])'
           /\ \A a \in DOMAIN artifacts' : artifacts'[a].key # ops'[u].key
    BY <1>1, <1>6, <1>7 DEF FilesInv, Place
  <2>3. \A u, v \in Threads :
           Importing(ops'[u]) /\ Importing(ops'[v]) /\ ops'[u].key = ops'[v].key => u = v
    BY <1>7 DEF FilesInv
  <2> QED
    BY <2>1, <2>2, <2>3 DEF FilesInv, Place
<1>10. FilesHaveRows'
  <2> SUFFICES ASSUME NEW key \in temporaries \cup files
               PROVE  \/ /\ key \in files \ temporaries
                         /\ \E a \in DOMAIN artifacts' : artifacts'[a].key = key
                      \/ \E u \in Threads : Importing(ops'[u]) /\ ops'[u].key = key
                      \/ key \in abandoned
    BY <1>1 DEF FilesHaveRows
  <2>1. CASE key \in files \ temporaries /\ \E a \in DOMAIN artifacts : artifacts[a].key = key
    BY <1>4, <2>1
  <2>2. CASE \E u \in Threads : Importing(ops[u]) /\ ops[u].key = key
    <3>1. PICK u \in Threads : Importing(ops[u]) /\ ops[u].key = key
      BY <2>2
    <3>2. CASE u = t
      <4>1. /\ Len(artifacts) + 1 \in DOMAIN artifacts'
            /\ artifacts'[Len(artifacts) + 1].key = key /\ key \in files \ temporaries
        BY <1>4, <1>5, <3>1, <3>2 DEF op
      <4> QED
        BY <4>1
    <3>3. CASE u # t
      BY <1>3, <3>1, <3>3
    <3> QED
      BY <3>2, <3>3
  <2> QED
    BY <2>1, <2>2 DEF FilesHaveRows
<1>11. AuditInv'
  BY <1>1, <1>2, NoNewRequest DEF Asking
<1> QED
  BY <1>2, <1>3, <1>8, <1>9, <1>10, <1>11 DEF Answered

LEMMA UndoIInv == ASSUME IInv, NEW t \in Threads, UndoImport(t) PROVE IInv'
<1> DEFINE key == ops[t].key
<1> USE DEF IInv
<1>1. /\ Importing(ops[t]) /\ ops[t].step = "undo" /\ files' = files \ {key}
      /\ Continue(t, Nothing)
      /\ UNCHANGED <<stored, temporaries, artifacts, abandoned, audit, fetches>>
  BY Returns DEF UndoImport, DeleteFile, Importing, history
<1>2. /\ DOMAIN ops' = Threads
      /\ \A u \in Threads : ops'[u] = IF u = t THEN Nothing ELSE ops[u]
  BY <1>1, Continues
<1>3. ~Importing(Nothing) /\ Prompt(Nothing) /\ Answered(Nothing) /\ ~Asking(Nothing)
  BY NothingFields DEF Importing, Prompt, Asks, Answered, Asking
<1>4. /\ \A a \in DOMAIN artifacts : artifacts[a].key # key
      /\ key \notin temporaries
  BY <1>1 DEF FilesInv, Place
<1>5. \A u \in Threads : Importing(ops'[u]) => Importing(ops[u]) /\ ops'[u] = ops[u]
                                               /\ ops[u].key # key
  BY <1>1, <1>2, <1>3 DEF FilesInv
<1>6. Shape'
  BY <1>1, <1>2, NothingFields DEF Shape
<1>7. FilesInv'
  <2>1. /\ temporaries' \subseteq DOMAIN stored' /\ files' \subseteq DOMAIN stored'
        /\ temporaries' \cap files' = {} /\ RowsHaveFiles'
    BY <1>1, <1>4 DEF FilesInv, RowsHaveFiles
  <2>2. \A u \in Threads : Importing(ops'[u]) =>
           /\ ops'[u].key \in Place(ops[u])'
           /\ \A a \in DOMAIN artifacts' : artifacts'[a].key # ops'[u].key
    BY <1>1, <1>5 DEF FilesInv, Place
  <2>3. \A u, v \in Threads :
           Importing(ops'[u]) /\ Importing(ops'[v]) /\ ops'[u].key = ops'[v].key => u = v
    BY <1>5 DEF FilesInv
  <2> QED
    BY <2>1, <2>2, <2>3 DEF FilesInv, Place
<1>8. FilesHaveRows'
  BY <1>1, <1>2, <1>4 DEF FilesHaveRows
<1>9. AuditInv'
  BY <1>1, <1>3, NoNewRequest
<1> QED
  BY <1>2, <1>3, <1>6, <1>7, <1>8, <1>9

LEMMA CrashIInv == ASSUME IInv, Crash PROVE IInv'
<1> USE DEF IInv
<1>1. /\ ops' = [t \in Threads |-> Nothing]
      /\ \A t \in Threads : Importing(ops[t]) => ops[t].key \in abandoned'
      /\ abandoned \subseteq abandoned'
      /\ UNCHANGED <<stored, temporaries, files, artifacts, audit, fetches>>
  BY DEF Crash, data
<1>2. Shape'
  BY <1>1, NothingFields DEF Shape
<1>3. \A t \in Threads : ops'[t] = Nothing
  BY <1>1
<1>4. FilesInv'
  BY <1>1, <1>3, NothingFields DEF FilesInv, RowsHaveFiles, Importing
<1>5. FilesHaveRows'
  BY <1>1 DEF FilesHaveRows
<1>6. \A f : /\ Count(fetches, f)' = Count(fetches, f) /\ Count(audit, f)' = Count(audit, f)
             /\ Pending(f)' = 0
  BY <1>1, <1>3, NothingFields DEF Count, Pending, Asking, Threads
<1>7. AuditInv'
  BY <1>6, CountIsNat DEF AuditInv, Shape, Pending
<1> QED
  BY <1>2, <1>3, <1>4, <1>5, <1>7, NothingFields DEF Prompt, Asks, Answered

-----------------------------------------------------------------------------
LEMMA UserIInv == ASSUME IInv, UserStep PROVE IInv'
<1>1. CASE \E id \in Ids, content \in Contents : ImportArtifact(id, content)
  BY <1>1, ImportIInv
<1>2. CASE \E id \in Ids, value \in Values : AddUserEvidence(id, value)
  <2>1. Untouched /\ ops' = ops
    BY <1>2 DEF AddUserEvidence, history, Untouched
  <2> QED
    BY <2>1, UnchangedIInv
<1>3. CASE \E id \in Ids, a \in DOMAIN artifacts : AnalyzeArtifact(id, a)
  BY <1>3, AnalyzeIInv
<1>4. CASE \E id \in Ids, a \in DOMAIN artifacts : StartArtifactResearch(id, a)
  BY <1>4, StartIInv
<1>5. CASE \E k \in DOMAIN evidence : StartModelResearch(k)
  BY <1>5, StartIInv
<1>6. CASE RequestInterruption
  BY <1>6, InterruptIInv
<1> QED
  BY <1>1, <1>2, <1>3, <1>4, <1>5, <1>6 DEF UserStep

LEMMA ThreadIInv == ASSUME IInv, NEW t \in Threads, ThreadStep(t) PROVE IInv'
BY ReplaceIInv, InsertIInv, UndoIInv, AnalyzeDocumentIInv, InsertEvidenceIInv DEF ThreadStep

LEMMA WorkerIInv == ASSUME IInv, WorkerStep PROVE IInv'
<1>1. CASE \/ ReadSources \/ NextSource \/ Authorize \/ SendRequest \/ AddressFails
           \/ BeginUnit \/ StoreDocument
  BY <1>1, ReadSourcesIInv, NextSourceIInv, AuthorizeIInv, SendIInv, AddressFailsIInv,
     BeginUnitIInv, StoreIInv
<1>2. CASE \E addresses \in 0..MaxAddresses : CheckUrl(addresses)
  BY <1>2, CheckUrlIInv
<1>3. CASE \/ \E destination \in Urls : ReceiveRedirect(destination)
           \/ \E content \in Contents : ReceiveDocument(content)
           \/ ReceiveFailure
  BY <1>3, ReceiveIInv
<1> QED
  BY <1>1, <1>2, <1>3 DEF WorkerStep

LEMMA StepIInv == IInv /\ [Next]_vars => IInv'
<1> SUFFICES ASSUME IInv, [Next]_vars PROVE IInv'
  OBVIOUS
<1>1. CASE UserStep
  BY <1>1, UserIInv
<1>2. CASE \E t \in Threads : ThreadStep(t)
  BY <1>2, ThreadIInv
<1>3. CASE WorkerStep
  BY <1>3, WorkerIInv
<1>4. CASE \E t \in Threads : Raise(t)
  BY <1>4, RaiseIInv
<1>5. CASE Crash
  BY <1>5, CrashIInv
<1>6. CASE UNCHANGED vars
  <2>1. Untouched /\ ops' = ops
    BY <1>6 DEF vars, data, history, Untouched
  <2> QED
    BY <2>1, UnchangedIInv
<1> QED
  BY <1>1, <1>2, <1>3, <1>4, <1>5, <1>6 DEF Next

LEMMA SpecIInv == Spec => []IInv
BY InitIInv, StepIInv, PTL DEF Spec

(* An artifact the user can see can be read: no step of an import, of its
   undoing, or of a crash leaves a row whose encrypted file is gone. *)
THEOREM FilesOfRows == Spec => []RowsHaveFiles
<1>1. IInv => RowsHaveFiles
  BY DEF IInv, FilesInv
<1> QED
  BY <1>1, SpecIInv, PTL

(* Every encrypted file, renamed or not, has a row, belongs to an import that
   is under way, or is one the file system failed on or the process ended over:
   import_artifact takes back what it could not record. *)
THEOREM RowsOfFiles == Spec => []FilesHaveRows
<1>1. IInv => FilesHaveRows
  BY DEF IInv
<1> QED
  BY <1>1, SpecIInv, PTL

(* No document is asked for without an egress decision of its own in the
   audit, for the same URL and the same actor. *)
THEOREM FetchesAudited == Spec => []EveryFetchAudited
<1>1. ASSUME IInv PROVE EveryFetchAudited
  <2>1. \A f : Count(fetches, f) \in Nat /\ Count(audit, f) \in Nat
    BY <1>1, CountIsNat DEF IInv, Shape
  <2>2. \A f : Pending(f) \in {0, 1}
    BY DEF Pending
  <2>3. \A f : Count(fetches, f) <= Count(audit, f)
    BY <1>1, <2>1, <2>2 DEF IInv, AuditInv
  <2> QED
    BY <2>3 DEF EveryFetchAudited, Count
<1> QED
  BY <1>1, SpecIInv, PTL

-----------------------------------------------------------------------------
(* What is recorded. *)
LEMMA FirstIs ==
  ASSUME NEW S \in SUBSET Nat, S # {}
  PROVE  First(S) \in S /\ \A j \in S : First(S) <= j
<1>1. IsWellFoundedOn(OpToRel(<, Nat), Nat)
  BY NatLessThanWellFounded
<1>2. PICK k \in S : \A j \in S : <<j, k>> \notin OpToRel(<, Nat)
  BY <1>1, WFMin
<1>3. \A j \in S : ~(j < k)
  BY <1>2 DEF OpToRel
<1>4. \A j \in S : k <= j
  BY <1>3
<1> QED
  BY <1>4 DEF First

(* A marker is in, and its document is not finished. *)
Recording == {"record", "read", "write"}

Marked(o) == o.step \in {"read", "write"} \/ (o.step = "record" /\ 1 \notin o.rows)

Working ==
  Recording \cup {"authorize", "check", "request", "response", "persist", "store",
                  "replace", "insert", "undo"}

OfArtifact(o) ==
  o.artifact \in DOMAIN artifacts /\ artifacts[o.artifact].investigation = o.id

HasSource(o) == o.sources # {} /\ o.sources \subseteq DOMAIN evidence

Traced(id, artifact) ==
  \E r \in EvidenceOf(id) :
    r.artifact = artifact /\ r.locator = <<"research.final_url", 0>>

(* What is still to insert is some of what the unit consists of, and the rest
   is in the table. *)
Partly(rows, unit, id) ==
  /\ rows # {} /\ rows \subseteq DOMAIN unit
  /\ \A k \in DOMAIN unit \ rows : unit[k] \in EvidenceOf(id)

RowsOK(o) ==
  /\ o.step \in Recording => OfArtifact(o)
  /\ o.step = "record" => HasSource(o) /\ Partly(o.rows, DocumentRows(o), o.id)
  /\ o.step = "write" => Partly(o.rows, Candidates(o.id, o.artifact), o.id)

WorkerOK(w) ==
  /\ w.sources \subseteq DOMAIN evidence
  /\ w.step \in Working =>
       HasSource(w) /\ SourceUrl(w) \in Urls \ w.done /\ w.url \in Urls
  /\ w.step \in Working \cup {"next"} =>
       Researched(w.id) \subseteq w.done \cup (IF Marked(w) THEN {SourceUrl(w)} ELSE {})
  /\ w.step \in {"read", "write"} => Traced(w.id, w.artifact)

OpOK(t, o) ==
  /\ RowsOK(o)
  /\ IF t = "worker" THEN WorkerOK(o)
     ELSE o.step \in {"idle", "replace", "insert", "undo", "write"}

MarkersOK ==
  \A k \in Markers :
    /\ evidence[k].value \in Researched(evidence[k].investigation)
    /\ evidence[k].artifact \in DOMAIN artifacts
    /\ artifacts[evidence[k].artifact].investigation = evidence[k].investigation

RInv ==
  /\ TypeOK /\ RowsHaveFiles
  /\ \A t \in Threads : OpOK(t, ops[t])
  /\ MarkersOK /\ ResearchedOnce /\ CancelKeepsUnitsWhole /\ AnalysisComplete

-----------------------------------------------------------------------------
(* No table ever loses a row. *)
Extends(s, t) == DOMAIN s \subseteq DOMAIN t /\ \A k \in DOMAIN s : t[k] = s[k]

Grown ==
  /\ Extends(stored, stored') /\ Extends(artifacts, artifacts')
  /\ Extends(evidence, evidence')

LEMMA ElementOf ==
  ASSUME NEW S, NEW s \in Seq(S), NEW k \in DOMAIN s PROVE s[k] \in S
OBVIOUS

LEMMA AppendExtends ==
  ASSUME NEW S, NEW s \in Seq(S), NEW e \in S
  PROVE  /\ Append(s, e) \in Seq(S) /\ Extends(s, Append(s, e))
         /\ DOMAIN Append(s, e) = DOMAIN s \cup {Len(s) + 1}
         /\ Len(s) + 1 \notin DOMAIN s /\ Append(s, e)[Len(s) + 1] = e
         /\ Len(s) \in Nat
BY DEF Extends

LEMMA RowIs ==
  ASSUME NEW i, NEW a, NEW p, NEW v, NEW l, NEW n
  PROVE  /\ Row(i, a, p, v, l, n).investigation = i /\ Row(i, a, p, v, l, n).artifact = a
         /\ Row(i, a, p, v, l, n).provenance = p /\ Row(i, a, p, v, l, n).value = v
         /\ Row(i, a, p, v, l, n).locator = <<l, n>> /\ Row(i, a, p, v, l, n).locator[1] = l
BY DEF Row

LEMMA RowIsEvidence ==
  ASSUME NEW i \in Ids, NEW a \in Nat, NEW p \in Provenance, NEW v \in Text,
         NEW l \in {"user", "research.request", "research.redirect",
                    "research.final_url", "finding"}, NEW n \in Nat
  PROVE  Row(i, a, p, v, l, n) \in Evidence
BY DEF Row, Evidence, Locator

LEMMA CandidatesAre ==
  ASSUME RInv, NEW a \in DOMAIN artifacts, NEW id \in Ids
  PROVE  /\ artifacts[a].key \in DOMAIN stored
         /\ DOMAIN Candidates(id, a) = DOMAIN Findings[stored[artifacts[a].key]]
         /\ DOMAIN Candidates(id, a) \subseteq Nat
         /\ \A k \in DOMAIN Candidates(id, a) :
              /\ Candidates(id, a)[k] \in Evidence
              /\ Candidates(id, a)[k].locator[1] = "finding"
              /\ Candidates(id, a)[k].investigation = id
<1>1. artifacts[a].key \in DOMAIN stored /\ a \in Nat
  BY DEF RInv, TypeOK, RowsHaveFiles
<1>2. PICK found : found = Findings[stored[artifacts[a].key]]
  OBVIOUS
<1>3. found \in Seq(Values)
  BY <1>1, <1>2, DataAssumption DEF RInv, TypeOK
<1>4. Candidates(id, a) = [k \in DOMAIN found |->
         Row(id, a, "DETERMINISTIC_ANALYSIS", found[k], "finding", k)]
  BY <1>2 DEF Candidates
<1>5. DOMAIN found \subseteq Nat /\ \A k \in DOMAIN found : found[k] \in Text
  BY <1>3 DEF Text
<1>6. \A k \in DOMAIN found :
        /\ Row(id, a, "DETERMINISTIC_ANALYSIS", found[k], "finding", k) \in Evidence
        /\ Row(id, a, "DETERMINISTIC_ANALYSIS", found[k], "finding", k).locator[1] = "finding"
        /\ Row(id, a, "DETERMINISTIC_ANALYSIS", found[k], "finding", k).investigation = id
  BY <1>1, <1>5, RowIs, RowIsEvidence DEF Provenance
<1> QED
  BY <1>1, <1>2, <1>4, <1>5, <1>6

LEMMA SourceIs ==
  ASSUME RInv, NEW o \in Operation, HasSource(o)
  PROVE  First(o.sources) \in DOMAIN evidence /\ SourceUrl(o) \in Text
<1>1. o.sources \in SUBSET Nat /\ o.sources # {}
  BY DEF Operation, HasSource
<1>2. First(o.sources) \in DOMAIN evidence
  BY <1>1, FirstIs DEF HasSource
<1>3. evidence[First(o.sources)] \in Evidence
  BY <1>2 DEF RInv, TypeOK
<1> QED
  BY <1>2, <1>3 DEF SourceUrl, Evidence

LEMMA DocumentRowsAre ==
  ASSUME RInv, NEW o \in Operation, HasSource(o), OfArtifact(o)
  PROVE  /\ DOMAIN DocumentRows(o) = 1..(o.hops + 2) /\ o.hops \in Nat
         /\ \A k \in 1..(o.hops + 2) :
              DocumentRows(o)[k] \in Evidence /\ DocumentRows(o)[k].investigation = o.id
         /\ DocumentRows(o)[1] = RemoteRow(o.id, o.artifact, SourceUrl(o), "research.request", 0)
         /\ DocumentRows(o)[o.hops + 2] =
              RemoteRow(o.id, o.artifact, o.url, "research.final_url", 0)
         /\ \A k \in 2..(o.hops + 2) : DocumentRows(o)[k].locator[1] # "research.request"
<1>1. /\ o.hops \in Nat /\ o.id \in Ids /\ o.artifact \in Nat /\ o.url \in Text
      /\ SourceUrl(o) \in Text /\ "hop" \in Text /\ "REMOTE_DOCUMENT" \in Provenance
  BY SourceIs DEF Operation, Text, Provenance
<1> DEFINE row(v, l, n) == RemoteRow(o.id, o.artifact, v, l, n)
<1> DEFINE Of(r) == r \in Evidence /\ r.investigation = o.id
<1>2. /\ Of(row(SourceUrl(o), "research.request", 0))
      /\ Of(row(o.url, "research.final_url", 0))
      /\ \A k \in Nat : Of(row("hop", "research.redirect", k))
  <2>1. /\ row(SourceUrl(o), "research.request", 0) \in Evidence
        /\ row(o.url, "research.final_url", 0) \in Evidence
        /\ \A k \in Nat : row("hop", "research.redirect", k) \in Evidence
    BY <1>1, RowIsEvidence DEF RemoteRow
  <2>2. \A v, l, n : row(v, l, n).investigation = o.id
    BY RowIs DEF RemoteRow
  <2> HIDE DEF row
  <2> QED
    BY <2>1, <2>2
<1>3. /\ row(o.url, "research.final_url", 0).locator[1] = "research.final_url"
      /\ \A k \in Nat : row("hop", "research.redirect", k).locator[1] = "research.redirect"
  BY RowIs DEF RemoteRow
<1>4. DocumentRows(o) = [k \in 1..(o.hops + 2) |->
         IF k = 1 THEN row(SourceUrl(o), "research.request", 0)
         ELSE IF k <= o.hops + 1 THEN row("hop", "research.redirect", k - 1)
         ELSE row(o.url, "research.final_url", 0)]
  BY DEF DocumentRows
<1> HIDE DEF row, Of
<1>5. DOMAIN DocumentRows(o) = 1..(o.hops + 2)
  BY <1>4
<1>6. \A k \in 2..(o.hops + 2) : k - 1 \in Nat /\ k # 1 /\ k \in 1..(o.hops + 2)
  BY <1>1
<1>7. DocumentRows(o)[1] = row(SourceUrl(o), "research.request", 0)
      /\ DocumentRows(o)[o.hops + 2] = row(o.url, "research.final_url", 0)
  BY <1>1, <1>4
<1>8. \A k \in 2..(o.hops + 2) :
        \/ DocumentRows(o)[k] = row("hop", "research.redirect", k - 1) /\ k - 1 \in Nat
        \/ DocumentRows(o)[k] = row(o.url, "research.final_url", 0)
  BY <1>4, <1>6
<1>9. \A k \in 1..(o.hops + 2) : k = 1 \/ k \in 2..(o.hops + 2)
  BY <1>1
<1>10. \A k \in 1..(o.hops + 2) : Of(DocumentRows(o)[k])
  BY <1>2, <1>7, <1>8, <1>9
<1>11. \A k \in 2..(o.hops + 2) : DocumentRows(o)[k].locator[1] # "research.request"
  BY <1>3, <1>8
<1> QED
  BY <1>1, <1>5, <1>7, <1>10, <1>11 DEF row, Of

(* What was found or recorded stays as it was while the tables grow. *)
LEMMA CandidatesStay ==
  ASSUME RInv, Grown, NEW a \in DOMAIN artifacts, NEW id \in Ids
  PROVE  Candidates(id, a)' = Candidates(id, a)
<1>1. /\ artifacts[a].key \in DOMAIN stored /\ artifacts'[a] = artifacts[a]
      /\ stored'[artifacts[a].key] = stored[artifacts[a].key]
  BY CandidatesAre DEF Grown, Extends
<1> QED
  BY <1>1 DEF Candidates

LEMMA EvidenceStays ==
  ASSUME Grown PROVE \A id : EvidenceOf(id) \subseteq EvidenceOf(id)'
<1>1. Elements(evidence) \subseteq Elements(evidence')
  BY DEF Grown, Extends, Elements
<1> QED
  BY <1>1 DEF EvidenceOf, Elements

LEMMA SourceStays ==
  ASSUME RInv, Grown, NEW o \in Operation, HasSource(o)
  PROVE  HasSource(o)' /\ SourceUrl(o)' = SourceUrl(o)
<1>1. First(o.sources) \in DOMAIN evidence
  BY SourceIs
<1> QED
  BY <1>1 DEF Grown, Extends, HasSource, SourceUrl

LEMMA ArtifactStays ==
  ASSUME Grown, NEW o, OfArtifact(o) PROVE OfArtifact(o)'
BY DEF Grown, Extends, OfArtifact

LEMMA PartlyStays ==
  ASSUME Grown, NEW rows, NEW unit, NEW id, Partly(rows, unit, id)
  PROVE  Partly(rows, unit, id)'
BY EvidenceStays DEF Partly

LEMMA DocumentRowsStay ==
  ASSUME RInv, Grown, NEW o \in Operation, HasSource(o)
  PROVE  DocumentRows(o)' = DocumentRows(o)
<1>1. SourceUrl(o)' = SourceUrl(o)
  BY SourceStays
<1> QED
  BY <1>1 DEF DocumentRows

LEMMA RowsStay ==
  ASSUME RInv, Grown, NEW o \in Operation, RowsOK(o) PROVE RowsOK(o)'
<1>1. o.step \in Recording => OfArtifact(o) /\ OfArtifact(o)'
  BY ArtifactStays DEF RowsOK
<1>2. o.step = "record" => HasSource(o)' /\ Partly(o.rows, DocumentRows(o), o.id)'
  <2> SUFFICES ASSUME o.step = "record"
               PROVE  HasSource(o)' /\ Partly(o.rows, DocumentRows(o), o.id)'
    OBVIOUS
  <2>1. PICK unit : unit = DocumentRows(o)
    OBVIOUS
  <2>2. DocumentRows(o)' = unit /\ HasSource(o)'
    BY <2>1, DocumentRowsStay, SourceStays DEF RowsOK
  <2>3. Partly(o.rows, unit, o.id)'
    BY <2>1, PartlyStays DEF RowsOK
  <2> QED
    BY <2>2, <2>3 DEF Partly
<1>3. o.step = "write" => Partly(o.rows, Candidates(o.id, o.artifact), o.id)'
  <2> SUFFICES ASSUME o.step = "write"
               PROVE  Partly(o.rows, Candidates(o.id, o.artifact), o.id)'
    OBVIOUS
  <2>1. PICK unit : unit = Candidates(o.id, o.artifact)
    OBVIOUS
  <2>2. o.artifact \in DOMAIN artifacts /\ o.id \in Ids
    BY <1>1 DEF OfArtifact, Recording, Operation
  <2>3. Candidates(o.id, o.artifact)' = unit
    BY <2>1, <2>2, CandidatesStay
  <2>4. Partly(o.rows, unit, o.id)'
    BY <2>1, PartlyStays DEF RowsOK
  <2> QED
    BY <2>3, <2>4 DEF Partly
<1> QED
  BY <1>1, <1>2, <1>3 DEF RowsOK

(* Rows were added to the Evidence, but no marker. *)
NoNewMarker ==
  \A k \in DOMAIN evidence' \ DOMAIN evidence : evidence'[k].locator[1] # "research.request"

LEMMA MarkersStay ==
  ASSUME Grown, NoNewMarker
  PROVE  /\ Markers' = Markers /\ \A k \in Markers : evidence'[k] = evidence[k]
         /\ \A id : Researched(id)' = Researched(id)
<1>1. \A k \in DOMAIN evidence : k \in DOMAIN evidence' /\ evidence'[k] = evidence[k]
  BY DEF Grown, Extends
<1>2. Markers' = Markers /\ \A k \in Markers : evidence'[k] = evidence[k]
  BY <1>1 DEF NoNewMarker, Markers
<1>3. ASSUME NEW id, NEW r, r.locator = <<"research.request", 0>>
      PROVE  r \in EvidenceOf(id)' <=> r \in EvidenceOf(id)
  <2>1. r.locator[1] = "research.request"
    BY <1>3
  <2> QED
    BY <1>1, <2>1 DEF EvidenceOf, Elements, NoNewMarker
<1>4. ASSUME NEW id PROVE Researched(id)' = Researched(id)
  BY <1>3 DEF Researched
<1> QED
  BY <1>2, <1>4

LEMMA WholeStays ==
  ASSUME RInv, Grown, NEW k \in Markers, Whole(k) PROVE Whole(k)'
<1>1. PICK id, a : id = evidence[k].investigation /\ a = evidence[k].artifact
  OBVIOUS
<1>2. k \in DOMAIN evidence /\ id \in Ids /\ a \in DOMAIN artifacts
  <2>1. k \in DOMAIN evidence
    BY DEF Markers
  <2>2. evidence[k] \in Evidence
    BY <2>1 DEF RInv, TypeOK
  <2>3. a \in DOMAIN artifacts
    BY <1>1 DEF RInv, MarkersOK
  <2> QED
    BY <1>1, <2>1, <2>2, <2>3 DEF Evidence
<1>3. evidence'[k].investigation = id /\ evidence'[k].artifact = a
  BY <1>1, <1>2 DEF Grown, Extends
<1>4. PICK c : c = Candidates(id, a)
  OBVIOUS
<1>5. Candidates(id, a)' = c
  BY <1>2, <1>4, CandidatesStay
<1>6. /\ \E r \in EvidenceOf(id) : r.artifact = a /\ r.locator = <<"research.final_url", 0>>
      /\ Elements(c) \subseteq EvidenceOf(id)
  BY <1>1, <1>4 DEF Whole
<1>7. EvidenceOf(id) \subseteq EvidenceOf(id)'
  BY EvidenceStays
<1> QED
  BY <1>3, <1>5, <1>6, <1>7 DEF Whole

(* Everything the analyzer finds in the artifact is recorded. *)
Complete(a) == Elements(Candidates(artifacts[a].investigation, a))
                 \subseteq EvidenceOf(artifacts[a].investigation)

LEMMA CompleteStays ==
  ASSUME RInv, Grown, NEW a \in DOMAIN artifacts, Complete(a) PROVE Complete(a)'
<1>1. PICK id : id = artifacts[a].investigation
  OBVIOUS
<1>2. id \in Ids /\ artifacts'[a].investigation = id
  <2>1. artifacts[a] \in [investigation : Ids, key : Nat]
    <3>1. artifacts \in Seq([investigation : Ids, key : Nat])
      BY DEF RInv, TypeOK
    <3> QED
      BY <3>1, ElementOf, Zenon
  <2>2. artifacts'[a] = artifacts[a]
    BY DEF Grown, Extends
  <2> QED
    BY <1>1, <2>1, <2>2
<1>3. PICK c : c = Candidates(id, a)
  OBVIOUS
<1>4. Candidates(id, a)' = c
  BY <1>2, <1>3, CandidatesStay
<1>5. Elements(c) \subseteq EvidenceOf(id)
  BY <1>1, <1>3 DEF Complete
<1>6. EvidenceOf(id) \subseteq EvidenceOf(id)'
  BY EvidenceStays
<1> QED
  BY <1>2, <1>4, <1>5, <1>6 DEF Complete

-----------------------------------------------------------------------------
(* What every step keeps. *)
LEMMA WorkerStays ==
  ASSUME RInv, Grown, NoNewMarker, NEW o \in Operation, WorkerOK(o) PROVE WorkerOK(o)'
<1>1. o.sources \subseteq DOMAIN evidence' /\ Researched(o.id)' = Researched(o.id)
  BY MarkersStay DEF WorkerOK, Grown, Extends
<1>2. o.step \in Working \cup {"read", "write"} => HasSource(o)' /\ SourceUrl(o)' = SourceUrl(o)
  BY SourceStays DEF WorkerOK, Working, Recording
<1>3. Marked(o) => o.step \in Working
  BY DEF Marked, Working, Recording
<1>4. ASSUME o.step \in Working \cup {"next"}
      PROVE  Researched(o.id)' \subseteq o.done \cup (IF Marked(o) THEN {SourceUrl(o)'} ELSE {})
  BY <1>1, <1>2, <1>3, <1>4 DEF WorkerOK
<1>5. Traced(o.id, o.artifact) => Traced(o.id, o.artifact)'
  BY EvidenceStays DEF Traced
<1>6. o.step \in Working => SourceUrl(o)' \in Urls \ o.done /\ o.url \in Urls
  BY <1>2 DEF WorkerOK
<1> QED
  BY <1>1, <1>2, <1>4, <1>5, <1>6 DEF WorkerOK, Marked

LEMMA OpStays ==
  ASSUME RInv, Grown, NoNewMarker, NEW t \in Threads, NEW o \in Operation, OpOK(t, o)
  PROVE  OpOK(t, o)'
BY RowsStay, WorkerStays DEF OpOK

LEMMA MarkersOKStays == ASSUME RInv, Grown, NoNewMarker PROVE MarkersOK' /\ ResearchedOnce'
<1>1. ResearchedOnce'
  BY MarkersStay DEF RInv, ResearchedOnce
<1>2. ASSUME NEW k \in Markers
      PROVE  (/\ evidence[k].value \in Researched(evidence[k].investigation)
              /\ evidence[k].artifact \in DOMAIN artifacts
              /\ artifacts[evidence[k].artifact].investigation = evidence[k].investigation)'
  <2>1. PICK r : r = evidence[k] /\ r = evidence'[k]
    BY <1>2, MarkersStay
  <2>2. /\ r.value \in Researched(r.investigation) /\ r.artifact \in DOMAIN artifacts
        /\ artifacts[r.artifact].investigation = r.investigation
    BY <1>2, <2>1 DEF RInv, MarkersOK
  <2>3. Researched(r.investigation)' = Researched(r.investigation)
    BY MarkersStay
  <2>4. r.artifact \in DOMAIN artifacts' /\ artifacts'[r.artifact] = artifacts[r.artifact]
    BY <2>2 DEF Grown, Extends
  <2> QED
    BY <2>1, <2>2, <2>3, <2>4
<1>3. MarkersOK'
  BY <1>2, MarkersStay DEF MarkersOK
<1> QED
  BY <1>1, <1>3

(* The types of the tables and of the counters. *)
TablesOK ==
  /\ stored \in Seq(Contents)
  /\ \A keys \in {temporaries, files, abandoned} : keys \subseteq DOMAIN stored
  /\ artifacts \in Seq([investigation : Ids, key : Nat])
  /\ evidence \in Seq(Evidence)
  /\ audit \in Seq([destination : Urls, actor : Actor])
  /\ fetches \in Seq([destination : Urls, actor : Actor])
  /\ analyzed \subseteq DOMAIN artifacts
  /\ research \in Nat /\ raised \in Nat /\ crashes \in Nat

LEMMA OpsStep ==
  ASSUME RInv, TablesOK', NEW t \in Threads, NEW s \in Operation, Continue(t, s)
  PROVE  TypeOK' /\ \A u \in Threads : ops'[u] = IF u = t THEN s ELSE ops[u]
<1>1. ops \in [Threads -> Operation]
  BY DEF RInv, TypeOK
<1>2. ops' \in [Threads -> Operation]
  BY <1>1 DEF Continue
<1>3. \A u \in Threads : ops'[u] = IF u = t THEN s ELSE ops[u]
  BY <1>1 DEF Continue
<1> QED
  BY <1>2, <1>3 DEF TablesOK, TypeOK

(* As long as nothing raised, the unit goes on, or its document is whole. *)
UnitKept(s) ==
  ops["worker"].step \in Recording =>
    \/ s.step \in Recording /\ s.artifact = ops["worker"].artifact
    \/ \A k \in Markers : evidence[k].artifact = ops["worker"].artifact => Whole(k)'

LEMMA UnitsStay ==
  ASSUME RInv, Grown, NoNewMarker, NEW t \in Threads, NEW s,
         \A u \in Threads : ops'[u] = IF u = t THEN s ELSE ops[u],
         raised' + crashes' = 0 => raised + crashes = 0 /\ (t = "worker" => UnitKept(s))
  PROVE  CancelKeepsUnitsWhole'
<1> SUFFICES ASSUME raised' + crashes' = 0, NEW k \in Markers'
             PROVE  \/ Whole(k)'
                    \/ /\ ops'["worker"].step \in Recording
                       /\ ops'["worker"].artifact = evidence'[k].artifact
  BY DEF CancelKeepsUnitsWhole, Recording
<1>1. k \in Markers /\ evidence'[k] = evidence[k]
  BY MarkersStay
<1>2. CASE Whole(k)
  BY <1>1, <1>2, WholeStays
<1>3. CASE ~Whole(k)
  <2>1. /\ ops["worker"].step \in Recording
        /\ ops["worker"].artifact = evidence[k].artifact
    BY <1>1, <1>3 DEF RInv, CancelKeepsUnitsWhole, Recording
  <2>2. CASE t = "worker"
    BY <1>1, <2>1, <2>2 DEF UnitKept, Threads
  <2>3. CASE t # "worker"
    BY <1>1, <2>1, <2>3 DEF Threads
  <2> QED
    BY <2>2, <2>3
<1> QED
  BY <1>2, <1>3

LEMMA Keeps ==
  ASSUME RInv, TablesOK', RowsHaveFiles', Grown, NoNewMarker,
         NEW t \in Threads, NEW s \in Operation, Continue(t, s), OpOK(t, s)',
         \A a \in analyzed' : a \in analyzed \/ Complete(a)',
         raised' + crashes' = 0 => raised + crashes = 0 /\ (t = "worker" => UnitKept(s))
  PROVE  RInv'
<1>1. TypeOK' /\ \A u \in Threads : ops'[u] = IF u = t THEN s ELSE ops[u]
  BY OpsStep
<1>2. ASSUME NEW u \in Threads PROVE OpOK(u, ops[u])'
  <2>1. CASE u = t
    BY <1>1, <2>1
  <2>2. CASE u # t
    <3>1. PICK o : o = ops[u] /\ o = ops'[u]
      BY <1>1, <2>2
    <3>2. o \in Operation /\ OpOK(u, o)
      BY <3>1 DEF RInv, TypeOK
    <3>3. OpOK(u, o)'
      BY <3>2, OpStays
    <3> QED
      BY <3>1, <3>3
  <2> QED
    BY <2>1, <2>2
<1>3. MarkersOK' /\ ResearchedOnce'
  BY MarkersOKStays
<1>4. CancelKeepsUnitsWhole'
  BY <1>1, UnitsStay
<1>5. AnalysisComplete'
  <2>1. ASSUME NEW a \in analyzed' PROVE Complete(a)'
    <3>1. CASE a \in analyzed
      <4>1. a \in DOMAIN artifacts /\ Complete(a)
        BY <3>1 DEF RInv, TypeOK, AnalysisComplete, Complete
      <4> QED
        BY <4>1, CompleteStays
    <3> QED
      BY <2>1, <3>1
  <2> QED
    BY <2>1 DEF AnalysisComplete, Complete
<1> QED
  BY <1>1, <1>2, <1>3, <1>4, <1>5 DEF RInv

(* The tables the proofs read stay as they are. *)
Still == UNCHANGED <<stored, artifacts, evidence>>

LEMMA KeepsStill ==
  ASSUME RInv, TablesOK', RowsHaveFiles', Still,
         NEW t \in Threads, NEW s \in Operation, Continue(t, s), OpOK(t, s),
         \A a \in analyzed' : a \in analyzed \/ Complete(a),
         raised' + crashes' = 0 =>
           /\ raised + crashes = 0
           /\ t = "worker" /\ ops["worker"].step \in Recording =>
                \/ s.step \in Recording /\ s.artifact = ops["worker"].artifact
                \/ \A k \in Markers : evidence[k].artifact = ops["worker"].artifact => Whole(k)
  PROVE  RInv'
<1>1. Grown /\ NoNewMarker
  BY DEF Still, Grown, Extends, NoNewMarker
<1>2. \A id : EvidenceOf(id)' = EvidenceOf(id)
  BY DEF Still, EvidenceOf, Elements
<1>3. \A id, a : Candidates(id, a)' = Candidates(id, a)
  BY DEF Still, Candidates
<1>4. \A k \in Markers : Whole(k) => Whole(k)'
  BY <1>1, WholeStays
<1>5. \A a : Complete(a) => Complete(a)'
  BY <1>2, <1>3 DEF Complete, Still
<1>6. OpOK(t, s)'
  BY <1>1, OpStays
<1>7. raised' + crashes' = 0 => raised + crashes = 0 /\ (t = "worker" => UnitKept(s))
  BY <1>4 DEF UnitKept
<1> QED
  BY <1>1, <1>5, <1>6, <1>7, Keeps

(* The same, when no analysis finishes and no unit is under way. *)
LEMMA KeepsQuietly ==
  ASSUME RInv, TablesOK', RowsHaveFiles', Still, UNCHANGED analyzed,
         NEW t \in Threads, NEW s \in Operation, Continue(t, s), OpOK(t, s),
         raised' + crashes' = 0 =>
           /\ raised + crashes = 0
           /\ t = "worker" /\ ops["worker"].step \in Recording =>
                s.step \in Recording /\ s.artifact = ops["worker"].artifact
  PROVE  RInv'
BY KeepsStill

-----------------------------------------------------------------------------
(* The worker's steps outside a unit. *)
LEMMA NothingOK == Nothing \in Operation /\ \A t \in Threads : OpOK(t, Nothing)
<1>1. /\ Nothing.step = "idle" /\ Nothing.sources = {} /\ DOMAIN Nothing = Fields
      /\ Nothing \in Operation
  BY DataAssumption DEF Nothing, Operation, Steps, Actor, Fields
<1> QED
  BY <1>1 DEF OpOK, RowsOK, WorkerOK, Working, Recording, Marked

LEMMA OpsAre ==
  ASSUME RInv, NEW t \in Threads PROVE ops[t] \in Operation /\ OpOK(t, ops[t])
BY DEF RInv, TypeOK

LEMMA SameTables ==
  ASSUME RInv, UNCHANGED <<stored, temporaries, files, artifacts, evidence, analyzed>>,
         abandoned' \subseteq DOMAIN stored, audit' \in Seq([destination : Urls, actor : Actor]),
         fetches' \in Seq([destination : Urls, actor : Actor]),
         research' \in Nat, raised' \in Nat, crashes' \in Nat
  PROVE  TablesOK' /\ RowsHaveFiles' /\ Still
BY DEF RInv, TypeOK, TablesOK, RowsHaveFiles, Still

(* A step of one thread that changes nothing else. *)
Alone == UNCHANGED <<data, history>>

LEMMA AloneKeeps ==
  ASSUME RInv, Alone, NEW t \in Threads, NEW s \in Operation, Continue(t, s), OpOK(t, s),
         t = "worker" => ops["worker"].step \notin Recording
  PROVE  RInv'
<1>1. TablesOK' /\ RowsHaveFiles' /\ Still
  BY SameTables DEF Alone, data, history, RInv, TypeOK
<1>2. UNCHANGED <<analyzed, raised, crashes>>
  BY DEF Alone, history
<1> QED
  BY <1>1, <1>2, KeepsQuietly

LEMMA AloneReturns ==
  ASSUME RInv, Alone, NEW t \in Threads, Return(t),
         t = "worker" => ops["worker"].step \notin Recording
  PROVE  RInv'
BY AloneKeeps, NothingOK, Returns

(* Between the choice of a URL and its document's row, nothing of what the
   worker knows changes. *)
Carries(w, s) ==
  /\ s.sources = w.sources /\ s.done = w.done /\ s.id = w.id
  /\ s.url \in Urls /\ s.step \in Working \ Recording

LEMMA CarriesOK ==
  ASSUME NEW w, NEW s, WorkerOK(w), w.step \in Working \ Recording, Carries(w, s)
  PROVE  OpOK("worker", s)
<1>1. ~Marked(w) /\ ~Marked(s) /\ s.step \notin Recording
  BY DEF Marked, Carries, Recording
<1>2. SourceUrl(s) = SourceUrl(w) /\ (HasSource(w) => HasSource(s))
  BY DEF SourceUrl, HasSource, Carries
<1> QED
  BY <1>1, <1>2 DEF OpOK, RowsOK, WorkerOK, Carries, Recording

LEMMA WorkerCarries ==
  ASSUME RInv, Alone, NEW s \in Operation, Continue("worker", s),
         ops["worker"].step \in Working \ Recording, Carries(ops["worker"], s)
  PROVE  RInv'
<1>1. "worker" \in Threads /\ OpOK("worker", s)
  BY OpsAre, CarriesOK DEF OpOK, Threads
<1> QED
  BY <1>1, AloneKeeps

LEMMA ReadSourcesRInv == ASSUME RInv, ReadSources PROVE RInv'
<1>1. PICK w : w = ops["worker"]
  OBVIOUS
<1>2. /\ "worker" \in Threads /\ Alone /\ w.step = "sources" /\ w.step \notin Recording
      /\ w \in Operation /\ WorkerOK(w)
  BY <1>1, OpsAre DEF ReadSources, Alone, Threads, Recording, OpOK
<1>3. CASE Return("worker")
  BY <1>1, <1>2, <1>3, AloneReturns
<1>4. ASSUME NEW v \in SUBSET DOMAIN evidence,
             Continue("worker", [w EXCEPT !.step = "next", !.artifact = 0, !.sources = v,
                                          !.done = Researched(w.id)])
      PROVE  RInv'
  <2>1. PICK d : d = Researched(w.id)
    OBVIOUS
  <2>2. v \subseteq Nat /\ d \subseteq Values
    BY <2>1, DataAssumption DEF Researched, RInv, TypeOK
  <2>3. PICK s : s = [w EXCEPT !.step = "next", !.artifact = 0, !.sources = v, !.done = d]
    OBVIOUS
  <2>4. s \in Operation /\ s.step = "next" /\ s.sources = v /\ s.done = d /\ s.id = w.id
    BY <1>2, <2>2, <2>3 DEF Operation, Steps
  <2>5. OpOK("worker", s)
    BY <2>1, <2>4 DEF OpOK, RowsOK, WorkerOK, Working, Recording, Marked
  <2> QED
    BY <1>1, <1>2, <1>4, <2>1, <2>3, <2>4, <2>5, AloneKeeps
<1>5. w.sources \subseteq DOMAIN evidence /\ SourcesOf(w.id, w.artifact) \subseteq DOMAIN evidence
  BY <1>2 DEF WorkerOK, SourcesOf
<1>6. \/ Return("worker")
      \/ \E v \in SUBSET DOMAIN evidence :
           Continue("worker", [w EXCEPT !.step = "next", !.artifact = 0, !.sources = v,
                                        !.done = Researched(w.id)])
  BY <1>1, <1>5 DEF ReadSources
<1> QED
  BY <1>3, <1>4, <1>6

LEMMA AfterFirstIs ==
  ASSUME NEW S, NEW T, S \subseteq T PROVE AfterFirst(S) \subseteq T
BY DEF AfterFirst

LEMMA NextSourceRInv == ASSUME RInv, NextSource PROVE RInv'
<1>1. PICK w : w = ops["worker"]
  OBVIOUS
<1>2. /\ "worker" \in Threads /\ Alone /\ w.step = "next" /\ w.step \notin Recording
      /\ w \in Operation /\ WorkerOK(w)
  BY <1>1, OpsAre DEF NextSource, Alone, Threads, Recording, OpOK
<1>3. w.sources \subseteq DOMAIN evidence /\ Researched(w.id) \subseteq w.done
  BY <1>2 DEF WorkerOK, Marked
<1>4. CASE Return("worker")
  BY <1>1, <1>2, <1>4, AloneReturns
<1>5. CASE Continue("worker", [w EXCEPT !.sources = AfterFirst(w.sources)])
  <2>1. PICK v : v = AfterFirst(w.sources)
    OBVIOUS
  <2>2. v \subseteq DOMAIN evidence /\ v \subseteq Nat
    <3>1. w.sources \subseteq Nat
      BY <1>2 DEF Operation
    <3> QED
      BY <1>3, <2>1, <3>1, AfterFirstIs
  <2>3. PICK s : s = [w EXCEPT !.sources = v]
    OBVIOUS
  <2>4. s \in Operation /\ s.step = "next" /\ s.sources = v /\ s.done = w.done /\ s.id = w.id
    BY <1>2, <2>2, <2>3 DEF Operation, Steps
  <2>5. OpOK("worker", s)
    BY <1>3, <2>2, <2>4 DEF OpOK, RowsOK, WorkerOK, Working, Recording, Marked
  <2> QED
    BY <1>1, <1>2, <1>5, <2>1, <2>3, <2>4, <2>5, AloneKeeps
<1>6. CASE /\ w.sources # {} /\ SourceUrl(w) \in Urls /\ SourceUrl(w) \notin w.done
           /\ Continue("worker", [w EXCEPT !.step = "authorize", !.url = SourceUrl(w)])
  <2>1. PICK u : u = SourceUrl(w)
    OBVIOUS
  <2>2. u \in Urls \ w.done /\ u \in Values
    BY <1>6, <2>1, DataAssumption
  <2>3. PICK s : s = [w EXCEPT !.step = "authorize", !.url = u]
    OBVIOUS
  <2>4. /\ s \in Operation /\ s.step = "authorize" /\ s.sources = w.sources
        /\ s.done = w.done /\ s.id = w.id /\ s.url = u
    BY <1>2, <2>2, <2>3 DEF Operation, Steps
  <2>5. SourceUrl(s) = u /\ HasSource(s)
    BY <1>3, <1>6, <2>1, <2>4 DEF SourceUrl, HasSource
  <2>6. OpOK("worker", s)
    BY <1>3, <2>2, <2>4, <2>5 DEF OpOK, RowsOK, WorkerOK, Working, Recording, Marked
  <2> QED
    BY <1>1, <1>2, <1>6, <2>1, <2>3, <2>4, <2>6, AloneKeeps
<1> QED
  BY <1>1, <1>4, <1>5, <1>6 DEF NextSource

LEMMA AuthorizeRInv == ASSUME RInv, Authorize PROVE RInv'
<1>1. PICK w : w = ops["worker"]
  OBVIOUS
<1>2. /\ "worker" \in Threads /\ w.step = "authorize" /\ w \in Operation /\ WorkerOK(w)
      /\ w.step \in Working \ Recording
  BY <1>1, OpsAre DEF Authorize, Threads, Recording, Working, OpOK
<1>3. w.url \in Urls /\ w.actor \in Actor
  BY <1>2 DEF WorkerOK, Operation
<1>4. PICK s : s = [w EXCEPT !.step = "check"]
  OBVIOUS
<1>5. s \in Operation /\ Carries(w, s)
  BY <1>2, <1>3, <1>4 DEF Operation, Steps, Carries, Working, Recording
<1>6. /\ audit' = Append(audit, [destination |-> w.url, actor |-> w.actor])
      /\ UNCHANGED <<stored, temporaries, files, artifacts, evidence, history>>
      /\ Continue("worker", s)
  BY <1>1, <1>4 DEF Authorize, Decided
<1>7. audit' \in Seq([destination : Urls, actor : Actor])
  <2>1. audit \in Seq([destination : Urls, actor : Actor])
    BY DEF RInv, TypeOK
  <2> QED
    BY <1>3, <1>6, <2>1
<1>8. TablesOK' /\ RowsHaveFiles' /\ Still
  BY <1>6, <1>7, SameTables DEF history, RInv, TypeOK
<1>9. OpOK("worker", s)
  BY <1>2, <1>5, CarriesOK
<1> QED
  BY <1>1, <1>2, <1>5, <1>6, <1>8, <1>9, KeepsQuietly DEF history

LEMMA SendRequestRInv == ASSUME RInv, SendRequest PROVE RInv'
<1>1. PICK w : w = ops["worker"]
  OBVIOUS
<1>2. /\ "worker" \in Threads /\ w.step = "request" /\ w \in Operation /\ WorkerOK(w)
      /\ w.step \in Working \ Recording
  BY <1>1, OpsAre DEF SendRequest, Threads, Recording, Working, OpOK
<1>3. w.url \in Urls /\ w.actor \in Actor /\ w.late \in Nat
  BY <1>2 DEF WorkerOK, Operation
<1>4. PICK l : l = LateIn(w) /\ l \in Nat
  BY <1>3 DEF LateIn
<1>5. PICK s : s = [w EXCEPT !.step = "response", !.asked = TRUE, !.late = l]
  OBVIOUS
<1>6. s \in Operation /\ Carries(w, s)
  BY <1>2, <1>3, <1>4, <1>5 DEF Operation, Steps, Carries, Working, Recording
<1>7. /\ \/ fetches' = fetches
         \/ fetches' = Append(fetches, [destination |-> w.url, actor |-> w.actor])
      /\ UNCHANGED <<data, analyzed, abandoned, research, raised, crashes>>
      /\ Continue("worker", s)
  BY <1>1, <1>4, <1>5 DEF SendRequest
<1>8. fetches' \in Seq([destination : Urls, actor : Actor])
  <2>1. fetches \in Seq([destination : Urls, actor : Actor])
    BY DEF RInv, TypeOK
  <2>2. PICK f : f = [destination |-> w.url, actor |-> w.actor]
    OBVIOUS
  <2>3. f \in [destination : Urls, actor : Actor]
    BY <1>3, <2>2
  <2>4. Append(fetches, f) \in Seq([destination : Urls, actor : Actor])
    BY <2>1, <2>3, AppendExtends
  <2> QED
    BY <1>7, <2>1, <2>2, <2>4
<1>9. TablesOK' /\ RowsHaveFiles' /\ Still
  BY <1>7, <1>8, SameTables DEF data, RInv, TypeOK
<1>10. OpOK("worker", s)
  BY <1>2, <1>6, CarriesOK
<1> QED
  BY <1>1, <1>2, <1>6, <1>7, <1>9, <1>10, KeepsQuietly

LEMMA WorkerAsks ==
  ASSUME IInv, Asks(ops["worker"])
  PROVE  ops["worker"].addresses \in Nat /\ ops["worker"].left \in 1..ops["worker"].addresses
BY DEF IInv, Prompt, Threads

LEMMA RoundRInv ==
  ASSUME RInv, IInv, \/ \E addresses \in 0..MaxAddresses : CheckUrl(addresses)
                     \/ AddressFails
                     \/ \E destination \in Urls : ReceiveRedirect(destination)
                     \/ \E content \in Contents : ReceiveDocument(content)
                     \/ ReceiveFailure \/ BeginUnit
  PROVE  RInv'
<1>1. PICK w : w = ops["worker"]
  OBVIOUS
<1>2. /\ "worker" \in Threads /\ Alone /\ w \in Operation /\ WorkerOK(w)
      /\ w.step \in Working \ Recording
  BY <1>1, OpsAre DEF CheckUrl, AddressFails, ReceiveRedirect, ReceiveDocument,
                      ReceiveFailure, BeginUnit, Alone, Threads, Recording, Working, OpOK
<1>3. w.url \in Urls
  BY <1>2 DEF WorkerOK
<1>4. CASE Return("worker")
  BY <1>1, <1>2, <1>4, AloneReturns
<1>5. ASSUME Continue("worker", [w EXCEPT !.step = "store"]) PROVE RInv'
  <2>1. PICK s : s = [w EXCEPT !.step = "store"]
    OBVIOUS
  <2>2. s \in Operation /\ Carries(w, s)
    BY <1>2, <1>3, <2>1 DEF Operation, Steps, Carries, Working, Recording
  <2> QED
    BY <1>1, <1>2, <1>5, <2>1, <2>2, WorkerCarries
<1>6. ASSUME NEW n \in 0..MaxAddresses,
             Continue("worker", [w EXCEPT !.step = "request",
                                          !.addresses = n, !.left = n])
      PROVE  RInv'
  <2>1. PICK s : s = [w EXCEPT !.step = "request", !.addresses = n, !.left = n]
    OBVIOUS
  <2>2. n \in Nat
    BY BoundsAssumption
  <2>3. s \in Operation /\ Carries(w, s)
    BY <1>2, <1>3, <2>1, <2>2 DEF Operation, Steps, Carries, Working, Recording
  <2> QED
    BY <1>1, <1>2, <1>6, <2>1, <2>3, WorkerCarries
<1>7. ASSUME NEW n \in Nat,
             Continue("worker", [w EXCEPT !.step = "request", !.left = n])
      PROVE  RInv'
  <2>1. PICK s : s = [w EXCEPT !.step = "request", !.left = n]
    OBVIOUS
  <2>2. s \in Operation /\ Carries(w, s)
    BY <1>2, <1>3, <2>1 DEF Operation, Steps, Carries, Working, Recording
  <2> QED
    BY <1>1, <1>2, <1>7, <2>1, <2>2, WorkerCarries
<1>8. ASSUME NEW d \in Urls,
             Continue("worker", [w EXCEPT !.step = "check", !.url = d,
                                   !.hops = CountedHop(w.hops), !.addresses = 0, !.left = 0])
      PROVE  RInv'
  <2>1. PICK n : n = CountedHop(w.hops)
    OBVIOUS
  <2>2. n \in Nat /\ d \in Values
    BY <1>2, <2>1, DataAssumption DEF Operation, CountedHop
  <2>3. PICK s : s = [w EXCEPT !.step = "check", !.url = d, !.hops = n,
                               !.addresses = 0, !.left = 0]
    OBVIOUS
  <2>4. s \in Operation /\ Carries(w, s)
    BY <1>2, <2>2, <2>3 DEF Operation, Steps, Carries, Working, Recording
  <2> QED
    BY <1>1, <1>2, <1>8, <2>1, <2>3, <2>4, WorkerCarries
<1>9. ASSUME NEW c \in Contents,
             Continue("worker", [w EXCEPT !.step = "persist", !.content = c,
                                          !.addresses = 0, !.left = 0])
      PROVE  RInv'
  <2>1. PICK s : s = [w EXCEPT !.step = "persist", !.content = c,
                               !.addresses = 0, !.left = 0]
    OBVIOUS
  <2>2. s \in Operation /\ Carries(w, s)
    BY <1>2, <1>3, <2>1 DEF Operation, Steps, Carries, Working, Recording
  <2> QED
    BY <1>1, <1>2, <1>9, <2>1, <2>2, WorkerCarries
<1>10. CASE \E addresses \in 0..MaxAddresses : CheckUrl(addresses)
  BY <1>1, <1>4, <1>6, <1>10 DEF CheckUrl
<1>11. CASE AddressFails
  <2>1. w.left # 1 => NextAddress(w.left) \in Nat
    BY <1>1, <1>11, WorkerAsks DEF AddressFails, NextAddress, Asks
  <2> QED
    BY <1>1, <1>4, <1>7, <1>11, <2>1 DEF AddressFails
<1>12. CASE \E destination \in Urls : ReceiveRedirect(destination)
  BY <1>1, <1>4, <1>8, <1>12 DEF ReceiveRedirect
<1>13. CASE \E content \in Contents : ReceiveDocument(content)
  BY <1>1, <1>4, <1>9, <1>13 DEF ReceiveDocument
<1>14. CASE ReceiveFailure \/ BeginUnit
  BY <1>1, <1>4, <1>5, <1>14 DEF ReceiveFailure, BeginUnit
<1> QED
  BY <1>10, <1>11, <1>12, <1>13, <1>14

-----------------------------------------------------------------------------
(* The files, and what the user does. *)
LEMMA FilesAre ==
  ASSUME IInv'
  PROVE  /\ temporaries' \subseteq DOMAIN stored' /\ files' \subseteq DOMAIN stored'
         /\ RowsHaveFiles'
BY DEF IInv, FilesInv

LEMMA StartsRInv ==
  ASSUME RInv, NEW op \in Operation, StartWorker(op),
         op.sources \subseteq DOMAIN evidence
  PROVE  RInv'
<1>1. /\ "worker" \in Threads /\ ops["worker"].step = "idle"
      /\ UNCHANGED <<data, fetches, analyzed, abandoned, raised, crashes>>
      /\ research' = research + 1
  BY DEF StartWorker, Threads
<1>2. PICK s : s = [op EXCEPT !.step = "sources"]
  OBVIOUS
<1>3. s \in Operation /\ s.step = "sources" /\ s.sources = op.sources
  BY <1>2 DEF Operation, Steps
<1>4. OpOK("worker", s) /\ Continue("worker", s)
  BY <1>2, <1>3 DEF OpOK, RowsOK, WorkerOK, Working, Recording, Marked, StartWorker
<1>5. TablesOK' /\ RowsHaveFiles' /\ Still
  BY <1>1, SameTables DEF data, RInv, TypeOK
<1> QED
  BY <1>1, <1>3, <1>4, <1>5, KeepsQuietly DEF Recording

LEMMA StartResearchRInv ==
  ASSUME RInv, \/ \E id \in Ids, a \in DOMAIN artifacts : StartArtifactResearch(id, a)
               \/ \E k \in DOMAIN evidence : StartModelResearch(k)
  PROVE  RInv'
<1>1. Nothing \in Operation /\ Nothing.sources = {}
  BY NothingOK DEF Nothing
<1>2. ASSUME NEW id \in Ids, NEW a \in DOMAIN artifacts, StartArtifactResearch(id, a)
      PROVE  RInv'
  <2>1. PICK o : o = [Nothing EXCEPT !.id = id, !.artifact = a]
    OBVIOUS
  <2>2. a \in Nat
    BY DEF RInv, TypeOK
  <2>3. o \in Operation /\ o.sources = {}
    BY <1>1, <2>1, <2>2 DEF Operation
  <2> QED
    BY <1>2, <2>1, <2>3, StartsRInv DEF StartArtifactResearch
<1>3. ASSUME NEW k \in DOMAIN evidence, StartModelResearch(k) PROVE RInv'
  <2>1. PICK i : i = evidence[k].investigation
    OBVIOUS
  <2>2. k \in Nat /\ i \in Ids
    <3>1. evidence \in Seq(Evidence)
      BY DEF RInv, TypeOK
    <3>2. evidence[k] \in Evidence
      BY <3>1, ElementOf, Zenon
    <3> QED
      BY <2>1, <3>1, <3>2 DEF Evidence
  <2>3. PICK o : o = [Nothing EXCEPT !.id = i, !.actor = "MODEL", !.sources = {k}]
    OBVIOUS
  <2>4. o \in Operation /\ o.sources = {k}
    BY <1>1, <2>2, <2>3 DEF Operation, Actor
  <2> QED
    BY <1>3, <2>1, <2>3, <2>4, StartsRInv DEF StartModelResearch
<1> QED
  BY <1>2, <1>3

(* Two operations with the same work left. *)
LEMMA SameWork ==
  ASSUME NEW t, NEW o, NEW s, OpOK(t, o),
         /\ s.step = o.step /\ s.id = o.id /\ s.artifact = o.artifact
         /\ s.sources = o.sources /\ s.done = o.done /\ s.url = o.url
         /\ s.hops = o.hops /\ s.rows = o.rows
  PROVE  OpOK(t, s)
<1>1. SourceUrl(s) = SourceUrl(o) /\ (Marked(s) <=> Marked(o))
  BY DEF SourceUrl, Marked
<1>2. HasSource(o) => HasSource(s)
  BY DEF HasSource
<1>3. DocumentRows(s) = DocumentRows(o)
  BY <1>1 DEF DocumentRows
<1>4. OfArtifact(o) => OfArtifact(s)
  BY DEF OfArtifact
<1>5. RowsOK(s)
  BY <1>2, <1>3, <1>4 DEF OpOK, RowsOK
<1>6. t = "worker" => WorkerOK(s)
  BY <1>1, <1>2 DEF OpOK, WorkerOK
<1> QED
  BY <1>5, <1>6 DEF OpOK

LEMMA InterruptRInv == ASSUME RInv, RequestInterruption PROVE RInv'
<1>1. PICK w : w = ops["worker"]
  OBVIOUS
<1>2. "worker" \in Threads /\ w \in Operation /\ OpOK("worker", w)
  BY <1>1, OpsAre DEF Threads
<1>3. PICK s : s = [w EXCEPT !.cancelled = TRUE]
  OBVIOUS
<1>4. /\ s \in Operation
      /\ s.step = w.step /\ s.id = w.id /\ s.artifact = w.artifact
      /\ s.sources = w.sources /\ s.done = w.done /\ s.url = w.url
      /\ s.hops = w.hops /\ s.rows = w.rows
  BY <1>2, <1>3 DEF Operation
<1>5. OpOK("worker", s)
  BY <1>2, <1>4, SameWork
<1>6. Continue("worker", s) /\ UNCHANGED <<data, history>>
  BY <1>1, <1>3 DEF RequestInterruption
<1>7. TablesOK' /\ RowsHaveFiles' /\ Still
  BY <1>6, SameTables DEF data, history, RInv, TypeOK
<1> QED
  BY <1>1, <1>2, <1>4, <1>5, <1>6, <1>7, KeepsQuietly DEF history

LEMMA UndoRInv == ASSUME RInv, IInv', NEW t \in Threads, UndoImport(t) PROVE RInv'
<1>1. /\ UNCHANGED <<stored, temporaries, artifacts, evidence, audit, history>>
      /\ Continue(t, Nothing)
  BY Returns DEF UndoImport
<1>2. TablesOK' /\ Still
  BY <1>1, FilesAre DEF history, RInv, TypeOK, TablesOK, Still
<1>3. ops[t].step \notin Recording
  BY DEF UndoImport, Recording
<1> QED
  BY <1>1, <1>2, <1>3, FilesAre, NothingOK, KeepsQuietly DEF history

LEMMA KeysAre ==
  ASSUME IInv PROVE \A t \in Threads : Importing(ops[t]) => ops[t].key \in DOMAIN stored
BY DEF IInv, FilesInv, Place

LEMMA RaiseRInv == ASSUME RInv, IInv, NEW t \in Threads, Raise(t) PROVE RInv'
<1>1. PICK o : o = ops[t]
  OBVIOUS
<1>2. o \in Operation /\ OpOK(t, o)
  BY <1>1, OpsAre
<1>3. raised' = raised + 1 /\ UNCHANGED <<data, fetches, analyzed, research, crashes>>
  BY DEF Raise
<1>4. TablesOK' /\ RowsHaveFiles' /\ Still /\ raised' + crashes' # 0
  <2>1. abandoned' \subseteq DOMAIN stored
    <3>1. abandoned' \subseteq abandoned \cup (IF Importing(ops[t]) THEN {ops[t].key} ELSE {})
      BY DEF Raise, Importing
    <3> QED
      BY <3>1, KeysAre DEF RInv, TypeOK
  <2> QED
    BY <1>3, <2>1, SameTables DEF data, RInv, TypeOK
<1>5. CASE Return(t)
  BY <1>3, <1>4, <1>5, NothingOK, Returns, KeepsQuietly
<1>6. CASE o.step = "insert" /\ Continue(t, [o EXCEPT !.step = "undo"])
  <2>1. PICK s : s = [o EXCEPT !.step = "undo"]
    OBVIOUS
  <2>2. /\ s \in Operation /\ s.step = "undo" /\ s.sources = o.sources
        /\ s.done = o.done /\ s.id = o.id /\ s.url = o.url
    BY <1>2, <2>1 DEF Operation, Steps
  <2>3. OpOK(t, s)
    <3>1. CASE t = "worker"
      <4>1. WorkerOK(o) /\ o.step \in Working \ Recording /\ o.url \in Urls
        BY <1>2, <1>6, <3>1 DEF OpOK, WorkerOK, Working, Recording
      <4>2. Carries(o, s)
        BY <2>2, <4>1 DEF Carries, Working, Recording
      <4> QED
        BY <3>1, <4>1, <4>2, CarriesOK
    <3>2. CASE t # "worker"
      BY <2>2, <3>2 DEF OpOK, RowsOK, Recording
    <3> QED
      BY <3>1, <3>2
  <2> QED
    BY <1>3, <1>4, <1>6, <2>1, <2>2, <2>3, KeepsQuietly
<1> QED
  BY <1>1, <1>5, <1>6 DEF Raise, Undone

LEMMA CrashRInv == ASSUME RInv, IInv, Crash PROVE RInv'
<1>1. /\ ops' = [t \in Threads |-> Nothing] /\ crashes' = crashes + 1
      /\ UNCHANGED <<data, fetches, analyzed, research, raised>>
  BY DEF Crash
<1>2. /\ TablesOK' /\ RowsHaveFiles' /\ Still /\ raised' + crashes' # 0
      /\ UNCHANGED analyzed
  <2>1. abandoned' \subseteq DOMAIN stored
    BY KeysAre DEF Crash, RInv, TypeOK
  <2> QED
    BY <1>1, <2>1, SameTables DEF data, RInv, TypeOK
<1>3. TypeOK'
  BY <1>1, <1>2, NothingOK DEF TablesOK, TypeOK
<1>4. Grown /\ NoNewMarker
  BY <1>2 DEF Still, Grown, Extends, NoNewMarker
<1>5. \A t \in Threads : OpOK(t, ops[t])'
  <2>1. \A t \in Threads : OpOK(t, Nothing)'
    BY <1>4, NothingOK, OpStays
  <2>2. \A t \in Threads : ops'[t] = Nothing
    BY <1>1
  <2> QED
    BY <2>1, <2>2
<1>6. MarkersOK' /\ ResearchedOnce'
  BY <1>4, MarkersOKStays
<1>7. CancelKeepsUnitsWhole'
  BY <1>2 DEF CancelKeepsUnitsWhole
<1>8. \A a \in analyzed : Complete(a)'
  <2>1. \A a \in analyzed : a \in DOMAIN artifacts /\ Complete(a)
    BY DEF RInv, TypeOK, AnalysisComplete, Complete
  <2> QED
    BY <1>4, <2>1, CompleteStays
<1>9. AnalysisComplete'
  BY <1>2, <1>8 DEF AnalysisComplete, Complete
<1> QED
  BY <1>2, <1>3, <1>5, <1>6, <1>7, <1>9 DEF RInv

-----------------------------------------------------------------------------
(* The files and rows that are written outside an analysis. *)
LEMMA SameExtends == ASSUME NEW s PROVE Extends(s, s)
BY DEF Extends

LEMMA WritesRInv ==
  ASSUME RInv, IInv', NEW t \in Threads, NEW c \in Contents, stored' = Append(stored, c),
         UNCHANGED <<artifacts, evidence, audit, history>>,
         NEW s \in Operation, Continue(t, s), OpOK(t, s),
         t = "worker" => ops["worker"].step \notin Recording
  PROVE  RInv'
<1>1. stored \in Seq(Contents)
  BY DEF RInv, TypeOK
<1>2. stored' \in Seq(Contents) /\ Extends(stored, stored')
  BY <1>1, AppendExtends
<1>3. TablesOK' /\ RowsHaveFiles'
  BY <1>2, FilesAre DEF history, RInv, TypeOK, TablesOK
<1>4. Extends(artifacts, artifacts') /\ Extends(evidence, evidence')
  BY SameExtends
<1>5. Grown /\ NoNewMarker
  BY <1>2, <1>4 DEF Grown, NoNewMarker
<1>6. OpOK(t, s)'
  BY <1>5, OpStays
<1> QED
  BY <1>3, <1>5, <1>6, Keeps DEF history, UnitKept

LEMMA ImportRInv ==
  ASSUME RInv, IInv', NEW id \in Ids, NEW c \in Contents, ImportArtifact(id, c) PROVE RInv'
<1>1. PICK n : n = Len(stored) + 1 /\ n \in Nat
  BY DEF RInv, TypeOK
<1>2. PICK o : o = [Nothing EXCEPT !.id = id]
  OBVIOUS
<1>3. o \in Operation
  BY <1>2, NothingOK DEF Operation
<1>4. PICK s : s = [o EXCEPT !.step = "replace", !.key = n]
  OBVIOUS
<1>5. s \in Operation /\ s.step = "replace"
  BY <1>1, <1>3, <1>4 DEF Operation, Steps
<1>6. "gui" \in Threads /\ OpOK("gui", s)
  BY <1>5 DEF Threads, OpOK, RowsOK, Recording
<1>7. /\ stored' = Append(stored, c) /\ Continue("gui", s)
      /\ UNCHANGED <<artifacts, evidence, audit, history>>
  BY <1>1, <1>2, <1>4 DEF ImportArtifact, WriteTemporary
<1> QED
  BY <1>5, <1>6, <1>7, WritesRInv

LEMMA StoreRInv == ASSUME RInv, IInv', StoreDocument PROVE RInv'
<1>1. PICK w : w = ops["worker"]
  OBVIOUS
<1>2. /\ "worker" \in Threads /\ w \in Operation /\ WorkerOK(w) /\ w.step = "store"
      /\ w.step \in Working \ Recording
  BY <1>1, OpsAre DEF StoreDocument, Threads, Recording, Working, OpOK
<1>3. PICK n : n = Len(stored) + 1
  OBVIOUS
<1>4. n \in Nat /\ w.content \in Contents /\ w.url \in Urls
  BY <1>2, <1>3 DEF RInv, TypeOK, Operation, WorkerOK
<1>5. PICK s : s = [w EXCEPT !.step = "replace", !.key = n]
  OBVIOUS
<1>6. s \in Operation /\ Carries(w, s)
  BY <1>2, <1>4, <1>5 DEF Operation, Steps, Carries, Working, Recording
<1>7. OpOK("worker", s)
  BY <1>2, <1>6, CarriesOK
<1>8. /\ stored' = Append(stored, w.content) /\ Continue("worker", s)
      /\ UNCHANGED <<artifacts, evidence, audit, history>>
  BY <1>1, <1>3, <1>5 DEF StoreDocument, WriteTemporary
<1> QED
  BY <1>1, <1>2, <1>4, <1>6, <1>7, <1>8, WritesRInv

LEMMA ReplaceRInv ==
  ASSUME RInv, IInv', NEW t \in Threads, ReplaceTemporary(t) PROVE RInv'
<1>1. PICK o : o = ops[t]
  OBVIOUS
<1>2. o \in Operation /\ OpOK(t, o) /\ o.step = "replace"
  BY <1>1, OpsAre DEF ReplaceTemporary
<1>3. PICK s : s = [o EXCEPT !.step = "insert"]
  OBVIOUS
<1>4. /\ s \in Operation /\ s.step = "insert" /\ s.sources = o.sources
      /\ s.done = o.done /\ s.id = o.id /\ s.url = o.url
  BY <1>2, <1>3 DEF Operation, Steps
<1>5. OpOK(t, s)
  <2>1. CASE t = "worker"
    <3>1. WorkerOK(o) /\ o.step \in Working \ Recording /\ o.url \in Urls
      BY <1>2, <2>1 DEF OpOK, WorkerOK, Working, Recording
    <3>2. Carries(o, s)
      BY <1>4, <3>1 DEF Carries, Working, Recording
    <3> QED
      BY <2>1, <3>1, <3>2, CarriesOK
  <2>2. CASE t # "worker"
    BY <1>4, <2>2 DEF OpOK, RowsOK, Recording
  <2> QED
    BY <2>1, <2>2
<1>6. UNCHANGED <<stored, artifacts, evidence, audit, history>> /\ Continue(t, s)
  BY <1>1, <1>3 DEF ReplaceTemporary
<1>7. TablesOK' /\ Still
  BY <1>6, FilesAre DEF history, RInv, TypeOK, TablesOK, Still
<1>8. ops[t].step \notin Recording
  BY DEF ReplaceTemporary, Recording
<1> QED
  BY <1>4, <1>5, <1>6, <1>7, <1>8, FilesAre, KeepsQuietly DEF history

LEMMA InsertArtifactRInv ==
  ASSUME RInv, IInv', NEW t \in Threads, InsertArtifact(t) PROVE RInv'
<1>1. PICK o, n : o = ops[t] /\ n = Len(artifacts) + 1
  OBVIOUS
<1>2. PICK r : r = [investigation |-> o.id, key |-> o.key]
  OBVIOUS
<1>3. /\ o \in Operation /\ OpOK(t, o) /\ o.step = "insert"
      /\ r \in [investigation : Ids, key : Nat]
  BY <1>1, <1>2, OpsAre DEF InsertArtifact, Operation
<1>4. /\ artifacts' = Append(artifacts, r)
      /\ UNCHANGED <<stored, temporaries, files, evidence, audit, history>>
  BY <1>1, <1>2 DEF InsertArtifact
<1>5. artifacts \in Seq([investigation : Ids, key : Nat])
  BY DEF RInv, TypeOK
<1>6. /\ artifacts' \in Seq([investigation : Ids, key : Nat]) /\ Extends(artifacts, artifacts')
      /\ DOMAIN artifacts' = DOMAIN artifacts \cup {n} /\ artifacts'[n] = r /\ n \in Nat
  <2>1. PICK R : R = [investigation : Ids, key : Nat]
    OBVIOUS
  <2>2. artifacts \in Seq(R) /\ r \in R
    BY <1>3, <1>5, <2>1
  <2>3. /\ artifacts' \in Seq(R) /\ Extends(artifacts, artifacts')
        /\ DOMAIN artifacts' = DOMAIN artifacts \cup {n} /\ artifacts'[n] = r
    BY <1>1, <1>4, <2>2, AppendExtends
  <2>4. n \in Nat
    BY <1>1, <2>2
  <2> QED
    BY <2>1, <2>3, <2>4
<1>7. TablesOK' /\ RowsHaveFiles'
  BY <1>4, <1>6, FilesAre DEF history, RInv, TypeOK, TablesOK
<1>8. Extends(stored, stored') /\ Extends(evidence, evidence')
  BY <1>4, SameExtends
<1>9. Grown /\ NoNewMarker
  BY <1>4, <1>6, <1>8 DEF Grown, NoNewMarker
<1>10. CASE t = "gui"
  <2>1. Continue(t, Nothing)
    BY <1>10, Returns DEF InsertArtifact
  <2>2. OpOK(t, Nothing)'
    BY <1>9, NothingOK, OpStays
  <2> QED
    BY <1>4, <1>7, <1>9, <1>10, <2>1, <2>2, NothingOK, Keeps DEF history
<1>11. CASE t = "worker"
  <2>1. PICK u : u = 1..(o.hops + 2)
    OBVIOUS
  <2>2. u \subseteq Nat /\ u # {} /\ 1 \in u
    BY <1>3, <2>1 DEF Operation
  <2>3. PICK s : s = [o EXCEPT !.step = "record", !.artifact = n, !.rows = u]
    OBVIOUS
  <2>4. /\ s \in Operation /\ s.step = "record" /\ s.artifact = n /\ s.rows = u
        /\ s.id = o.id /\ s.sources = o.sources /\ s.done = o.done /\ s.url = o.url
        /\ s.hops = o.hops
    BY <1>3, <1>6, <2>2, <2>3 DEF Operation, Steps
  <2>5. Continue("worker", s)
    BY <1>1, <1>11, <2>1, <2>3 DEF InsertArtifact
  <2>6. OfArtifact(s)'
    BY <1>2, <1>6, <2>4 DEF OfArtifact
  <2>7. WorkerOK(o) /\ HasSource(o) /\ ~Marked(o)
    BY <1>3, <1>11 DEF OpOK, WorkerOK, Working, Recording, Marked
  <2>8. SourceUrl(s) = SourceUrl(o) /\ HasSource(s) /\ ~Marked(s)
    BY <2>2, <2>4, <2>7 DEF SourceUrl, HasSource, Marked
  <2>9. WorkerOK(s)
    BY <1>3, <2>4, <2>7, <2>8 DEF WorkerOK, Working, Recording
  <2>10. HasSource(s)' /\ WorkerOK(s)'
    BY <1>9, <2>4, <2>8, <2>9, SourceStays, WorkerStays
  <2>11. Partly(s.rows, DocumentRows(s), s.id)'
    <3>1. DOMAIN DocumentRows(s)' = u
      BY <2>1, <2>4 DEF DocumentRows
    <3> QED
      BY <2>2, <2>4, <3>1 DEF Partly
  <2>12. OpOK("worker", s)'
    BY <2>4, <2>6, <2>10, <2>11 DEF OpOK, RowsOK
  <2>13. UnitKept(s)
    BY <1>1, <1>3, <1>11 DEF UnitKept, Recording
  <2> QED
    BY <1>4, <1>7, <1>9, <1>11, <2>4, <2>5, <2>12, <2>13, Keeps DEF history
<1> QED
  BY <1>10, <1>11 DEF Threads

LEMMA AddEvidenceRInv ==
  ASSUME RInv, IInv', NEW id \in Ids, NEW v \in Values, AddUserEvidence(id, v) PROVE RInv'
<1>1. PICK r : r = Row(id, 0, "USER_STATEMENT", v, "user", 0)
  OBVIOUS
<1>2. r \in Evidence /\ r.locator[1] = "user"
  BY <1>1, RowIs, RowIsEvidence DEF Provenance, Text
<1>3. /\ evidence' = Append(evidence, r)
      /\ UNCHANGED <<stored, temporaries, files, artifacts, audit, ops, history>>
  BY <1>1 DEF AddUserEvidence
<1>4. evidence \in Seq(Evidence)
  BY DEF RInv, TypeOK
<1>5. /\ evidence' \in Seq(Evidence) /\ Extends(evidence, evidence')
      /\ DOMAIN evidence' = DOMAIN evidence \cup {Len(evidence) + 1}
      /\ evidence'[Len(evidence) + 1] = r
  BY <1>2, <1>3, <1>4, AppendExtends
<1>6. TablesOK' /\ RowsHaveFiles'
  BY <1>3, <1>5, FilesAre DEF history, RInv, TypeOK, TablesOK
<1>7. Extends(stored, stored') /\ Extends(artifacts, artifacts')
  BY <1>3, SameExtends
<1>8. Grown /\ NoNewMarker
  BY <1>2, <1>5, <1>7 DEF Grown, NoNewMarker
<1>9. PICK s : s = ops["gui"]
  OBVIOUS
<1>10. "gui" \in Threads /\ s \in Operation /\ OpOK("gui", s)
  BY <1>9, OpsAre DEF Threads
<1>11. Continue("gui", s)
  BY <1>3, <1>9 DEF Continue, RInv, TypeOK
<1>12. OpOK("gui", s)'
  BY <1>8, <1>10, OpStays
<1> QED
  BY <1>3, <1>6, <1>8, <1>10, <1>11, <1>12, Keeps DEF history

-----------------------------------------------------------------------------
(* An analysis. *)
LEMMA Finishes ==
  ASSUME RInv, NEW t \in Threads, NEW o \in Operation, FinishAnalysis(t, o),
         t = "worker" => WorkerOK(o) /\ o.step \in {"read", "write"}
  PROVE  /\ analyzed' = analyzed \cup {o.artifact}
         /\ \E s \in Operation : Continue(t, s) /\ OpOK(t, s)
<1>1. CASE t = "gui"
  BY <1>1, NothingOK, Returns DEF FinishAnalysis
<1>2. CASE t = "worker"
  <2>1. PICK v, d : v = AfterFirst(o.sources) /\ d = o.done \cup {SourceUrl(o)}
    OBVIOUS
  <2>2. /\ o.sources \subseteq DOMAIN evidence /\ o.sources \subseteq Nat
        /\ SourceUrl(o) \in Values /\ Researched(o.id) \subseteq d
    BY <1>2, <2>1, DataAssumption DEF WorkerOK, Operation, Working, Recording, Marked
  <2>3. v \subseteq DOMAIN evidence /\ v \subseteq Nat /\ d \subseteq Values
    BY <2>1, <2>2, AfterFirstIs DEF Operation
  <2>4. PICK s : s = [o EXCEPT
            !.step = "next", !.artifact = 0, !.hops = 0, !.key = 0, !.asked = FALSE,
            !.rows = {}, !.sources = v, !.done = d]
    OBVIOUS
  <2>5. s \in Operation /\ s.step = "next" /\ s.sources = v /\ s.done = d /\ s.id = o.id
    BY <2>3, <2>4 DEF Operation, Steps
  <2>6. OpOK("worker", s)
    BY <2>2, <2>3, <2>5 DEF OpOK, RowsOK, WorkerOK, Working, Recording, Marked
  <2>7. Continue("worker", s)
    BY <1>2, <2>1, <2>4 DEF FinishAnalysis, Learned
  <2> QED
    BY <1>2, <2>5, <2>6, <2>7 DEF FinishAnalysis
<1> QED
  BY <1>1, <1>2 DEF Threads, FinishAnalysis

LEMMA UnitIsWhole ==
  ASSUME RInv, Grown, NEW o, OfArtifact(o), Traced(o.id, o.artifact),
         Complete(o.artifact)', NEW k \in Markers, evidence[k].artifact = o.artifact
  PROVE  Whole(k)'
<1>1. PICK id, a : id = o.id /\ a = o.artifact
  OBVIOUS
<1>2. a \in DOMAIN artifacts /\ artifacts[a].investigation = id
  BY <1>1 DEF OfArtifact
<1>3. evidence[k].investigation = id /\ k \in DOMAIN evidence
  BY <1>1, <1>2 DEF RInv, MarkersOK, Markers
<1>4. /\ artifacts'[a].investigation = id
      /\ evidence'[k].investigation = id /\ evidence'[k].artifact = a
  BY <1>1, <1>2, <1>3 DEF Grown, Extends
<1>5. Traced(id, a)'
  BY <1>1, EvidenceStays DEF Traced
<1>6. (Elements(Candidates(id, a)) \subseteq EvidenceOf(id))'
  BY <1>1, <1>4 DEF Complete
<1> QED
  BY <1>4, <1>5, <1>6 DEF Whole, Traced

LEMMA CompareRInv ==
  ASSUME RInv, NEW t \in Threads, NEW o \in Operation, OfArtifact(o), CompareFindings(t, o),
         t = "worker" => o = ops["worker"] /\ o.step = "read" /\ WorkerOK(o)
  PROVE  RInv'
<1>1. UNCHANGED <<data, fetches, abandoned, research, raised, crashes>>
  BY DEF CompareFindings
<1>2. RowsHaveFiles' /\ Grown /\ NoNewMarker
  BY <1>1 DEF data, RInv, RowsHaveFiles, Grown, Extends, NoNewMarker
<1>3. analyzed' \subseteq DOMAIN artifacts => TablesOK'
  BY <1>1 DEF data, RInv, TypeOK, TablesOK
<1>4. artifacts[o.artifact].key \in files /\ o.artifact \in DOMAIN artifacts
  BY DEF RInv, RowsHaveFiles, OfArtifact
<1>5. analyzed \subseteq DOMAIN artifacts
  BY DEF RInv, TypeOK
<1>6. PICK m : m = Missing(o.id, o.artifact)
  OBVIOUS
<1>7. /\ m \subseteq DOMAIN Candidates(o.id, o.artifact)
      /\ \A k \in DOMAIN Candidates(o.id, o.artifact) \ m :
           Candidates(o.id, o.artifact)[k] \in EvidenceOf(o.id)
  BY <1>6 DEF Missing
<1>8. CASE m = {} /\ FinishAnalysis(t, o)
  <2>1. analyzed' = analyzed \cup {o.artifact}
    BY <1>8 DEF FinishAnalysis
  <2>2. PICK s \in Operation : Continue(t, s) /\ OpOK(t, s)
    BY <1>8, Finishes
  <2>3. Complete(o.artifact)
    BY <1>7, <1>8 DEF Complete, OfArtifact, Elements
  <2>4. Complete(o.artifact)'
    BY <1>2, <1>4, <2>3, CompleteStays
  <2>5. t = "worker" => UnitKept(s)
    <3>1. t = "worker" => Traced(o.id, o.artifact)
      BY DEF WorkerOK
    <3> QED
      BY <1>2, <2>4, <3>1, UnitIsWhole DEF UnitKept
  <2>6. OpOK(t, s)' /\ TablesOK'
    BY <1>2, <1>3, <1>4, <1>5, <2>1, <2>2, OpStays
  <2> QED
    BY <1>1, <1>2, <2>1, <2>2, <2>4, <2>5, <2>6, Keeps
<1>9. CASE m # {} /\ UNCHANGED analyzed /\ Continue(t, [o EXCEPT !.step = "write", !.rows = m])
  <2>1. PICK s : s = [o EXCEPT !.step = "write", !.rows = m]
    OBVIOUS
  <2>2. m \subseteq Nat
    BY <1>4, <1>7, CandidatesAre DEF Operation
  <2>3. /\ s \in Operation /\ s.step = "write" /\ s.rows = m /\ s.id = o.id
        /\ s.artifact = o.artifact /\ s.sources = o.sources /\ s.done = o.done
        /\ s.url = o.url
    BY <2>1, <2>2 DEF Operation, Steps
  <2>4. Partly(s.rows, Candidates(s.id, s.artifact), s.id)
    BY <1>7, <1>9, <2>3 DEF Partly
  <2>5. RowsOK(s)
    BY <2>3, <2>4 DEF RowsOK, OfArtifact
  <2>6. SourceUrl(s) = SourceUrl(o) /\ (HasSource(o) => HasSource(s)) /\ Marked(s)
    BY <2>3 DEF SourceUrl, HasSource, Marked
  <2>7. t = "worker" => WorkerOK(s)
    BY <2>3, <2>6 DEF WorkerOK, Marked, Working, Recording
  <2>8. OpOK(t, s)
    BY <2>3, <2>5, <2>7 DEF OpOK
  <2>9. t = "worker" => UnitKept(s)
    BY <2>3 DEF UnitKept, Recording
  <2>10. OpOK(t, s)' /\ TablesOK'
    BY <1>2, <1>3, <1>5, <1>9, <2>3, <2>8, OpStays
  <2> QED
    BY <1>1, <1>2, <1>9, <2>1, <2>3, <2>9, <2>10, Keeps
<1> QED
  BY <1>4, <1>6, <1>8, <1>9 DEF CompareFindings

LEMMA AnalyzeRInv ==
  ASSUME RInv, NEW id \in Ids, NEW a, AnalyzeArtifact(id, a) PROVE RInv'
<1>1. PICK o : o = [Nothing EXCEPT !.id = id, !.artifact = a]
  OBVIOUS
<1>2. a \in DOMAIN artifacts /\ artifacts[a].investigation = id /\ a \in Nat
  BY DEF AnalyzeArtifact, RInv, TypeOK
<1>3. o \in Operation /\ o.artifact = a /\ o.id = id
  BY <1>1, <1>2, NothingOK DEF Operation
<1>4. CompareFindings("gui", o) /\ "gui" \in Threads /\ OfArtifact(o)
  BY <1>1, <1>2, <1>3 DEF AnalyzeArtifact, Threads, OfArtifact
<1> QED
  BY <1>3, <1>4, CompareRInv

LEMMA AnalyzeDocumentRInv ==
  ASSUME RInv, NEW t \in Threads, AnalyzeDocument(t) PROVE RInv'
<1>1. /\ ops[t] \in Operation /\ OpOK(t, ops[t]) /\ ops[t].step = "read"
      /\ CompareFindings(t, ops[t])
  BY OpsAre DEF AnalyzeDocument
<1>2. OfArtifact(ops[t]) /\ t = "worker" /\ WorkerOK(ops[t])
  BY <1>1 DEF OpOK, RowsOK, Recording
<1> QED
  BY <1>1, <1>2, CompareRInv

-----------------------------------------------------------------------------
(* The rows of a unit. *)
LEMMA InsertsRow ==
  ASSUME RInv, IInv', NEW rows \in SUBSET Nat, NEW unit, NEW id, Partly(rows, unit, id),
         NEW row \in Evidence, row = unit[First(rows)], row.investigation = id,
         evidence' = Append(evidence, row),
         UNCHANGED <<stored, temporaries, files, artifacts, audit,
                     fetches, abandoned, research, raised, crashes>>
  PROVE  /\ Grown /\ RowsHaveFiles' /\ (analyzed' \subseteq DOMAIN artifacts => TablesOK')
         /\ DOMAIN evidence' = DOMAIN evidence \cup {Len(evidence) + 1}
         /\ Len(evidence) + 1 \notin DOMAIN evidence
         /\ evidence'[Len(evidence) + 1] = row
         /\ First(rows) \in rows /\ AfterFirst(rows) \subseteq rows
         /\ \A k \in DOMAIN unit \ AfterFirst(rows) : unit[k] \in EvidenceOf(id)'
<1>1. evidence \in Seq(Evidence)
  BY DEF RInv, TypeOK
<1>2. /\ evidence' \in Seq(Evidence) /\ Extends(evidence, evidence')
      /\ DOMAIN evidence' = DOMAIN evidence \cup {Len(evidence) + 1}
      /\ Len(evidence) + 1 \notin DOMAIN evidence
      /\ evidence'[Len(evidence) + 1] = row
  BY <1>1, AppendExtends
<1>3. Grown
  BY <1>2, SameExtends DEF Grown
<1>4. RowsHaveFiles' /\ (analyzed' \subseteq DOMAIN artifacts => TablesOK')
  BY <1>2, FilesAre DEF RInv, TypeOK, TablesOK
<1>5. First(rows) \in rows /\ AfterFirst(rows) = rows \ {First(rows)}
  BY FirstIs DEF Partly, AfterFirst
<1>6. row \in EvidenceOf(id)'
  BY <1>2 DEF EvidenceOf, Elements
<1>7. \A k \in DOMAIN unit \ rows : unit[k] \in EvidenceOf(id)'
  BY <1>3, EvidenceStays DEF Partly
<1> QED
  BY <1>2, <1>3, <1>4, <1>5, <1>6, <1>7

LEMMA WriteRInv ==
  ASSUME RInv, IInv', NEW t \in Threads, InsertEvidence(t), ops[t].step = "write"
  PROVE  RInv'
<1>1. PICK o : o = ops[t]
  OBVIOUS
<1>2. PICK id, a : id = o.id /\ a = o.artifact
  OBVIOUS
<1>3. PICK unit, v : unit = Candidates(id, a) /\ v = AfterFirst(o.rows)
  OBVIOUS
<1>4. o \in Operation /\ OpOK(t, o) /\ o.step = "write"
  BY <1>1, OpsAre
<1>5. /\ OfArtifact(o) /\ Partly(o.rows, unit, id) /\ o.rows \in SUBSET Nat /\ id \in Ids
      /\ a \in DOMAIN artifacts /\ artifacts[a].investigation = id
  BY <1>2, <1>3, <1>4 DEF OpOK, RowsOK, Recording, Operation, OfArtifact
<1>6. PICK row : row = unit[First(o.rows)]
  OBVIOUS
<1>7. First(o.rows) \in DOMAIN unit
  BY <1>5, FirstIs DEF Partly
<1>8. row \in Evidence /\ row.investigation = id /\ row.locator[1] = "finding"
  BY <1>3, <1>5, <1>6, <1>7, CandidatesAre
<1>9. NextRow(o) = row
  BY <1>2, <1>3, <1>4, <1>6 DEF NextRow
<1>10. /\ evidence' = Append(evidence, row)
       /\ UNCHANGED <<stored, temporaries, files, artifacts, audit,
                      fetches, abandoned, research, raised, crashes>>
  BY <1>1, <1>9 DEF InsertEvidence
<1>11. /\ Grown /\ RowsHaveFiles' /\ (analyzed' \subseteq DOMAIN artifacts => TablesOK')
       /\ DOMAIN evidence' = DOMAIN evidence \cup {Len(evidence) + 1}
       /\ evidence'[Len(evidence) + 1] = row /\ v \subseteq o.rows
       /\ \A k \in DOMAIN unit \ v : unit[k] \in EvidenceOf(id)'
  BY <1>3, <1>5, <1>6, <1>8, <1>10, InsertsRow
<1>12. NoNewMarker
  BY <1>8, <1>11 DEF NoNewMarker
<1>13. PICK r : r = [o EXCEPT !.rows = v]
  OBVIOUS
<1>14. /\ r \in Operation /\ r.step = "write" /\ r.rows = v /\ r.id = id /\ r.artifact = a
       /\ r.sources = o.sources /\ r.done = o.done /\ r.url = o.url
  BY <1>2, <1>4, <1>5, <1>11, <1>13 DEF Operation
<1>15. t = "worker" => WorkerOK(r)
  <2>1. SourceUrl(r) = SourceUrl(o) /\ (HasSource(o) => HasSource(r)) /\ Marked(r) /\ Marked(o)
    BY <1>4, <1>14 DEF SourceUrl, HasSource, Marked
  <2> QED
    BY <1>2, <1>4, <1>14, <2>1 DEF OpOK, WorkerOK
<1>16. analyzed \subseteq DOMAIN artifacts
  BY DEF RInv, TypeOK
<1>17. unit = Candidates(id, a)'
  BY <1>3, <1>5, <1>11, CandidatesStay
<1>18. CASE v # {} /\ Continue(t, r) /\ UNCHANGED analyzed
  <2>1. Partly(v, unit, id)'
    BY <1>5, <1>11, <1>18 DEF Partly
  <2>2. RowsOK(r)'
    <3>1. OfArtifact(r)'
      BY <1>5, <1>11, <1>14, ArtifactStays DEF OfArtifact
    <3>2. (Partly(r.rows, Candidates(r.id, r.artifact), r.id))'
      BY <1>14, <1>17, <2>1 DEF Partly
    <3> QED
      BY <1>14, <3>1, <3>2 DEF RowsOK
  <2>3. t = "worker" => WorkerOK(r)'
    BY <1>11, <1>12, <1>14, <1>15, WorkerStays
  <2>4. OpOK(t, r)'
    BY <1>14, <2>2, <2>3 DEF OpOK
  <2>5. t = "worker" => UnitKept(r)
    BY <1>1, <1>2, <1>14 DEF UnitKept, Recording
  <2> QED
    BY <1>10, <1>11, <1>12, <1>14, <1>16, <1>18, <2>4, <2>5, Keeps
<1>19. CASE v = {} /\ FinishAnalysis(t, r)
  <2>1. analyzed' = analyzed \cup {a}
    BY <1>14, <1>19 DEF FinishAnalysis
  <2>2. PICK s \in Operation : Continue(t, s) /\ OpOK(t, s)
    BY <1>14, <1>15, <1>19, Finishes
  <2>3. Complete(a)'
    <3>1. Elements(unit) \subseteq EvidenceOf(id)'
      BY <1>11, <1>19 DEF Elements
    <3>2. artifacts'[a].investigation = id
      BY <1>5, <1>10
    <3> QED
      BY <1>17, <3>1, <3>2 DEF Complete
  <2>4. t = "worker" => UnitKept(s)
    <3>1. t = "worker" => Traced(o.id, o.artifact)
      BY <1>4 DEF OpOK, WorkerOK
    <3> QED
      BY <1>1, <1>2, <1>5, <1>11, <2>3, <3>1, UnitIsWhole DEF UnitKept
  <2>5. OpOK(t, s)' /\ TablesOK'
    BY <1>5, <1>11, <1>12, <1>16, <2>1, <2>2, OpStays
  <2> QED
    BY <1>10, <1>11, <1>12, <2>1, <2>2, <2>3, <2>4, <2>5, Keeps
<1> QED
  BY <1>1, <1>3, <1>4, <1>13, <1>14, <1>18, <1>19 DEF InsertEvidence, StopsRecording

(* The document's rows: what the worker knows of the URL keeps up with the
   marker, which is the first of them. *)
LEMMA RecordsNext ==
  ASSUME RInv, Grown, NEW o \in Operation, OpOK("worker", o), o.step = "record",
         NEW v, v \subseteq o.rows,
         \A k \in DOMAIN DocumentRows(o) \ v : DocumentRows(o)[k] \in EvidenceOf(o.id)',
         1 \notin v,
         Researched(o.id)' \subseteq Researched(o.id) \cup {SourceUrl(o)},
         NEW s \in Operation, s.id = o.id, s.artifact = o.artifact,
         s.sources = o.sources, s.done = o.done, s.url = o.url, s.hops = o.hops, s.rows = v,
         s.step = IF v = {} THEN "read" ELSE "record"
  PROVE  OpOK("worker", s)'
<1>1. /\ OfArtifact(o) /\ HasSource(o) /\ WorkerOK(o) /\ s.step \in Working
      /\ Partly(o.rows, DocumentRows(o), o.id)
  BY DEF OpOK, RowsOK, Working, Recording
<1>2. PICK unit, id, u : unit = DocumentRows(o) /\ id = o.id /\ u = SourceUrl(o)
  OBVIOUS
<1>3. DocumentRows(o)' = unit /\ HasSource(o)' /\ SourceUrl(o)' = u /\ OfArtifact(o)'
  BY <1>1, <1>2, DocumentRowsStay, SourceStays, ArtifactStays
<1>4. SourceUrl(s)' = u /\ HasSource(s)' /\ OfArtifact(s)'
  BY <1>3 DEF SourceUrl, HasSource, OfArtifact
<1>5. DocumentRows(s)' = unit
  BY <1>3, <1>4 DEF DocumentRows
<1>6. Marked(s)
  BY DEF Marked
<1>7. s.sources \subseteq DOMAIN evidence'
  BY <1>4 DEF HasSource
<1>8. u \in Urls \ s.done /\ s.url \in Urls /\ Researched(s.id)' \subseteq s.done \cup {u}
  <2>1. u \in Urls \ o.done /\ o.url \in Urls /\ Researched(id) \subseteq o.done \cup {u}
    BY <1>1, <1>2 DEF WorkerOK, Working, Recording
  <2> QED
    BY <1>2, <2>1
<1>9. s.step = "read" => Traced(s.id, s.artifact)'
  <2> SUFFICES ASSUME s.step = "read" PROVE Traced(s.id, s.artifact)'
    OBVIOUS
  <2>1. /\ unit[o.hops + 2] = RemoteRow(id, o.artifact, o.url, "research.final_url", 0)
        /\ o.hops + 2 \in DOMAIN unit
    BY <1>1, <1>2, DocumentRowsAre
  <2>2. PICK e : e = unit[o.hops + 2]
    OBVIOUS
  <2>3. e.artifact = o.artifact /\ e.locator = <<"research.final_url", 0>>
    BY <2>1, <2>2, RowIs DEF RemoteRow
  <2>4. e \in EvidenceOf(id)'
    BY <1>2, <2>1, <2>2
  <2> QED
    BY <1>2, <2>3, <2>4 DEF Traced
<1>10. s.step = "record" => Partly(s.rows, DocumentRows(s), s.id)'
  <2> SUFFICES ASSUME v # {} PROVE Partly(v, unit, id)'
    BY <1>2, <1>5 DEF Partly
  <2>1. v \subseteq DOMAIN unit
    BY <1>1, <1>2 DEF Partly
  <2> QED
    BY <1>2, <2>1 DEF Partly
<1>11. RowsOK(s)'
  BY <1>4, <1>10 DEF RowsOK
<1>12. WorkerOK(s)'
  <2>1. s.step # "write"
    OBVIOUS
  <2> QED
    BY <1>4, <1>6, <1>7, <1>8, <1>9, <2>1 DEF WorkerOK
<1> QED
  BY <1>11, <1>12 DEF OpOK

(* The marker itself: its URL was not known, so no other marker has it. *)
LEMMA MarksRInv ==
  ASSUME RInv, Grown, RowsHaveFiles', TablesOK', UNCHANGED <<stored, artifacts, analyzed>>,
         NEW o \in Operation, o = ops["worker"], OpOK("worker", o), o.step = "record",
         1 \in o.rows, NEW n, n \notin DOMAIN evidence,
         DOMAIN evidence' = DOMAIN evidence \cup {n},
         evidence'[n] = RemoteRow(o.id, o.artifact, SourceUrl(o), "research.request", 0),
         NEW s \in Operation, Continue("worker", s), OpOK("worker", s)',
         s.step \in Recording, s.artifact = o.artifact,
         raised' + crashes' = 0 => raised + crashes = 0
  PROVE  RInv'
<1>1. PICK id, a, u, row : /\ id = o.id /\ a = o.artifact /\ u = SourceUrl(o)
                           /\ row = evidence'[n]
  OBVIOUS
<1>2. /\ row.investigation = id /\ row.artifact = a /\ row.provenance = "REMOTE_DOCUMENT"
      /\ row.value = u /\ row.locator = <<"research.request", 0>>
      /\ row.locator[1] = "research.request"
  BY <1>1, RowIs DEF RemoteRow
<1>3. /\ OfArtifact(o) /\ u \in Urls \ o.done /\ Researched(id) \subseteq o.done
      /\ "worker" \in Threads
  BY <1>1 DEF OpOK, RowsOK, WorkerOK, Recording, Working, Marked, Threads
<1>4. \A k \in DOMAIN evidence : evidence'[k] = evidence[k]
  BY DEF Grown, Extends
<1>5. Markers' = Markers \cup {n} /\ n \notin Markers
  BY <1>1, <1>2, <1>4 DEF Markers
<1>6. TypeOK' /\ \A t \in Threads : ops'[t] = IF t = "worker" THEN s ELSE ops[t]
  BY <1>3, OpsStep
<1>7. \A i : Researched(i) \subseteq Researched(i)'
  BY EvidenceStays DEF Researched
<1>8. u \in Researched(id)'
  <2>1. row \in EvidenceOf(id)'
    BY <1>1, <1>2 DEF EvidenceOf, Elements
  <2> QED
    BY <1>2, <1>3, <2>1 DEF Researched
<1>9. \A k \in Markers :
        /\ evidence[k].value \in Researched(evidence[k].investigation)
        /\ evidence[k].artifact \in DOMAIN artifacts
        /\ artifacts[evidence[k].artifact].investigation = evidence[k].investigation
  BY DEF RInv, MarkersOK
<1>10. MarkersOK'
  <2>1. ASSUME NEW k \in Markers'
        PROVE  \E e : /\ e = evidence'[k] /\ e.value \in Researched(e.investigation)'
                      /\ e.artifact \in DOMAIN artifacts
                      /\ artifacts[e.artifact].investigation = e.investigation
    <3>1. CASE k = n
      BY <1>1, <1>2, <1>3, <1>8, <3>1 DEF OfArtifact
    <3>2. CASE k \in Markers
      <4>1. PICK e : e = evidence[k] /\ e = evidence'[k]
        BY <1>4, <3>2 DEF Markers
      <4>2. e.value \in Researched(e.investigation)
        BY <1>9, <3>2, <4>1
      <4> QED
        BY <1>7, <1>9, <3>2, <4>1, <4>2
    <3> QED
      BY <1>5, <3>1, <3>2
  <2> QED
    BY <2>1 DEF MarkersOK
<1>11. ResearchedOnce'
  <2>1. \A k \in Markers : evidence'[k] = evidence[k]
    BY <1>4 DEF Markers
  <2>2. ASSUME NEW k \in Markers, evidence[k].investigation = id, evidence[k].value = u
        PROVE  FALSE
    BY <1>3, <1>9, <2>2
  <2>3. \A j, k \in Markers : evidence[j].investigation = evidence[k].investigation
                              /\ evidence[j].value = evidence[k].value => j = k
    BY DEF RInv, ResearchedOnce
  <2> QED
    BY <1>1, <1>2, <1>5, <2>1, <2>2, <2>3 DEF ResearchedOnce
<1>12. CancelKeepsUnitsWhole'
  <2> SUFFICES ASSUME raised' + crashes' = 0, NEW k \in Markers'
               PROVE  Whole(k)' \/ evidence'[k].artifact = a
    BY <1>1, <1>3, <1>6 DEF CancelKeepsUnitsWhole, Recording
  <2>1. CASE k = n
    BY <1>1, <1>2, <2>1
  <2>2. CASE k \in Markers
    <3>1. Whole(k) \/ evidence[k].artifact = a
      BY <1>1, <2>2 DEF RInv, CancelKeepsUnitsWhole
    <3> QED
      BY <1>4, <2>2, <3>1, WholeStays DEF Markers
  <2> QED
    BY <1>5, <2>1, <2>2
<1>13. AnalysisComplete'
  <2>1. \A x \in analyzed : x \in DOMAIN artifacts /\ Complete(x)
    BY DEF RInv, TypeOK, AnalysisComplete, Complete
  <2>2. \A x \in analyzed : Complete(x)'
    BY <2>1, CompleteStays
  <2> QED
    BY <2>2 DEF AnalysisComplete, Complete
<1>14. \A t \in Threads : OpOK(t, ops[t])'
  <2>1. OpOK("worker", ops["worker"])'
    BY <1>3, <1>6
  <2>2. PICK g : g = ops["gui"] /\ g = ops'["gui"]
    BY <1>6 DEF Threads
  <2>3. g \in Operation /\ OpOK("gui", g)
    BY <2>2, OpsAre DEF Threads
  <2>4. OpOK("gui", g)'
    BY <2>3, RowsStay DEF OpOK
  <2>5. OpOK("gui", ops["gui"])'
    BY <2>2, <2>4
  <2> QED
    BY <2>1, <2>5 DEF Threads
<1> QED
  BY <1>6, <1>10, <1>11, <1>12, <1>13, <1>14 DEF RInv

LEMMA RecordRInv ==
  ASSUME RInv, IInv', NEW t \in Threads, InsertEvidence(t), ops[t].step = "record"
  PROVE  RInv'
<1>1. PICK o : o = ops[t]
  OBVIOUS
<1>2. PICK id, unit, v : id = o.id /\ unit = DocumentRows(o) /\ v = AfterFirst(o.rows)
  OBVIOUS
<1>3. t = "worker" /\ o \in Operation /\ OpOK("worker", o) /\ o.step = "record"
  BY <1>1, OpsAre DEF OpOK
<1>4. /\ OfArtifact(o) /\ HasSource(o) /\ Partly(o.rows, unit, id) /\ o.rows \in SUBSET Nat
      /\ WorkerOK(o)
  BY <1>2, <1>3 DEF OpOK, RowsOK, Recording, Operation
<1>5. PICK row, k : k = First(o.rows) /\ row = unit[k]
  OBVIOUS
<1>6. k \in DOMAIN unit /\ k \in o.rows /\ \A j \in o.rows : k <= j
  BY <1>4, <1>5, FirstIs DEF Partly
<1>7. /\ DOMAIN unit = 1..(o.hops + 2) /\ o.hops \in Nat
      /\ row \in Evidence /\ row.investigation = id
      /\ (k = 1 => row = RemoteRow(o.id, o.artifact, SourceUrl(o), "research.request", 0))
      /\ (k \in 2..(o.hops + 2) => row.locator[1] # "research.request")
  BY <1>2, <1>3, <1>4, <1>5, <1>6, DocumentRowsAre
<1>8. NextRow(o) = row
  BY <1>2, <1>3, <1>5 DEF NextRow
<1>9. /\ evidence' = Append(evidence, row)
      /\ UNCHANGED <<stored, temporaries, files, artifacts, audit,
                     fetches, abandoned, research, raised, crashes>>
      /\ UNCHANGED analyzed
  BY <1>1, <1>3, <1>8 DEF InsertEvidence, StopsRecording
<1>10. PICK n : n = Len(evidence) + 1
  OBVIOUS
<1>11. /\ Grown /\ RowsHaveFiles' /\ (analyzed' \subseteq DOMAIN artifacts => TablesOK')
       /\ DOMAIN evidence' = DOMAIN evidence \cup {n} /\ n \notin DOMAIN evidence
       /\ evidence'[n] = row /\ v \subseteq o.rows
       /\ \A j \in DOMAIN unit \ v : unit[j] \in EvidenceOf(id)'
  BY <1>2, <1>4, <1>5, <1>7, <1>9, <1>10, InsertsRow
<1>12. TablesOK'
  BY <1>9, <1>11 DEF RInv, TypeOK
<1>13. 1 \notin v
  BY <1>2, <1>4, <1>5, <1>6, <1>7 DEF AfterFirst
<1>14. PICK r : r = [o EXCEPT !.rows = v]
  OBVIOUS
<1>15. PICK s : s = IF v = {} THEN [r EXCEPT !.step = "read"] ELSE r
  OBVIOUS
<1>16. /\ s \in Operation /\ s.id = o.id /\ s.artifact = o.artifact
       /\ s.sources = o.sources /\ s.done = o.done /\ s.url = o.url /\ s.hops = o.hops
       /\ s.rows = v /\ s.step = IF v = {} THEN "read" ELSE "record"
  <2>1. v \in SUBSET Nat
    BY <1>4, <1>11
  <2>2. /\ r \in Operation /\ r.id = o.id /\ r.artifact = o.artifact
        /\ r.sources = o.sources /\ r.done = o.done /\ r.url = o.url /\ r.hops = o.hops
        /\ r.rows = v /\ r.step = "record"
    BY <1>3, <1>14, <2>1 DEF Operation
  <2>3. CASE v = {}
    BY <1>15, <2>2, <2>3 DEF Operation, Steps
  <2>4. CASE v # {}
    BY <1>15, <2>2, <2>4
  <2> QED
    BY <2>3, <2>4
<1>17. Continue("worker", s)
  <2>1. r.rows = v
    BY <1>3, <1>14 DEF Operation
  <2> QED
    BY <1>1, <1>2, <1>3, <1>14, <1>15, <2>1 DEF InsertEvidence, StopsRecording
<1>18. s.step \in Recording /\ s.artifact = o.artifact
  BY <1>16 DEF Recording
<1>19. Researched(id)' \subseteq Researched(id) \cup {SourceUrl(o)}
  <2>1. CASE k = 1
    <3>1. row.value = SourceUrl(o)
      BY <1>7, <2>1, RowIs DEF RemoteRow
    <3>2. \A e \in EvidenceOf(id)' : e = row \/ e \in EvidenceOf(id)
      BY <1>11 DEF EvidenceOf, Elements, Grown, Extends
    <3> QED
      BY <3>1, <3>2 DEF Researched
  <2>2. CASE k # 1
    <3>1. NoNewMarker
      BY <1>6, <1>7, <1>11, <2>2 DEF NoNewMarker
    <3> QED
      BY <1>11, <3>1, MarkersStay
  <2> QED
    BY <2>1, <2>2
<1>20. OpOK("worker", s)'
  BY <1>2, <1>3, <1>11, <1>13, <1>16, <1>19, RecordsNext
<1>21. CASE k = 1
  BY <1>1, <1>3, <1>6, <1>7, <1>9, <1>11, <1>12, <1>16, <1>17, <1>18, <1>20, <1>21,
     MarksRInv
<1>22. CASE k # 1
  <2>1. NoNewMarker
    BY <1>6, <1>7, <1>11, <1>22 DEF NoNewMarker
  <2>2. "worker" \in Threads /\ UnitKept(s)
    BY <1>1, <1>3, <1>18 DEF UnitKept, Threads
  <2> QED
    BY <1>9, <1>11, <1>12, <1>16, <1>17, <1>20, <2>1, <2>2, Keeps
<1> QED
  BY <1>21, <1>22

LEMMA InsertEvidenceRInv ==
  ASSUME RInv, IInv', NEW t \in Threads, InsertEvidence(t) PROVE RInv'
BY WriteRInv, RecordRInv DEF InsertEvidence

-----------------------------------------------------------------------------
LEMMA InitRInv == Init => RInv
<1> SUFFICES ASSUME Init PROVE RInv
  OBVIOUS
<1>1. TypeOK
  BY NothingOK DEF Init, TypeOK
<1>2. \A t \in Threads : OpOK(t, ops[t])
  BY NothingOK DEF Init
<1>3. Markers = {}
  BY DEF Init, Markers
<1> QED
  BY <1>1, <1>2, <1>3 DEF Init, RInv, RowsHaveFiles, MarkersOK, ResearchedOnce,
                          CancelKeepsUnitsWhole, AnalysisComplete

LEMMA UnchangedRInv == ASSUME RInv, UNCHANGED vars PROVE RInv'
<1>1. PICK s : s = ops["worker"]
  OBVIOUS
<1>2. "worker" \in Threads /\ s \in Operation /\ OpOK("worker", s)
  BY <1>1, OpsAre DEF Threads
<1>3. Continue("worker", s)
  BY <1>1 DEF Continue, RInv, TypeOK, vars
<1>4. TablesOK' /\ RowsHaveFiles' /\ Still
  BY SameTables DEF vars, data, history, RInv, TypeOK
<1> QED
  BY <1>1, <1>2, <1>3, <1>4, KeepsQuietly DEF vars, history

LEMMA UserRInv == ASSUME RInv, IInv', UserStep PROVE RInv'
<1>1. CASE \E id \in Ids, content \in Contents : ImportArtifact(id, content)
  BY <1>1, ImportRInv
<1>2. CASE \E id \in Ids, value \in Values : AddUserEvidence(id, value)
  BY <1>2, AddEvidenceRInv
<1>3. CASE \E id \in Ids, a \in DOMAIN artifacts : AnalyzeArtifact(id, a)
  BY <1>3, AnalyzeRInv
<1>4. CASE \E id \in Ids, a \in DOMAIN artifacts : StartArtifactResearch(id, a)
  BY <1>4, StartResearchRInv
<1>5. CASE \E k \in DOMAIN evidence : StartModelResearch(k)
  BY <1>5, StartResearchRInv
<1>6. CASE RequestInterruption
  BY <1>6, InterruptRInv
<1> QED
  BY <1>1, <1>2, <1>3, <1>4, <1>5, <1>6 DEF UserStep

LEMMA ThreadRInv == ASSUME RInv, IInv', NEW t \in Threads, ThreadStep(t) PROVE RInv'
BY ReplaceRInv, InsertArtifactRInv, UndoRInv, AnalyzeDocumentRInv, InsertEvidenceRInv
   DEF ThreadStep

LEMMA WorkerRInv == ASSUME RInv, IInv, IInv', WorkerStep PROVE RInv'
<1>1. CASE ReadSources \/ NextSource \/ Authorize \/ SendRequest \/ StoreDocument
  BY <1>1, ReadSourcesRInv, NextSourceRInv, AuthorizeRInv, SendRequestRInv, StoreRInv
<1>2. CASE \/ \E addresses \in 0..MaxAddresses : CheckUrl(addresses)
           \/ AddressFails
           \/ \E destination \in Urls : ReceiveRedirect(destination)
           \/ \E content \in Contents : ReceiveDocument(content)
           \/ ReceiveFailure \/ BeginUnit
  BY <1>2, RoundRInv
<1> QED
  BY <1>1, <1>2 DEF WorkerStep

LEMMA StepRInv == IInv /\ RInv /\ [Next]_vars => RInv'
<1> SUFFICES ASSUME IInv, RInv, [Next]_vars PROVE RInv'
  OBVIOUS
<1>1. IInv'
  BY StepIInv
<1>2. CASE UserStep
  BY <1>1, <1>2, UserRInv
<1>3. CASE \E t \in Threads : ThreadStep(t)
  BY <1>1, <1>3, ThreadRInv
<1>4. CASE WorkerStep
  BY <1>1, <1>4, WorkerRInv
<1>5. CASE \E t \in Threads : Raise(t)
  BY <1>5, RaiseRInv
<1>6. CASE Crash
  BY <1>6, CrashRInv
<1>7. CASE UNCHANGED vars
  BY <1>7, UnchangedRInv
<1> QED
  BY <1>2, <1>3, <1>4, <1>5, <1>6, <1>7 DEF Next

LEMMA SpecRInv == Spec => []RInv
<1>1. RInv /\ IInv /\ [Next]_vars => RInv'
  BY StepRInv
<1> QED
  BY <1>1, InitRInv, SpecIInv, PTL DEF Spec

(* The tables, the files and both threads' operations hold only what the
   schema and the code write there, whatever the order of their steps. *)
THEOREM TypesHold == Spec => []TypeOK
<1>1. RInv => TypeOK
  BY DEF RInv
<1> QED
  BY <1>1, SpecRInv, PTL

(* A cancelled worker sends the request it is at to each address of the host
   at most once more (research_service.py:200), and then neither follows nor
   records what it is answered, wherever the cancellation met it. *)
THEOREM CancelledPromptly == Spec => []CancellationIsPrompt
<1>1. ASSUME IInv, RInv PROVE CancellationIsPrompt
  <2>1. PICK w : w = ops["worker"] /\ Prompt(w) /\ w.addresses \in Nat
    BY <1>1, OpsAre DEF IInv, Threads, Operation
  <2>2. w.late <= w.addresses
    BY <2>1 DEF Prompt, Tried
  <2> QED
    BY <2>1, <2>2 DEF Prompt, Asks, CancellationIsPrompt
<1> QED
  BY <1>1, SpecIInv, SpecRInv, PTL

(* research never records a URL twice for an Investigation: what it has read
   of the researched URLs grows with the markers it writes, and only the
   worker writes them (investigation_service.py:197-272). *)
THEOREM UrlsResearchedOnce == Spec => []ResearchedOnce
<1>1. RInv => ResearchedOnce
  BY DEF RInv
<1> QED
  BY <1>1, SpecRInv, PTL

(* Until a call raises or the process ends, a document whose marker is there
   is whole or still being recorded, wherever a cancellation meets the worker
   (investigation_service.py:232). *)
THEOREM UnitsWhole == Spec => []CancelKeepsUnitsWhole
<1>1. RInv => CancelKeepsUnitsWhole
  BY DEF RInv
<1> QED
  BY <1>1, SpecRInv, PTL

(* When analyze_artifact returns, everything the analyzer finds is Evidence
   of the artifact, though it compared with the Evidence of an earlier moment
   and the other thread went on recording (investigation_service.py:95-139). *)
THEOREM AnalysesComplete == Spec => []AnalysisComplete
<1>1. RInv => AnalysisComplete
  BY DEF RInv
<1> QED
  BY <1>1, SpecRInv, PTL

-----------------------------------------------------------------------------
(* The way to the end of a research operation. *)
Advances ==
  LET old == ops["worker"]
      new == ops'["worker"]
  IN  old.step # "idle" /\ new # old => Nearer(new, old)

LEMMA WorkerGoesOn ==
  ASSUME RInv, NEW s, Continue("worker", s),
         ops["worker"].step # "idle" => Nearer(s, ops["worker"])
  PROVE  Advances
<1>1. ops'["worker"] = s
  BY DEF RInv, TypeOK, Continue, Threads
<1> QED
  BY <1>1 DEF Advances

LEMMA StepsLeftAre ==
  /\ StepsLeft["undo"] = 1 /\ StepsLeft["write"] = 1 /\ StepsLeft["read"] = 2
  /\ StepsLeft["record"] = 3 /\ StepsLeft["insert"] = 4 /\ StepsLeft["replace"] = 5
  /\ StepsLeft["store"] = 6 /\ StepsLeft["persist"] = 7 /\ StepsLeft["response"] = 8
  /\ StepsLeft["request"] = 9 /\ StepsLeft["check"] = 10 /\ StepsLeft["authorize"] = 11
  /\ StepsLeft["next"] = 12
BY DEF StepsLeft

(* What is ahead of a step, without its addresses and with them. *)
LEMMA AheadIs ==
  ASSUME NEW o
  PROVE  /\ o.step \in {"undo", "write", "read", "record", "insert", "replace", "store",
                        "persist"}
            => AddressesLeft(o) = 0
         /\ o.step \in {"response", "request"} => AddressesLeft(o) = o.left
         /\ o.step \in {"check", "authorize", "next"} => AddressesLeft(o) = MaxAddresses
BY DEF AddressesLeft

(* From one step of a unit to the next. *)
LEMMA WorkerStepsOn ==
  ASSUME RInv, NEW w, w = ops["worker"], NEW s, Continue("worker", s),
         s.sources = w.sources, s.hops = w.hops,
         \/ w.step = "next" /\ s.step = "authorize"
         \/ w.step = "authorize" /\ s.step = "check"
         \/ w.step = "check" /\ s.step = "request" /\ s.left \in 0..MaxAddresses
         \/ w.step = "request" /\ s.step = "response" /\ s.left = w.left /\ w.left \in Nat
         \/ w.step \in {"request", "response"} /\ s.step = "request"
            /\ s.left = w.left - 1 /\ w.left \in Nat
         \/ w.step = "response" /\ s.step = "persist" /\ w.left \in Nat
         \/ w.step = "persist" /\ s.step = "store"
         \/ w.step = "store" /\ s.step = "replace"
         \/ w.step = "replace" /\ s.step = "insert"
         \/ w.step = "insert" /\ s.step \in {"undo", "record"}
         \/ w.step = "record" /\ s.step = "read"
         \/ w.step = "read" /\ s.step = "write"
  PROVE  Advances
<1>1. PICK n, m, a, b : /\ n = StepsLeft[s.step] /\ m = StepsLeft[w.step]
                        /\ a = AddressesLeft(s) /\ b = AddressesLeft(w)
  OBVIOUS
<1>2. MaxAddresses \in Nat
  BY BoundsAssumption
<1>3. \/ n \in Nat /\ m \in Nat /\ n < m /\ a \in Nat /\ b \in Nat /\ a <= b
      \/ n = 9 /\ m \in {8, 9} /\ a \in Int /\ b \in Int /\ a = b - 1
  BY <1>1, <1>2, StepsLeftAre, AheadIs
<1>4. n + 2 * a < m + 2 * b
  BY <1>3
<1>5. Nearer(s, w)
  BY <1>1, <1>4 DEF Nearer, StepsAhead
<1> QED
  BY <1>5, WorkerGoesOn

LEMMA WorkerStops == ASSUME RInv, Return("worker") PROVE Advances
<1>1. Nearer(Nothing, ops["worker"])
  BY NothingFields DEF Nearer
<1> QED
  BY <1>1, Returns, WorkerGoesOn

LEMMA OtherThread ==
  ASSUME RInv, Return("gui") \/ (\E s : Continue("gui", s)) \/ UNCHANGED ops
  PROVE  Advances
<1>1. ops'["worker"] = ops["worker"]
  BY DEF RInv, TypeOK, Return, Continue, Threads
<1> QED
  BY <1>1 DEF Advances

(* What the worker is in the middle of. *)
LEMMA WorkerIs ==
  ASSUME RInv
  PROVE  /\ ops["worker"] \in Operation /\ WorkerOK(ops["worker"]) /\ RowsOK(ops["worker"])
         /\ ops["worker"].left \in Nat
         /\ ops["worker"].step \in Working =>
              ops["worker"].sources # {} /\ ops["worker"].sources \in SUBSET Nat
<1>1. ops["worker"] \in Operation /\ WorkerOK(ops["worker"]) /\ RowsOK(ops["worker"])
  BY OpsAre DEF Threads, OpOK
<1> QED
  BY <1>1 DEF WorkerOK, HasSource, Operation

(* One URL less. *)
LEMMA OneLess ==
  ASSUME NEW S \in SUBSET Nat, S # {}
  PROVE  AfterFirst(S) \subseteq S /\ AfterFirst(S) # S
BY FirstIs DEF AfterFirst

LEMMA ReadAdvances == ASSUME RInv, ReadSources PROVE Advances
<1>1. PICK w : w = ops["worker"] /\ w \in Operation /\ w.step = "sources"
  BY WorkerIs DEF ReadSources
<1>2. ASSUME NEW v, NEW d,
             Continue("worker", [w EXCEPT !.step = "next", !.artifact = 0, !.sources = v,
                                          !.done = d])
      PROVE  Advances
  <2>1. PICK s : s = [w EXCEPT !.step = "next", !.artifact = 0, !.sources = v, !.done = d]
    OBVIOUS
  <2>2. s.step = "next"
    BY <1>1, <2>1 DEF Operation
  <2> QED
    BY <1>1, <1>2, <2>1, <2>2, WorkerGoesOn DEF Nearer
<1>3. Return("worker") \/ \E v, d :
        Continue("worker", [w EXCEPT !.step = "next", !.artifact = 0, !.sources = v, !.done = d])
  BY <1>1 DEF ReadSources
<1> QED
  BY <1>2, <1>3, WorkerStops

LEMMA NextAdvances == ASSUME RInv, NextSource PROVE Advances
<1>1. PICK w : w = ops["worker"] /\ w \in Operation /\ w.step = "next"
  BY WorkerIs DEF NextSource
<1>2. CASE w.sources # {} /\ Continue("worker", [w EXCEPT !.sources = AfterFirst(w.sources)])
  <2>1. PICK v : v = AfterFirst(w.sources) /\ v \subseteq w.sources /\ v # w.sources
    BY <1>1, <1>2, OneLess DEF Operation
  <2>2. PICK s : s = [w EXCEPT !.sources = v]
    OBVIOUS
  <2>3. s.step = "next" /\ s.sources = v
    BY <1>1, <2>2 DEF Operation
  <2> QED
    BY <1>1, <1>2, <2>1, <2>2, <2>3, WorkerGoesOn DEF Nearer
<1>3. ASSUME NEW u, Continue("worker", [w EXCEPT !.step = "authorize", !.url = u])
      PROVE  Advances
  <2>1. PICK s : s = [w EXCEPT !.step = "authorize", !.url = u]
    OBVIOUS
  <2>2. s.step = "authorize" /\ s.sources = w.sources /\ s.hops = w.hops
    BY <1>1, <2>1 DEF Operation
  <2> QED
    BY <1>1, <1>3, <2>1, <2>2, WorkerStepsOn
<1> QED
  BY <1>1, <1>2, <1>3, WorkerStops DEF NextSource

(* The steps of a fetch, one after the other. *)
LEMMA FetchAdvances ==
  ASSUME RInv,
         \/ Authorize \/ SendRequest \/ AddressFails \/ ReceiveFailure \/ BeginUnit
         \/ StoreDocument
         \/ \E addresses \in 0..MaxAddresses : CheckUrl(addresses)
         \/ \E content \in Contents : ReceiveDocument(content)
  PROVE  Advances
<1>1. PICK w : w = ops["worker"] /\ w \in Operation /\ w.left \in Nat
  BY WorkerIs
<1>2. CASE Authorize
  <2>1. PICK s : s = [w EXCEPT !.step = "check"] /\ Continue("worker", s)
    BY <1>1, <1>2 DEF Authorize
  <2>2. s.step = "check" /\ s.sources = w.sources /\ s.hops = w.hops
    BY <1>1, <2>1 DEF Operation
  <2> QED
    BY <1>1, <1>2, <2>1, <2>2, WorkerStepsOn DEF Authorize
<1>3. CASE SendRequest
  <2>1. PICK s, l : /\ s = [w EXCEPT !.step = "response", !.asked = TRUE, !.late = l]
                    /\ Continue("worker", s)
    BY <1>1, <1>3 DEF SendRequest
  <2>2. /\ s.step = "response" /\ s.sources = w.sources /\ s.hops = w.hops
        /\ s.left = w.left
    BY <1>1, <2>1 DEF Operation
  <2> QED
    BY <1>1, <1>3, <2>1, <2>2, WorkerStepsOn DEF SendRequest
<1>4. CASE ReceiveFailure
  BY <1>4, WorkerStops DEF ReceiveFailure
<1>5. CASE BeginUnit
  <2>1. ASSUME NEW s, s = [w EXCEPT !.step = "store"], Continue("worker", s) PROVE Advances
    <3>1. s.step = "store" /\ s.sources = w.sources /\ s.hops = w.hops
      BY <1>1, <2>1 DEF Operation
    <3> QED
      BY <1>1, <1>5, <2>1, <3>1, WorkerStepsOn DEF BeginUnit
  <2> QED
    BY <1>1, <1>5, <2>1, WorkerStops DEF BeginUnit
<1>6. CASE StoreDocument
  <2>1. PICK s, k : /\ s = [w EXCEPT !.step = "replace", !.key = k]
                    /\ Continue("worker", s)
    BY <1>1, <1>6 DEF StoreDocument, WriteTemporary
  <2>2. s.step = "replace" /\ s.sources = w.sources /\ s.hops = w.hops
    BY <1>1, <2>1 DEF Operation
  <2> QED
    BY <1>1, <1>6, <2>1, <2>2, WorkerStepsOn DEF StoreDocument
<1>7. ASSUME NEW n \in 0..MaxAddresses, CheckUrl(n) PROVE Advances
  <2>1. ASSUME NEW s, s = [w EXCEPT !.step = "request", !.addresses = n, !.left = n],
               Continue("worker", s)
        PROVE  Advances
    <3>1. s.step = "request" /\ s.sources = w.sources /\ s.hops = w.hops /\ s.left = n
      BY <1>1, <2>1 DEF Operation
    <3> QED
      BY <1>1, <1>7, <2>1, <3>1, WorkerStepsOn DEF CheckUrl
  <2> QED
    BY <1>1, <1>7, <2>1, WorkerStops DEF CheckUrl
<1>8. ASSUME NEW content \in Contents, ReceiveDocument(content) PROVE Advances
  <2>1. ASSUME NEW s, s = [w EXCEPT !.step = "persist", !.content = content,
                                    !.addresses = 0, !.left = 0],
               Continue("worker", s)
        PROVE  Advances
    <3>1. s.step = "persist" /\ s.sources = w.sources /\ s.hops = w.hops
      BY <1>1, <2>1 DEF Operation
    <3> QED
      BY <1>1, <1>8, <2>1, <3>1, WorkerStepsOn DEF ReceiveDocument
  <2> QED
    BY <1>1, <1>8, <2>1, WorkerStops DEF ReceiveDocument
<1>9. CASE AddressFails
  <2>1. PICK n : n = w.left - 1
    OBVIOUS
  <2>2. ASSUME NEW s, s = [w EXCEPT !.step = "request", !.left = n], Continue("worker", s)
        PROVE  Advances
    <3>1. s.step = "request" /\ s.sources = w.sources /\ s.hops = w.hops /\ s.left = n
      BY <1>1, <2>2 DEF Operation
    <3> QED
      BY <1>1, <1>9, <2>1, <2>2, <3>1, WorkerStepsOn DEF AddressFails
  <2>3. Return("worker") \/ Continue("worker", [w EXCEPT !.step = "request", !.left = n])
    BY <1>1, <1>9, <2>1 DEF AddressFails, NextAddress
  <2> QED
    BY <2>2, <2>3, WorkerStops
<1> QED
  BY <1>2, <1>3, <1>4, <1>5, <1>6, <1>7, <1>8, <1>9

(* A redirect goes back to the check, and uses up one of those allowed. *)
LEMMA RedirectAdvances ==
  ASSUME RInv, NEW u \in Urls, ReceiveRedirect(u) PROVE Advances
<1>1. PICK w : w = ops["worker"] /\ w \in Operation /\ w.step = "response" /\ w.hops \in Nat
  BY WorkerIs DEF ReceiveRedirect, Operation
<1>2. CASE Return("worker")
  BY <1>2, WorkerStops
<1>3. CASE ~Return("worker")
  <2>1. PICK n : n = w.hops + 1
    OBVIOUS
  <2>2. PICK s : s = [w EXCEPT !.step = "check", !.url = u, !.hops = n,
                               !.addresses = 0, !.left = 0]
    OBVIOUS
  <2>3. ~(w.hops >= MAX_REDIRECTS) /\ Continue("worker", s)
    BY <1>1, <1>3, <2>1, <2>2 DEF ReceiveRedirect, CountedHop
  <2>4. s.step = "check" /\ s.sources = w.sources /\ s.hops = n
    BY <1>1, <2>2 DEF Operation
  <2>5. n > w.hops /\ n <= MAX_REDIRECTS
    BY <1>1, <2>1, <2>3, BoundsAssumption
  <2> QED
    BY <1>1, <2>3, <2>4, <2>5, WorkerGoesOn DEF Nearer
<1> QED
  BY <1>2, <1>3

(* The end of an analysis leaves its URL behind. *)
LEMMA FinishAdvances ==
  ASSUME RInv, NEW t \in Threads, NEW o \in Operation, FinishAnalysis(t, o),
         t = "worker" => /\ ops["worker"].step \in {"read", "write"}
                         /\ o.sources = ops["worker"].sources
  PROVE  Advances
<1>1. CASE t = "gui"
  BY <1>1, OtherThread DEF FinishAnalysis
<1>2. CASE t = "worker"
  <2>1. o.sources # {} /\ o.sources \in SUBSET Nat /\ ops["worker"].step \in {"read", "write"}
    BY <1>2, WorkerIs DEF Working, Recording
  <2>2. PICK v : v = AfterFirst(o.sources) /\ v \subseteq o.sources /\ v # o.sources
    BY <2>1, OneLess
  <2>3. PICK s, d : /\ s = [o EXCEPT
                              !.step = "next", !.artifact = 0, !.hops = 0, !.key = 0,
                              !.asked = FALSE, !.rows = {}, !.sources = v, !.done = d]
                    /\ Continue("worker", s)
    BY <1>2, <2>2 DEF FinishAnalysis
  <2>4. s.step = "next" /\ s.sources = v
    BY <2>3 DEF Operation
  <2> QED
    BY <1>2, <2>2, <2>3, <2>4, WorkerGoesOn DEF Nearer
<1> QED
  BY <1>1, <1>2 DEF Threads

LEMMA CompareAdvances ==
  ASSUME RInv, NEW t \in Threads, NEW o \in Operation, CompareFindings(t, o),
         t = "worker" => o = ops["worker"] /\ o.step = "read"
  PROVE  Advances
<1>1. CASE Return(t)
  BY <1>1, OtherThread, WorkerStops DEF Threads
<1>2. CASE FinishAnalysis(t, o)
  BY <1>2, FinishAdvances
<1>3. ASSUME NEW missing, Continue(t, [o EXCEPT !.step = "write", !.rows = missing])
      PROVE  Advances
  <2>1. PICK s : s = [o EXCEPT !.step = "write", !.rows = missing]
    OBVIOUS
  <2>2. s.step = "write" /\ s.sources = o.sources /\ s.hops = o.hops
    BY <2>1 DEF Operation
  <2>3. CASE t = "worker"
    BY <1>3, <2>1, <2>2, <2>3, WorkerStepsOn
  <2>4. CASE t = "gui"
    BY <1>3, <2>4, OtherThread
  <2> QED
    BY <2>3, <2>4 DEF Threads
<1> QED
  BY <1>1, <1>2, <1>3 DEF CompareFindings

LEMMA InsertAdvances ==
  ASSUME RInv, NEW t \in Threads, InsertEvidence(t) PROVE Advances
<1>1. PICK o : o = ops[t] /\ o \in Operation /\ RowsOK(o) /\ o.step \in {"record", "write"}
  BY OpsAre DEF InsertEvidence, OpOK
<1>2. o.rows \in SUBSET Nat /\ o.rows # {}
  BY <1>1 DEF RowsOK, Partly, Operation
<1>3. PICK v : v = AfterFirst(o.rows) /\ v \subseteq o.rows /\ v # o.rows
  BY <1>2, OneLess
<1>4. PICK rest : rest = [o EXCEPT !.rows = v]
  OBVIOUS
<1>5. /\ rest \in Operation /\ rest.step = o.step /\ rest.rows = v
      /\ rest.sources = o.sources /\ rest.hops = o.hops
  <2>1. v \in SUBSET Nat
    BY <1>2, <1>3
  <2> QED
    BY <1>1, <1>4, <2>1 DEF Operation
<1>6. CASE Continue(t, rest)
  BY <1>1, <1>3, <1>5, <1>6, WorkerGoesOn, OtherThread DEF Nearer, Threads
<1>7. CASE o.step = "write" /\ FinishAnalysis(t, rest)
  BY <1>1, <1>5, <1>7, FinishAdvances
<1>8. CASE o.step = "record" /\ Continue(t, [rest EXCEPT !.step = "read"])
  <2>1. PICK s : s = [rest EXCEPT !.step = "read"]
    OBVIOUS
  <2>2. s.step = "read" /\ s.sources = o.sources /\ s.hops = o.hops
    BY <1>5, <2>1 DEF Operation
  <2> QED
    BY <1>1, <1>8, <2>1, <2>2, WorkerStepsOn, OtherThread DEF Threads
<1> QED
  BY <1>1, <1>3, <1>4, <1>6, <1>7, <1>8 DEF InsertEvidence, StopsRecording

LEMMA ThreadAdvances == ASSUME RInv, NEW t \in Threads, ThreadStep(t) PROVE Advances
<1>1. CASE InsertArtifact(t)
  <2>1. CASE t = "gui"
    BY <1>1, <2>1, OtherThread DEF InsertArtifact
  <2>2. CASE t = "worker"
    <3>1. PICK w : w = ops["worker"] /\ w \in Operation /\ w.step = "insert"
      BY <1>1, <2>2, WorkerIs DEF InsertArtifact
    <3>2. PICK s, a, r : /\ s = [w EXCEPT !.step = "record", !.artifact = a, !.rows = r]
                         /\ Continue("worker", s)
      BY <1>1, <2>2, <3>1 DEF InsertArtifact
    <3>3. s.step = "record" /\ s.sources = w.sources /\ s.hops = w.hops
      BY <3>1, <3>2 DEF Operation
    <3> QED
      BY <3>1, <3>2, <3>3, WorkerStepsOn
  <2> QED
    BY <2>1, <2>2 DEF Threads
<1>2. CASE UndoImport(t)
  BY <1>2, OtherThread, WorkerStops DEF UndoImport, Threads
<1>3. CASE ReplaceTemporary(t)
  <2>1. PICK o : o = ops[t] /\ o \in Operation /\ o.step = "replace"
    BY <1>3, OpsAre DEF ReplaceTemporary
  <2>2. PICK s : s = [o EXCEPT !.step = "insert"] /\ Continue(t, s)
    BY <1>3, <2>1 DEF ReplaceTemporary
  <2>3. s.step = "insert" /\ s.sources = o.sources /\ s.hops = o.hops
    BY <2>1, <2>2 DEF Operation
  <2> QED
    BY <2>1, <2>2, <2>3, WorkerStepsOn, OtherThread DEF Threads
<1>4. CASE AnalyzeDocument(t)
  BY <1>4, OpsAre, CompareAdvances DEF AnalyzeDocument
<1>5. CASE InsertEvidence(t)
  BY <1>5, InsertAdvances
<1> QED
  BY <1>1, <1>2, <1>3, <1>4, <1>5 DEF ThreadStep

LEMMA UserAdvances == ASSUME RInv, UserStep PROVE Advances
<1>1. CASE \E id \in Ids, content \in Contents : ImportArtifact(id, content)
  BY <1>1, OtherThread DEF ImportArtifact, WriteTemporary
<1>2. CASE \E id \in Ids, value \in Values : AddUserEvidence(id, value)
  BY <1>2, OtherThread DEF AddUserEvidence
<1>3. ASSUME NEW id \in Ids, NEW a \in DOMAIN artifacts, AnalyzeArtifact(id, a) PROVE Advances
  <2>1. PICK o : o = [Nothing EXCEPT !.id = id, !.artifact = a]
    OBVIOUS
  <2>2. o \in Operation
    <3>1. a \in Nat /\ Nothing \in Operation
      BY NothingOK DEF RInv, TypeOK
    <3> QED
      BY <2>1, <3>1 DEF Operation
  <2> QED
    BY <1>3, <2>1, <2>2, CompareAdvances DEF AnalyzeArtifact, Threads
<1>4. CASE \/ \E id \in Ids, a \in DOMAIN artifacts : StartArtifactResearch(id, a)
           \/ \E k \in DOMAIN evidence : StartModelResearch(k)
  <2>1. ops["worker"].step = "idle"
    BY <1>4 DEF StartArtifactResearch, StartModelResearch, StartWorker
  <2> QED
    BY <2>1 DEF Advances
<1>5. CASE RequestInterruption
  <2>1. /\ ~ops["worker"].cancelled
        /\ Continue("worker", [ops["worker"] EXCEPT !.cancelled = TRUE])
    BY <1>5 DEF RequestInterruption
  <2> QED
    BY <2>1, WorkerGoesOn DEF Nearer
<1> QED
  BY <1>1, <1>2, <1>3, <1>4, <1>5 DEF UserStep

LEMMA StepAdvances == RInv /\ [Next]_vars => [Advances]_vars
<1> SUFFICES ASSUME RInv, Next PROVE Advances
  OBVIOUS
<1>1. CASE UserStep
  BY <1>1, UserAdvances
<1>2. ASSUME NEW t \in Threads, ThreadStep(t) PROVE Advances
  BY <1>2, ThreadAdvances
<1>3. CASE WorkerStep
  BY <1>3, ReadAdvances, NextAdvances, FetchAdvances, RedirectAdvances DEF WorkerStep
<1>4. ASSUME NEW t \in Threads, Raise(t) PROVE Advances
  <2>1. PICK o : o = ops[t] /\ o \in Operation
    BY OpsAre
  <2>2. CASE Return(t)
    BY <2>2, OtherThread, WorkerStops DEF Threads
  <2>3. CASE o.step = "insert" /\ Continue(t, [o EXCEPT !.step = "undo"])
    <3>1. PICK s : s = [o EXCEPT !.step = "undo"]
      OBVIOUS
    <3>2. s.step = "undo" /\ s.sources = o.sources /\ s.hops = o.hops
      BY <2>1, <3>1 DEF Operation
    <3> QED
      BY <2>1, <2>3, <3>1, <3>2, WorkerStepsOn, OtherThread DEF Threads
  <2> QED
    BY <1>4, <2>1, <2>2, <2>3 DEF Raise, Undone
<1>5. CASE Crash
  <2>1. ops'["worker"].step = "idle"
    BY <1>5, NothingFields DEF Crash, Threads
  <2> QED
    BY <2>1 DEF Advances, Nearer
<1> QED
  BY <1>1, <1>2, <1>3, <1>4, <1>5 DEF Next

(* Every step the worker takes brings the end of its research nearer: it goes
   to its next URL, follows one of the redirects it has left, gives up one of
   the host's addresses, gets on with the document or inserts one of its rows,
   whatever a server answers, a call raises or the user cancels
   (investigation_service.py:197-272, research_service.py:95, 200). *)
THEOREM AlwaysAdvances == Spec => ResearchAdvances
<1>1. RInv /\ [Next]_vars => [Advances]_vars
  BY StepAdvances
<1>2. Spec => [][Advances]_vars
  BY <1>1, SpecRInv, PTL DEF Spec
<1> QED
  BY <1>2 DEF ResearchAdvances, Advances

=============================================================================
