--------------------------- MODULE ReviewDeskProofs ---------------------------
(***************************************************************************)
(* Proofs about ReviewDesk, for any Investigations, requests and proposals *)
(* and whatever the workers end with: its types, the single use of every   *)
(* proposal, the order of the events of a runner in the GUI thread's       *)
(* queue, and that no thread waits for an event that never comes.          *)
(***************************************************************************)
EXTENDS ReviewDesk, FiniteSetTheorems, SequenceTheorems, TLAPS

(* A message names proposals that exist. *)
MessagesInv == \A k \in DOMAIN toPage : toPage[k].tokens \subseteq DOMAIN proposals

TypeInv == TypeOK /\ MessagesInv

(* The events of a runner are those of the thread it has, and its end is the
   last of them. *)
QueueInv ==
  /\ \A k \in DOMAIN queue : threads[queue[k].runner].stage \in {"looping", "stopped"}
  /\ \A k \in DOMAIN queue : queue[k].type = "finished" =>
       /\ threads[queue[k].runner].stage = "stopped"
       /\ \A j \in DOMAIN queue : j > k => queue[j].runner # queue[k].runner

(* A thread is for some Investigation. *)
ThreadsNamed ==
  \A r \in Runners : threads[r].stage # "none" => threads[r].of \in Investigations

(* A token that resolves, or that no proposal has yet, was not used. *)
Uses(t) == Count(claims, t) + Count(researched, t)

UsedInv ==
  \A t \in Nat : /\ Uses(t) <= 1
                 /\ t \in live \/ t \notin DOMAIN proposals => Uses(t) = 0

-----------------------------------------------------------------------------
LEMMA CountIsNat ==
  ASSUME NEW S, NEW s \in Seq(S), NEW t
  PROVE  Count(s, t) \in Nat
<1>1. IsFiniteSet(DOMAIN s)
  BY FS_Interval
<1>2. {k \in DOMAIN s : s[k] = t} \subseteq DOMAIN s
  OBVIOUS
<1>3. IsFiniteSet({k \in DOMAIN s : s[k] = t})
  BY <1>1, <1>2, FS_Subset
<1> QED
  BY <1>3, FS_CardinalityType DEF Count

LEMMA CountAppend ==
  ASSUME NEW S, NEW s \in Seq(S), NEW e \in S, NEW t
  PROVE  Count(Append(s, e), t) = IF e = t THEN Count(s, t) + 1 ELSE Count(s, t)
<1> DEFINE A == {k \in DOMAIN s : s[k] = t}
           B == {k \in DOMAIN Append(s, e) : Append(s, e)[k] = t}
           n == Len(s)
<1>1. /\ n \in Nat /\ DOMAIN s = 1..n /\ DOMAIN Append(s, e) = 1..(n + 1)
      /\ Append(s, e)[n + 1] = e /\ \A k \in 1..n : Append(s, e)[k] = s[k]
  OBVIOUS
<1>2. IsFiniteSet(A)
  <2>1. IsFiniteSet(1..n)
    BY <1>1, FS_Interval
  <2> QED
    BY <1>1, <2>1, FS_Subset
<1>3. CASE e = t
  <2>1. B = A \cup {n + 1} /\ n + 1 \notin A
    BY <1>1, <1>3
  <2>2. Cardinality(B) = Cardinality(A) + 1
    BY <1>2, <2>1, FS_AddElement
  <2> QED
    BY <1>3, <2>2 DEF Count
<1>4. CASE e # t
  <2>1. B = A
    BY <1>1, <1>4
  <2> QED
    BY <1>4, <2>1 DEF Count
<1> QED
  BY <1>3, <1>4

LEMMA CountEmpty == ASSUME NEW t PROVE Count(<< >>, t) = 0
<1>1. {k \in DOMAIN << >> : << >>[k] = t} = {}
  OBVIOUS
<1> QED
  BY <1>1, FS_EmptySet DEF Count

-----------------------------------------------------------------------------
(* The types, one conjunct of TypeInv at a time. *)
ThreadsOK == threads \in [Runners -> Thread]

QueueOK == queue \in Seq(Event)

Proposal == [investigation : Investigations, kind : Kind]

ServiceOK == proposals \in Seq(Proposal) /\ live \subseteq DOMAIN proposals

Page ==
  [busy : BOOLEAN, active : Investigations \cup {Null},
   views : [Investigations -> SUBSET DOMAIN proposals]]

PageOK == page \in Page

ToBackendOK == toBackend \in Seq(Request)

ToPageOK == toPage \in Seq(Message) /\ MessagesInv

HistoryOK ==
  /\ claims \in Seq(DOMAIN proposals) /\ researched \in Seq(DOMAIN proposals)
  /\ consumed \subseteq DOMAIN proposals /\ escaped \in BOOLEAN /\ sent \in Nat

LEMMA TypeInvParts ==
  TypeInv <=> /\ ThreadsOK /\ QueueOK /\ ServiceOK /\ PageOK /\ ToBackendOK /\ ToPageOK
              /\ closing \in {"no", "research", "analysis", "exited"} /\ HistoryOK
BY DEF TypeInv, TypeOK, ThreadsOK, QueueOK, ServiceOK, PageOK, Page, ToBackendOK,
       ToPageOK, HistoryOK, Proposal

LEMMA TypeInvNext ==
  ASSUME ThreadsOK', QueueOK', ServiceOK', PageOK', ToBackendOK', ToPageOK',
         closing' \in {"no", "research", "analysis", "exited"}, HistoryOK'
  PROVE  TypeInv'
BY DEF TypeInv, TypeOK, ThreadsOK, QueueOK, ServiceOK, PageOK, Page, ToBackendOK,
       ToPageOK, HistoryOK, Proposal

LEMMA NoThreadIsThread == NoThread \in Thread /\ NoThread.stage = "none"
<1>1. FALSE \in BOOLEAN
  BY Zenon
<1>2. "none" \in Stage
  BY DEF Stage
<1>3. NoThread \in Thread
  BY <1>1, <1>2, Zenon DEF NoThread, Thread
<1> QED
  BY <1>3, Zenon DEF NoThread

LEMMA StartedIsThread ==
  ASSUME NEW i \in Investigations
  PROVE  /\ StartedThread(i) \in Thread /\ StartedThread(i).stage = "running"
         /\ StartedThread(i).of = i
<1>1. FALSE \in BOOLEAN
  BY Zenon
<1>2. "running" \in Stage
  BY DEF Stage
<1>3. StartedThread(i) \in Thread
  BY <1>1, <1>2, Zenon DEF StartedThread, Thread
<1> QED
  BY <1>3, Zenon DEF StartedThread

LEMMA QuitIsThread ==
  ASSUME NEW t \in Thread, NEW b \in BOOLEAN, NEW u, u = [t EXCEPT !.quit = b]
  PROVE  u \in Thread /\ u.stage = t.stage /\ u.of = t.of
<1>1. u \in Thread
  BY DEF Thread
<1>2. u.stage = t.stage /\ u.of = t.of
  BY DEF Thread
<1> QED
  BY <1>1, <1>2

LEMMA StageIsThread ==
  ASSUME NEW t \in Thread, NEW x \in Stage, NEW u, u = [t EXCEPT !.stage = x]
  PROVE  u \in Thread /\ u.stage = x /\ u.of = t.of
BY DEF Thread

LEMMA EventIsEvent ==
  ASSUME NEW type \in {"succeeded", "failed", "quit", "finished"}, NEW r \in Runners
  PROVE  /\ Event_(type, r) \in Event /\ Event_(type, r).type = type
         /\ Event_(type, r).runner = r
BY DEF Event_, Event

LEMMA MsgIsMessage ==
  ASSUME NEW type \in {"researchStarted", "researchEnded", "analysisStarted",
                       "analysisCompleted", "analysisFailed", "removed"},
         NEW i \in Investigations, NEW tokens \in SUBSET Nat
  PROVE  Msg(type, i, tokens) \in Message /\ Msg(type, i, tokens).tokens = tokens
BY DEF Msg, Message

LEMMA ToPageAppend ==
  ASSUME ToPageOK, ServiceOK, NEW m \in Message, m.tokens \subseteq DOMAIN proposals,
         toPage' = Append(toPage, m), proposals' = proposals
  PROVE  ToPageOK'
BY DEF ToPageOK, MessagesInv

LEMMA EmptyPageIsPage == EmptyPage \in Page
<1>1. FALSE \in BOOLEAN
  BY Zenon
<1>2. [i \in Investigations |-> {}] \in [Investigations -> SUBSET DOMAIN proposals]
  OBVIOUS
<1> QED
  BY <1>1, <1>2, Zenon DEF EmptyPage, Page

LEMMA InitTypeInv == Init => TypeInv
<1> SUFFICES ASSUME Init PROVE TypeInv
  OBVIOUS
<1>1. ThreadsOK
  BY NoThreadIsThread DEF Init, ThreadsOK
<1>2. QueueOK /\ ServiceOK /\ ToBackendOK /\ ToPageOK
  BY DEF Init, QueueOK, ServiceOK, ToBackendOK, ToPageOK, MessagesInv
<1>3. PageOK
  BY EmptyPageIsPage DEF Init, PageOK
<1>4. escaped \in BOOLEAN
  BY Zenon DEF Init
<1>5. HistoryOK /\ closing = "no"
  BY <1>4 DEF Init, HistoryOK
<1> QED
  BY <1>1, <1>2, <1>3, <1>5, TypeInvParts

(* The clicks of the user. *)
LEMMA ClickTypeInv == ASSUME TypeInv, UserClicks PROVE TypeInv'
<1> USE TypeInvParts
<1>1. PICK r \in Request : Send(r)
  <2>1. ASSUME NEW i \in Investigations, ClickResearch(i) \/ ClickAnalyze(i)
        PROVE  \E r \in Request : Send(r)
    BY <2>1 DEF ClickResearch, ClickAnalyze, Request
  <2>2. ASSUME NEW i \in Investigations, NEW t \in DOMAIN proposals,
               NEW type \in {"accept", "execute", "discard"}, ClickProposal(i, t, type)
        PROVE  \E r \in Request : Send(r)
    <3>1. t \in Nat
      BY DEF ServiceOK
    <3> QED
      BY <2>2, <3>1 DEF ClickProposal, Request
  <2> QED
    BY <2>1, <2>2 DEF UserClicks
<1>2. ToBackendOK' /\ sent' \in Nat
  BY <1>1 DEF Send, ToBackendOK, HistoryOK
<1>3. UNCHANGED <<threads, queue, proposals, live, page, toPage, closing,
                  claims, researched, consumed, escaped>>
  BY <1>1 DEF Send, service
<1>4. ThreadsOK' /\ QueueOK' /\ ServiceOK' /\ PageOK' /\ ToPageOK' /\ HistoryOK'
  BY <1>2, <1>3 DEF ThreadsOK, QueueOK, ServiceOK, PageOK, Page, ToPageOK, MessagesInv,
     HistoryOK
<1> QED
  BY <1>2, <1>3, <1>4, TypeInvNext

LEMMA PageBusy ==
  ASSUME NEW g \in Page, NEW b \in BOOLEAN, NEW h, h = [g EXCEPT !.busy = b]
  PROVE  h \in Page
BY DEF Page

LEMMA PageActive ==
  ASSUME NEW g \in Page, NEW a \in Investigations \cup {Null}, NEW h,
         h = [g EXCEPT !.active = a]
  PROVE  h \in Page
BY DEF Page

LEMMA PageViews ==
  ASSUME NEW g \in Page, NEW i \in Investigations, NEW v \in SUBSET DOMAIN proposals,
         NEW h, h = [g EXCEPT !.views[i] = v]
  PROVE  h \in Page
BY DEF Page

LEMMA PageTypeInv == ASSUME TypeInv, PageReceives PROVE TypeInv'
<1> DEFINE m == Head(toPage)
<1> USE TypeInvParts
<1>1. toPage \in Seq(Message) /\ toPage # << >> /\ toPage' = Tail(toPage)
  BY DEF PageReceives, ToPageOK
<1>2. m \in Message /\ m = toPage[1] /\ 1 \in DOMAIN toPage
  BY <1>1
<1>3. m.tokens \subseteq DOMAIN proposals
  BY <1>2 DEF ToPageOK, MessagesInv
<1>4. UNCHANGED <<threads, queue, service, toBackend, closing, history>>
  BY DEF PageReceives
<1>5. ToPageOK'
  <2>1. /\ toPage' \in Seq(Message)
        /\ \A k \in DOMAIN toPage' : k + 1 \in DOMAIN toPage /\ toPage'[k] = toPage[k + 1]
    BY <1>1
  <2> QED
    BY <1>4, <2>1 DEF ToPageOK, MessagesInv, service
<1>6. m.investigation \in Investigations
      /\ m.type \in {"researchStarted", "researchEnded", "analysisStarted",
                     "analysisCompleted", "analysisFailed", "removed"}
  BY <1>2 DEF Message
<1>7. page \in Page /\ TRUE \in BOOLEAN /\ FALSE \in BOOLEAN
  BY Zenon DEF PageOK
<1> HIDE DEF m
<1>8. page' \in Page
  <2>1. CASE m.type = "researchStarted"
    BY <1>7, <2>1, PageBusy DEF PageReceives, m
  <2>2. CASE m.type = "researchEnded"
    BY <1>7, <2>2, PageBusy DEF PageReceives, m
  <2>3. CASE m.type = "analysisStarted"
    <3>1. PICK g : g = [page EXCEPT !.active = m.investigation]
      OBVIOUS
    <3>2. page' = [g EXCEPT !.views[m.investigation] = {}]
      BY <2>3, <3>1 DEF PageReceives, m
    <3> QED
      BY <1>6, <1>7, <3>1, <3>2, PageActive, PageViews
  <2>4. CASE m.type = "analysisCompleted"
    <3>1. PICK g : g = [page EXCEPT !.active = Null]
      OBVIOUS
    <3>2. page' = [g EXCEPT !.views[m.investigation] = m.tokens]
      BY <2>4, <3>1 DEF PageReceives, m
    <3> QED
      BY <1>3, <1>6, <1>7, <3>1, <3>2, PageActive, PageViews
  <2>5. CASE m.type = "analysisFailed"
    BY <1>7, <2>5, PageActive DEF PageReceives, m
  <2>6. CASE m.type = "removed"
    <3>1. page' = [page EXCEPT !.views[m.investigation] =
                     page.views[m.investigation] \ m.tokens]
      BY <2>6 DEF PageReceives, m
    <3>2. page.views[m.investigation] \ m.tokens \in SUBSET DOMAIN proposals
      BY <1>6, <1>7 DEF Page
    <3> QED
      BY <1>6, <1>7, <3>1, <3>2, PageViews
  <2> QED
    BY <1>6, <2>1, <2>2, <2>3, <2>4, <2>5, <2>6
<1>9. PageOK'
  BY <1>4, <1>8 DEF PageOK, Page, service
<1> QED
  BY <1>4, <1>5, <1>9, TypeInvNext DEF ThreadsOK, QueueOK, ServiceOK, ToBackendOK,
     HistoryOK, history, service

(* The calls of the page. *)
LEMMA TakesTypeInv ==
  ASSUME TypeInv, NEW type, Takes(type)
  PROVE  /\ Head(toBackend) \in Request /\ Head(toBackend).investigation \in Investigations
         /\ ToBackendOK'
<1>1. toBackend \in Seq(Request) /\ toBackend # << >> /\ toBackend' = Tail(toBackend)
  BY TypeInvParts DEF Takes, ToBackendOK
<1>2. Head(toBackend) \in Request /\ toBackend' \in Seq(Request)
  BY <1>1
<1> QED
  BY <1>2 DEF Request, ToBackendOK

LEMMA StartTypeInv ==
  ASSUME TypeInv, NEW r \in Runners, NEW i \in Investigations,
         threads' = [threads EXCEPT ![r] = StartedThread(i)]
  PROVE  /\ ThreadsOK'
         /\ \A q \in Runners : threads'[q] = IF q = r THEN StartedThread(i) ELSE threads[q]
BY TypeInvParts, StartedIsThread DEF ThreadsOK

LEMMA BridgeRefusesTypeInv ==
  ASSUME TypeInv, ToBackendOK', Refuse, UNCHANGED <<queue, page, closing, sent>>
  PROVE  TypeInv'
BY TypeInvParts, TypeInvNext DEF Refuse, ThreadsOK, QueueOK, ServiceOK, PageOK, Page,
   ToPageOK, MessagesInv, HistoryOK, service

LEMMA StartResearchTypeInv == ASSUME TypeInv, StartResearch PROVE TypeInv'
<1> USE TypeInvParts
<1>1. PICK i \in Investigations : i = Head(toBackend).investigation /\ ToBackendOK'
  BY TakesTypeInv DEF StartResearch
<1>2. CASE IsBusy("research")
  BY <1>1, <1>2, BridgeRefusesTypeInv DEF StartResearch
<1>3. CASE ~IsBusy("research")
  <2>1. /\ threads' = [threads EXCEPT !["research"] = StartedThread(i)]
        /\ toPage' = Append(toPage, Msg("researchStarted", i, {}))
        /\ UNCHANGED <<proposals, live, claims, researched, consumed, escaped,
                       queue, page, closing, sent>>
    BY <1>1, <1>3 DEF StartResearch, service
  <2>2. Msg("researchStarted", i, {}) \in Message /\ Msg("researchStarted", i, {}).tokens = {}
    BY MsgIsMessage
  <2>3. ToPageOK'
    BY <2>1, <2>2, ToPageAppend
  <2>4. ThreadsOK'
    BY <2>1, StartTypeInv DEF Runners
  <2> QED
    BY <1>1, <2>1, <2>3, <2>4, TypeInvNext DEF QueueOK, ServiceOK, PageOK, Page, HistoryOK
<1> QED
  BY <1>2, <1>3

LEMMA StartAnalysisTypeInv == ASSUME TypeInv, StartAnalysis PROVE TypeInv'
<1> USE TypeInvParts
<1>1. PICK i \in Investigations : i = Head(toBackend).investigation /\ ToBackendOK'
  BY TakesTypeInv DEF StartAnalysis
<1>2. CASE IsBusy("analysis")
  BY <1>1, <1>2, BridgeRefusesTypeInv DEF StartAnalysis
<1>3. CASE ~IsBusy("analysis")
  <2>1. /\ threads' = [threads EXCEPT !["analysis"] = StartedThread(i)]
        /\ toPage' = Append(toPage, Msg("analysisStarted", i, {}))
        /\ UNCHANGED <<proposals, live, claims, researched, consumed, escaped,
                       queue, page, closing, sent>>
    BY <1>1, <1>3 DEF StartAnalysis, service
  <2>2. Msg("analysisStarted", i, {}) \in Message /\ Msg("analysisStarted", i, {}).tokens = {}
    BY MsgIsMessage
  <2>3. ToPageOK'
    BY <2>1, <2>2, ToPageAppend
  <2>4. ThreadsOK'
    BY <2>1, StartTypeInv DEF Runners
  <2> QED
    BY <1>1, <2>1, <2>3, <2>4, TypeInvNext DEF QueueOK, ServiceOK, PageOK, Page, HistoryOK
<1> QED
  BY <1>2, <1>3

LEMMA LiveProposal ==
  ASSUME TypeInv, NEW t \in live
  PROVE  t \in DOMAIN proposals /\ proposals[t].investigation \in Investigations
<1>1. proposals \in Seq(Proposal) /\ t \in DOMAIN proposals
  BY TypeInvParts DEF ServiceOK
<1>2. proposals[t] \in Proposal
  BY <1>1
<1> QED
  BY <1>1, <1>2 DEF Proposal

LEMMA RemovedMessage ==
  ASSUME TypeInv, NEW i \in Investigations, NEW t \in live
  PROVE  /\ t \in Nat /\ t \in DOMAIN proposals
         /\ Msg("removed", i, {t}) \in Message
         /\ Msg("removed", i, {t}).tokens \subseteq DOMAIN proposals
<1>1. t \in DOMAIN proposals /\ t \in Nat
  BY TypeInvParts DEF ServiceOK
<1> QED
  BY <1>1, MsgIsMessage

LEMMA AcceptTypeInv ==
  ASSUME TypeInv, NEW persisted \in BOOLEAN, NEW replied \in BOOLEAN,
         AcceptClaim(persisted, replied)
  PROVE  TypeInv'
<1> USE TypeInvParts
<1>1. PICK r \in Request :
         r = Head(toBackend) /\ r.investigation \in Investigations /\ ToBackendOK'
  BY TakesTypeInv DEF AcceptClaim
<1>2. CASE r.token \notin live \/ ~persisted
  BY <1>1, <1>2, BridgeRefusesTypeInv DEF AcceptClaim
<1>3. CASE r.token \in live /\ persisted
  <2>1. /\ claims' = Append(claims, r.token) /\ live' = live \ {r.token}
        /\ UNCHANGED <<threads, proposals, researched, consumed, queue, page, closing, sent>>
    BY <1>1, <1>3 DEF AcceptClaim, ClaimConsumes
  <2>2. \/ toPage' = Append(toPage, Msg("removed", r.investigation, {r.token}))
           /\ escaped' = escaped
        \/ toPage' = toPage /\ escaped' = TRUE
    BY <1>1, <1>3 DEF AcceptClaim
  <2>3. ToPageOK'
    BY <1>1, <1>3, <2>1, <2>2, RemovedMessage, ToPageAppend DEF ToPageOK, MessagesInv
  <2>4. escaped' \in BOOLEAN
    <3>1. escaped \in BOOLEAN
      BY DEF HistoryOK
    <3> QED
      BY <2>2, <3>1, Zenon
  <2>5. HistoryOK'
    <3>1. r.token \in DOMAIN proposals
      BY <1>3 DEF ServiceOK
    <3>2. claims' \in Seq(DOMAIN proposals)
      BY <2>1, <3>1 DEF HistoryOK
    <3> QED
      BY <2>1, <2>4, <3>2 DEF HistoryOK
  <2> QED
    BY <1>1, <2>1, <2>3, <2>5, TypeInvNext DEF ThreadsOK, QueueOK, ServiceOK, PageOK, Page
<1> QED
  BY <1>2, <1>3

LEMMA DiscardTypeInv == ASSUME TypeInv, DiscardProposal PROVE TypeInv'
<1> USE TypeInvParts
<1>1. PICK r \in Request :
         r = Head(toBackend) /\ r.investigation \in Investigations /\ ToBackendOK'
  BY TakesTypeInv DEF DiscardProposal
<1>2. CASE r.token \notin live
  BY <1>1, <1>2, BridgeRefusesTypeInv DEF DiscardProposal
<1>3. CASE r.token \in live
  <2>1. /\ toPage' = Append(toPage, Msg("removed", r.investigation, {r.token}))
        /\ live' = live \ {r.token}
        /\ UNCHANGED <<threads, proposals, claims, researched, consumed, escaped,
                       queue, page, closing, sent>>
    BY <1>1, <1>3 DEF DiscardProposal
  <2>2. ToPageOK'
    BY <1>1, <1>3, <2>1, RemovedMessage, ToPageAppend
  <2> QED
    BY <1>1, <2>1, <2>2, TypeInvNext DEF ThreadsOK, QueueOK, ServiceOK, PageOK, Page, HistoryOK
<1> QED
  BY <1>2, <1>3

LEMMA ExecuteTypeInv == ASSUME TypeInv, ExecuteResearch PROVE TypeInv'
<1> USE TypeInvParts
<1> DEFINE r == Head(toBackend)
<1>1. r \in Request /\ r.investigation \in Investigations /\ ToBackendOK'
  BY TakesTypeInv DEF ExecuteResearch
<1>2. CASE IsBusy("research") \/ r.token \notin live
  BY <1>1, <1>2, BridgeRefusesTypeInv DEF ExecuteResearch, AskedFirst
<1>3. CASE ~IsBusy("research") /\ r.token \in live
  <2> DEFINE i == proposals[r.token].investigation
  <2>2. /\ threads' = [threads EXCEPT !["research"] = StartedThread(i)]
        /\ live' = live \ {r.token} /\ consumed' = consumed \cup {r.token}
        /\ researched' = Append(researched, r.token)
        /\ toPage' = toPage \o <<Msg("researchStarted", i, {}),
                                 Msg("removed", r.investigation, {r.token})>>
        /\ UNCHANGED <<proposals, claims, escaped, queue, page, closing, sent>>
    <3>1. ~(AskedFirst \/ r.token \notin live) /\ ~IsBusy("research")
      BY <1>3 DEF AskedFirst
    <3>2. live' = live \ {r.token} /\ consumed' = consumed \cup {r.token}
      BY <3>1 DEF ExecuteResearch
    <3>3. /\ threads' = [threads EXCEPT !["research"] = StartedThread(i)]
          /\ researched' = Append(researched, r.token)
      BY <3>1 DEF ExecuteResearch
    <3>4. toPage' = toPage \o <<Msg("researchStarted", i, {}),
                                Msg("removed", r.investigation, {r.token})>>
      BY <3>1 DEF ExecuteResearch
    <3>5. UNCHANGED <<proposals, claims, escaped, queue, page, closing, sent>>
      BY <3>1 DEF ExecuteResearch
    <3> HIDE DEF r, i
    <3> QED
      BY <3>2, <3>3, <3>4, <3>5
  <2>3. r.token \in DOMAIN proposals /\ i \in Investigations
    BY <1>3, LiveProposal
  <2> HIDE DEF r, i
  <2>4. PICK m1 \in Message, m2 \in Message :
           /\ m1 = Msg("researchStarted", i, {}) /\ m1.tokens = {}
           /\ m2 = Msg("removed", r.investigation, {r.token}) /\ m2.tokens = {r.token}
    BY <1>1, <1>3, <2>3, MsgIsMessage, RemovedMessage
  <2>5. toPage' = Append(Append(toPage, m1), m2)
    BY <2>2, <2>4 DEF ToPageOK
  <2>6. ToPageOK'
    BY <2>2, <2>3, <2>4, <2>5 DEF ToPageOK, MessagesInv
  <2>7. ThreadsOK'
    BY <2>2, <2>3, StartTypeInv DEF Runners
  <2>8. HistoryOK'
    BY <2>2, <2>3 DEF HistoryOK
  <2> QED
    BY <1>1, <2>2, <2>6, <2>7, <2>8, TypeInvNext DEF QueueOK, ServiceOK, PageOK, Page
<1> QED
  BY <1>2, <1>3

(* The workers and the queue. *)
LEMMA StageTypeInv ==
  ASSUME TypeInv, NEW r \in Runners, NEW x \in Stage,
         threads' = [threads EXCEPT ![r].stage = x]
  PROVE  /\ ThreadsOK'
         /\ \A q \in Runners : /\ threads'[q].stage = IF q = r THEN x ELSE threads[q].stage
                               /\ threads'[q].of = threads[q].of
<1>1. PICK u : u = [threads[r] EXCEPT !.stage = x]
  OBVIOUS
<1>2. u \in Thread /\ u.stage = x /\ u.of = threads[r].of
  BY <1>1, StageIsThread, TypeInvParts DEF ThreadsOK
<1>3. threads' = [threads EXCEPT ![r] = u]
  BY <1>1
<1> QED
  BY <1>2, <1>3, TypeInvParts DEF ThreadsOK

LEMMA QuitTypeInv ==
  ASSUME TypeInv, NEW r \in Runners, threads' = [threads EXCEPT ![r] = ToldToQuit(threads[r])]
  PROVE  /\ ThreadsOK'
         /\ \A q \in Runners : /\ threads'[q].stage = threads[q].stage
                               /\ threads'[q].of = threads[q].of
<1>1. PICK u : u = [threads[r] EXCEPT !.quit = TRUE]
  OBVIOUS
<1>2. TRUE \in BOOLEAN
  BY Zenon
<1>3. u \in Thread /\ u.stage = threads[r].stage /\ u.of = threads[r].of
  BY <1>1, <1>2, QuitIsThread, TypeInvParts DEF ThreadsOK
<1>4. threads' = [threads EXCEPT ![r] = u]
  BY <1>1 DEF ToldToQuit
<1> QED
  BY <1>3, <1>4, TypeInvParts DEF ThreadsOK

(* What a worker's end adds to the queue: one or two events of its runner,
   none of them its end. *)
LEMMA ReturnEvents ==
  ASSUME TypeInv, NEW r \in Runners, NEW outcome \in {"succeeded", "failed", "escaped"},
         WorkerReturns(r, outcome)
  PROVE  \E q \in Event : \E e \in Event :
           /\ q.type # "finished" /\ q.runner = r /\ e.type # "finished" /\ e.runner = r
           /\ queue' = Append(queue, q) \/ queue' = Append(Append(queue, e), q)
<1>1. PICK q \in Event : q = Event_("quit", r) /\ q.type = "quit" /\ q.runner = r
  BY EventIsEvent
<1>2. queue \in Seq(Event)
  BY TypeInvParts DEF QueueOK
<1>3. CASE outcome = "escaped"
  BY <1>1, <1>2, <1>3 DEF WorkerReturns, CompletedQueued
<1>4. CASE outcome # "escaped"
  <2>1. PICK e \in Event : e = Event_(outcome, r) /\ e.type = outcome /\ e.runner = r
    BY <1>4, EventIsEvent
  <2>2. queue' = queue \o <<e>> \o <<q>>
    BY <1>1, <1>4, <2>1 DEF WorkerReturns, CompletedQueued
  <2> QED
    BY <1>1, <1>2, <2>1, <2>2
<1> QED
  BY <1>3, <1>4

LEMMA ReturnTypeInv ==
  ASSUME TypeInv, NEW r \in Runners, NEW outcome \in {"succeeded", "failed", "escaped"},
         WorkerReturns(r, outcome)
  PROVE  TypeInv'
<1> USE TypeInvParts
<1>1. QueueOK'
  BY ReturnEvents DEF QueueOK
<1>2. ThreadsOK'
  BY StageTypeInv DEF WorkerReturns, Stage
<1>3. escaped' \in BOOLEAN
  BY Zenon DEF WorkerReturns
<1>4. UNCHANGED <<proposals, live, page, toBackend, toPage, closing, claims, researched,
                  consumed, sent>>
  BY DEF WorkerReturns, service, channels
<1> QED
  BY <1>1, <1>2, <1>3, <1>4, TypeInvNext DEF ServiceOK, PageOK, Page, ToBackendOK, ToPageOK,
     MessagesInv, HistoryOK

LEMMA StopTypeInv ==
  ASSUME TypeInv, NEW r \in Runners, ThreadStops(r) PROVE TypeInv'
<1> USE TypeInvParts
<1>1. QueueOK'
  BY EventIsEvent DEF ThreadStops, QueueOK
<1>2. ThreadsOK'
  BY StageTypeInv DEF ThreadStops, Stage
<1>4. UNCHANGED <<proposals, live, page, toBackend, toPage, closing, claims, researched,
                  consumed, escaped, sent>>
  BY DEF ThreadStops, service, channels, history
<1> QED
  BY <1>1, <1>2, <1>4, TypeInvNext DEF ServiceOK, PageOK, Page, ToBackendOK, ToPageOK,
     MessagesInv, HistoryOK

LEMMA DeliversTypeInv ==
  ASSUME TypeInv, NEW types, Delivers(types)
  PROVE  /\ queue # << >> /\ queue' = Tail(queue) /\ QueueOK'
         /\ Head(queue) \in Event /\ Head(queue).runner \in Runners
         /\ Head(queue) = queue[1] /\ Len(queue) \in Nat /\ Len(queue) > 0
         /\ DOMAIN queue' = 1..(Len(queue) - 1)
         /\ \A k \in DOMAIN queue' : k + 1 \in DOMAIN queue /\ queue'[k] = queue[k + 1]
<1>1. queue \in Seq(Event) /\ queue # << >> /\ queue' = Tail(queue)
  BY TypeInvParts DEF Delivers, QueueOK
<1>2. Head(queue) \in Event /\ queue' \in Seq(Event)
  BY <1>1
<1>3. Head(queue).runner \in Runners
  BY <1>2 DEF Event
<1> QED
  BY <1>1, <1>2, <1>3 DEF QueueOK

-----------------------------------------------------------------------------
(* The events of a runner. *)
EventsInv == TypeInv /\ QueueInv /\ ThreadsNamed

LEMMA InitEvents == Init => EventsInv
BY InitTypeInv, NoThreadIsThread DEF Init, EventsInv, QueueInv, ThreadsNamed

LEMMA QuietEvents ==
  ASSUME EventsInv, UNCHANGED <<threads, queue>> PROVE QueueInv' /\ ThreadsNamed'
BY DEF EventsInv, QueueInv, ThreadsNamed

LEMMA QueueRunners ==
  ASSUME TypeInv, NEW k \in DOMAIN queue PROVE queue[k] \in Event /\ queue[k].runner \in Runners
<1>1. queue \in Seq(Event)
  BY TypeInvParts DEF QueueOK
<1>2. queue[k] \in Event
  BY <1>1
<1> QED
  BY <1>2 DEF Event

(* A runner that starts had no event left in the queue. *)
LEMMA StartEvents ==
  ASSUME EventsInv, NEW r \in Runners, NEW i \in Investigations, ~IsBusy(r),
         threads' = [threads EXCEPT ![r] = StartedThread(i)], queue' = queue
  PROVE  QueueInv' /\ ThreadsNamed'
<1>1. \A q \in Runners : threads'[q] = IF q = r THEN StartedThread(i) ELSE threads[q]
  BY StartTypeInv DEF EventsInv
<1>2. \A k \in DOMAIN queue : queue[k].runner # r
  BY DEF EventsInv, QueueInv, IsBusy
<1>3. QueueInv'
  BY <1>1, <1>2, QueueRunners DEF EventsInv, QueueInv
<1>4. ThreadsNamed'
  BY <1>1, StartedIsThread DEF EventsInv, ThreadsNamed
<1> QED
  BY <1>3, <1>4

LEMMA ReturnEventsInv ==
  ASSUME EventsInv, NEW r \in Runners, NEW outcome \in {"succeeded", "failed", "escaped"},
         WorkerReturns(r, outcome)
  PROVE  QueueInv' /\ ThreadsNamed'
<1> USE DEF EventsInv
<1>1. threads[r].stage = "running" /\ threads' = [threads EXCEPT ![r].stage = "looping"]
  BY DEF WorkerReturns
<1>2. \A q \in Runners : /\ threads'[q].stage = IF q = r THEN "looping" ELSE threads[q].stage
                         /\ threads'[q].of = threads[q].of
  BY <1>1, StageTypeInv DEF Stage
<1>3. ThreadsNamed'
  BY <1>1, <1>2 DEF ThreadsNamed
<1>4. PICK q \in Event, e \in Event :
         /\ q.type # "finished" /\ q.runner = r /\ e.type # "finished" /\ e.runner = r
         /\ queue' = Append(queue, q) \/ queue' = Append(Append(queue, e), q)
  BY ReturnEvents
<1>5. \A k \in DOMAIN queue' :
         \/ k \in DOMAIN queue /\ queue'[k] = queue[k]
         \/ queue'[k].type # "finished" /\ queue'[k].runner = r
  BY <1>4, TypeInvParts DEF QueueOK
<1>6. \A k \in DOMAIN queue : queue[k].runner # r
  BY <1>1 DEF QueueInv
<1>7. \A k \in DOMAIN queue' :
         threads'[queue'[k].runner].stage \in {"looping", "stopped"}
  BY <1>2, <1>5, <1>6, QueueRunners DEF QueueInv
<1>8. ASSUME NEW k \in DOMAIN queue', queue'[k].type = "finished"
      PROVE  /\ threads'[queue'[k].runner].stage = "stopped"
             /\ \A j \in DOMAIN queue' : j > k => queue'[j].runner # queue'[k].runner
  <2>1. k \in DOMAIN queue /\ queue'[k] = queue[k] /\ queue[k].runner # r
    BY <1>5, <1>6, <1>8
  <2>2. threads[queue[k].runner].stage = "stopped"
        /\ \A j \in DOMAIN queue : j > k => queue[j].runner # queue[k].runner
    BY <1>8, <2>1 DEF QueueInv
  <2> QED
    BY <1>2, <1>5, <2>1, <2>2, QueueRunners
<1> QED
  BY <1>3, <1>7, <1>8 DEF QueueInv

LEMMA StopEventsInv ==
  ASSUME EventsInv, NEW r \in Runners, ThreadStops(r) PROVE QueueInv' /\ ThreadsNamed'
<1> USE DEF EventsInv
<1>1. /\ threads[r].stage = "looping" /\ threads' = [threads EXCEPT ![r].stage = "stopped"]
      /\ queue' = Append(queue, Event_("finished", r))
  BY DEF ThreadStops
<1>2. \A q \in Runners : /\ threads'[q].stage = IF q = r THEN "stopped" ELSE threads[q].stage
                         /\ threads'[q].of = threads[q].of
  BY <1>1, StageTypeInv DEF Stage
<1>3. ThreadsNamed'
  BY <1>1, <1>2 DEF ThreadsNamed
<1>4. PICK e \in Event : e = Event_("finished", r) /\ e.type = "finished" /\ e.runner = r
  BY EventIsEvent
<1>5. /\ Len(queue) \in Nat /\ DOMAIN queue = 1..Len(queue)
      /\ DOMAIN queue' = 1..(Len(queue) + 1) /\ queue'[Len(queue) + 1] = e
      /\ \A k \in DOMAIN queue : queue'[k] = queue[k]
  BY <1>1, <1>4, TypeInvParts DEF QueueOK
<1>6. \A k \in DOMAIN queue : queue[k].type = "finished" => queue[k].runner # r
  BY <1>1 DEF QueueInv
<1>7. \A k \in DOMAIN queue' :
         threads'[queue'[k].runner].stage \in {"looping", "stopped"}
  BY <1>2, <1>4, <1>5, QueueRunners DEF QueueInv
<1>8. ASSUME NEW k \in DOMAIN queue', queue'[k].type = "finished"
      PROVE  /\ threads'[queue'[k].runner].stage = "stopped"
             /\ \A j \in DOMAIN queue' : j > k => queue'[j].runner # queue'[k].runner
  <2>1. CASE k = Len(queue) + 1
    BY <1>2, <1>4, <1>5, <2>1
  <2>2. CASE k \in DOMAIN queue
    <3>1. queue'[k] = queue[k] /\ queue[k].runner # r /\ queue[k].runner \in Runners
      BY <1>5, <1>6, <1>8, <2>2, QueueRunners
    <3>2. threads[queue[k].runner].stage = "stopped"
          /\ \A j \in DOMAIN queue : j > k => queue[j].runner # queue[k].runner
      BY <1>8, <2>2, <3>1 DEF QueueInv
    <3> QED
      BY <1>2, <1>4, <1>5, <3>1, <3>2
  <2> QED
    BY <1>5, <2>1, <2>2
<1> QED
  BY <1>3, <1>7, <1>8 DEF QueueInv

LEMMA TailEvents ==
  ASSUME EventsInv, NEW types, Delivers(types),
         \A q \in Runners : /\ threads'[q].stage = threads[q].stage
                            /\ threads'[q].of = threads[q].of
  PROVE  QueueInv' /\ ThreadsNamed'
<1>1. \A k \in DOMAIN queue' : k + 1 \in DOMAIN queue /\ queue'[k] = queue[k + 1]
      /\ queue'[k].runner \in Runners
  BY DeliversTypeInv, QueueRunners DEF EventsInv
<1>2. QueueInv
  BY DEF EventsInv
<1>3. \A j, k \in DOMAIN queue' : j > k => j + 1 > k + 1
  BY DeliversTypeInv DEF EventsInv
<1>4. QueueInv'
  BY <1>1, <1>2, <1>3 DEF QueueInv
<1>5. ThreadsNamed'
  BY DEF EventsInv, ThreadsNamed
<1> QED
  BY <1>4, <1>5

LEMMA FinishedEvents == ASSUME EventsInv, DeliverFinished PROVE QueueInv' /\ ThreadsNamed'
<1> DEFINE r == Head(queue).runner
<1> USE DEF EventsInv
<1>1. Delivers({"finished"}) /\ Head(queue).type = "finished"
  BY DEF DeliverFinished, Delivers
<1>2. /\ r \in Runners /\ Head(queue) = queue[1] /\ 1 \in DOMAIN queue
      /\ \A k \in DOMAIN queue' : k \in Nat /\ k >= 1 /\ k + 1 \in DOMAIN queue
                                  /\ queue'[k] = queue[k + 1]
  BY <1>1, DeliversTypeInv
<1>3. threads' = [threads EXCEPT ![r] = NoThread]
  BY DEF DeliverFinished
<1>4. \A q \in Runners : threads'[q] = IF q = r THEN NoThread ELSE threads[q]
  BY <1>2, <1>3, TypeInvParts DEF ThreadsOK
<1>5. \A j \in DOMAIN queue : j > 1 => queue[j].runner # r
  BY <1>1, <1>2 DEF QueueInv
<1>6. \A k \in DOMAIN queue' : queue'[k].runner \in Runners /\ queue'[k].runner # r
  BY <1>2, <1>5, QueueRunners
<1> HIDE DEF r
<1>7. \A k \in DOMAIN queue' : threads'[queue'[k].runner] = threads[queue[k + 1].runner]
  BY <1>2, <1>4, <1>6
<1>8. \A j, k \in DOMAIN queue' : j > k => j + 1 > k + 1
  BY <1>2
<1>9. QueueInv'
  BY <1>2, <1>7, <1>8 DEF QueueInv
<1>10. ThreadsNamed'
  BY <1>4, NoThreadIsThread DEF ThreadsNamed
<1> QED
  BY <1>9, <1>10

LEMMA ShutDownEvents ==
  ASSUME EventsInv, NEW r \in Runners, ShutDown(r), queue' = queue
  PROVE  ThreadsOK' /\ QueueInv' /\ ThreadsNamed'
<1> USE DEF EventsInv
<1>1. CASE threads[r].stage = "none"
  <2>1. threads' = threads
    BY <1>1, TypeInvParts DEF ShutDown, ThreadsOK
  <2> QED
    BY <2>1, TypeInvParts DEF ThreadsOK, QueueInv, ThreadsNamed
<1>2. CASE threads[r].stage # "none"
  <2>1. threads' = [threads EXCEPT ![r] = ToldToQuit(threads[r])]
    BY <1>2 DEF ShutDown
  <2>2. ThreadsOK' /\ \A q \in Runners : /\ threads'[q].stage = threads[q].stage
                                         /\ threads'[q].of = threads[q].of
    BY <2>1, QuitTypeInv
  <2> QED
    BY <2>2, QueueRunners DEF QueueInv, ThreadsNamed
<1> QED
  BY <1>1, <1>2

(* The runner whose event is delivered has a thread, for an Investigation. *)
LEMMA DeliveredNamed ==
  ASSUME EventsInv, NEW types, Delivers(types)
  PROVE  threads[Head(queue).runner].of \in Investigations
<1>1. 1 \in DOMAIN queue /\ Head(queue) = queue[1] /\ queue[1].runner \in Runners
  BY DeliversTypeInv DEF EventsInv
<1> QED
  BY <1>1 DEF EventsInv, QueueInv, ThreadsNamed

LEMMA DeliverResearchInv ==
  ASSUME EventsInv, NEW replied \in BOOLEAN, DeliverResearch(replied) PROVE EventsInv'
<1> USE TypeInvParts DEF EventsInv
<1>1. Delivers({"succeeded", "failed"}) /\ Head(queue).runner = "research"
  BY DEF DeliverResearch
<1>2. UNCHANGED <<threads, proposals, live, page, toBackend, closing,
                  claims, researched, consumed, sent>>
  BY DEF DeliverResearch, service
<1>3. QueueInv' /\ ThreadsNamed' /\ QueueOK'
  BY <1>1, <1>2, TailEvents, DeliversTypeInv
<1>4. PICK m \in Message : m = Msg("researchEnded", threads["research"].of, {}) /\ m.tokens = {}
  BY <1>1, DeliveredNamed, MsgIsMessage
<1>5. \/ escaped' = TRUE /\ toPage' = toPage
      \/ escaped' = escaped /\ toPage' = Append(toPage, m)
  BY <1>4 DEF DeliverResearch
<1>6. escaped' \in BOOLEAN
  <2>1. escaped \in BOOLEAN
    BY DEF HistoryOK
  <2> QED
    BY <1>5, <2>1, Zenon
<1>7. ToPageOK'
  BY <1>2, <1>4, <1>5, ToPageAppend DEF ToPageOK, MessagesInv
<1>8. TypeInv'
  BY <1>2, <1>3, <1>6, <1>7, TypeInvNext DEF ThreadsOK, ServiceOK, PageOK, Page, ToBackendOK,
     HistoryOK
<1> QED
  BY <1>3, <1>8

LEMMA DeliverFailureInv == ASSUME EventsInv, DeliverAnalysisFailure PROVE EventsInv'
<1> USE TypeInvParts DEF EventsInv
<1>1. Delivers({"failed"}) /\ Head(queue).runner = "analysis"
  BY DEF DeliverAnalysisFailure
<1>2. UNCHANGED <<threads, proposals, live, page, toBackend, closing,
                  claims, researched, consumed, escaped, sent>>
  BY DEF DeliverAnalysisFailure, service, history
<1>3. QueueInv' /\ ThreadsNamed' /\ QueueOK'
  BY <1>1, <1>2, TailEvents, DeliversTypeInv
<1>4. PICK m \in Message : m = Msg("analysisFailed", threads["analysis"].of, {}) /\ m.tokens = {}
  BY <1>1, DeliveredNamed, MsgIsMessage
<1>5. ToPageOK'
  BY <1>2, <1>4, ToPageAppend DEF DeliverAnalysisFailure
<1>8. TypeInv'
  BY <1>2, <1>3, <1>5, TypeInvNext DEF ThreadsOK, ServiceOK, PageOK, Page, ToBackendOK,
     HistoryOK
<1> QED
  BY <1>3, <1>8

LEMMA DeliverQuitInv == ASSUME EventsInv, DeliverQuit PROVE EventsInv'
<1> DEFINE r == Head(queue).runner
<1> USE TypeInvParts DEF EventsInv
<1>1. Delivers({"quit"})
  BY DEF DeliverQuit
<1>2. r \in Runners /\ QueueOK'
  BY <1>1, DeliversTypeInv
<1>3. threads' = [threads EXCEPT ![r] = ToldToQuit(threads[r])]
  BY DEF DeliverQuit, ToldToQuit
<1> HIDE DEF r
<1>4. ThreadsOK' /\ \A q \in Runners : /\ threads'[q].stage = threads[q].stage
                                       /\ threads'[q].of = threads[q].of
  BY <1>2, <1>3, QuitTypeInv
<1>5. QueueInv' /\ ThreadsNamed'
  BY <1>1, <1>4, TailEvents
<1>6. UNCHANGED <<proposals, live, page, toBackend, toPage, closing,
                  claims, researched, consumed, escaped, sent>>
  BY DEF DeliverQuit, service, channels, history
<1>7. TypeInv'
  BY <1>2, <1>4, <1>6, TypeInvNext DEF ServiceOK, PageOK, Page, ToBackendOK, ToPageOK,
     MessagesInv, HistoryOK
<1> QED
  BY <1>5, <1>7

LEMMA DeliverFinishedInv == ASSUME EventsInv, DeliverFinished PROVE EventsInv'
<1> USE TypeInvParts DEF EventsInv
<1>1. Delivers({"finished"}) /\ threads' = [threads EXCEPT ![Head(queue).runner] = NoThread]
  BY DEF DeliverFinished
<1>2. QueueOK' /\ ThreadsOK'
  BY <1>1, DeliversTypeInv, NoThreadIsThread DEF ThreadsOK
<1>3. UNCHANGED <<proposals, live, page, toBackend, toPage, closing,
                  claims, researched, consumed, escaped, sent>>
  BY DEF DeliverFinished, service, channels, history
<1>4. TypeInv'
  BY <1>2, <1>3, TypeInvNext DEF ServiceOK, PageOK, Page, ToBackendOK, ToPageOK,
     MessagesInv, HistoryOK
<1> QED
  BY <1>4, FinishedEvents

LEMMA SeqGrows ==
  ASSUME NEW S, NEW T, S \subseteq T, NEW s \in Seq(S) PROVE s \in Seq(T)
<1>1. s \in [1..Len(s) -> S] /\ Len(s) \in Nat
  OBVIOUS
<1>2. s \in [1..Len(s) -> T]
  BY <1>1
<1> QED
  BY <1>1, <1>2

LEMMA Registered ==
  ASSUME EventsInv, NEW kinds \in Seq(Kind), DeliverProposals(kinds)
  PROVE  \E i \in Investigations, new \in SUBSET Nat :
           /\ proposals' \in Seq(Proposal)
           /\ DOMAIN proposals' = DOMAIN proposals \cup new
           /\ new \cap DOMAIN proposals = {}
           /\ \A t \in DOMAIN proposals : proposals'[t] = proposals[t]
           /\ \A t \in new : proposals'[t].investigation = i
           /\ live' = (live \ Invalidated(i)) \cup new
           /\ toPage' = Append(toPage, Msg("analysisCompleted", i, new))
<1> DEFINE i == threads["analysis"].of
           new == (Len(proposals) + 1)..(Len(proposals) + Len(kinds))
           added == [k \in DOMAIN kinds |-> [investigation |-> i, kind |-> kinds[k]]]
<1>1. i \in Investigations
  BY DeliveredNamed DEF DeliverProposals
<1>2. proposals \in Seq(Proposal) /\ Len(kinds) \in Nat /\ DOMAIN kinds = 1..Len(kinds)
  BY TypeInvParts DEF EventsInv, ServiceOK
<1>3. /\ proposals' = proposals \o added /\ live' = (live \ Invalidated(i)) \cup new
      /\ toPage' = Append(toPage, Msg("analysisCompleted", i, new))
  BY DEF DeliverProposals
<1>4. added \in Seq(Proposal) /\ Len(added) = Len(kinds)
  <2>1. \A k \in 1..Len(kinds) : kinds[k] \in Kind
    OBVIOUS
  <2>2. \A k \in 1..Len(kinds) : [investigation |-> i, kind |-> kinds[k]] \in Proposal
    BY <1>1, <2>1 DEF Proposal
  <2> QED
    BY <1>2, <2>2
<1>7. \A k \in 1..Len(kinds) : added[k].investigation = i
  BY <1>2
<1> HIDE DEF i, added
<1>5. /\ proposals' \in Seq(Proposal) /\ Len(proposals) \in Nat
      /\ DOMAIN proposals = 1..Len(proposals)
      /\ DOMAIN proposals' = 1..(Len(proposals) + Len(kinds))
  <2>1. proposals' \in Seq(Proposal) /\ Len(proposals') = Len(proposals) + Len(added)
    BY <1>2, <1>3, <1>4, ConcatProperties
  <2> QED
    BY <1>2, <1>4, <2>1
<1>6. /\ new \in SUBSET Nat /\ new \cap DOMAIN proposals = {}
      /\ DOMAIN proposals' = DOMAIN proposals \cup new
  BY <1>2, <1>5
<1>8. \A t \in DOMAIN proposals : proposals'[t] = proposals[t]
  BY <1>2, <1>3, <1>4, <1>5, ConcatProperties
<1>9. \A t \in new : proposals'[t].investigation = i
  <2>1. \A t \in new : /\ t - Len(proposals) \in 1..Len(kinds)
                       /\ proposals'[t] = added[t - Len(proposals)]
    BY <1>2, <1>3, <1>4, <1>5, ConcatProperties
  <2> QED
    BY <1>7, <2>1
<1> HIDE DEF new
<1> QED
  BY <1>1, <1>3, <1>5, <1>6, <1>8, <1>9

LEMMA DeliverProposalsInv ==
  ASSUME EventsInv, NEW kinds \in Seq(Kind), DeliverProposals(kinds) PROVE EventsInv'
<1> USE TypeInvParts DEF EventsInv
<1>1. PICK i \in Investigations, new \in SUBSET Nat :
         /\ proposals' \in Seq(Proposal)
         /\ DOMAIN proposals' = DOMAIN proposals \cup new
         /\ new \cap DOMAIN proposals = {}
         /\ live' = (live \ Invalidated(i)) \cup new
         /\ toPage' = Append(toPage, Msg("analysisCompleted", i, new))
  BY Registered
<1>2. UNCHANGED <<threads, page, toBackend, closing, claims, researched, consumed, escaped, sent>>
      /\ Delivers({"succeeded"})
  BY DEF DeliverProposals, history
<1>3. QueueInv' /\ ThreadsNamed' /\ QueueOK'
  BY <1>2, TailEvents, DeliversTypeInv
<1>4. ServiceOK'
  BY <1>1 DEF ServiceOK
<1>5. PageOK'
  <2>1. [Investigations -> SUBSET DOMAIN proposals] \subseteq
        [Investigations -> SUBSET DOMAIN proposals']
    BY <1>1
  <2> QED
    BY <1>2, <2>1 DEF PageOK, Page
<1>6. HistoryOK'
  BY <1>1, <1>2, SeqGrows DEF HistoryOK
<1>7. ToPageOK'
  <2>1. PICK m \in Message : m = Msg("analysisCompleted", i, new) /\ m.tokens = new
    BY MsgIsMessage
  <2> QED
    BY <1>1, <2>1 DEF ToPageOK, MessagesInv
<1>8. TypeInv'
  BY <1>2, <1>3, <1>4, <1>5, <1>6, <1>7, TypeInvNext DEF ThreadsOK, ToBackendOK
<1> QED
  BY <1>3, <1>8

LEMMA CloseInv == ASSUME EventsInv, CloseWindow PROVE EventsInv'
<1> USE TypeInvParts DEF EventsInv
<1>1. ThreadsOK' /\ QueueInv' /\ ThreadsNamed'
  BY ShutDownEvents DEF CloseWindow, Runners
<1>2. /\ page' = EmptyPage /\ toBackend' = << >> /\ toPage' = << >> /\ closing' = "research"
      /\ UNCHANGED <<queue, proposals, live, claims, researched, consumed, escaped, sent>>
  BY DEF CloseWindow, service, history
<1>3. PageOK'
  <2>1. EmptyPage \in Page /\ Page' = Page
    BY <1>2, EmptyPageIsPage DEF Page
  <2> QED
    BY <1>2, <2>1 DEF PageOK
<1>4. TypeInv'
  BY <1>1, <1>2, <1>3, TypeInvNext DEF QueueOK, ServiceOK, ToBackendOK, ToPageOK, MessagesInv,
     HistoryOK
<1> QED
  BY <1>1, <1>4

LEMMA ShutdownInv == ASSUME EventsInv, ShutdownStep PROVE EventsInv'
<1> USE TypeInvParts DEF EventsInv
<1>1. ThreadsOK' /\ QueueInv' /\ ThreadsNamed'
  BY ShutDownEvents, QuietEvents DEF ShutdownStep, ShutDownAnalysis, Exit, Runners, ThreadsOK
<1>2. /\ closing' \in {"analysis", "exited"}
      /\ UNCHANGED <<queue, proposals, live, page, toBackend, toPage,
                     claims, researched, consumed, escaped, sent>>
  BY DEF ShutdownStep, ShutDownAnalysis, Exit, service, channels, history
<1>4. TypeInv'
  BY <1>1, <1>2, TypeInvNext DEF QueueOK, ServiceOK, PageOK, Page, ToBackendOK, ToPageOK,
     MessagesInv, HistoryOK
<1> QED
  BY <1>1, <1>4

(* A call of the page starts a runner that is free, or none. *)
LEMMA BridgeThreads ==
  ASSUME EventsInv, BridgeStep
  PROVE  /\ UNCHANGED <<queue, closing>> /\ GuiRuns
         /\ \/ threads' = threads
            \/ \E r \in Runners, i \in Investigations :
                 ~IsBusy(r) /\ threads' = [threads EXCEPT ![r] = StartedThread(i)]
<1> USE DEF EventsInv
<1>1. UNCHANGED <<queue, closing>>
  BY DEF BridgeStep, StartResearch, StartAnalysis, ExecuteResearch, DiscardProposal,
         AcceptClaim
<1>2. \/ threads' = threads
      \/ \E r \in Runners, i \in Investigations :
           ~IsBusy(r) /\ threads' = [threads EXCEPT ![r] = StartedThread(i)]
  <2>1. CASE StartResearch
    BY <2>1, TakesTypeInv DEF StartResearch, Refuse, Runners
  <2>2. CASE StartAnalysis
    BY <2>2, TakesTypeInv DEF StartAnalysis, Refuse, Runners
  <2>3. CASE ExecuteResearch
    <3>1. CASE AskedFirst \/ Head(toBackend).token \notin live
      BY <2>3, <3>1 DEF ExecuteResearch, Refuse
    <3>2. CASE ~(AskedFirst \/ Head(toBackend).token \notin live)
      <4>1. ~IsBusy("research")
            /\ proposals[Head(toBackend).token].investigation \in Investigations
        BY <3>2, LiveProposal DEF AskedFirst
      <4>2. threads' = [threads EXCEPT !["research"] =
                          StartedThread(proposals[Head(toBackend).token].investigation)]
        BY <2>3, <3>2, <4>1 DEF ExecuteResearch
      <4> QED
        BY <4>1, <4>2 DEF Runners
    <3> QED
      BY <3>1, <3>2
  <2>4. CASE DiscardProposal
    BY <2>4 DEF DiscardProposal, Refuse
  <2>5. ASSUME NEW a \in BOOLEAN, NEW b \in BOOLEAN, AcceptClaim(a, b) PROVE threads' = threads
    BY <2>5 DEF AcceptClaim, Refuse
  <2> QED
    BY <2>1, <2>2, <2>3, <2>4, <2>5 DEF BridgeStep
<1>3. GuiRuns
  BY DEF BridgeStep, StartResearch, StartAnalysis, ExecuteResearch, DiscardProposal, AcceptClaim,
         Takes
<1> QED
  BY <1>1, <1>2, <1>3

(* Every step keeps the types and the order of the events. *)
LEMMA BridgeInv == ASSUME EventsInv, BridgeStep PROVE EventsInv'
<1> USE DEF EventsInv
<1>1. TypeInv'
  BY StartResearchTypeInv, StartAnalysisTypeInv, ExecuteTypeInv, DiscardTypeInv, AcceptTypeInv
     DEF BridgeStep
<1> QED
  BY <1>1, BridgeThreads, QuietEvents, StartEvents

LEMMA StepEvents == EventsInv /\ [Next]_vars => EventsInv'
<1> SUFFICES ASSUME EventsInv, [Next]_vars PROVE EventsInv'
  OBVIOUS
<1>1. CASE UserClicks
  <2>1. UNCHANGED <<threads, queue>>
    BY <1>1 DEF UserClicks, ClickResearch, ClickAnalyze, ClickProposal, Send
  <2> QED
    BY <1>1, <2>1, ClickTypeInv, QuietEvents DEF EventsInv
<1>2. CASE PageReceives
  BY <1>2, PageTypeInv, QuietEvents DEF EventsInv, PageReceives
<1>3. CASE BridgeStep
  BY <1>3, BridgeInv
<1>4. CASE QueueStep
  <2>1. Answers \subseteq Seq(Kind)
    BY DEF Answers, Kind
  <2> QED
    BY <1>4, <2>1, DeliverResearchInv, DeliverProposalsInv, DeliverFailureInv, DeliverQuitInv,
       DeliverFinishedInv DEF QueueStep
<1>5. ASSUME NEW r \in Runners, WorkerStep(r) PROVE EventsInv'
  BY <1>5, ReturnTypeInv, ReturnEventsInv, StopTypeInv, StopEventsInv DEF WorkerStep, EventsInv
<1>6. CASE CloseWindow \/ ShutdownStep
  BY <1>6, CloseInv, ShutdownInv
<1>7. CASE UNCHANGED vars
  <2>1. UNCHANGED <<threads, queue, proposals, live, page, toBackend, toPage, closing,
                    claims, researched, consumed, escaped, sent>>
    BY <1>7 DEF vars, service, channels, history
  <2>2. TypeInv'
    BY <2>1, TypeInvParts, TypeInvNext DEF EventsInv, ThreadsOK, QueueOK, ServiceOK, PageOK, Page,
       ToBackendOK, ToPageOK, MessagesInv, HistoryOK
  <2> QED
    BY <2>1, <2>2, QuietEvents DEF EventsInv
<1> QED
  BY <1>1, <1>2, <1>3, <1>4, <1>5, <1>6, <1>7 DEF Next

-----------------------------------------------------------------------------
(* The use of the tokens. *)
LEMMA UsedQuiet ==
  ASSUME UsedInv, UNCHANGED <<claims, researched>>,
         \A t \in Nat : t \in live' \/ t \notin DOMAIN proposals' =>
                        t \in live \/ t \notin DOMAIN proposals
  PROVE  UsedInv'
<1>1. \A t \in Nat : Uses(t)' = Uses(t)
  BY DEF Uses
<1> QED
  BY <1>1 DEF UsedInv

LEMMA UsedOnce ==
  ASSUME TypeInv, UsedInv, NEW u \in live, live' = live \ {u}, proposals' = proposals,
         \/ claims' = Append(claims, u) /\ researched' = researched
         \/ researched' = Append(researched, u) /\ claims' = claims
  PROVE  UsedInv'
<1>1. u \in Nat /\ u \in DOMAIN proposals /\ claims \in Seq(DOMAIN proposals)
      /\ researched \in Seq(DOMAIN proposals)
  BY TypeInvParts DEF ServiceOK, HistoryOK
<1>2. ASSUME NEW t \in Nat
      PROVE  Uses(t)' = IF t = u THEN Uses(t) + 1 ELSE Uses(t)
  <2>1. Count(claims, t) \in Nat /\ Count(researched, t) \in Nat
    BY <1>1, CountIsNat
  <2>2. /\ Count(Append(claims, u), t) = IF u = t THEN Count(claims, t) + 1 ELSE Count(claims, t)
        /\ Count(Append(researched, u), t) =
             IF u = t THEN Count(researched, t) + 1 ELSE Count(researched, t)
    BY <1>1, CountAppend
  <2>3. Uses(t)' = Count(claims', t) + Count(researched', t)
    BY DEF Uses, Count
  <2>4. CASE claims' = Append(claims, u) /\ researched' = researched
    BY <2>1, <2>2, <2>3, <2>4 DEF Uses
  <2>5. CASE researched' = Append(researched, u) /\ claims' = claims
    BY <2>1, <2>2, <2>3, <2>5 DEF Uses
  <2> QED
    BY <2>4, <2>5
<1>3. ASSUME NEW t \in Nat
      PROVE  Uses(t)' <= 1 /\ (t \in live' \/ t \notin DOMAIN proposals' => Uses(t)' = 0)
  BY <1>1, <1>2 DEF UsedInv
<1> QED
  BY <1>3 DEF UsedInv

(* What a step may do to the tokens. *)
TokensStep ==
  \/ UNCHANGED <<proposals, live, claims, researched, consumed>>
  \/ /\ UNCHANGED <<claims, researched, consumed>>
     /\ \E new \in SUBSET Nat : /\ DOMAIN proposals' = DOMAIN proposals \cup new
                                /\ new \cap DOMAIN proposals = {}
                                /\ live' \subseteq live \cup new
  \/ \E u \in live : /\ live' = live \ {u} /\ proposals' = proposals
                     /\ \/ /\ claims' = Append(claims, u)
                           /\ UNCHANGED <<researched, consumed>>
                        \/ /\ researched' = Append(researched, u) /\ claims' = claims
                           /\ consumed' = consumed \cup {u}

LEMMA StepTokens == ASSUME EventsInv, [Next]_vars PROVE TokensStep
<1>1. CASE UserClicks
  BY <1>1 DEF UserClicks, ClickResearch, ClickAnalyze, ClickProposal, Send, service, TokensStep
<1>2. CASE PageReceives
  BY <1>2 DEF PageReceives, service, history, TokensStep
<1>3. CASE StartResearch \/ StartAnalysis
  BY <1>3 DEF StartResearch, StartAnalysis, Refuse, service, TokensStep
<1>4. CASE ExecuteResearch
  <2>1. CASE AskedFirst \/ Head(toBackend).token \notin live
    BY <1>4, <2>1 DEF ExecuteResearch, Refuse, service, TokensStep
  <2>2. CASE ~(AskedFirst \/ Head(toBackend).token \notin live)
    <3>1. ~IsBusy("research") /\ Head(toBackend).token \in live
      BY <2>2 DEF AskedFirst
    <3>2. /\ live' = live \ {Head(toBackend).token}
          /\ consumed' = consumed \cup {Head(toBackend).token}
          /\ UNCHANGED <<proposals, claims>>
      BY <1>4, <2>2 DEF ExecuteResearch
    <3>3. researched' = Append(researched, Head(toBackend).token)
      BY <1>4, <2>2, <3>1 DEF ExecuteResearch
    <3> QED
      BY <3>1, <3>2, <3>3 DEF TokensStep
  <2> QED
    BY <2>1, <2>2
<1>5. CASE DiscardProposal
  <2>1. DOMAIN proposals = DOMAIN proposals \cup {} /\ {} \in SUBSET Nat
    OBVIOUS
  <2>2. CASE Head(toBackend).token \notin live
    BY <1>5, <2>2 DEF DiscardProposal, Refuse, service, TokensStep
  <2>3. CASE Head(toBackend).token \in live
    <3>1. UNCHANGED <<proposals, claims, researched, consumed>> /\ live' \subseteq live \cup {}
      BY <1>5, <2>3 DEF DiscardProposal
    <3> QED
      BY <2>1, <3>1 DEF TokensStep
  <2> QED
    BY <2>2, <2>3
<1>6. ASSUME NEW a \in BOOLEAN, NEW b \in BOOLEAN, AcceptClaim(a, b) PROVE TokensStep
  BY <1>6 DEF AcceptClaim, Refuse, ClaimConsumes, service, TokensStep
<1>7. CASE QueueStep
  <2>1. ASSUME NEW kinds \in Answers, DeliverProposals(kinds) PROVE TokensStep
    <3>0. Answers \subseteq Seq(Kind)
      BY DEF Answers, Kind
    <3>1. kinds \in Seq(Kind) /\ UNCHANGED <<claims, researched, consumed>>
      BY <2>1, <3>0 DEF DeliverProposals, history
    <3>2. PICK i \in Investigations, new \in SUBSET Nat :
             /\ DOMAIN proposals' = DOMAIN proposals \cup new
             /\ new \cap DOMAIN proposals = {}
             /\ live' = (live \ Invalidated(i)) \cup new
      BY <2>1, <3>1, Registered
    <3> QED
      BY <3>1, <3>2 DEF TokensStep
  <2>2. ASSUME NEW r \in BOOLEAN, DeliverResearch(r) PROVE TokensStep
    BY <2>2 DEF DeliverResearch, service, TokensStep
  <2>3. ASSUME DeliverAnalysisFailure \/ DeliverQuit \/ DeliverFinished PROVE TokensStep
    BY <2>3 DEF DeliverAnalysisFailure, DeliverQuit, DeliverFinished, service, history, TokensStep
  <2> QED
    BY <1>7, <2>1, <2>2, <2>3 DEF QueueStep
<1>8. ASSUME NEW r \in Runners, WorkerStep(r) PROVE TokensStep
  BY <1>8 DEF WorkerStep, WorkerReturns, ThreadStops, service, history, TokensStep
<1>9. CASE CloseWindow \/ ShutdownStep
  BY <1>9 DEF CloseWindow, ShutdownStep, ShutDownAnalysis, Exit, service, history, TokensStep
<1>10. CASE UNCHANGED vars
  BY <1>10 DEF vars, service, history, TokensStep
<1> QED
  BY <1>1, <1>2, <1>3, <1>4, <1>5, <1>6, <1>7, <1>8, <1>9, <1>10 DEF Next, BridgeStep

IInv == EventsInv /\ UsedInv /\ ResearchNotWasted

LEMMA ElementsAppend ==
  ASSUME NEW S, NEW s \in Seq(S), NEW u \in S
  PROVE  Elements(s) \cup {u} \subseteq Elements(Append(s, u))
<1>1. /\ Len(s) \in Nat /\ DOMAIN s = 1..Len(s) /\ DOMAIN Append(s, u) = 1..(Len(s) + 1)
      /\ Append(s, u)[Len(s) + 1] = u
      /\ \A k \in DOMAIN s : Append(s, u)[k] = s[k]
  OBVIOUS
<1>2. u \in Elements(Append(s, u))
  BY <1>1 DEF Elements
<1>3. ASSUME NEW k \in DOMAIN s PROVE s[k] \in Elements(Append(s, u))
  BY <1>1 DEF Elements
<1> QED
  BY <1>2, <1>3 DEF Elements

LEMMA InitIInv == Init => IInv
<1> SUFFICES ASSUME Init PROVE IInv
  OBVIOUS
<1>1. \A t \in Nat : Uses(t) = 0
  BY CountEmpty DEF Init, Uses
<1>2. UsedInv /\ ResearchNotWasted
  BY <1>1 DEF Init, UsedInv, ResearchNotWasted
<1> QED
  BY <1>2, InitEvents DEF IInv

LEMMA StepIInv == IInv /\ [Next]_vars => IInv'
<1> SUFFICES ASSUME IInv, [Next]_vars PROVE IInv'
  OBVIOUS
<1>1. EventsInv /\ EventsInv' /\ TypeInv
  BY StepEvents DEF IInv, EventsInv
<1>2. TokensStep
  BY <1>1, StepTokens
<1>3. UsedInv'
  BY <1>1, <1>2, UsedQuiet, UsedOnce DEF IInv, TokensStep
<1>4. \A s \in Seq(DOMAIN proposals), u \in DOMAIN proposals :
         Elements(s) \cup {u} \subseteq Elements(Append(s, u))
  BY ElementsAppend
<1>5. researched \in Seq(DOMAIN proposals) /\ live \subseteq DOMAIN proposals
  BY <1>1, TypeInvParts DEF ServiceOK, HistoryOK
<1>6. ResearchNotWasted'
  BY <1>2, <1>4, <1>5 DEF IInv, TokensStep, ResearchNotWasted
<1> QED
  BY <1>1, <1>3, <1>6 DEF IInv

LEMMA SpecIInv == Spec => []IInv
BY InitIInv, StepIInv, PTL DEF Spec

(* The runners, the service, the page and the messages keep their shape; the
   page never shows, and no message names, a proposal that was not registered. *)
THEOREM TypeCorrect == Spec => []TypeOK
<1>1. IInv => TypeOK
  BY DEF IInv, EventsInv, TypeInv
<1> QED
  BY <1>1, SpecIInv, PTL

(* A proposal becomes at most one claim or one research operation, whatever
   the page sends before it hears the reply, in whatever order calls, results
   and analyses come (ProposalReviewService). *)
THEOREM UsedAtMostOnce == Spec => []ProposalUsedOnce
<1>1. IInv => ProposalUsedOnce
  <2> SUFFICES ASSUME IInv, NEW t \in DOMAIN proposals
               PROVE  Count(claims, t) + Count(researched, t) <= 1
    BY DEF ProposalUsedOnce
  <2>1. t \in Nat
    BY TypeInvParts DEF IInv, EventsInv, ServiceOK
  <2> QED
    BY <2>1 DEF IInv, UsedInv, Uses
<1> QED
  BY <1>1, SpecIInv, PTL

(* A research proposal is consumed only together with the start of its
   research (Bridge.executeModelResearchProposal). *)
THEOREM NotWasted == Spec => []ResearchNotWasted
<1>1. IInv => ResearchNotWasted
  BY DEF IInv
<1> QED
  BY <1>1, SpecIInv, PTL

(* Every queued event is about the thread its runner still has, since the end
   of a thread is the last event it queues, and a runner starts again only
   after that event was handled (ResearchRunner, ModelAnalysisRunner). *)
THEOREM EventsAreFresh == Spec => []NoStaleEvent
<1>1. IInv => NoStaleEvent
  BY DEF IInv, EventsInv, QueueInv, NoStaleEvent, Elements
<1> QED
  BY <1>1, SpecIInv, PTL

-----------------------------------------------------------------------------
(* The ends of the threads. *)
LEMMA TypedElements ==
  ASSUME NEW S, NEW s \in Seq(S), NEW e \in S
  PROVE  /\ Elements(Append(s, e)) = Elements(s) \cup {e}
         /\ s # << >> => Elements(s) = Elements(Tail(s)) \cup {Head(s)}
<1>1. Elements(Append(s, e)) = Elements(s) \cup {e}
  <2>1. /\ Len(s) \in Nat /\ DOMAIN s = 1..Len(s) /\ DOMAIN Append(s, e) = 1..(Len(s) + 1)
        /\ Append(s, e)[Len(s) + 1] = e
        /\ \A k \in DOMAIN s : Append(s, e)[k] = s[k]
    OBVIOUS
  <2>2. Elements(Append(s, e)) \subseteq Elements(s) \cup {e}
    BY <2>1 DEF Elements
  <2>3. e \in Elements(Append(s, e)) /\ Elements(s) \subseteq Elements(Append(s, e))
    BY <2>1, ElementsAppend DEF Elements
  <2> QED
    BY <2>2, <2>3
<1>2. ASSUME s # << >> PROVE Elements(s) = Elements(Tail(s)) \cup {Head(s)}
  <2>1. /\ Len(s) \in Nat /\ Len(s) > 0 /\ DOMAIN s = 1..Len(s) /\ Head(s) = s[1]
        /\ DOMAIN Tail(s) = 1..(Len(s) - 1)
        /\ \A k \in DOMAIN Tail(s) : k + 1 \in DOMAIN s /\ Tail(s)[k] = s[k + 1]
    BY <1>2
  <2>2. Elements(Tail(s)) \cup {Head(s)} \subseteq Elements(s)
    BY <2>1 DEF Elements
  <2>3. ASSUME NEW k \in DOMAIN s PROVE s[k] \in Elements(Tail(s)) \cup {Head(s)}
    <3>1. CASE k = 1
      BY <2>1, <3>1
    <3>2. CASE k # 1
      <4>1. k - 1 \in DOMAIN Tail(s) /\ Tail(s)[k - 1] = s[k]
        BY <2>1, <3>2
      <4> QED
        BY <4>1 DEF Elements
    <3> QED
      BY <3>1, <3>2
  <2> QED
    BY <2>2, <2>3 DEF Elements
<1> QED
  BY <1>1, <1>2

(* One runner's part of the property. *)
NotStranded(r) ==
  /\ threads[r].stage = "looping" =>
       threads[r].quit \/ Event_("quit", r) \in Elements(queue)
  /\ threads[r].stage = "stopped" => Event_("finished", r) \in Elements(queue)
  /\ threads[r].stage # "none" /\ ShutdownReached(r) => threads[r].quit

LEMMA StrandedParts == NothingStranded <=> \A r \in Runners : NotStranded(r)
BY DEF NothingStranded, NotStranded

(* A thread that stays as it is, unless it is told to quit, is not stranded as
   long as its events stay in the queue. *)
LEMMA StaysUnstranded ==
  ASSUME NEW r \in Runners, NotStranded(r),
         threads'[r].stage = threads[r].stage,
         threads[r].quit => threads'[r].quit,
         threads[r].stage = "looping" =>
           threads'[r].quit \/ (Event_("quit", r) \in Elements(queue)
                                => Event_("quit", r) \in Elements(queue)'),
         threads[r].stage = "stopped" =>
           (Event_("finished", r) \in Elements(queue)
            => Event_("finished", r) \in Elements(queue)'),
         ShutdownReached(r)' => ShutdownReached(r) \/ threads[r].stage = "none" \/ threads'[r].quit
  PROVE  NotStranded(r)'
BY DEF NotStranded

LEMMA QuietStranded ==
  ASSUME NothingStranded, UNCHANGED <<threads, queue, closing>> PROVE NothingStranded'
BY DEF NothingStranded, Elements, ShutdownReached

LEMMA BridgeStranded == ASSUME EventsInv, NothingStranded, BridgeStep PROVE NothingStranded'
<1>1. CASE threads' = threads
  BY <1>1, BridgeThreads, QuietStranded
<1>2. CASE threads' # threads
  <2>1. PICK r \in Runners, i \in Investigations :
          ~IsBusy(r) /\ threads' = [threads EXCEPT ![r] = StartedThread(i)]
    BY <1>2, BridgeThreads
  <2>2. /\ \A q \in Runners : q # r => threads'[q] = threads[q]
        /\ threads'[r].stage = "running" /\ Elements(queue)' = Elements(queue)
        /\ \A q \in Runners : ShutdownReached(q)' = ShutdownReached(q) /\ ~ShutdownReached(q)'
    BY <2>1, BridgeThreads, StartedIsThread, TypeInvParts
       DEF EventsInv, ThreadsOK, GuiRuns, ShutdownReached, Elements
  <2>3. NotStranded(r)'
    BY <2>2 DEF NotStranded
  <2>4. ASSUME NEW q \in Runners, q # r PROVE NotStranded(q)'
    BY <2>2, <2>4, StrandedParts, StaysUnstranded
  <2>5. \A q \in Runners : NotStranded(q)'
    BY <2>3, <2>4
  <2> QED
    BY <2>5 DEF NothingStranded, NotStranded
<1> QED
  BY <1>1, <1>2

(* The end of a worker queues the quit of its thread. *)
LEMMA ReturnStranded ==
  ASSUME EventsInv, NothingStranded, NEW r \in Runners,
         NEW outcome \in {"succeeded", "failed", "escaped"}, WorkerReturns(r, outcome)
  PROVE  NothingStranded'
<1>1. /\ threads[r].stage = "running" /\ threads' = [threads EXCEPT ![r].stage = "looping"]
      /\ closing' = closing
  BY DEF WorkerReturns
<1>2. PICK e \in Event : e = Event_("quit", r)
  BY EventIsEvent
<1>3. queue \in Seq(Event)
  BY TypeInvParts DEF EventsInv, QueueOK
<1>4. Elements(queue) \cup {e} \subseteq Elements(queue)'
  <2>1. CASE outcome = "escaped"
    <3>1. queue' = Append(queue, e)
      BY <1>2, <1>3, <2>1 DEF WorkerReturns, CompletedQueued
    <3> QED
      BY <1>3, <3>1, TypedElements DEF Elements
  <2>2. CASE outcome # "escaped"
    <3>1. PICK f \in Event : f = Event_(outcome, r)
      BY <2>2, EventIsEvent
    <3>2. PICK s \in Seq(Event) : s = Append(queue, f) /\ queue' = Append(s, e)
      <4>1. queue' = queue \o <<f>> \o <<e>>
        BY <1>2, <2>2, <3>1 DEF WorkerReturns, CompletedQueued
      <4>2. Append(queue, f) \in Seq(Event)
        BY <1>3
      <4>3. queue \o <<f>> \o <<e>> = Append(Append(queue, f), e)
        BY <1>3
      <4> QED
        BY <4>1, <4>2, <4>3
    <3>3. Elements(s) = Elements(queue) \cup {f}
      BY <1>3, <3>2, TypedElements
    <3>4. Elements(Append(s, e)) = Elements(s) \cup {e}
      BY TypedElements
    <3> QED
      BY <3>2, <3>3, <3>4 DEF Elements
  <2> QED
    BY <2>1, <2>2
<1>5. PICK t : t = threads'[r] /\ t.stage = "looping" /\ t.quit = threads[r].quit
  <2>1. threads[r] \in Thread /\ threads'[r] = [threads[r] EXCEPT !.stage = "looping"]
    BY <1>1, TypeInvParts DEF EventsInv, ThreadsOK
  <2> QED
    BY <2>1 DEF Thread
<1>6. NotStranded(r)'
  <2>1. NotStranded(r) /\ ShutdownReached(r)' = ShutdownReached(r)
    BY <1>1, StrandedParts DEF ShutdownReached
  <2> QED
    BY <1>1, <1>2, <1>4, <1>5, <2>1 DEF NotStranded
<1>7. ASSUME NEW q \in Runners, q # r PROVE NotStranded(q)'
  <2>1. threads'[q] = threads[q] /\ ShutdownReached(q)' = ShutdownReached(q)
    BY <1>1, <1>7, TypeInvParts DEF EventsInv, ThreadsOK, ShutdownReached
  <2> QED
    BY <1>4, <2>1, StrandedParts, StaysUnstranded
<1> QED
  BY <1>6, <1>7 DEF NothingStranded, NotStranded

LEMMA StopStranded ==
  ASSUME EventsInv, NothingStranded, NEW r \in Runners, ThreadStops(r) PROVE NothingStranded'
<1>1. /\ threads' = [threads EXCEPT ![r].stage = "stopped"] /\ threads[r].quit
      /\ queue' = Append(queue, Event_("finished", r)) /\ closing' = closing
  BY DEF ThreadStops
<1>2. PICK e \in Event : e = Event_("finished", r)
  BY EventIsEvent
<1>3. Elements(Append(queue, e)) = Elements(queue) \cup {e}
  BY TypedElements, TypeInvParts DEF EventsInv, QueueOK
<1>4. Elements(queue)' = Elements(queue) \cup {e}
  BY <1>1, <1>2, <1>3 DEF Elements
<1>5. PICK t : t = threads'[r] /\ t.stage = "stopped" /\ t.quit = threads[r].quit
  <2>1. threads[r] \in Thread /\ threads'[r] = [threads[r] EXCEPT !.stage = "stopped"]
    BY <1>1, TypeInvParts DEF EventsInv, ThreadsOK
  <2> QED
    BY <2>1 DEF Thread
<1>6. NotStranded(r)'
  BY <1>1, <1>2, <1>4, <1>5 DEF NotStranded
<1>7. ASSUME NEW q \in Runners, q # r PROVE NotStranded(q)'
  <2>1. threads'[q] = threads[q] /\ ShutdownReached(q)' = ShutdownReached(q)
    BY <1>1, <1>7, TypeInvParts DEF EventsInv, ThreadsOK, ShutdownReached
  <2> QED
    BY <1>4, <2>1, StrandedParts, StaysUnstranded
<1> QED
  BY <1>6, <1>7 DEF NothingStranded, NotStranded

(* The event at the head of the queue is all that a delivery takes off it. *)
LEMMA DeliveryTakes ==
  ASSUME EventsInv, NEW types, Delivers(types)
  PROVE  /\ Head(queue).type \in types /\ Head(queue).runner \in Runners
         /\ Elements(queue) = Elements(queue)' \cup {Head(queue)}
<1>1. queue \in Seq(Event) /\ queue # << >> /\ queue' = Tail(queue) /\ Head(queue) \in Event
  BY DeliversTypeInv, TypeInvParts DEF EventsInv, QueueOK
<1>2. Elements(queue) = Elements(Tail(queue)) \cup {Head(queue)}
  BY <1>1, TypedElements
<1> QED
  BY <1>1, <1>2, DeliversTypeInv DEF EventsInv, Delivers, Elements

LEMMA ResultStranded ==
  ASSUME EventsInv, NothingStranded, NEW types \in SUBSET {"succeeded", "failed"},
         Delivers(types), UNCHANGED <<threads, closing>>
  PROVE  NothingStranded'
<1>1. /\ Head(queue).type \in {"succeeded", "failed"}
      /\ Elements(queue) = Elements(queue)' \cup {Head(queue)}
  BY DeliveryTakes
<1>2. \A r \in Runners : Event_("quit", r) # Head(queue) /\ Event_("finished", r) # Head(queue)
  BY <1>1, EventIsEvent
<1>3. \A r \in Runners : ShutdownReached(r)' = ShutdownReached(r)
  BY DEF ShutdownReached
<1>4. ASSUME NEW r \in Runners PROVE NotStranded(r)'
  BY <1>1, <1>2, <1>3, StrandedParts, StaysUnstranded
<1> QED
  BY <1>4 DEF NothingStranded, NotStranded

LEMMA QuitStranded == ASSUME EventsInv, NothingStranded, DeliverQuit PROVE NothingStranded'
<1>1. PICK r : r = Head(queue).runner
  OBVIOUS
<1>2. /\ Head(queue).type = "quit" /\ r \in Runners /\ GuiRuns /\ closing' = closing
      /\ Elements(queue) = Elements(queue)' \cup {Head(queue)}
  BY <1>1, DeliveryTakes DEF DeliverQuit, Delivers
<1>3. threads' = [threads EXCEPT ![r].quit = TRUE]
  BY <1>1 DEF DeliverQuit
<1>4. PICK t : t = threads'[r] /\ t.stage = threads[r].stage /\ t.quit = TRUE
  <2>1. threads[r] \in Thread /\ threads'[r] = [threads[r] EXCEPT !.quit = TRUE]
    BY <1>2, <1>3, TypeInvParts DEF EventsInv, ThreadsOK
  <2> QED
    BY <2>1 DEF Thread
<1>5. \A q \in Runners : /\ Event_("finished", q) # Head(queue)
                         /\ q # r => Event_("quit", q) # Head(queue)
  BY <1>1, <1>2, EventIsEvent
<1>6. \A q \in Runners : ~ShutdownReached(q)'
  BY <1>2 DEF GuiRuns, ShutdownReached
<1>7. ASSUME NEW q \in Runners PROVE NotStranded(q)'
  <2>1. CASE q = r
    BY <1>2, <1>4, <1>5, <1>6, <2>1, StrandedParts, StaysUnstranded
  <2>2. CASE q # r
    <3>1. threads'[q] = threads[q]
      BY <1>3, <2>2, TypeInvParts DEF EventsInv, ThreadsOK
    <3> QED
      BY <1>2, <1>5, <1>6, <2>2, <3>1, StrandedParts, StaysUnstranded
  <2> QED
    BY <2>1, <2>2
<1> QED
  BY <1>7 DEF NothingStranded, NotStranded

LEMMA FinishedStranded ==
  ASSUME EventsInv, NothingStranded, DeliverFinished PROVE NothingStranded'
<1>1. PICK r : r = Head(queue).runner
  OBVIOUS
<1>2. /\ Head(queue).type = "finished" /\ r \in Runners /\ GuiRuns /\ closing' = closing
      /\ Elements(queue) = Elements(queue)' \cup {Head(queue)}
  BY <1>1, DeliveryTakes DEF DeliverFinished, Delivers
<1>3. threads' = [threads EXCEPT ![r] = NoThread]
  BY <1>1 DEF DeliverFinished
<1>4. \A q \in Runners : threads'[q] = IF q = r THEN NoThread ELSE threads[q]
  BY <1>2, <1>3, TypeInvParts DEF EventsInv, ThreadsOK
<1>5. \A q \in Runners : q # r => /\ Event_("finished", q) # Head(queue)
                                  /\ Event_("quit", q) # Head(queue)
  BY <1>1, <1>2, EventIsEvent
<1>6. \A q \in Runners : ~ShutdownReached(q)'
  BY <1>2 DEF GuiRuns, ShutdownReached
<1>7. NotStranded(r)'
  BY <1>2, <1>4, NoThreadIsThread DEF NotStranded
<1>8. ASSUME NEW q \in Runners, q # r PROVE NotStranded(q)'
  BY <1>2, <1>4, <1>5, <1>6, <1>8, StrandedParts, StaysUnstranded
<1> QED
  BY <1>7, <1>8 DEF NothingStranded, NotStranded

(* A shutdown tells its thread to quit itself: the queue stands still. *)
LEMMA ShutDownStranded ==
  ASSUME EventsInv, NothingStranded, NEW r \in Runners, ShutDown(r), queue' = queue,
         \A q \in Runners : ShutdownReached(q)' => ShutdownReached(q) \/ q = r
  PROVE  NothingStranded'
<1>1. threads \in [Runners -> Thread] /\ Elements(queue)' = Elements(queue)
  BY TypeInvParts DEF EventsInv, ThreadsOK, Elements
<1>2. \A q \in Runners : q # r => threads'[q] = threads[q]
  BY <1>1 DEF ShutDown
<1>3. PICK t : /\ t = threads'[r] /\ t.stage = threads[r].stage
               /\ t.quit = IF threads[r].stage = "none" THEN threads[r].quit ELSE TRUE
  <2>1. CASE threads[r].stage = "none"
    BY <1>1, <2>1 DEF ShutDown
  <2>2. CASE threads[r].stage # "none"
    <3>1. threads[r] \in Thread /\ threads'[r] = [threads[r] EXCEPT !.quit = TRUE]
      BY <1>1, <2>2 DEF ShutDown, ToldToQuit
    <3> QED
      BY <2>2, <3>1 DEF Thread
  <2> QED
    BY <2>1, <2>2
<1>4. ASSUME NEW q \in Runners PROVE NotStranded(q)'
  <2>1. CASE q = r
    <3>1. CASE threads[r].stage = "none"
      BY <1>3, <2>1, <3>1 DEF NotStranded
    <3>2. CASE threads[r].stage # "none"
      BY <1>1, <1>3, <2>1, <3>2, StrandedParts DEF NotStranded
    <3> QED
      BY <3>1, <3>2
  <2>2. CASE q # r
    BY <1>1, <1>2, <2>2, StrandedParts, StaysUnstranded
  <2> QED
    BY <2>1, <2>2
<1> QED
  BY <1>4 DEF NothingStranded, NotStranded

LEMMA ClosingStranded ==
  ASSUME EventsInv, NothingStranded, CloseWindow \/ ShutdownStep PROVE NothingStranded'
<1>1. CASE CloseWindow
  BY <1>1, ShutDownStranded DEF CloseWindow, Runners, ShutdownReached
<1>2. CASE ShutDownAnalysis
  BY <1>2, ShutDownStranded DEF ShutDownAnalysis, Runners, ShutdownReached
<1>3. CASE Exit
  BY <1>3 DEF Exit, NothingStranded, Elements, ShutdownReached
<1> QED
  BY <1>1, <1>2, <1>3 DEF ShutdownStep

LEMMA StepStranded == EventsInv /\ NothingStranded /\ [Next]_vars => NothingStranded'
<1> SUFFICES ASSUME EventsInv, NothingStranded, [Next]_vars PROVE NothingStranded'
  OBVIOUS
<1>1. CASE UserClicks \/ PageReceives \/ UNCHANGED vars
  <2>1. UNCHANGED <<threads, queue, closing>>
    BY <1>1 DEF UserClicks, ClickResearch, ClickAnalyze, ClickProposal, Send, PageReceives, vars
  <2> QED
    BY <2>1, QuietStranded
<1>2. CASE BridgeStep
  BY <1>2, BridgeStranded
<1>3. CASE QueueStep
  <2>1. ASSUME NEW replied \in BOOLEAN, DeliverResearch(replied) PROVE NothingStranded'
    BY <2>1, ResultStranded DEF DeliverResearch
  <2>2. ASSUME NEW kinds \in Answers, DeliverProposals(kinds) PROVE NothingStranded'
    BY <2>2, ResultStranded DEF DeliverProposals
  <2>3. CASE DeliverAnalysisFailure
    BY <2>3, ResultStranded DEF DeliverAnalysisFailure
  <2> QED
    BY <1>3, <2>1, <2>2, <2>3, QuitStranded, FinishedStranded DEF QueueStep
<1>4. ASSUME NEW r \in Runners, WorkerStep(r) PROVE NothingStranded'
  BY <1>4, ReturnStranded, StopStranded DEF WorkerStep
<1>5. CASE CloseWindow \/ ShutdownStep
  BY <1>5, ClosingStranded
<1> QED
  BY <1>1, <1>2, <1>3, <1>4, <1>5 DEF Next

(* Whatever a worker ends with, and whenever the window is closed, the end of
   its thread does not depend on an event that was never queued or that nobody
   takes any more: the quit that completed is connected to, and the quit that
   shutdown calls itself (ResearchRunner, ModelAnalysisRunner). *)
THEOREM NoneStranded == Spec => []NothingStranded
<1>1. Init => NothingStranded
  BY NoThreadIsThread DEF Init, NothingStranded
<1>2. IInv => EventsInv
  BY DEF IInv
<1> QED
  BY <1>1, <1>2, StepStranded, SpecIInv, PTL DEF Spec

=============================================================================
