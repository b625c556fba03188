------------------------- MODULE ReviewDeskPageProofs -------------------------
(***************************************************************************)
(* What the page shows, from ReviewDeskProofs: a proposal in its view      *)
(* still resolves, or a message that takes it off the view is on its way;  *)
(* and the last message about a runner that is on its way, or the page's   *)
(* flag when there is none, says what the runner does.                     *)
(***************************************************************************)
EXTENDS ReviewDeskProofs

(* The message takes token t off the view of Investigation i, or replaces that
   view. *)
Drops(m, i, t) ==
  /\ m.investigation = i
  /\ \/ m.type \in {"analysisStarted", "analysisCompleted"}
     \/ m.type = "removed" /\ t \in m.tokens

(* Some message behind position j does. *)
DroppedAfter(j, i, t) == \E k \in DOMAIN toPage : k > j /\ Drops(toPage[k], i, t)

ViewsResolve ==
  \A i \in Investigations : \A t \in page.views[i] : t \in live \/ DroppedAfter(0, i, t)

(* The same of a view that is itself still on its way. *)
AnswersResolve ==
  \A j \in DOMAIN toPage : toPage[j].type = "analysisCompleted" =>
    \A t \in toPage[j].tokens : t \in live \/ DroppedAfter(j, toPage[j].investigation, t)

(* A token is shown, announced and asked for under the Investigation it was
   registered for. *)
Owned(t, i) == t \in DOMAIN proposals /\ proposals[t].investigation = i

ViewsOwned == \A i \in Investigations : \A t \in page.views[i] : Owned(t, i)

AnswersOwned ==
  \A j \in DOMAIN toPage : toPage[j].type = "analysisCompleted" =>
    \A t \in toPage[j].tokens : Owned(t, toPage[j].investigation)

RequestsOwned ==
  \A k \in DOMAIN toBackend : toBackend[k].type \in {"accept", "execute", "discard"} =>
    Owned(toBackend[k].token, toBackend[k].investigation)

OwnedInv == ViewsOwned /\ AnswersOwned /\ RequestsOwned

ShownInv == OwnedInv /\ (~escaped => ViewsResolve /\ AnswersResolve)

-----------------------------------------------------------------------------
(* What is registered stays registered, for the same Investigation. *)
ProposalsKept ==
  \A t \in DOMAIN proposals : t \in DOMAIN proposals' /\ proposals'[t] = proposals[t]

(* The messages in transit stay, and m and nothing else that changes a view is
   among the new ones. *)
Announces(m) ==
  /\ DOMAIN toPage \subseteq DOMAIN toPage'
  /\ \A k \in DOMAIN toPage : toPage'[k] = toPage[k]
  /\ \E n \in DOMAIN toPage' : n \notin DOMAIN toPage /\ toPage'[n] = m
  /\ \A k \in DOMAIN toPage' : k \notin DOMAIN toPage =>
       toPage'[k] = m \/ toPage'[k].type # "analysisCompleted"

LEMMA AppendAnnounces ==
  ASSUME toPage \in Seq(Message), NEW m \in Message, toPage' = Append(toPage, m)
  PROVE  Announces(m)
<1>1. /\ Len(toPage) \in Nat /\ DOMAIN toPage = 1..Len(toPage)
      /\ DOMAIN toPage' = 1..(Len(toPage) + 1) /\ toPage'[Len(toPage) + 1] = m
      /\ \A k \in DOMAIN toPage : toPage'[k] = toPage[k]
  OBVIOUS
<1> QED
  BY <1>1 DEF Announces

(* A token may stop resolving if the message that is sent takes it off the
   view, and a new view may be sent if its tokens resolve. *)
LEMMA Announced ==
  ASSUME EventsInv, EventsInv', ShownInv, NEW m, Announces(m), ProposalsKept,
         page' = page, ~escaped' => ~escaped,
         \A t \in live : t \notin live' => Drops(m, proposals[t].investigation, t),
         m.type = "analysisCompleted" =>
           \A t \in m.tokens : t \in live' /\ Owned(t, m.investigation)'
  PROVE  ViewsOwned' /\ AnswersOwned' /\ (~escaped' => ViewsResolve' /\ AnswersResolve')
<1>1. PICK n \in DOMAIN toPage' : n \notin DOMAIN toPage /\ toPage'[n] = m
  BY DEF Announces
<1>2. /\ Len(toPage) \in Nat /\ DOMAIN toPage = 1..Len(toPage)
      /\ Len(toPage') \in Nat /\ DOMAIN toPage' = 1..Len(toPage')
  BY DEF EventsInv, TypeInv, TypeOK
<1>3. n > 0 /\ \A j \in DOMAIN toPage : n > j
  BY <1>1, <1>2
<1>4. \A t, i : Owned(t, i) => Owned(t, i)'
  BY DEF ProposalsKept, Owned
<1>5. ViewsOwned'
  BY <1>4 DEF ShownInv, OwnedInv, ViewsOwned
<1>6. AnswersOwned'
  <2> SUFFICES ASSUME NEW j \in DOMAIN toPage', toPage'[j].type = "analysisCompleted",
                      NEW t \in toPage'[j].tokens, NEW i, i = toPage'[j].investigation
               PROVE  Owned(t, i)'
    BY DEF AnswersOwned, Owned
  <2>1. CASE j \in DOMAIN toPage
    BY <1>4, <2>1 DEF Announces, ShownInv, OwnedInv, AnswersOwned
  <2>2. CASE j \notin DOMAIN toPage
    BY <2>2 DEF Announces
  <2> QED
    BY <2>1, <2>2
<1>7. \A t, i : \A j : (j = 0 \/ j \in DOMAIN toPage) /\ Owned(t, i)
                         /\ (t \in live \/ DroppedAfter(j, i, t))
                       => t \in live' \/ DroppedAfter(j, i, t)'
  <2> SUFFICES ASSUME NEW t, NEW i, NEW j, j = 0 \/ j \in DOMAIN toPage, Owned(t, i),
                      t \in live \/ DroppedAfter(j, i, t), t \notin live'
               PROVE  DroppedAfter(j, i, t)'
    OBVIOUS
  <2>1. CASE t \in live
    <3>1. Drops(m, i, t)
      BY <2>1 DEF Owned
    <3> QED
      BY <1>1, <1>3, <3>1 DEF DroppedAfter, Drops
  <2>2. CASE DroppedAfter(j, i, t)
    <3>1. PICK k \in DOMAIN toPage : k > j /\ Drops(toPage[k], i, t)
      BY <2>2 DEF DroppedAfter
    <3>2. k \in DOMAIN toPage' /\ toPage'[k] = toPage[k]
      BY DEF Announces
    <3> QED
      BY <3>1, <3>2 DEF DroppedAfter, Drops
  <2> QED
    BY <2>1, <2>2
<1>8. ASSUME ~escaped' PROVE ViewsResolve' /\ AnswersResolve'
  <2>1. ViewsResolve /\ AnswersResolve /\ ViewsOwned /\ AnswersOwned
    BY <1>8 DEF ShownInv, OwnedInv
  <2>2. ViewsResolve'
    <3> SUFFICES ASSUME NEW i \in Investigations, NEW t \in page.views[i]
                 PROVE  t \in live' \/ DroppedAfter(0, i, t)'
      BY DEF ViewsResolve
    <3>1. Owned(t, i) /\ (t \in live \/ DroppedAfter(0, i, t))
      BY <2>1 DEF ViewsResolve, ViewsOwned
    <3> QED
      BY <1>7, <3>1
  <2>3. AnswersResolve'
    <3> SUFFICES ASSUME NEW j \in DOMAIN toPage', toPage'[j].type = "analysisCompleted",
                        NEW t \in toPage'[j].tokens, NEW i, i = toPage'[j].investigation
                 PROVE  t \in live' \/ DroppedAfter(j, i, t)'
      BY DEF AnswersResolve, DroppedAfter, Drops
    <3>1. CASE j \in DOMAIN toPage
      <4>1. Owned(t, i) /\ (t \in live \/ DroppedAfter(j, i, t))
        BY <2>1, <3>1 DEF Announces, AnswersResolve, AnswersOwned
      <4> QED
        BY <1>7, <3>1, <4>1
    <3>2. CASE j \notin DOMAIN toPage
      BY <3>2 DEF Announces
    <3> QED
      BY <3>1, <3>2
  <2> QED
    BY <2>2, <2>3
<1> QED
  BY <1>5, <1>6, <1>8

(* Nothing is sent, and nothing stops resolving. *)
LEMMA Silent ==
  ASSUME ShownInv, ProposalsKept, UNCHANGED <<page, toPage>>,
         escaped' \/ (live \subseteq live' /\ ~escaped)
  PROVE  ViewsOwned' /\ AnswersOwned' /\ (~escaped' => ViewsResolve' /\ AnswersResolve')
<1>1. \A t, i : Owned(t, i) => Owned(t, i)'
  BY DEF ProposalsKept, Owned
<1>2. \A j, i, t : DroppedAfter(j, i, t)' = DroppedAfter(j, i, t)
  BY DEF DroppedAfter, Drops
<1>3. ViewsOwned' /\ AnswersOwned'
  BY <1>1 DEF ShownInv, OwnedInv, ViewsOwned, AnswersOwned
<1>4. ASSUME ~escaped' PROVE ViewsResolve' /\ AnswersResolve'
  BY <1>2, <1>4 DEF ShownInv, ViewsResolve, AnswersResolve
<1> QED
  BY <1>3, <1>4

(* Requests stay owned while they wait. *)
LEMMA RequestsWait ==
  ASSUME EventsInv, RequestsOwned, ProposalsKept,
         \/ toBackend' = toBackend
         \/ toBackend # << >> /\ toBackend' = Tail(toBackend)
         \/ toBackend' = << >>
  PROVE  RequestsOwned'
<1>1. toBackend \in Seq(Request)
  BY TypeInvParts DEF EventsInv, ToBackendOK
<1>2. \A k \in DOMAIN toBackend' : \E l \in DOMAIN toBackend : toBackend'[k] = toBackend[l]
  BY <1>1
<1>3. \A t, i : Owned(t, i) => Owned(t, i)'
  BY DEF ProposalsKept, Owned
<1> QED
  BY <1>2, <1>3 DEF RequestsOwned

-----------------------------------------------------------------------------
(* What the page shows after a message it did not drop, or what it was sent. *)
LEMMA ViewsAfter ==
  ASSUME EventsInv, PageReceives, NEW i \in Investigations, NEW t \in page'.views[i],
         NEW m, m = Head(toPage)
  PROVE  \/ t \in page.views[i] /\ ~Drops(m, i, t)
         \/ m.type = "analysisCompleted" /\ m.investigation = i /\ t \in m.tokens
<1>1. /\ m.type \in {"researchStarted", "researchEnded", "analysisStarted",
                     "analysisCompleted", "analysisFailed", "removed"}
      /\ m.investigation \in Investigations
  <2>1. toPage \in Seq(Message) /\ toPage # << >>
    BY DEF EventsInv, TypeInv, TypeOK, PageReceives
  <2>2. m \in Message
    BY <2>1
  <2> QED
    BY <2>2 DEF Message
<1>2. page \in Page
  BY TypeInvParts DEF EventsInv, PageOK
<1>3. DOMAIN page.views = Investigations
  BY <1>2 DEF Page
<1>4. CASE m.type = "researchStarted"
  <2>1. page' = [page EXCEPT !.busy = TRUE]
    BY <1>4 DEF PageReceives
  <2>2. page'.views = page.views
    BY <1>2, <2>1 DEF Page
  <2> QED
    BY <1>4, <2>2 DEF Drops
<1>5. CASE m.type = "researchEnded"
  <2>1. page' = [page EXCEPT !.busy = FALSE]
    BY <1>5 DEF PageReceives
  <2>2. page'.views = page.views
    BY <1>2, <2>1 DEF Page
  <2> QED
    BY <1>5, <2>2 DEF Drops
<1>6. CASE m.type = "analysisFailed"
  <2>1. page' = [page EXCEPT !.active = Null]
    BY <1>6 DEF PageReceives
  <2>2. page'.views = page.views
    BY <1>2, <2>1 DEF Page
  <2> QED
    BY <1>6, <2>2 DEF Drops
<1>7. CASE m.type = "analysisStarted"
  <2>1. page' = [page EXCEPT !.active = m.investigation, !.views[m.investigation] = {}]
    BY <1>7 DEF PageReceives
  <2>2. page'.views = [page.views EXCEPT ![m.investigation] = {}]
    BY <1>2, <2>1 DEF Page
  <2> QED
    BY <1>1, <1>3, <1>7, <2>2 DEF Drops
<1>8. CASE m.type = "analysisCompleted"
  <2>1. page' = [page EXCEPT !.active = Null, !.views[m.investigation] = m.tokens]
    BY <1>8 DEF PageReceives
  <2>2. page'.views = [page.views EXCEPT ![m.investigation] = m.tokens]
    BY <1>2, <2>1 DEF Page
  <2> QED
    BY <1>1, <1>3, <1>8, <2>2 DEF Drops
<1>9. CASE m.type = "removed"
  <2>1. page' = [page EXCEPT !.views[m.investigation] = @ \ m.tokens]
    BY <1>9 DEF PageReceives
  <2>2. page'.views = [page.views EXCEPT ![m.investigation] = @ \ m.tokens]
    BY <1>2, <2>1 DEF Page
  <2> QED
    BY <1>1, <1>3, <1>9, <2>2 DEF Drops
<1> QED
  BY <1>1, <1>4, <1>5, <1>6, <1>7, <1>8, <1>9

LEMMA PageShown == ASSUME EventsInv, ShownInv, PageReceives PROVE ShownInv'
<1> DEFINE m == Head(toPage)
<1>1. /\ toPage \in Seq(Message) /\ toPage # << >> /\ toPage' = Tail(toPage)
      /\ UNCHANGED <<proposals, live, toBackend, escaped>>
  BY DEF EventsInv, TypeInv, TypeOK, PageReceives, service, history
<1>2. /\ 1 \in DOMAIN toPage /\ m = toPage[1]
      /\ \A k \in DOMAIN toPage : k = 1 \/ (k - 1 \in DOMAIN toPage' /\ k > 1)
      /\ \A k \in DOMAIN toPage' : k + 1 \in DOMAIN toPage /\ toPage'[k] = toPage[k + 1]
      /\ DOMAIN toPage \subseteq Nat /\ DOMAIN toPage' \subseteq Nat /\ 0 \notin DOMAIN toPage'
  BY <1>1
<1> HIDE DEF m
<1>3. \A t, i : Owned(t, i)' <=> Owned(t, i)
  BY <1>1 DEF Owned
<1>4. ASSUME NEW j \in DOMAIN toPage' \cup {0}, NEW i, NEW t, DroppedAfter(j + 1, i, t)
      PROVE  DroppedAfter(j, i, t)'
  <2>1. PICK k \in DOMAIN toPage : k > j + 1 /\ Drops(toPage[k], i, t)
    BY <1>4 DEF DroppedAfter
  <2>2. k - 1 \in DOMAIN toPage' /\ k - 1 > j /\ toPage'[k - 1] = toPage[k]
    BY <1>2, <2>1
  <2> QED
    BY <2>1, <2>2 DEF DroppedAfter, Drops
<1>5. ASSUME NEW i, NEW t, DroppedAfter(0, i, t), ~Drops(m, i, t)
      PROVE  DroppedAfter(1, i, t)
  BY <1>2, <1>5 DEF DroppedAfter
<1>6. OwnedInv'
  <2>1. ViewsOwned'
    <3> SUFFICES ASSUME NEW i \in Investigations, NEW t \in page'.views[i]
                 PROVE  Owned(t, i)'
      BY DEF ViewsOwned
    <3>1. CASE t \in page.views[i]
      BY <1>3, <3>1 DEF ShownInv, OwnedInv, ViewsOwned
    <3>2. CASE m.type = "analysisCompleted" /\ m.investigation = i /\ t \in m.tokens
      BY <1>2, <1>3, <3>2 DEF ShownInv, OwnedInv, AnswersOwned
    <3> QED
      BY <3>1, <3>2, ViewsAfter DEF m
  <2>2. AnswersOwned'
    <3> SUFFICES ASSUME NEW j \in DOMAIN toPage', toPage'[j].type = "analysisCompleted",
                        NEW i, i = toPage'[j].investigation, NEW t \in toPage'[j].tokens
                 PROVE  Owned(t, i)'
      BY DEF AnswersOwned, Owned
    <3> QED
      BY <1>2, <1>3 DEF ShownInv, OwnedInv, AnswersOwned
  <2>3. RequestsOwned'
    BY <1>1, <1>3 DEF ShownInv, OwnedInv, RequestsOwned
  <2> QED
    BY <2>1, <2>2, <2>3 DEF OwnedInv
<1>7. ASSUME ~escaped PROVE ViewsResolve' /\ AnswersResolve'
  <2>0. ViewsResolve /\ AnswersResolve
    BY <1>7 DEF ShownInv
  <2>1. ViewsResolve'
    <3> SUFFICES ASSUME NEW i \in Investigations, NEW t \in page'.views[i], t \notin live
                 PROVE  DroppedAfter(0, i, t)'
      BY <1>1 DEF ViewsResolve
    <3>1. DroppedAfter(1, i, t)
      <4>1. CASE t \in page.views[i] /\ ~Drops(m, i, t)
        BY <1>5, <2>0, <4>1 DEF ViewsResolve
      <4>2. CASE m.type = "analysisCompleted" /\ m.investigation = i /\ t \in m.tokens
        BY <1>2, <2>0, <4>2 DEF AnswersResolve
      <4> QED
        BY <4>1, <4>2, ViewsAfter DEF m
    <3> QED
      BY <1>4, <3>1
  <2>2. AnswersResolve'
    <3> SUFFICES ASSUME NEW j \in DOMAIN toPage', toPage'[j].type = "analysisCompleted",
                        NEW i, i = toPage'[j].investigation, NEW t \in toPage'[j].tokens,
                        t \notin live
                 PROVE  DroppedAfter(j, i, t)'
      BY <1>1 DEF AnswersResolve, DroppedAfter, Drops
    <3>1. DroppedAfter(j + 1, i, t)
      BY <1>2, <2>0 DEF AnswersResolve
    <3> QED
      BY <1>4, <3>1
  <2> QED
    BY <2>1, <2>2
<1> QED
  BY <1>1, <1>6, <1>7 DEF ShownInv

-----------------------------------------------------------------------------
(* Only a click asks for something new: for a token the page shows. *)
LEMMA ClickShown == ASSUME EventsInv, ShownInv, UserClicks PROVE ShownInv'
<1>1. PICK r :
        /\ toBackend' = Append(toBackend, r)
        /\ r.type \in {"accept", "execute", "discard"} => Owned(r.token, r.investigation)
        /\ UNCHANGED <<proposals, live, page, toPage, escaped>>
  <2>1. ASSUME NEW i \in Investigations, ClickResearch(i) \/ ClickAnalyze(i)
        PROVE  \E type \in {"research", "analyze"} :
                 Send([type |-> type, investigation |-> i, token |-> 0])
    BY <2>1 DEF ClickResearch, ClickAnalyze
  <2>2. ASSUME NEW i \in Investigations, NEW t \in DOMAIN proposals,
               NEW type \in {"accept", "execute", "discard"}, ClickProposal(i, t, type)
        PROVE  Owned(t, i) /\ Send([type |-> type, investigation |-> i, token |-> t])
    BY <2>2 DEF ClickProposal, ShownInv, OwnedInv, ViewsOwned
  <2> QED
    BY <2>1, <2>2 DEF UserClicks, Send, service
<1>2. toBackend \in Seq(Request)
  BY DEF EventsInv, TypeInv, TypeOK
<1>3. \A k \in DOMAIN toBackend' : toBackend'[k] = r \/
        (k \in DOMAIN toBackend /\ toBackend'[k] = toBackend[k])
  BY <1>1, <1>2
<1>4. \A t, i : Owned(t, i)' <=> Owned(t, i)
  BY <1>1 DEF Owned
<1>5. RequestsOwned'
  BY <1>1, <1>3, <1>4 DEF ShownInv, OwnedInv, RequestsOwned
<1>6. ViewsOwned' /\ AnswersOwned' /\ (~escaped' => ViewsResolve' /\ AnswersResolve')
  <2>1. escaped' \/ (live \subseteq live' /\ ~escaped)
    BY <1>1
  <2> QED
    BY <1>1, <2>1, Silent DEF ProposalsKept
<1> QED
  BY <1>5, <1>6 DEF ShownInv, OwnedInv

(* The bridge refuses, or starts a runner, or answers that a token is gone. *)
LEMMA BridgeShown == ASSUME EventsInv, EventsInv', ShownInv, BridgeStep PROVE ShownInv'
<1> DEFINE r == Head(toBackend)
<1>1. /\ toBackend # << >> /\ toBackend' = Tail(toBackend)
      /\ UNCHANGED <<proposals, page>>
  <2>1. CASE StartResearch \/ StartAnalysis
    BY <2>1 DEF StartResearch, StartAnalysis, Takes, Refuse, service
  <2>2. CASE ExecuteResearch
    BY <2>2 DEF ExecuteResearch, Takes, Refuse, service
  <2>3. CASE DiscardProposal
    BY <2>3 DEF DiscardProposal, Takes, Refuse, service
  <2>4. ASSUME NEW a \in BOOLEAN, NEW b \in BOOLEAN, AcceptClaim(a, b)
        PROVE  /\ toBackend # << >> /\ toBackend' = Tail(toBackend)
               /\ UNCHANGED <<proposals, page>>
    BY <2>4 DEF AcceptClaim, Takes, Refuse, service
  <2> QED
    BY <2>1, <2>2, <2>3, <2>4 DEF BridgeStep
<1>2. ProposalsKept
  BY <1>1 DEF ProposalsKept
<1>3. RequestsOwned'
  BY <1>1, <1>2, RequestsWait DEF ShownInv, OwnedInv
<1>4. /\ toBackend \in Seq(Request) /\ r = toBackend[1] /\ 1 \in DOMAIN toBackend
      /\ toPage \in Seq(Message) /\ r.investigation \in Investigations
  <2>1. toBackend \in Seq(Request) /\ toPage \in Seq(Message)
    BY DEF EventsInv, TypeInv, TypeOK
  <2>2. r = toBackend[1] /\ 1 \in DOMAIN toBackend /\ r \in Request
    BY <1>1, <2>1
  <2> QED
    BY <2>1, <2>2 DEF Request
<1> HIDE DEF r
(* The new messages answer the request. *)
<1>5. ASSUME r.token \in live, r.type \in {"accept", "execute", "discard"}
      PROVE  LET m == Msg("removed", r.investigation, {r.token})
             IN  /\ m \in Message /\ m.type = "removed"
                 /\ Drops(m, proposals[r.token].investigation, r.token)
  <2>1. proposals[r.token].investigation = r.investigation
    BY <1>4, <1>5 DEF ShownInv, OwnedInv, RequestsOwned, Owned
  <2>2. Msg("removed", r.investigation, {r.token}) \in Message
    BY <1>4, <1>5, RemovedMessage DEF EventsInv
  <2> QED
    BY <2>1, <2>2 DEF Drops, Msg
<1>6. ASSUME Refuse PROVE ShownInv'
  <2>1. ViewsOwned' /\ AnswersOwned' /\ (~escaped' => ViewsResolve' /\ AnswersResolve')
    BY <1>1, <1>2, <1>6, Silent DEF Refuse, service
  <2> QED
    BY <1>3, <2>1 DEF ShownInv, OwnedInv
<1>7. ASSUME NEW m, Announces(m), m.type # "analysisCompleted", escaped' = escaped,
             \A t \in live : t \notin live' => Drops(m, proposals[t].investigation, t)
      PROVE  ShownInv'
  <2>1. ViewsOwned' /\ AnswersOwned' /\ (~escaped' => ViewsResolve' /\ AnswersResolve')
    BY <1>1, <1>2, <1>7, Announced
  <2> QED
    BY <1>3, <2>1 DEF ShownInv, OwnedInv
<1>8. ASSUME NEW type \in {"researchStarted", "analysisStarted"}, NEW i \in Investigations,
             toPage' = Append(toPage, Msg(type, i, {})), UNCHANGED <<live, escaped>>
      PROVE  ShownInv'
  <2>1. PICK m \in Message : m = Msg(type, i, {}) /\ m.type # "analysisCompleted"
    <3>1. Msg(type, i, {}).type # "analysisCompleted"
      BY DEF Msg
    <3> QED
      BY <3>1, MsgIsMessage
  <2>2. Announces(m)
    BY <1>4, <1>8, <2>1, AppendAnnounces
  <2> QED
    BY <1>7, <1>8, <2>1, <2>2
<1>9. CASE StartResearch
  <2>1. CASE IsBusy("research")
    BY <1>6, <1>9, <2>1 DEF StartResearch
  <2>2. CASE ~IsBusy("research")
    BY <1>4, <1>8, <1>9, <2>2 DEF StartResearch, service, r
  <2> QED
    BY <2>1, <2>2
<1>10. CASE StartAnalysis
  <2>1. CASE IsBusy("analysis")
    BY <1>6, <1>10, <2>1 DEF StartAnalysis
  <2>2. CASE ~IsBusy("analysis")
    BY <1>4, <1>8, <1>10, <2>2 DEF StartAnalysis, service, r
  <2> QED
    BY <2>1, <2>2
<1>11. ASSUME r.token \in live, r.type \in {"accept", "discard"}, live' = live \ {r.token},
              toPage' = Append(toPage, Msg("removed", r.investigation, {r.token})),
              escaped' = escaped
       PROVE  ShownInv'
  <2>1. PICK m \in Message : /\ m = Msg("removed", r.investigation, {r.token})
                             /\ m.type = "removed"
                             /\ Drops(m, proposals[r.token].investigation, r.token)
    BY <1>5, <1>11
  <2>2. Announces(m)
    BY <1>4, <1>11, <2>1, AppendAnnounces
  <2> QED
    BY <1>7, <1>11, <2>1, <2>2
<1>12. CASE DiscardProposal
  <2>1. CASE r.token \notin live
    BY <1>6, <1>12, <2>1 DEF DiscardProposal, r
  <2>2. CASE r.token \in live
    BY <1>11, <1>12, <2>2 DEF DiscardProposal, Takes, r
  <2> QED
    BY <2>1, <2>2
<1>13. ASSUME NEW a \in BOOLEAN, NEW b \in BOOLEAN, AcceptClaim(a, b) PROVE ShownInv'
  <2>1. CASE r.token \notin live \/ ~a
    BY <1>6, <1>13, <2>1 DEF AcceptClaim, r
  <2>2. CASE r.token \in live /\ a /\ b
    BY <1>11, <1>13, <2>2 DEF AcceptClaim, Takes, ClaimConsumes, r
  <2>3. CASE r.token \in live /\ a /\ ~b
    <3>1. escaped' /\ toPage' = toPage
      BY <1>13, <2>3 DEF AcceptClaim, r
    <3>2. ViewsOwned' /\ AnswersOwned'
      BY <1>1, <1>2, <3>1, Silent
    <3> QED
      BY <1>3, <3>1, <3>2 DEF ShownInv, OwnedInv
  <2> QED
    BY <2>1, <2>2, <2>3
<1>14. CASE ExecuteResearch
  <2>1. CASE AskedFirst \/ r.token \notin live
    BY <1>6, <1>14, <2>1 DEF ExecuteResearch, r
  <2>2. CASE ~(AskedFirst \/ r.token \notin live)
    <3> DEFINE s == Msg("researchStarted", proposals[r.token].investigation, {})
    <3>1. r.type = "execute" /\ ~IsBusy("research") /\ r.token \in live
      BY <1>14, <2>2 DEF ExecuteResearch, Takes, AskedFirst, r
    <3>2. live' = live \ {r.token} /\ escaped' = escaped
      BY <1>14, <2>2 DEF ExecuteResearch, r
    <3>3. toPage' = toPage \o <<s, Msg("removed", r.investigation, {r.token})>>
      BY <1>14, <2>2, <3>1 DEF ExecuteResearch, r
    <3>4. PICK m \in Message : /\ m = Msg("removed", r.investigation, {r.token})
                               /\ m.type = "removed"
                               /\ Drops(m, proposals[r.token].investigation, r.token)
      BY <1>5, <3>1
    <3>5. s \in Message /\ s.type # "analysisCompleted"
      BY <3>1, LiveProposal, MsgIsMessage DEF Msg, EventsInv
    <3> HIDE DEF s
    <3>6. Announces(m)
      <4>1. /\ Len(toPage) \in Nat /\ DOMAIN toPage = 1..Len(toPage)
            /\ DOMAIN toPage' = 1..(Len(toPage) + 2)
            /\ toPage'[Len(toPage) + 1] = s /\ toPage'[Len(toPage) + 2] = m
            /\ \A k \in DOMAIN toPage : toPage'[k] = toPage[k]
        BY <1>4, <3>3, <3>4, <3>5
      <4>2. \A k \in DOMAIN toPage' : \/ k \in DOMAIN toPage
                                      \/ k = Len(toPage) + 1 \/ k = Len(toPage) + 2
        BY <4>1
      <4>3. Len(toPage) + 2 \in DOMAIN toPage' /\ Len(toPage) + 2 \notin DOMAIN toPage
        BY <4>1
      <4> QED
        BY <3>5, <4>1, <4>2, <4>3 DEF Announces
    <3> QED
      BY <1>7, <3>2, <3>4, <3>6
  <2> QED
    BY <2>1, <2>2
<1> QED
  BY <1>9, <1>10, <1>12, <1>13, <1>14 DEF BridgeStep

(* What the GUI thread takes from its queue. *)
LEMMA QueueShown == ASSUME EventsInv, EventsInv', ShownInv, QueueStep PROVE ShownInv'
<1>1. toPage \in Seq(Message)
  BY DEF EventsInv, TypeInv, TypeOK
<1>2. ASSUME UNCHANGED <<proposals, live, page, toBackend, toPage>>, escaped => escaped'
      PROVE  ShownInv'
  <2>1. ViewsOwned' /\ AnswersOwned' /\ (~escaped' => ViewsResolve' /\ AnswersResolve')
    BY <1>2, Silent DEF ProposalsKept
  <2>2. RequestsOwned'
    BY <1>2, RequestsWait DEF ShownInv, OwnedInv, ProposalsKept
  <2> QED
    BY <2>1, <2>2 DEF ShownInv, OwnedInv
<1>3. ASSUME NEW type \in {"researchEnded", "analysisFailed"}, NEW i \in Investigations,
             toPage' = Append(toPage, Msg(type, i, {})),
             UNCHANGED <<proposals, live, page, toBackend, escaped>>
      PROVE  ShownInv'
  <2>1. PICK m \in Message : m = Msg(type, i, {}) /\ m.type # "analysisCompleted"
    <3>1. Msg(type, i, {}).type # "analysisCompleted"
      BY DEF Msg
    <3> QED
      BY <3>1, MsgIsMessage
  <2>2. Announces(m) /\ ProposalsKept
    BY <1>1, <1>3, <2>1, AppendAnnounces DEF ProposalsKept
  <2>3. ViewsOwned' /\ AnswersOwned' /\ (~escaped' => ViewsResolve' /\ AnswersResolve')
    BY <1>3, <2>1, <2>2, Announced
  <2>4. RequestsOwned'
    BY <1>3, <2>2, RequestsWait DEF ShownInv, OwnedInv
  <2> QED
    BY <2>3, <2>4 DEF ShownInv, OwnedInv
<1>4. ASSUME NEW b \in BOOLEAN, DeliverResearch(b) PROVE ShownInv'
  <2>1. CASE Head(queue).type = "succeeded" /\ ~b
    BY <1>2, <1>4, <2>1 DEF DeliverResearch, service
  <2>2. CASE ~(Head(queue).type = "succeeded" /\ ~b)
    <3>1. threads["research"].of \in Investigations
      BY <1>4, DeliveredNamed DEF DeliverResearch
    <3> QED
      BY <1>3, <1>4, <2>2, <3>1 DEF DeliverResearch, service
  <2> QED
    BY <2>1, <2>2
<1>5. CASE DeliverAnalysisFailure
  <2>1. threads["analysis"].of \in Investigations
    BY <1>5, DeliveredNamed DEF DeliverAnalysisFailure
  <2> QED
    BY <1>3, <1>5, <2>1 DEF DeliverAnalysisFailure, service, history
<1>6. CASE DeliverQuit \/ DeliverFinished
  BY <1>2, <1>6 DEF DeliverQuit, DeliverFinished, service, channels, history
<1>7. ASSUME NEW kinds \in Answers, DeliverProposals(kinds) PROVE ShownInv'
  <2>1. kinds \in Seq(Kind)
    <3>1. Answers \subseteq Seq(Kind)
      BY DEF Answers, Kind
    <3> QED
      BY <1>7, <3>1
  <2>2. PICK i \in Investigations, new \in SUBSET Nat :
           /\ DOMAIN proposals' = DOMAIN proposals \cup new
           /\ \A t \in DOMAIN proposals : proposals'[t] = proposals[t]
           /\ \A t \in new : proposals'[t].investigation = i
           /\ live' = (live \ Invalidated(i)) \cup new
           /\ toPage' = Append(toPage, Msg("analysisCompleted", i, new))
    BY <1>7, <2>1, Registered
  <2>3. UNCHANGED <<page, toBackend, escaped>>
    BY <1>7 DEF DeliverProposals, history
  <2>4. PICK m \in Message : /\ m = Msg("analysisCompleted", i, new)
                             /\ m.type = "analysisCompleted"
                             /\ m.investigation = i /\ m.tokens = new
    <3>1. /\ Msg("analysisCompleted", i, new).type = "analysisCompleted"
          /\ Msg("analysisCompleted", i, new).investigation = i
      BY DEF Msg
    <3> QED
      BY <3>1, MsgIsMessage
  <2>5. ProposalsKept /\ Announces(m)
    BY <1>1, <2>2, <2>4, AppendAnnounces DEF ProposalsKept
  <2>6. \A t \in live : t \notin live' => Drops(m, proposals[t].investigation, t)
    BY <2>2, <2>4 DEF Invalidated, TokensOf, Drops
  <2>7. \A t \in m.tokens : t \in live' /\ Owned(t, m.investigation)'
    BY <2>2, <2>4 DEF Owned
  <2>8. ViewsOwned' /\ AnswersOwned' /\ (~escaped' => ViewsResolve' /\ AnswersResolve')
    BY <2>3, <2>5, <2>6, <2>7, Announced
  <2>9. RequestsOwned'
    BY <2>3, <2>5, RequestsWait DEF ShownInv, OwnedInv
  <2> QED
    BY <2>8, <2>9 DEF ShownInv, OwnedInv
<1> QED
  BY <1>4, <1>5, <1>6, <1>7 DEF QueueStep

(* A closed window shows nothing and hears nothing. *)
LEMMA CloseShown == ASSUME CloseWindow PROVE ShownInv'
<1>1. page' = EmptyPage /\ toBackend' = << >> /\ toPage' = << >>
  BY DEF CloseWindow
<1>2. \A i \in Investigations : page'.views[i] = {}
  BY <1>1 DEF EmptyPage
<1>3. ViewsOwned' /\ ViewsResolve'
  BY <1>2 DEF ViewsOwned, ViewsResolve
<1> QED
  BY <1>1, <1>3 DEF ShownInv, OwnedInv, AnswersOwned, AnswersResolve, RequestsOwned

LEMMA StepShown == EventsInv /\ ShownInv /\ [Next]_vars => ShownInv'
<1> SUFFICES ASSUME EventsInv, ShownInv, [Next]_vars PROVE ShownInv'
  OBVIOUS
<1>1. EventsInv'
  BY StepEvents
<1>2. CASE UserClicks \/ PageReceives \/ BridgeStep \/ QueueStep \/ CloseWindow
  BY <1>1, <1>2, ClickShown, PageShown, BridgeShown, QueueShown, CloseShown
<1>3. ASSUME \/ \E r \in Runners : WorkerStep(r)
             \/ ShutdownStep
             \/ UNCHANGED vars
      PROVE  ShownInv'
  <2>1. UNCHANGED <<proposals, live, page, toBackend, toPage>> /\ (escaped => escaped')
    <3>1. ASSUME NEW r \in Runners, WorkerStep(r)
          PROVE  UNCHANGED <<proposals, live, page, toBackend, toPage>> /\ (escaped => escaped')
      <4>1. UNCHANGED <<proposals, live, page, toBackend, toPage>>
        BY <3>1 DEF WorkerStep, WorkerReturns, ThreadStops, service, channels
      <4>2. escaped => escaped'
        BY <3>1, Zenon DEF WorkerStep, WorkerReturns, ThreadStops, history
      <4> QED
        BY <4>1, <4>2
    <3>2. CASE ShutdownStep \/ UNCHANGED vars
      BY <3>2 DEF ShutdownStep, ShutDownAnalysis, Exit, vars, service, channels, history
    <3> QED
      BY <1>3, <3>1, <3>2
  <2>2. ViewsOwned' /\ AnswersOwned' /\ (~escaped' => ViewsResolve' /\ AnswersResolve')
    BY <2>1, Silent DEF ProposalsKept
  <2>3. RequestsOwned'
    BY <2>1, RequestsWait DEF ShownInv, OwnedInv, ProposalsKept
  <2> QED
    BY <2>2, <2>3 DEF ShownInv, OwnedInv
<1> QED
  BY <1>2, <1>3 DEF Next

LEMMA InitShown == Init => ShownInv
<1> SUFFICES ASSUME Init PROVE ShownInv
  OBVIOUS
<1>1. page = EmptyPage /\ toBackend = << >> /\ toPage = << >>
  BY DEF Init
<1>2. \A i \in Investigations : page.views[i] = {}
  BY <1>1 DEF EmptyPage
<1> QED
  BY <1>1, <1>2 DEF ShownInv, OwnedInv, ViewsOwned, ViewsResolve, AnswersOwned, AnswersResolve,
     RequestsOwned

(* Once the page has heard everything it was told, every proposal it shows
   still resolves for that Investigation, unless an exception swallowed a
   message: a token ends only with a message that takes it off the view, and no
   view is sent with tokens that a later message does not take off again
   (ProposalReviewService, Bridge, app.js). *)
THEOREM ShownResolve == Spec => []ShownProposalsResolve
<1>1. ShownInv => ShownProposalsResolve
  BY DEF ShownInv, OwnedInv, ViewsResolve, ViewsOwned, DroppedAfter, Owned, TokensOf,
     ShownProposalsResolve
<1>2. Init => EventsInv /\ ShownInv
  BY InitEvents, InitShown
<1>3. EventsInv /\ ShownInv /\ [Next]_vars => (EventsInv /\ ShownInv)'
  BY StepEvents, StepShown
<1> QED
  BY <1>1, <1>2, <1>3, PTL DEF Spec

-----------------------------------------------------------------------------
(* The messages that set the page's flag for a runner, by their type: what
   the runner does and what the page will then take it to do agree. *)
Speaks(r) ==
  IF r = "research" THEN {"researchStarted", "researchEnded"}
  ELSE {"analysisStarted", "analysisCompleted", "analysisFailed"}

Starts == {"researchStarted", "analysisStarted"}

Tells(r, m) ==
  IF Unanswered(r) THEN m.type \in Starts /\ m.investigation = threads[r].of
  ELSE m.type \notin Starts

Shows(r) ==
  IF r = "research" THEN page.busy <=> Unanswered(r)
  ELSE page.active = IF Unanswered(r) THEN threads[r].of ELSE Null

(* Nothing behind position j is about the runner. *)
SilentAfter(j, r) == \A k \in DOMAIN toPage : k > j => toPage[k].type \notin Speaks(r)

FlagInv(r) ==
  /\ \A k \in DOMAIN toPage :
       toPage[k].type \in Speaks(r) /\ SilentAfter(k, r) => Tells(r, toPage[k])
  /\ SilentAfter(0, r) => Shows(r)

FlagsInv == ~escaped /\ GuiRuns => \A r \in Runners : FlagInv(r)

(* A worker's run has one outcome. *)
IsResult(e) == e.type \in {"succeeded", "failed"}

ResultsOnce ==
  \A j, k \in DOMAIN queue :
    IsResult(queue[j]) /\ IsResult(queue[k]) /\ queue[j].runner = queue[k].runner => j = k

-----------------------------------------------------------------------------
(* Whether a runner's end is still to be announced. *)
HasResult(r) == \E k \in DOMAIN queue : IsResult(queue[k]) /\ queue[k].runner = r

Running(r) == threads[r].stage = "running"

LEMMA UnansweredIs ==
  ASSUME NEW r
  PROVE  /\ Unanswered(r) <=> Running(r) \/ HasResult(r)
         /\ Unanswered(r)' <=> Running(r)' \/ HasResult(r)'
BY DEF Unanswered, HasResult, IsResult, Elements, Running

(* Nothing that the page should be told of happened to the runner. *)
Same(r) ==
  /\ Unanswered(r)' <=> Unanswered(r)
  /\ Unanswered(r) => threads'[r].of = threads[r].of

(* The messages in transit stay. *)
Transit ==
  /\ DOMAIN toPage \subseteq DOMAIN toPage' /\ DOMAIN toPage' \subseteq Nat \ {0}
  /\ \A k \in DOMAIN toPage : toPage'[k] = toPage[k]

NewMessages == DOMAIN toPage' \ DOMAIN toPage

LEMMA AppendTransit ==
  ASSUME toPage \in Seq(Message), NEW m \in Message, toPage' = Append(toPage, m)
  PROVE  /\ Transit /\ NewMessages = {Len(toPage) + 1} /\ toPage'[Len(toPage) + 1] = m
         /\ \A k \in DOMAIN toPage : Len(toPage) + 1 > k
<1>1. /\ Len(toPage) \in Nat /\ DOMAIN toPage = 1..Len(toPage)
      /\ DOMAIN toPage' = 1..(Len(toPage) + 1) /\ toPage'[Len(toPage) + 1] = m
      /\ \A k \in DOMAIN toPage : toPage'[k] = toPage[k]
  OBVIOUS
<1> QED
  BY <1>1 DEF Transit, NewMessages

LEMMA Unspoken ==
  ASSUME NEW r, FlagInv(r), Transit, Same(r), UNCHANGED page,
         \A k \in NewMessages : toPage'[k].type \notin Speaks(r)
  PROVE  FlagInv(r)'
<1>1. ASSUME NEW j, SilentAfter(j, r)' PROVE SilentAfter(j, r)
  BY <1>1 DEF SilentAfter, Transit
<1>2. ASSUME NEW k \in DOMAIN toPage', toPage'[k].type \in Speaks(r)
      PROVE  k \in DOMAIN toPage /\ toPage'[k] = toPage[k]
  BY <1>2 DEF Transit, NewMessages
<1>3. \A m : Tells(r, m) => Tells(r, m)'
  BY DEF Tells, Same
<1>4. Shows(r) => Shows(r)'
  BY DEF Shows, Same
<1>5. ASSUME NEW k \in DOMAIN toPage', toPage'[k].type \in Speaks(r), SilentAfter(k, r)'
      PROVE  Tells(r, toPage[k])'
  <2>1. PICK m : m = toPage[k] /\ m = toPage'[k] /\ k \in DOMAIN toPage
    BY <1>2, <1>5
  <2>2. Tells(r, m)
    BY <1>1, <1>5, <2>1 DEF FlagInv
  <2> QED
    BY <1>3, <2>1, <2>2
<1>6. SilentAfter(0, r)' => Shows(r)'
  BY <1>1, <1>4 DEF FlagInv
<1> QED
  BY <1>5, <1>6 DEF FlagInv, Speaks

LEMMA Spoken ==
  ASSUME NEW r, Transit, NEW n \in DOMAIN toPage', NEW m, m = toPage'[n],
         m.type \in Speaks(r), Tells(r, m)',
         \A k \in DOMAIN toPage' : toPage'[k].type \in Speaks(r) => k <= n
  PROVE  FlagInv(r)'
<1>1. n \in Nat /\ n > 0 /\ DOMAIN toPage' \subseteq Nat
  BY DEF Transit
<1>2. ~SilentAfter(0, r)'
  BY <1>1 DEF SilentAfter, Speaks
<1>3. ASSUME NEW k \in DOMAIN toPage', toPage'[k].type \in Speaks(r), SilentAfter(k, r)'
      PROVE  k = n
  BY <1>1, <1>3 DEF SilentAfter, Speaks
<1>4. ASSUME NEW k \in DOMAIN toPage', toPage'[k].type \in Speaks(r), SilentAfter(k, r)'
      PROVE  Tells(r, toPage[k])'
  <2>1. m = toPage'[k]
    BY <1>3, <1>4
  <2> QED
    BY <2>1
<1> QED
  BY <1>2, <1>4 DEF FlagInv, Speaks

(* One message, about runner r or about none. *)
LEMMA OneSpoken ==
  ASSUME toPage \in Seq(Message), NEW m \in Message, toPage' = Append(toPage, m),
         UNCHANGED page, NEW r \in Runners, m.type \in Speaks(r), Tells(r, m)',
         \A q \in Runners : q # r => FlagInv(q) /\ Same(q)
  PROVE  \A q \in Runners : FlagInv(q)'
<1>1. PICK n : n = Len(toPage) + 1
  OBVIOUS
<1>2. /\ Transit /\ NewMessages = {n} /\ toPage'[n] = m /\ n \in Nat
      /\ \A k \in DOMAIN toPage : n > k
  BY <1>1, AppendTransit
<1>3. n \in DOMAIN toPage' /\ \A k \in DOMAIN toPage' : k <= n
  BY <1>2 DEF NewMessages, Transit
<1>4. FlagInv(r)'
  BY <1>2, <1>3, Spoken
<1>5. \A q \in Runners : q # r => m.type \notin Speaks(q)
  BY DEF Speaks, Runners
<1>6. ASSUME NEW q \in Runners, q # r PROVE FlagInv(q)'
  BY <1>2, <1>5, <1>6, Unspoken
<1> QED
  BY <1>4, <1>6

LEMMA NoneSpoken ==
  ASSUME toPage \in Seq(Message), UNCHANGED page,
         \/ toPage' = toPage
         \/ \E m \in Message : m.type = "removed" /\ toPage' = Append(toPage, m),
         \A q \in Runners : FlagInv(q) /\ Same(q)
  PROVE  \A q \in Runners : FlagInv(q)'
<1>1. CASE toPage' = toPage
  <2>1. Transit /\ NewMessages = {}
    BY <1>1 DEF Transit, NewMessages
  <2> QED
    BY <2>1, Unspoken
<1>2. ASSUME NEW m \in Message, m.type = "removed", toPage' = Append(toPage, m)
      PROVE  \A q \in Runners : FlagInv(q)'
  <2>1. /\ Transit /\ NewMessages = {Len(toPage) + 1} /\ toPage'[Len(toPage) + 1] = m
    BY <1>2, AppendTransit
  <2>2. \A q : m.type \notin Speaks(q)
    BY <1>2 DEF Speaks
  <2> QED
    BY <2>1, <2>2, Unspoken
<1> QED
  BY <1>1, <1>2

-----------------------------------------------------------------------------
(* What each step does to the runners. *)
LEMMA StartsRunner ==
  ASSUME EventsInv, NEW r \in Runners, NEW i \in Investigations, ~IsBusy(r),
         threads' = [threads EXCEPT ![r] = StartedThread(i)], queue' = queue
  PROVE  /\ Unanswered(r)' /\ threads'[r].of = i
         /\ \A q \in Runners : q # r => Same(q)
<1>1. \A q \in Runners : threads'[q] = IF q = r THEN StartedThread(i) ELSE threads[q]
  BY StartTypeInv DEF EventsInv
<1>2. threads'[r].of = i /\ Running(r)'
  BY <1>1, StartedIsThread DEF Running
<1>3. \A q : HasResult(q)' <=> HasResult(q)
  BY DEF HasResult, IsResult
<1>4. ASSUME NEW q \in Runners, q # r PROVE Same(q)
  <2>1. Running(q)' <=> Running(q)
    BY <1>1, <1>4 DEF Running
  <2>2. threads'[q].of = threads[q].of
    BY <1>1, <1>4
  <2>3. Unanswered(q)' <=> Unanswered(q)
    BY <1>3, <2>1, UnansweredIs
  <2> QED
    BY <2>2, <2>3 DEF Same
<1> QED
  BY <1>2, <1>4, UnansweredIs

LEMMA SameRunners == ASSUME UNCHANGED <<threads, queue>> PROVE \A q : Same(q)
<1>1. \A q : (HasResult(q)' <=> HasResult(q)) /\ (Running(q)' <=> Running(q))
  BY DEF HasResult, Running, IsResult
<1> QED
  BY <1>1, UnansweredIs DEF Same

LEMMA ReturnsSame ==
  ASSUME EventsInv, NEW r \in Runners, NEW outcome \in {"succeeded", "failed"},
         WorkerReturns(r, outcome), ResultsOnce
  PROVE  ResultsOnce' /\ \A q \in Runners : Same(q)
<1>1. threads[r].stage = "running" /\ threads' = [threads EXCEPT ![r].stage = "looping"]
  BY DEF WorkerReturns
<1>2. \A q \in Runners : /\ threads'[q].stage = IF q = r THEN "looping" ELSE threads[q].stage
                         /\ threads'[q].of = threads[q].of
  BY <1>1, StageTypeInv DEF Stage, EventsInv
<1>3. PICK e \in Event, q \in Event :
        /\ e.type = outcome /\ e.runner = r /\ q.type = "quit" /\ q.runner = r
        /\ e = Event_(outcome, r) /\ q = Event_("quit", r)
  BY EventIsEvent
<1>4. queue \in Seq(Event)
  BY TypeInvParts DEF QueueOK, EventsInv
<1>5. queue' = queue \o <<e>> \o <<q>>
  BY <1>3 DEF WorkerReturns, CompletedQueued
<1>6. PICK n : n = Len(queue) + 1
  OBVIOUS
<1>7. /\ n \notin DOMAIN queue /\ n \in DOMAIN queue' /\ queue'[n] = e
      /\ \A k \in DOMAIN queue : k \in DOMAIN queue' /\ queue'[k] = queue[k]
      /\ \A k \in DOMAIN queue' : k \in DOMAIN queue \/ k = n \/ queue'[k] = q
  BY <1>4, <1>5, <1>6
<1>8. \A k \in DOMAIN queue : queue[k].runner # r
  BY <1>1 DEF EventsInv, QueueInv
<1>9. IsResult(e) /\ ~IsResult(q)
  BY <1>3 DEF IsResult
<1>10. \A k \in DOMAIN queue' : IsResult(queue'[k]) =>
         \/ k \in DOMAIN queue /\ queue'[k] = queue[k]
         \/ k = n
  BY <1>7, <1>9
<1>11. ResultsOnce'
  <2> SUFFICES ASSUME NEW j \in DOMAIN queue', NEW k \in DOMAIN queue',
                      IsResult(queue'[j]), IsResult(queue'[k]),
                      queue'[j].runner = queue'[k].runner
               PROVE  j = k
    BY DEF ResultsOnce, IsResult
  <2> QED
    BY <1>3, <1>7, <1>8, <1>10 DEF ResultsOnce
<1>12. HasResult(r)'
  BY <1>3, <1>7, <1>9 DEF HasResult, IsResult
<1>13. \A p \in Runners : p # r => (HasResult(p)' <=> HasResult(p))
  BY <1>3, <1>7, <1>10 DEF HasResult, IsResult
<1>14. \A p \in Runners : Unanswered(p)' <=> Unanswered(p)
  BY <1>1, <1>2, <1>12, <1>13, UnansweredIs DEF Running
<1> QED
  BY <1>2, <1>11, <1>14 DEF Same

LEMMA StopsSame ==
  ASSUME EventsInv, NEW r \in Runners, ThreadStops(r), ResultsOnce
  PROVE  ResultsOnce' /\ \A q \in Runners : Same(q)
<1>1. /\ threads[r].stage = "looping" /\ threads' = [threads EXCEPT ![r].stage = "stopped"]
      /\ queue' = Append(queue, Event_("finished", r))
  BY DEF ThreadStops
<1>2. \A q \in Runners : /\ threads'[q].stage = IF q = r THEN "stopped" ELSE threads[q].stage
                         /\ threads'[q].of = threads[q].of
  BY <1>1, StageTypeInv DEF Stage, EventsInv
<1>3. PICK e \in Event : e = Event_("finished", r) /\ e.type = "finished"
  BY EventIsEvent
<1>4. queue \in Seq(Event)
  BY TypeInvParts DEF QueueOK, EventsInv
<1>5. /\ \A k \in DOMAIN queue : k \in DOMAIN queue' /\ queue'[k] = queue[k]
      /\ \A k \in DOMAIN queue' : k \in DOMAIN queue \/ queue'[k] = e
  BY <1>1, <1>3, <1>4
<1>6. ~IsResult(e)
  BY <1>3 DEF IsResult
<1>7. ResultsOnce'
  BY <1>5, <1>6 DEF ResultsOnce, IsResult
<1>8. \A p : HasResult(p)' <=> HasResult(p)
  BY <1>5, <1>6 DEF HasResult, IsResult
<1>9. \A p \in Runners : Unanswered(p)' <=> Unanswered(p)
  BY <1>1, <1>2, <1>8, UnansweredIs DEF Running
<1> QED
  BY <1>2, <1>7, <1>9 DEF Same

LEMMA DeliversOnce ==
  ASSUME EventsInv, ResultsOnce, NEW types, Delivers(types)
  PROVE  /\ ResultsOnce' /\ Head(queue).type \in types /\ Head(queue).runner \in Runners
         /\ 1 \in DOMAIN queue /\ Head(queue) = queue[1]
         /\ \A r : HasResult(r)' => HasResult(r)
         /\ \A r : HasResult(r) => HasResult(r)' \/ (IsResult(queue[1]) /\ queue[1].runner = r)
         /\ \A r : IsResult(queue[1]) /\ queue[1].runner = r => ~HasResult(r)'
<1>1. /\ Head(queue) = queue[1] /\ Head(queue).runner \in Runners
      /\ queue \in Seq(Event) /\ Len(queue) \in Nat /\ Len(queue) > 0
      /\ DOMAIN queue' = 1..(Len(queue) - 1)
      /\ \A k \in DOMAIN queue' : k + 1 \in DOMAIN queue /\ queue'[k] = queue[k + 1]
  BY DeliversTypeInv, TypeInvParts DEF EventsInv, QueueOK
<1>2. /\ 1 \in DOMAIN queue /\ DOMAIN queue = 1..Len(queue)
      /\ \A k \in DOMAIN queue' : k + 1 # 1
      /\ \A k \in DOMAIN queue : k = 1 \/ (k - 1 \in DOMAIN queue' /\ queue'[k - 1] = queue[k])
      /\ \A j, k \in DOMAIN queue' : j + 1 = k + 1 => j = k
  BY <1>1
<1>3. ResultsOnce'
  BY <1>1, <1>2 DEF ResultsOnce, IsResult
<1>4. \A r : HasResult(r)' => HasResult(r)
  BY <1>1 DEF HasResult, IsResult
<1>5. \A r : HasResult(r) => HasResult(r)' \/ (IsResult(queue[1]) /\ queue[1].runner = r)
  BY <1>2 DEF HasResult, IsResult
<1>6. ASSUME NEW r, IsResult(queue[1]), queue[1].runner = r, HasResult(r)'
      PROVE  FALSE
  <2>1. PICK k \in DOMAIN queue' : IsResult(queue'[k]) /\ queue'[k].runner = r
    BY <1>6 DEF HasResult, IsResult
  <2>2. k + 1 \in DOMAIN queue /\ queue[k + 1] = queue'[k] /\ k + 1 # 1
    BY <1>1, <1>2
  <2> QED
    BY <1>2, <1>6, <2>1, <2>2 DEF ResultsOnce
<1> QED
  BY <1>1, <1>2, <1>3, <1>4, <1>5, <1>6 DEF Delivers

(* The end of r was announced; the other runner goes on. *)
LEMMA ResultDelivered ==
  ASSUME EventsInv, ResultsOnce, NEW types \in SUBSET {"succeeded", "failed"},
         Delivers(types), threads' = threads, NEW r, r = Head(queue).runner
  PROVE  /\ ResultsOnce' /\ r \in Runners /\ ~Unanswered(r)'
         /\ \A q \in Runners : q # r => Same(q)
<1>1. /\ ResultsOnce' /\ Head(queue).type \in types /\ r \in Runners
      /\ 1 \in DOMAIN queue /\ Head(queue) = queue[1]
      /\ \A q : HasResult(q)' => HasResult(q)
      /\ \A q : HasResult(q) => HasResult(q)' \/ (IsResult(queue[1]) /\ queue[1].runner = q)
      /\ \A q : IsResult(queue[1]) /\ queue[1].runner = q => ~HasResult(q)'
  BY DeliversOnce
<1>2. IsResult(queue[1]) /\ queue[1].runner = r
  BY <1>1 DEF IsResult
<1>3. ~HasResult(r)'
  BY <1>1, <1>2
<1>4. ~Running(r)
  BY <1>1, <1>2 DEF EventsInv, QueueInv, Running
<1>5. \A q : Running(q)' <=> Running(q)
  BY DEF Running
<1>6. \A q \in Runners : q # r => (HasResult(q)' <=> HasResult(q))
  BY <1>1, <1>2
<1> QED
  BY <1>1, <1>3, <1>4, <1>5, <1>6, UnansweredIs DEF Same

LEMMA QuitSame ==
  ASSUME EventsInv, ResultsOnce, DeliverQuit
  PROVE  ResultsOnce' /\ \A q \in Runners : Same(q)
<1>1. PICK r : r = Head(queue).runner
  OBVIOUS
<1>2. Delivers({"quit"}) /\ threads' = [threads EXCEPT ![r] = ToldToQuit(threads[r])]
  BY <1>1 DEF DeliverQuit, ToldToQuit
<1>3. /\ ResultsOnce' /\ queue[1].type = "quit" /\ r \in Runners
      /\ \A q : HasResult(q)' <=> HasResult(q)
  BY <1>1, <1>2, DeliversOnce DEF IsResult
<1>4. \A q \in Runners : /\ threads'[q].stage = threads[q].stage
                         /\ threads'[q].of = threads[q].of
  BY <1>2, <1>3, QuitTypeInv DEF EventsInv
<1>5. \A q \in Runners : Unanswered(q)' <=> Unanswered(q)
  BY <1>3, <1>4, UnansweredIs DEF Running
<1> QED
  BY <1>3, <1>4, <1>5 DEF Same

LEMMA FinishedSame ==
  ASSUME EventsInv, ResultsOnce, DeliverFinished
  PROVE  ResultsOnce' /\ \A q \in Runners : Same(q)
<1>1. PICK r : r = Head(queue).runner
  OBVIOUS
<1>2. Delivers({"finished"}) /\ threads' = [threads EXCEPT ![r] = NoThread]
  BY <1>1 DEF DeliverFinished
<1>3. /\ ResultsOnce' /\ queue[1].type = "finished" /\ r \in Runners
      /\ queue[1].runner = r /\ 1 \in DOMAIN queue
      /\ \A q : HasResult(q)' <=> HasResult(q)
  BY <1>1, <1>2, DeliversOnce DEF IsResult
<1>4. \A q \in Runners : threads'[q] = IF q = r THEN NoThread ELSE threads[q]
  BY <1>2, <1>3, TypeInvParts DEF ThreadsOK, EventsInv
<1>5. ~Unanswered(r)
  <2>1. threads[r].stage = "stopped" /\ \A j \in DOMAIN queue : j > 1 => queue[j].runner # r
    BY <1>3 DEF EventsInv, QueueInv
  <2>2. \A j \in DOMAIN queue : j = 1 \/ j > 1
    BY TypeInvParts DEF EventsInv, QueueOK
  <2>3. ~HasResult(r)
    BY <1>3, <2>1, <2>2 DEF HasResult, IsResult
  <2> QED
    BY <2>1, <2>3, UnansweredIs DEF Running
<1>6. ~Running(r)'
  BY <1>3, <1>4, NoThreadIsThread DEF Running
<1>7. \A q \in Runners : q # r => (Running(q)' <=> Running(q)) /\ threads'[q].of = threads[q].of
  BY <1>4 DEF Running
<1>8. ASSUME NEW q \in Runners PROVE Same(q)
  <2>1. CASE q = r
    BY <1>3, <1>5, <1>6, <2>1, UnansweredIs DEF Same
  <2>2. CASE q # r
    BY <1>3, <1>7, <2>2, UnansweredIs DEF Same
  <2> QED
    BY <2>1, <2>2
<1> QED
  BY <1>3, <1>8

-----------------------------------------------------------------------------
(* The page's flags. *)
FInv == ResultsOnce /\ FlagsInv

LEMMA Hears ==
  ASSUME ~escaped' => ~escaped, GuiRuns' => GuiRuns, ResultsOnce', FInv,
         (~escaped' /\ \A r \in Runners : FlagInv(r)) => \A r \in Runners : FlagInv(r)'
  PROVE  FInv'
BY DEF FInv, FlagsInv

LEMMA SameResults == ASSUME ResultsOnce, UNCHANGED queue PROVE ResultsOnce'
BY DEF ResultsOnce, IsResult

LEMMA MessageIs ==
  ASSUME NEW type \in {"researchStarted", "researchEnded", "analysisStarted",
                       "analysisCompleted", "analysisFailed", "removed"},
         NEW i \in Investigations, NEW tokens \in SUBSET Nat
  PROVE  /\ Msg(type, i, tokens) \in Message /\ Msg(type, i, tokens).type = type
         /\ Msg(type, i, tokens).investigation = i
BY MsgIsMessage DEF Msg

LEMMA InitFlags == Init => FInv
<1> SUFFICES ASSUME Init PROVE FInv
  OBVIOUS
<1>1. \A r \in Runners : threads[r].stage = "none"
  BY NoThreadIsThread DEF Init
<1>2. queue = << >> /\ toPage = << >> /\ ~page.busy /\ page.active = Null
  <2>1. ~EmptyPage.busy
    BY Zenon DEF EmptyPage
  <2>2. EmptyPage.active = Null
    BY DEF EmptyPage
  <2> QED
    BY <2>1, <2>2 DEF Init
<1>3. \A r \in Runners : ~Unanswered(r)
  BY <1>1, <1>2, UnansweredIs DEF Running, HasResult
<1>4. \A r \in Runners : Shows(r)
  BY <1>2, <1>3 DEF Shows, Runners
<1> QED
  BY <1>2, <1>4 DEF FInv, FlagsInv, FlagInv, ResultsOnce

(* What a message does to the two flags. *)
LEMMA PageSets ==
  ASSUME PageReceives, page \in Page, NEW m \in Message, m = Head(toPage)
  PROVE  /\ page'.busy <=> \/ m.type = "researchStarted"
                           \/ m.type # "researchEnded" /\ page.busy
         /\ page'.active = IF m.type = "analysisStarted" THEN m.investigation
                           ELSE IF m.type \in {"analysisCompleted", "analysisFailed"} THEN Null
                           ELSE page.active
<1>1. m.type \in {"researchStarted", "researchEnded", "analysisStarted",
                  "analysisCompleted", "analysisFailed", "removed"}
  BY DEF Message
<1>2. TRUE \in BOOLEAN /\ FALSE \in BOOLEAN
  BY Zenon
<1>3. CASE m.type = "researchStarted"
  <2>1. PICK b \in BOOLEAN : b = TRUE
    BY <1>2, Zenon
  <2>2. page' = [page EXCEPT !.busy = b]
    BY <1>3, <2>1 DEF PageReceives
  <2>3. page'.busy = b /\ page'.active = page.active
    BY <2>2 DEF Page
  <2>4. page'.busy
    BY <2>1, <2>3, Zenon
  <2> QED
    BY <1>3, <2>3, <2>4
<1>4. CASE m.type = "researchEnded"
  <2>1. PICK b \in BOOLEAN : b = FALSE
    BY <1>2, Zenon
  <2>2. page' = [page EXCEPT !.busy = b]
    BY <1>4, <2>1 DEF PageReceives
  <2>3. page'.busy = b /\ page'.active = page.active
    BY <2>2 DEF Page
  <2>4. ~page'.busy
    BY <2>1, <2>3, Zenon
  <2> QED
    BY <1>4, <2>3, <2>4
<1>5. CASE m.type = "analysisStarted"
  <2>1. page' = [page EXCEPT !.active = m.investigation, !.views[m.investigation] = {}]
    BY <1>5 DEF PageReceives
  <2>2. page'.busy = page.busy /\ page'.active = m.investigation
    BY <2>1 DEF Page
  <2> QED
    BY <1>5, <2>2
<1>6. CASE m.type = "analysisCompleted"
  <2>1. page' = [page EXCEPT !.active = Null, !.views[m.investigation] = m.tokens]
    BY <1>6 DEF PageReceives
  <2>2. page'.busy = page.busy /\ page'.active = Null
    BY <2>1 DEF Page
  <2> QED
    BY <1>6, <2>2
<1>7. CASE m.type = "analysisFailed"
  <2>1. page' = [page EXCEPT !.active = Null]
    BY <1>7 DEF PageReceives
  <2>2. page'.busy = page.busy /\ page'.active = Null
    BY <2>1 DEF Page
  <2> QED
    BY <1>7, <2>2
<1>8. CASE m.type = "removed"
  <2>1. page' = [page EXCEPT !.views[m.investigation] = @ \ m.tokens]
    BY <1>8 DEF PageReceives
  <2>2. page'.busy = page.busy /\ page'.active = page.active
    BY <2>1 DEF Page
  <2> QED
    BY <1>8, <2>2
<1> QED
  BY <1>1, <1>3, <1>4, <1>5, <1>6, <1>7, <1>8

LEMMA PageFlags == ASSUME EventsInv, FInv, PageReceives PROVE FInv'
<1>1. PICK m : m = Head(toPage)
  OBVIOUS
<1>2. /\ toPage \in Seq(Message) /\ toPage # << >> /\ toPage' = Tail(toPage)
      /\ UNCHANGED <<threads, queue, escaped, closing>> /\ page \in Page
  BY TypeInvParts DEF EventsInv, ToPageOK, PageOK, PageReceives, history
<1>3. /\ 1 \in DOMAIN toPage /\ m = toPage[1] /\ m \in Message
      /\ \A k \in DOMAIN toPage : k = 1 \/ (k - 1 \in DOMAIN toPage' /\ k > 1)
      /\ \A k \in DOMAIN toPage' : k + 1 \in DOMAIN toPage /\ toPage'[k] = toPage[k + 1]
      /\ DOMAIN toPage \subseteq Nat \ {0} /\ DOMAIN toPage' \subseteq Nat \ {0}
  BY <1>1, <1>2
<1>4. \A r : Same(r) /\ (Unanswered(r)' <=> Unanswered(r))
  BY <1>2, SameRunners DEF Same
<1>5. ASSUME NEW j \in Nat, NEW r, SilentAfter(j, r)' PROVE SilentAfter(j + 1, r)
  <2>1. ASSUME NEW k \in DOMAIN toPage, k > j + 1 PROVE toPage[k].type \notin Speaks(r)
    <3>1. k - 1 \in DOMAIN toPage' /\ k - 1 > j /\ k - 1 + 1 = k
      BY <1>3, <2>1
    <3>2. toPage'[k - 1] = toPage[k]
      BY <1>3, <3>1
    <3> QED
      BY <1>5, <3>1, <3>2 DEF SilentAfter, Speaks
  <2> QED
    BY <2>1 DEF SilentAfter
<1>6. \A r, x : Tells(r, x)' <=> Tells(r, x)
  BY <1>2, <1>4 DEF Tells
<1>7. ASSUME NEW r \in Runners, FlagInv(r), NEW k \in DOMAIN toPage',
             toPage'[k].type \in Speaks(r), SilentAfter(k, r)'
      PROVE  Tells(r, toPage[k])'
  <2>1. PICK x : x = toPage'[k] /\ x = toPage[k + 1]
    BY <1>3
  <2>2. SilentAfter(k + 1, r) /\ k + 1 \in DOMAIN toPage
    BY <1>3, <1>5, <1>7
  <2>3. Tells(r, x)
    BY <1>7, <2>1, <2>2 DEF FlagInv
  <2> QED
    BY <1>6, <2>1, <2>3
<1>8. ASSUME NEW r \in Runners, FlagInv(r), SilentAfter(0, r)' PROVE Shows(r)'
  <2>1. SilentAfter(1, r)
    BY <1>5, <1>8
  <2>2. m.type \in Speaks(r) => Tells(r, m)
    BY <1>3, <1>8, <2>1 DEF FlagInv
  <2>3. m.type \notin Speaks(r) => Shows(r)
    <3>1. m.type \notin Speaks(r) => SilentAfter(0, r)
      BY <1>3, <2>1 DEF SilentAfter
    <3> QED
      BY <1>8, <3>1 DEF FlagInv
  <2>4. CASE r = "research"
    <3>1. page'.busy <=> IF m.type \in Speaks(r) THEN m.type \in Starts ELSE page.busy
      BY <1>1, <1>2, <1>3, <2>4, PageSets DEF Speaks, Starts
    <3> QED
      BY <1>4, <2>2, <2>3, <2>4, <3>1 DEF Shows, Tells
  <2>5. CASE r = "analysis"
    <3>1. page'.active = IF m.type \notin Speaks(r) THEN page.active
                         ELSE IF m.type \in Starts THEN m.investigation ELSE Null
      BY <1>1, <1>2, <1>3, <2>5, PageSets DEF Speaks, Starts
    <3> QED
      BY <1>2, <1>4, <2>2, <2>3, <2>5, <3>1 DEF Shows, Tells
  <2> QED
    BY <2>4, <2>5 DEF Runners
<1>9. \A r \in Runners : FlagInv(r) => FlagInv(r)'
  BY <1>7, <1>8 DEF FlagInv, Speaks
<1> QED
  BY <1>2, <1>9, Hears, SameResults DEF FInv, GuiRuns

(* A step that tells the page nothing about the runners. *)
LEMMA QuietFlags ==
  ASSUME EventsInv, FInv, ~escaped' => ~escaped, UNCHANGED <<page, closing>>, ResultsOnce',
         \A q \in Runners : Same(q),
         \/ toPage' = toPage
         \/ \E m \in Message : m.type = "removed" /\ toPage' = Append(toPage, m)
  PROVE  FInv'
<1>1. toPage \in Seq(Message) /\ page' = page
  BY TypeInvParts DEF EventsInv, ToPageOK
<1>2. (\A q \in Runners : FlagInv(q)) => \A q \in Runners : FlagInv(q)'
  BY <1>1, NoneSpoken
<1> QED
  BY <1>2, Hears DEF GuiRuns

LEMMA StartFlags ==
  ASSUME EventsInv, FInv, NEW r \in Runners, NEW i \in Investigations, ~IsBusy(r),
         threads' = [threads EXCEPT ![r] = StartedThread(i)],
         NEW type \in Speaks(r) \cap Starts, toPage' = Append(toPage, Msg(type, i, {})),
         UNCHANGED <<queue, page, closing, escaped>>
  PROVE  FInv'
<1>1. toPage \in Seq(Message)
  BY TypeInvParts DEF EventsInv, ToPageOK
<1>2. PICK m \in Message : m = Msg(type, i, {}) /\ m.type = type /\ m.investigation = i
  BY MessageIs DEF Starts
<1>3. /\ Unanswered(r)' /\ threads'[r].of = i
      /\ \A q \in Runners : q # r => Same(q)
  BY StartsRunner
<1>4. Tells(r, m)'
  BY <1>2, <1>3 DEF Tells, Starts
<1>5. (\A q \in Runners : FlagInv(q)) => \A q \in Runners : FlagInv(q)'
  BY <1>1, <1>2, <1>3, <1>4, OneSpoken
<1> QED
  BY <1>5, Hears, SameResults DEF GuiRuns, FInv

LEMMA ExecuteFlags == ASSUME EventsInv, FInv, ExecuteResearch PROVE FInv'
<1>1. PICK r \in Request :
         r = Head(toBackend) /\ r.investigation \in Investigations
  BY TakesTypeInv DEF ExecuteResearch, EventsInv
<1>2. UNCHANGED <<queue, page, closing>>
  BY DEF ExecuteResearch
<1>3. CASE AskedFirst \/ r.token \notin live
  <2>1. UNCHANGED <<threads, toPage, escaped>>
    BY <1>1, <1>3 DEF ExecuteResearch, Refuse
  <2> QED
    BY <1>2, <2>1, QuietFlags, SameRunners, SameResults DEF FInv
<1>4. CASE ~(AskedFirst \/ r.token \notin live)
  <2>1. PICK i \in Investigations : i = proposals[r.token].investigation
    BY <1>4, LiveProposal DEF EventsInv
  <2>2. ~IsBusy("research") /\ r.token \in live
    BY <1>4 DEF AskedFirst
  <2>3. escaped' = escaped
    BY <1>1, <1>4 DEF ExecuteResearch
  <2>4. threads' = [threads EXCEPT !["research"] = StartedThread(i)]
    BY <1>1, <1>4, <2>1, <2>2 DEF ExecuteResearch
  <2>5. toPage' = toPage \o <<Msg("researchStarted", i, {}),
                              Msg("removed", r.investigation, {r.token})>>
    BY <1>1, <1>4, <2>1, <2>2 DEF ExecuteResearch
  <2>6. PICK m \in Message : /\ m = Msg("researchStarted", i, {})
                             /\ m.type = "researchStarted" /\ m.investigation = i
    BY MessageIs
  <2>7. PICK d \in Message : /\ d = Msg("removed", r.investigation, {r.token})
                             /\ d.type = "removed"
    BY <1>1, <2>2, RemovedMessage, MessageIs DEF EventsInv
  <2>8. PICK n : n = Len(toPage) + 1
    OBVIOUS
  <2>9. /\ n \in Nat \ {0} /\ DOMAIN toPage = 1..(n - 1) /\ DOMAIN toPage' = 1..(n + 1)
        /\ toPage'[n] = m /\ toPage'[n + 1] = d
        /\ \A k \in DOMAIN toPage : toPage'[k] = toPage[k]
    BY <2>5, <2>6, <2>7, <2>8, TypeInvParts DEF EventsInv, ToPageOK
  <2>10. /\ Transit /\ n \in DOMAIN toPage' /\ n \in Nat
         /\ \A k \in DOMAIN toPage' : k <= n \/ k = n + 1
         /\ \A k \in NewMessages : k = n \/ k = n + 1
    <3>1. /\ \A k \in DOMAIN toPage' : k <= n \/ k = n + 1
          /\ \A k \in DOMAIN toPage' : k \in DOMAIN toPage \/ k = n \/ k = n + 1
      BY <2>9
    <3>2. DOMAIN toPage \subseteq DOMAIN toPage' /\ DOMAIN toPage' \subseteq Nat \ {0}
          /\ n \in DOMAIN toPage'
      BY <2>9
    <3> QED
      BY <2>9, <3>1, <3>2 DEF Transit, NewMessages
  <2>11. /\ Unanswered("research")' /\ threads'["research"].of = i
         /\ \A q \in Runners : q # "research" => Same(q)
    BY <1>2, <2>2, <2>4, StartsRunner DEF Runners
  <2>12. FlagInv("research")'
    <3>1. Tells("research", m)'
      BY <2>6, <2>11 DEF Tells, Starts
    <3>2. \A k \in DOMAIN toPage' : toPage'[k].type \in Speaks("research") => k <= n
      BY <2>7, <2>9, <2>10 DEF Speaks
    <3>3. m.type \in Speaks("research") /\ m = toPage'[n]
      BY <2>6, <2>9 DEF Speaks
    <3> QED
      BY <2>10, <3>1, <3>2, <3>3, Spoken
  <2>13. FlagInv("analysis") => FlagInv("analysis")'
    <3>1. \A k \in NewMessages : toPage'[k].type \notin Speaks("analysis")
      BY <2>6, <2>7, <2>9, <2>10 DEF Speaks
    <3>2. Same("analysis")
      BY <2>11 DEF Runners
    <3> QED
      BY <1>2, <2>10, <3>1, <3>2, Unspoken
  <2>14. (\A q \in Runners : FlagInv(q)) => \A q \in Runners : FlagInv(q)'
    BY <2>12, <2>13 DEF Runners
  <2> QED
    BY <1>2, <2>3, <2>14, Hears, SameResults DEF GuiRuns, FInv
<1> QED
  BY <1>3, <1>4

LEMMA BridgeFlags == ASSUME EventsInv, FInv, BridgeStep PROVE FInv'
<1>1. CASE StartResearch
  <2>1. PICK i \in Investigations : i = Head(toBackend).investigation
    BY <1>1, TakesTypeInv DEF StartResearch, EventsInv
  <2>2. CASE IsBusy("research")
    BY <1>1, <2>2, QuietFlags, SameRunners, SameResults DEF StartResearch, Refuse, FInv
  <2>3. CASE ~IsBusy("research")
    <3>1. /\ threads' = [threads EXCEPT !["research"] = StartedThread(i)]
          /\ toPage' = Append(toPage, Msg("researchStarted", i, {}))
          /\ UNCHANGED <<queue, page, closing, escaped>>
      BY <1>1, <2>1, <2>3 DEF StartResearch
    <3>2. "researchStarted" \in Speaks("research") \cap Starts /\ "research" \in Runners
      BY DEF Speaks, Starts, Runners
    <3> QED
      BY <2>3, <3>1, <3>2, StartFlags
  <2> QED
    BY <2>2, <2>3
<1>2. CASE StartAnalysis
  <2>1. PICK i \in Investigations : i = Head(toBackend).investigation
    BY <1>2, TakesTypeInv DEF StartAnalysis, EventsInv
  <2>2. CASE IsBusy("analysis")
    BY <1>2, <2>2, QuietFlags, SameRunners, SameResults DEF StartAnalysis, Refuse, FInv
  <2>3. CASE ~IsBusy("analysis")
    <3>1. /\ threads' = [threads EXCEPT !["analysis"] = StartedThread(i)]
          /\ toPage' = Append(toPage, Msg("analysisStarted", i, {}))
          /\ UNCHANGED <<queue, page, closing, escaped>>
      BY <1>2, <2>1, <2>3 DEF StartAnalysis
    <3>2. "analysisStarted" \in Speaks("analysis") \cap Starts /\ "analysis" \in Runners
      BY DEF Speaks, Starts, Runners
    <3> QED
      BY <2>3, <3>1, <3>2, StartFlags
  <2> QED
    BY <2>2, <2>3
<1>3. CASE ExecuteResearch
  BY <1>3, ExecuteFlags
<1>4. \A r \in Request : r = Head(toBackend) /\ r.token \in live =>
        LET d == Msg("removed", r.investigation, {r.token})
        IN  d \in Message /\ d.type = "removed"
  <2> SUFFICES ASSUME NEW r \in Request, r.token \in live
               PROVE  LET d == Msg("removed", r.investigation, {r.token})
                      IN  d \in Message /\ d.type = "removed"
    OBVIOUS
  <2>1. r.investigation \in Investigations
    BY DEF Request
  <2> QED
    BY <2>1, RemovedMessage, MessageIs DEF EventsInv
<1>5. CASE DiscardProposal
  <2>1. Head(toBackend) \in Request /\ UNCHANGED <<queue, page, closing>>
    BY <1>5, TakesTypeInv DEF DiscardProposal, EventsInv
  <2>2. UNCHANGED <<threads, escaped>>
    BY <1>5 DEF DiscardProposal, Refuse
  <2>3. \/ toPage' = toPage
        \/ \E m \in Message : m.type = "removed" /\ toPage' = Append(toPage, m)
    BY <1>4, <1>5, <2>1 DEF DiscardProposal, Refuse
  <2> QED
    BY <2>1, <2>2, <2>3, QuietFlags, SameRunners, SameResults DEF FInv
<1>6. ASSUME NEW a \in BOOLEAN, NEW b \in BOOLEAN, AcceptClaim(a, b) PROVE FInv'
  <2>1. Head(toBackend) \in Request /\ UNCHANGED <<queue, page, closing>>
    BY <1>6, TakesTypeInv DEF AcceptClaim, EventsInv
  <2>2. threads' = threads /\ (~escaped' => ~escaped)
    <3>1. threads' = threads
      BY <1>6 DEF AcceptClaim, Refuse
    <3>2. escaped' = escaped \/ escaped' = TRUE
      BY <1>6, Zenon DEF AcceptClaim, Refuse
    <3>3. ~escaped' => ~escaped
      BY <3>2, Zenon
    <3> QED
      BY <3>1, <3>3
  <2>3. \/ toPage' = toPage
        \/ \E m \in Message : m.type = "removed" /\ toPage' = Append(toPage, m)
    BY <1>4, <1>6, <2>1 DEF AcceptClaim, Refuse
  <2> QED
    BY <2>1, <2>2, <2>3, QuietFlags, SameRunners, SameResults DEF FInv
<1> QED
  BY <1>1, <1>2, <1>3, <1>5, <1>6 DEF BridgeStep

LEMMA ResultFlags ==
  ASSUME EventsInv, FInv, NEW types \in SUBSET {"succeeded", "failed"}, Delivers(types),
         NEW r, r = Head(queue).runner, NEW type \in Speaks(r) \ Starts, NEW i \in Investigations,
         NEW tokens \in SUBSET Nat, toPage' = Append(toPage, Msg(type, i, tokens)),
         UNCHANGED <<threads, page, closing, escaped>>
  PROVE  FInv'
<1>1. toPage \in Seq(Message)
  BY TypeInvParts DEF EventsInv, ToPageOK
<1>2. PICK m \in Message : m = Msg(type, i, tokens) /\ m.type = type
  BY MessageIs DEF Speaks, Starts
<1>3. /\ ResultsOnce' /\ r \in Runners /\ ~Unanswered(r)'
      /\ \A q \in Runners : q # r => Same(q)
  BY ResultDelivered DEF FInv
<1>4. Tells(r, m)'
  BY <1>2, <1>3 DEF Tells, Starts
<1>5. (\A q \in Runners : FlagInv(q)) => \A q \in Runners : FlagInv(q)'
  BY <1>1, <1>2, <1>3, <1>4, OneSpoken
<1> QED
  BY <1>3, <1>5, Hears DEF GuiRuns

LEMMA QueueFlags == ASSUME EventsInv, FInv, QueueStep PROVE FInv'
<1>1. ASSUME NEW b \in BOOLEAN, DeliverResearch(b) PROVE FInv'
  <2>1. /\ Delivers({"succeeded", "failed"}) /\ Head(queue).runner = "research"
        /\ UNCHANGED <<threads, page, closing>>
    BY <1>1 DEF DeliverResearch
  <2>2. CASE Head(queue).type = "succeeded" /\ ~b
    <3>1. ResultsOnce'
      BY <2>1, DeliversOnce DEF FInv
    <3>2. escaped'
      BY <1>1, <2>2 DEF DeliverResearch
    <3> QED
      BY <3>1, <3>2 DEF FInv, FlagsInv
  <2>3. CASE ~(Head(queue).type = "succeeded" /\ ~b)
    <3>1. PICK i \in Investigations : i = threads["research"].of
      BY <2>1, DeliveredNamed
    <3>2. toPage' = Append(toPage, Msg("researchEnded", i, {})) /\ escaped' = escaped
      BY <1>1, <2>3, <3>1 DEF DeliverResearch
    <3>3. "researchEnded" \in Speaks("research") \ Starts
      BY DEF Speaks, Starts
    <3> QED
      BY <2>1, <3>2, <3>3, ResultFlags
  <2> QED
    BY <2>2, <2>3
<1>2. ASSUME NEW kinds \in Answers, DeliverProposals(kinds) PROVE FInv'
  <2>1. kinds \in Seq(Kind)
    <3>1. Answers \subseteq Seq(Kind)
      BY DEF Answers, Kind
    <3> QED
      BY <1>2, <3>1
  <2>2. PICK i \in Investigations, new \in SUBSET Nat :
           toPage' = Append(toPage, Msg("analysisCompleted", i, new))
    BY <1>2, <2>1, Registered
  <2>3. /\ Delivers({"succeeded"}) /\ Head(queue).runner = "analysis"
        /\ UNCHANGED <<threads, page, closing, escaped>>
    BY <1>2 DEF DeliverProposals, history
  <2>4. "analysisCompleted" \in Speaks("analysis") \ Starts
    BY DEF Speaks, Starts
  <2>5. {"succeeded"} \in SUBSET {"succeeded", "failed"}
    OBVIOUS
  <2> QED
    BY <2>2, <2>3, <2>4, <2>5, ResultFlags
<1>3. CASE DeliverAnalysisFailure
  <2>1. /\ Delivers({"failed"}) /\ Head(queue).runner = "analysis"
        /\ UNCHANGED <<threads, page, closing, escaped>>
    BY <1>3 DEF DeliverAnalysisFailure, history
  <2>2. PICK i \in Investigations : i = threads["analysis"].of
    BY <2>1, DeliveredNamed
  <2>3. toPage' = Append(toPage, Msg("analysisFailed", i, {}))
    BY <1>3, <2>2 DEF DeliverAnalysisFailure
  <2>4. "analysisFailed" \in Speaks("analysis") \ Starts /\ {} \in SUBSET Nat
    BY DEF Speaks, Starts
  <2>5. {"failed"} \in SUBSET {"succeeded", "failed"}
    OBVIOUS
  <2> QED
    BY <2>1, <2>3, <2>4, <2>5, ResultFlags
<1>4. CASE DeliverQuit \/ DeliverFinished
  <2>1. UNCHANGED <<page, toPage, closing, escaped>>
    BY <1>4 DEF DeliverQuit, DeliverFinished, channels, history
  <2>2. ResultsOnce' /\ \A q \in Runners : Same(q)
    BY <1>4, QuitSame, FinishedSame DEF FInv
  <2> QED
    BY <2>1, <2>2, QuietFlags
<1> QED
  BY <1>1, <1>2, <1>3, <1>4 DEF QueueStep

(* A run that ends with an exception nothing catches announces no result. *)
LEMMA EscapeFlags ==
  ASSUME EventsInv, FInv, NEW r \in Runners, WorkerReturns(r, "escaped")
  PROVE  FInv'
<1>1. PICK q \in Event : q = Event_("quit", r) /\ q.type = "quit"
  BY EventIsEvent
<1>2. queue \in Seq(Event)
  BY TypeInvParts DEF QueueOK, EventsInv
<1>3. queue' = Append(queue, q)
  BY <1>1, <1>2 DEF WorkerReturns, CompletedQueued
<1>4. \A k \in DOMAIN queue' :
         \/ k \in DOMAIN queue /\ queue'[k] = queue[k]
         \/ queue'[k] = q
  BY <1>2, <1>3
<1>5. ResultsOnce'
  BY <1>1, <1>4 DEF FInv, ResultsOnce, IsResult
<1>6. escaped'
  BY Zenon DEF WorkerReturns
<1> QED
  BY <1>5, <1>6 DEF FInv, FlagsInv

LEMMA WorkerFlags == ASSUME EventsInv, FInv, NEW r \in Runners, WorkerStep(r) PROVE FInv'
<1>1. ASSUME NEW outcome \in {"succeeded", "failed"}, WorkerReturns(r, outcome) PROVE FInv'
  <2>1. UNCHANGED <<page, toPage, closing>>
    BY <1>1 DEF WorkerReturns, channels
  <2>2. ~escaped' => ~escaped
    BY <1>1, Zenon DEF WorkerReturns
  <2>3. ResultsOnce' /\ \A q \in Runners : Same(q)
    BY <1>1, ReturnsSame DEF FInv
  <2> QED
    BY <2>1, <2>2, <2>3, QuietFlags
<1>2. CASE ThreadStops(r)
  <2>1. UNCHANGED <<page, toPage, closing, escaped>>
    BY <1>2 DEF ThreadStops, channels, history
  <2>2. ResultsOnce' /\ \A q \in Runners : Same(q)
    BY <1>2, StopsSame DEF FInv
  <2> QED
    BY <2>1, <2>2, QuietFlags
<1> QED
  BY <1>1, <1>2, EscapeFlags DEF WorkerStep

LEMMA StepFlags == EventsInv /\ FInv /\ [Next]_vars => FInv'
<1> SUFFICES ASSUME EventsInv, FInv, [Next]_vars PROVE FInv'
  OBVIOUS
<1>1. CASE UserClicks \/ UNCHANGED vars
  <2>1. UNCHANGED <<threads, queue, page, toPage, closing, escaped>>
    BY <1>1 DEF UserClicks, ClickResearch, ClickAnalyze, ClickProposal, Send, vars, channels,
       history
  <2> QED
    BY <2>1, QuietFlags, SameRunners, SameResults DEF FInv
<1>2. CASE CloseWindow \/ ShutdownStep
  <2>1. queue' = queue /\ ~GuiRuns'
    BY <1>2 DEF CloseWindow, ShutdownStep, ShutDownAnalysis, Exit, GuiRuns
  <2> QED
    BY <2>1, SameResults DEF FInv, FlagsInv
<1> QED
  BY <1>1, <1>2, PageFlags, BridgeFlags, QueueFlags, WorkerFlags DEF Next

LEMMA SameBoolean == ASSUME NEW a \in BOOLEAN, NEW b \in BOOLEAN, a <=> b PROVE a = b
BY Zenon

(* Once the page has heard everything it was told, it takes a runner to be busy,
   and with the Investigation it really works on, exactly while the end of that
   runner's operation is still to be announced, unless an exception swallowed a
   message or the window is gone: a runner's start and its end each send the
   page a message, in that order, and no start comes between a worker's
   result and its delivery (Bridge, ResearchRunner, ModelAnalysisRunner, app.js). *)
THEOREM FlagsFollow == Spec => []FlagsFollowRunners
<1>1. EventsInv /\ FInv => FlagsFollowRunners
  <2> SUFFICES ASSUME EventsInv, FInv, ~escaped, GuiRuns, toPage = << >>
               PROVE  /\ page.busy = Unanswered("research")
                      /\ page.active = IF Unanswered("analysis") THEN threads["analysis"].of
                                       ELSE Null
    BY DEF FlagsFollowRunners
  <2>1. \A r \in Runners : SilentAfter(0, r)
    BY DEF SilentAfter
  <2>2. Shows("research") /\ Shows("analysis")
    BY <2>1 DEF FInv, FlagsInv, FlagInv, Runners
  <2>3. page.busy \in BOOLEAN
    BY TypeInvParts, Zenon DEF EventsInv, PageOK, Page
  <2>4. Unanswered("research") \in BOOLEAN
    BY Zenon DEF Unanswered
  <2>5. page.busy <=> Unanswered("research")
    BY <2>2 DEF Shows
  <2>6. page.busy = Unanswered("research")
    BY <2>3, <2>4, <2>5, SameBoolean
  <2> QED
    BY <2>2, <2>6 DEF Shows
<1>2. Init => EventsInv /\ FInv
  BY InitEvents, InitFlags
<1>3. EventsInv /\ FInv /\ [Next]_vars => (EventsInv /\ FInv)'
  BY StepEvents, StepFlags
<1> QED
  BY <1>1, <1>2, <1>3, PTL DEF Spec

=============================================================================
