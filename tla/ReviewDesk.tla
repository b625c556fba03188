----------------------------- MODULE ReviewDesk -----------------------------
(***************************************************************************)
(* The web page, the bridge, ProposalReviewService and the two runners:    *)
(* research and model analysis run on a thread of their own, their results *)
(* come back through the GUI thread's event queue, and a model's proposals *)
(* wait under opaque tokens for the user's decision.                       *)
(*                                                                         *)
(* The page and the GUI thread exchange messages in order, in each         *)
(* direction; the page acts on what it was told last. Everything Python    *)
(* does outside a worker happens on the GUI thread, one event at a time.   *)
(* Messages that only change the status line are left out.                 *)
(***************************************************************************)
EXTENDS Integers, Sequences, FiniteSets

CONSTANTS
  Investigations,
  MaxRequests,    \* bound on the requests the page sends
  MaxProposals    \* an analysis is asked for only below this many proposals

ASSUME BoundsAssumption == MaxRequests \in Nat /\ MaxProposals \in Nat

VARIABLES
  threads,     \* the QThread of each runner
  queue,       \* the events queued to the GUI thread
  proposals,   \* every proposal ever registered; its token is its index
  live,        \* ProposalReviewService._proposals: the tokens that resolve
  page,        \* researchBusy, activeModelInvestigationId and proposalViews
  toBackend,   \* calls of the page that the bridge has not handled yet
  toPage,      \* signals and replies that the page has not handled yet
  closing,     \* how far aboutToQuit has come
  claims,      \* history: the tokens of the claims persisted, in order
  researched,  \* history: the tokens whose research was started, in order
  consumed,    \* history: the tokens accept_research consumed
  escaped,     \* history: an exception no clause catches has ended a call
  sent         \* history: the number of requests the page sent

service == <<proposals, live>>
channels == <<toBackend, toPage>>
history == <<claims, researched, consumed, escaped, sent>>
vars == <<threads, queue, service, page, channels, closing, history>>

-----------------------------------------------------------------------------
Runners == {"research", "analysis"}

Kind == {"CLAIM", "RESEARCH_EVIDENCE"}

Null == "null"

(* none: the runner is idle. running: the worker's run has not returned.
   looping: it has, and the thread's event loop waits to be told to quit.
   stopped: the thread ended, and _thread_finished is queued. *)
Stage == {"none", "running", "looping", "stopped"}

(* of: the Investigation the operation is for. quit: the thread was told to
   quit, which it does as soon as run has returned. *)
Thread == [stage : Stage, of : Investigations \cup {Null}, quit : BOOLEAN]

EmptyPage ==
  [busy |-> FALSE, active |-> Null, views |-> [i \in Investigations |-> {}]]

NoThread == [stage |-> "none", of |-> Null, quit |-> FALSE]

Event ==
  [type : {"succeeded", "failed", "quit", "finished"}, runner : Runners]

Request ==
  [type : {"research", "analyze", "accept", "execute", "discard"},
   investigation : Investigations, token : Nat]

Message ==
  [type : {"researchStarted", "researchEnded", "analysisStarted",
           "analysisCompleted", "analysisFailed", "removed"},
   investigation : Investigations, tokens : SUBSET Nat]

Event_(type, runner) == [type |-> type, runner |-> runner]

Msg(type, i, tokens) == [type |-> type, investigation |-> i, tokens |-> tokens]

(* Mutant: the runner is free as soon as the worker has returned. *)
StillRunning(runner) == threads[runner].stage = "running"

(* is_busy: _thread is not None, until _thread_finished. *)
IsBusy(runner) == threads[runner].stage # "none"

TokensOf(i) == {t \in live : proposals[t].investigation = i}

Count(seq, e) == Cardinality({k \in DOMAIN seq : seq[k] = e})

Elements(seq) == {seq[k] : k \in DOMAIN seq}

(* aboutToQuit blocks the GUI thread until the workers have stopped. *)
GuiRuns == closing = "no"

-----------------------------------------------------------------------------
(* The page: what the user can click, given the flags and the proposals it
   shows. Nothing disables a button while the reply is on its way. *)
Send(request) ==
  /\ GuiRuns /\ sent < MaxRequests
  /\ toBackend' = Append(toBackend, request)
  /\ sent' = sent + 1
  /\ UNCHANGED <<threads, queue, service, page, toPage, closing,
                 claims, researched, consumed, escaped>>

ClickResearch(i) ==
  /\ ~page.busy
  /\ Send([type |-> "research", investigation |-> i, token |-> 0])

ClickAnalyze(i) ==
  /\ page.active = Null
  /\ Len(proposals) < MaxProposals
  /\ Send([type |-> "analyze", investigation |-> i, token |-> 0])

ClickProposal(i, token, type) ==
  /\ token \in page.views[i]
  /\ \/ type = "accept" /\ proposals[token].kind = "CLAIM"
     \/ type = "execute" /\ proposals[token].kind = "RESEARCH_EVIDENCE" /\ ~page.busy
     \/ type = "discard"
  /\ Send([type |-> type, investigation |-> i, token |-> token])

(* The page handles the next signal or reply. *)
PageReceives ==
  /\ GuiRuns /\ toPage # << >>
  /\ toPage' = Tail(toPage)
  /\ LET m == Head(toPage)
     IN  page' = CASE m.type = "researchStarted" -> [page EXCEPT !.busy = TRUE]
                   [] m.type = "researchEnded" -> [page EXCEPT !.busy = FALSE]
                   [] m.type = "analysisStarted" ->
                        [page EXCEPT !.active = m.investigation,
                                     !.views[m.investigation] = {}]
                   [] m.type = "analysisCompleted" ->
                        [page EXCEPT !.active = Null,
                                     !.views[m.investigation] = m.tokens]
                   [] m.type = "analysisFailed" -> [page EXCEPT !.active = Null]
                   [] m.type = "removed" ->
                        [page EXCEPT !.views[m.investigation] = @ \ m.tokens]
  /\ UNCHANGED <<threads, queue, service, toBackend, closing, history>>

-----------------------------------------------------------------------------
(* Runner.start: the Started signal goes out, and the thread runs. *)
StartedThread(i) == [stage |-> "running", of |-> i, quit |-> FALSE]

(* The bridge takes the next call of the page. *)
Takes(type) ==
  /\ GuiRuns
  /\ toBackend # << >> /\ Head(toBackend).type = type
  /\ toBackend' = Tail(toBackend)

(* BUSY, INVALID_INPUT or OPERATION_FAILED: a status line in the page. *)
Refuse == UNCHANGED <<threads, service, toPage, claims, researched, consumed, escaped>>

(* researchArtifactUrls. *)
StartResearch ==
  /\ Takes("research")
  /\ LET i == Head(toBackend).investigation
     IN  IF IsBusy("research") THEN Refuse
         ELSE /\ threads' = [threads EXCEPT !["research"] = StartedThread(i)]
              /\ toPage' = Append(toPage, Msg("researchStarted", i, {}))
              /\ UNCHANGED <<service, claims, researched, consumed, escaped>>
  /\ UNCHANGED <<queue, page, closing, sent>>

(* analyzeInvestigationWithModel. *)
StartAnalysis ==
  /\ Takes("analyze")
  /\ LET i == Head(toBackend).investigation
     IN  IF IsBusy("analysis") THEN Refuse
         ELSE /\ threads' = [threads EXCEPT !["analysis"] = StartedThread(i)]
              /\ toPage' = Append(toPage, Msg("analysisStarted", i, {}))
              /\ UNCHANGED <<service, claims, researched, consumed, escaped>>
  /\ UNCHANGED <<queue, page, closing, sent>>

(* Mutant: an accepted claim does not consume its token. *)
ClaimKeepsToken(token) == live

ClaimConsumes(token) == live \ {token}

(* acceptModelClaim: the token is consumed once the claim is persisted, and
   stays when persisting it fails. The reply waits for the new state of the
   page, which may raise: then the page gets no reply at all. *)
AcceptClaim(persisted, replied) ==
  /\ Takes("accept")
  /\ LET r == Head(toBackend)
     IN  IF r.token \notin live \/ ~persisted THEN Refuse
         ELSE /\ claims' = Append(claims, r.token)
              /\ live' = ClaimConsumes(r.token)
              /\ IF replied
                 THEN /\ toPage' = Append(toPage, Msg("removed", r.investigation, {r.token}))
                      /\ UNCHANGED escaped
                 ELSE escaped' = TRUE /\ UNCHANGED toPage
              /\ UNCHANGED <<threads, proposals, researched, consumed>>
  /\ UNCHANGED <<queue, page, closing, sent>>

(* Mutant: the runner is asked only after the token is consumed. *)
ConsumedFirst == FALSE

(* executeModelResearchProposal asks the runner before it consumes a token. *)
AskedFirst == IsBusy("research")

ExecuteResearch ==
  /\ Takes("execute")
  /\ LET r == Head(toBackend)
         i == proposals[r.token].investigation
     IN  IF AskedFirst \/ r.token \notin live THEN Refuse
         ELSE /\ live' = live \ {r.token}
              /\ consumed' = consumed \cup {r.token}
              /\ IF IsBusy("research") THEN UNCHANGED <<threads, toPage, researched>>
                 ELSE /\ threads' = [threads EXCEPT !["research"] = StartedThread(i)]
                      /\ researched' = Append(researched, r.token)
                      /\ toPage' = toPage \o <<Msg("researchStarted", i, {}),
                                               Msg("removed", r.investigation, {r.token})>>
              /\ UNCHANGED <<proposals, claims, escaped>>
  /\ UNCHANGED <<queue, page, closing, sent>>

(* discardModelProposal. *)
DiscardProposal ==
  /\ Takes("discard")
  /\ LET r == Head(toBackend)
     IN  IF r.token \notin live THEN Refuse
         ELSE /\ live' = live \ {r.token}
              /\ toPage' = Append(toPage, Msg("removed", r.investigation, {r.token}))
              /\ UNCHANGED <<threads, proposals, claims, researched, consumed, escaped>>
  /\ UNCHANGED <<queue, page, closing, sent>>

-----------------------------------------------------------------------------
(* Mutant: completed is not connected to quit. *)
NothingQueued(runner) == << >>

(* Mutant: an event nothing is connected to. *)
UnknownQueued(runner) == <<Event_("completed", runner)>>

(* completed, connected to thread.quit across threads. *)
CompletedQueued(runner) == <<Event_("quit", runner)>>

(* A worker's run ends: succeeded or failed, and then always completed. With
   an exception that no except clause names, only completed. *)
WorkerReturns(runner, outcome) ==
  /\ threads[runner].stage = "running" /\ closing # "exited"
  /\ threads' = [threads EXCEPT ![runner].stage = "looping"]
  /\ queue' = queue \o (IF outcome = "escaped" THEN << >> ELSE <<Event_(outcome, runner)>>)
                    \o CompletedQueued(runner)
  /\ escaped' = (escaped \/ outcome = "escaped")
  /\ UNCHANGED <<service, page, channels, closing, claims, researched, consumed, sent>>

(* The thread's event loop ends. *)
ThreadStops(runner) ==
  /\ threads[runner].stage = "looping" /\ threads[runner].quit /\ closing # "exited"
  /\ threads' = [threads EXCEPT ![runner].stage = "stopped"]
  /\ queue' = Append(queue, Event_("finished", runner))
  /\ UNCHANGED <<service, page, channels, closing, history>>

(* The GUI thread takes the next event of its queue. *)
Delivers(types) ==
  /\ GuiRuns
  /\ queue # << >> /\ Head(queue).type \in types
  /\ queue' = Tail(queue)

(* _research_succeeded and its like: the page gets its new state first, which
   may raise, and then the result is never announced. *)
DeliverResearch(replied) ==
  LET e == Head(queue)
  IN  /\ Delivers({"succeeded", "failed"}) /\ e.runner = "research"
      /\ IF e.type = "succeeded" /\ ~replied THEN escaped' = TRUE /\ UNCHANGED toPage
         ELSE /\ toPage' = Append(toPage, Msg("researchEnded", threads["research"].of, {}))
              /\ UNCHANGED escaped
      /\ UNCHANGED <<threads, service, page, toBackend, closing,
                     claims, researched, consumed, sent>>

(* Mutant: a new analysis invalidates every token. *)
InvalidatesAll(i) == live

(* _invalidate_investigation: the older tokens of the same Investigation. *)
Invalidated(i) == TokensOf(i)

(* _model_analysis_succeeded: register, and the proposals go to the page. *)
DeliverProposals(kinds) ==
  LET i == threads["analysis"].of
      new == (Len(proposals) + 1)..(Len(proposals) + Len(kinds))
  IN  /\ Delivers({"succeeded"}) /\ Head(queue).runner = "analysis"
      /\ proposals' = proposals \o
           [k \in DOMAIN kinds |-> [investigation |-> i, kind |-> kinds[k]]]
      /\ live' = (live \ Invalidated(i)) \cup new
      /\ toPage' = Append(toPage, Msg("analysisCompleted", i, new))
      /\ UNCHANGED <<threads, page, toBackend, closing, history>>

DeliverAnalysisFailure ==
  /\ Delivers({"failed"}) /\ Head(queue).runner = "analysis"
  /\ toPage' = Append(toPage, Msg("analysisFailed", threads["analysis"].of, {}))
  /\ UNCHANGED <<threads, service, page, toBackend, closing, history>>

(* thread.quit, queued by completed, and _thread_finished. *)
DeliverQuit ==
  /\ Delivers({"quit"})
  /\ threads' = [threads EXCEPT ![Head(queue).runner].quit = TRUE]
  /\ UNCHANGED <<service, page, channels, closing, history>>

DeliverFinished ==
  /\ Delivers({"finished"})
  /\ threads' = [threads EXCEPT ![Head(queue).runner] = NoThread]
  /\ UNCHANGED <<service, page, channels, closing, history>>

-----------------------------------------------------------------------------
(* Mutant: shutdown leaves quit to the queue. *)
LeftToQueue(thread) == thread

(* shutdown: quit is called here, since the queue stands still. *)
ToldToQuit(thread) == [thread EXCEPT !.quit = TRUE]

ShutDown(runner) ==
  threads' = [threads EXCEPT ![runner] =
                IF @.stage = "none" THEN @ ELSE ToldToQuit(@)]

(* The last window is closed, and the page with it: aboutToQuit, research
   first. *)
CloseWindow ==
  /\ GuiRuns
  /\ closing' = "research" /\ ShutDown("research")
  /\ page' = EmptyPage /\ toBackend' = << >> /\ toPage' = << >>
  /\ UNCHANGED <<queue, service, history>>

(* thread.wait returns once the thread has ended; it gives up only on a worker
   whose call is still under way, since a loop that was told to quit ends. *)
WaitEnds(runner) == threads[runner].stage \in {"none", "stopped", "running"}

ShutDownAnalysis ==
  /\ closing = "research" /\ WaitEnds("research")
  /\ closing' = "analysis" /\ ShutDown("analysis")
  /\ UNCHANGED <<queue, service, page, channels, history>>

Exit ==
  /\ closing = "analysis" /\ WaitEnds("analysis")
  /\ closing' = "exited"
  /\ UNCHANGED <<threads, queue, service, page, channels, history>>

-----------------------------------------------------------------------------
Init ==
  /\ threads = [r \in Runners |-> NoThread] /\ queue = << >>
  /\ proposals = << >> /\ live = {}
  /\ page = EmptyPage
  /\ toBackend = << >> /\ toPage = << >> /\ closing = "no"
  /\ claims = << >> /\ researched = << >> /\ consumed = {}
  /\ escaped = FALSE /\ sent = 0

UserClicks ==
  \/ \E i \in Investigations : ClickResearch(i) \/ ClickAnalyze(i)
  \/ \E i \in Investigations, t \in DOMAIN proposals :
       \E type \in {"accept", "execute", "discard"} : ClickProposal(i, t, type)

(* What a model may answer: the lists of proposals, as their kinds. *)
Answers == {<< >>, <<"CLAIM">>, <<"RESEARCH_EVIDENCE", "CLAIM">>}

BridgeStep ==
  \/ StartResearch \/ StartAnalysis \/ ExecuteResearch \/ DiscardProposal
  \/ \E persisted, replied \in BOOLEAN : AcceptClaim(persisted, replied)

QueueStep ==
  \/ \E replied \in BOOLEAN : DeliverResearch(replied)
  \/ \E kinds \in Answers : DeliverProposals(kinds)
  \/ DeliverAnalysisFailure \/ DeliverQuit \/ DeliverFinished

WorkerStep(runner) ==
  \/ \E outcome \in {"succeeded", "failed", "escaped"} : WorkerReturns(runner, outcome)
  \/ ThreadStops(runner)

ShutdownStep == ShutDownAnalysis \/ Exit

Next ==
  \/ UserClicks \/ PageReceives \/ BridgeStep \/ QueueStep
  \/ \E runner \in Runners : WorkerStep(runner)
  \/ CloseWindow \/ ShutdownStep

(* Both channels and the event queue are served, a worker's call returns
   (every wait in it is bounded), and a shutdown goes on. *)
Fairness ==
  /\ WF_vars(PageReceives) /\ WF_vars(BridgeStep) /\ WF_vars(QueueStep)
  /\ \A runner \in Runners : WF_vars(WorkerStep(runner))
  /\ WF_vars(ShutdownStep)

Spec == Init /\ [][Next]_vars /\ Fairness

-----------------------------------------------------------------------------
(* The runners, the service, the page and the messages have the shape that
   the code gives them. *)
TypeOK ==
  /\ threads \in [Runners -> Thread] /\ queue \in Seq(Event)
  /\ proposals \in Seq([investigation : Investigations, kind : Kind])
  /\ live \subseteq DOMAIN proposals
  /\ page \in [busy : BOOLEAN, active : Investigations \cup {Null},
               views : [Investigations -> SUBSET DOMAIN proposals]]
  /\ toBackend \in Seq(Request) /\ toPage \in Seq(Message)
  /\ closing \in {"no", "research", "analysis", "exited"}
  /\ claims \in Seq(DOMAIN proposals) /\ researched \in Seq(DOMAIN proposals)
  /\ consumed \subseteq DOMAIN proposals /\ escaped \in BOOLEAN /\ sent \in Nat

(* A proposal is acted on once: it becomes at most one claim or one research
   operation, however often the user clicks before the reply arrives. *)
ProposalUsedOnce ==
  \A t \in DOMAIN proposals : Count(claims, t) + Count(researched, t) <= 1

(* A research proposal is not used up without its research being started:
   between the idle check, the consumption and the start nothing happens
   (bridge.py:317). *)
ResearchNotWasted == consumed \subseteq Elements(researched)

(* Once the page has heard everything it was told, every proposal it shows is
   one the service still resolves for that Investigation, unless an exception
   swallowed a message. *)
ShownProposalsResolve ==
  ~escaped /\ toPage = << >> => \A i \in Investigations : page.views[i] \subseteq TokensOf(i)

(* A runner's operation whose end the page was not told of yet. *)
Unanswered(runner) ==
  \/ threads[runner].stage = "running"
  \/ \E e \in Elements(queue) : e.runner = runner /\ e.type \in {"succeeded", "failed"}

(* Once the page has heard everything it was told, its flags say what runs,
   unless an exception swallowed a message or the window is gone. *)
FlagsFollowRunners ==
  ~escaped /\ GuiRuns /\ toPage = << >> =>
    /\ page.busy = Unanswered("research")
    /\ page.active = IF Unanswered("analysis") THEN threads["analysis"].of ELSE Null

(* A queued event is about the thread its runner has: a new thread never meets
   the quit, the result or the end of the one before. *)
NoStaleEvent ==
  \A e \in Elements(queue) : threads[e.runner].stage \in {"looping", "stopped"}

(* The shutdown waits for the runner, or has waited. *)
ShutdownReached(runner) ==
  closing \in {"analysis", "exited"} \/ (closing = "research" /\ runner = "research")

(* No thread waits for what never comes: one whose worker has returned was told
   to quit or has that queued, one that ended is yet to be heard of, and one
   that the shutdown waits for does not depend on the queue, which stands
   still. *)
NothingStranded ==
  \A runner \in Runners :
    LET stage == threads[runner].stage
    IN  /\ stage = "looping" =>
             threads[runner].quit \/ Event_("quit", runner) \in Elements(queue)
        /\ stage = "stopped" => Event_("finished", runner) \in Elements(queue)
        /\ stage # "none" /\ ShutdownReached(runner) => threads[runner].quit

(* A runner becomes free again whatever its worker ended with, an exception
   that nothing catches included, unless the application is closing. *)
RunnersRecover ==
  \A runner \in Runners : IsBusy(runner) ~> (~IsBusy(runner) \/ closing # "no")

(* Closing ends: the GUI thread never waits for a worker that in turn waits
   for the GUI thread's event queue. *)
ShutdownEnds == closing # "no" ~> closing = "exited"

=============================================================================
