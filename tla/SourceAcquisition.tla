--------------------------- MODULE SourceAcquisition ---------------------------
(***************************************************************************)
(* The source acquisition service: HTTP requests, served concurrently by   *)
(* a threading server, each drive the orchestrator, the planner and the    *)
(* CPU worker over one durable evidence target.  The backend is external:  *)
(* it commits a page only if the page was built on its current revision.   *)
(*                                                                         *)
(* One Worker is one request being served.  What a search page contains    *)
(* is chosen nondeterministically; PageCollection models how it is         *)
(* collected.  A Url stands for an article: a public page together with    *)
(* its content, which is new if no source has that content.  That the      *)
(* backend may merge two articles published at one url is left to          *)
(* PageCollection: here both are kept.                                     *)
(***************************************************************************)
EXTENDS Naturals, FiniteSets

CONSTANTS
  Worker,           \* requests that may be served at the same time
  Url,              \* articles the search may return
  TargetKind,       \* durable.research_target_kind
  Gap,              \* documentary gaps coverage may report, named by their focus
  WebGap,           \* the gaps a search can fill (_WEB_ACTIONABLE_FOCUS)
  Coverage,         \* coverages the backend may assess: "none", "ready" or a gap
  QueryCount,       \* number of queries of the plan of each wave
  ProviderPages,    \* result pages beyond the first a query of each wave may have
  MediaLimit,       \* plan.media_ticket_limit
  MediaPerSource,   \* plan.media_per_source
  MaxSourcePages,   \* plan.max_source_pages
  MaxPagesPerRun,   \* plan.max_pages_per_run
  ZeroYield,        \* plan.convergence_zero_yield_waves
  MaxWave,          \* last wave of a target (16 in the code)
  MaxCycles,        \* max_incident_cycles
  InputsMayChange,  \* what a plan depends on may change between two requests
  PagesSpanWaves,   \* the backend counts the pages of every wave, not of the last
  MaxUpsets         \* bound on crashes, lost answers, foreign writes, plan changes

ASSUME ConstantsOK ==
  /\ TargetKind \in {"incident_day", "event_candidate"}
  /\ Coverage \subseteq Gap \cup {"none", "ready"}
  /\ WebGap \subseteq Gap
  /\ {"none", "ready"} \cap Gap = {}
  /\ TargetKind = "event_candidate" => Coverage = {"none"}
  /\ IsFiniteSet(Url)
  /\ MaxWave \in Nat \ {0}
  /\ QueryCount \in [1..MaxWave -> Nat \ {0}]
  /\ ProviderPages \in [1..MaxWave -> Nat]
  /\ {MediaLimit, MediaPerSource, MaxSourcePages} \subseteq Nat \ {0}
  /\ {MaxPagesPerRun, MaxCycles} \subseteq Nat \ {0}
  /\ ZeroYield \in Nat \ {0}
  /\ {InputsMayChange, PagesSpanWaves} \subseteq BOOLEAN
  /\ MaxUpsets \in Nat

VARIABLES
  store,      \* the target's durable evidence, kept by the backend
  inputs,     \* version of what a plan depends on besides progress and coverage
  pc,         \* where each request is
  run,        \* its local state: the plan and the locals of worker.run
  channel,    \* its HTTP exchange with the backend
  orphans,    \* publish requests in flight whose connection is gone
  sessions,   \* broker sessions, one per configured run
  upsets      \* crashes, lost answers, foreign writes and plan changes so far

vars == <<store, inputs, pc, run, channel, orphans, sessions, upsets>>

-------------------------------------------------------------------------------
(* Plans.                                                                  *)

Initial == "incident_identity"
Convergence == "collection_convergence"
Focus == WebGap \cup {Initial, Convergence}

L == INSTANCE ResearchLedger
       WITH head <- store.head, sources <- store.sources, tickets <- store.tickets

Start == L!Start
Page == L!Page

NotReady(s) == s.coverage \in Gap

Plan == [wave: 1..MaxWave, focus: Focus, inputs: Nat]

\* A further wave is due: the last one ended and something is still missing.
WaveDue(s) == s.head.completed /\ (~s.head.converged \/ NotReady(s))

\* Fault: one wave too many.
WaveOpensPastLast(s) == WaveDue(s) /\ s.head.wave <= MaxWave

WaveOpens(s) == WaveDue(s) /\ s.head.wave < MaxWave

\* AutomaticSourceAcquisitionPlanner.build
PlanFor(s) ==
  IF s.head.wave = 0
  THEN [wave |-> 1, focus |-> Initial, inputs |-> inputs]
  ELSE IF WaveOpens(s)
  THEN [wave |-> s.head.wave + 1,
        focus |-> IF s.coverage \in WebGap THEN s.coverage ELSE Convergence,
        inputs |-> inputs]
  ELSE [wave |-> s.head.wave, focus |-> s.head.focus, inputs |-> inputs]

\* The durable progress belongs to plan p.
SamePlan(s, p) ==
  <<s.head.wave, s.head.focus, s.head.inputs>> = <<p.wave, p.focus, p.inputs>>

\* Fault: any other plan may replace a completed one, not only the next wave's.
MayReplaceByAny(s, p) ==
  \/ s.head.wave = 0
  \/ TargetKind = "incident_day" /\ WaveDue(s)

\* Fault: only a documentary gap opens a wave, not a wave left unconverged.
MayReplaceOnGap(s, p) ==
  \/ s.head.wave = 0
  \/ /\ TargetKind = "incident_day"
     /\ s.head.completed /\ NotReady(s)
     /\ p.wave = s.head.wave + 1

\* worker.run lets p replace the plan of the durable progress.
MayReplace(s, p) ==
  \/ s.head.wave = 0
  \/ TargetKind = "incident_day" /\ WaveDue(s) /\ p.wave = s.head.wave + 1

-------------------------------------------------------------------------------
(* State.                                                                  *)

NoPlan == [wave |-> 1, focus |-> Initial, inputs |-> 0]
NoRun ==
  [plan |-> NoPlan, rev |-> 0, at |-> Start, number |-> 0, known |-> {},
   tickets |-> 0, streak |-> 0, published |-> 0, cycles |-> 0,
   page |-> L!NoProgress(Initial)]

Quiet == [kind |-> "none"]
Request(p, base) == [kind |-> "request", page |-> p, base |-> base]
Receipt(rev) == [kind |-> "receipt", rev |-> rev]
Conflict == [kind |-> "conflict"]
Requests == [kind: {"request"}, page: Page, base: Nat]

Init ==
  /\ store = [rev |-> 0, head |-> L!NoProgress(Initial), pages |-> 0,
              sources |-> {}, tickets |-> 0, coverage |-> "none"]
  /\ inputs = 0
  /\ pc = [w \in Worker |-> "idle"]
  /\ run = [w \in Worker |-> NoRun]
  /\ channel = [w \in Worker |-> Quiet]
  /\ orphans = {}
  /\ sessions = {}
  /\ upsets = 0

-------------------------------------------------------------------------------
(* The request: orchestrator, planner, and the start of worker.run.        *)

\* run_candidate and run_analysis read the target and plan from what they read.
BeginRequest(w) ==
  /\ pc[w] = "idle"
  /\ pc' = [pc EXCEPT ![w] = "planned"]
  /\ run' = [run EXCEPT ![w] = [NoRun EXCEPT !.plan = PlanFor(store)]]
  /\ UNCHANGED <<store, inputs, channel, orphans, sessions, upsets>>

\* worker.run reads the target again and refuses a plan that cannot replace
\* the durable one; the error ends the request.
RefusePlan(w) ==
  /\ pc[w] = "planned"
  /\ ~SamePlan(store, run[w].plan) /\ ~MayReplace(store, run[w].plan)
  /\ pc' = [pc EXCEPT ![w] = "idle"]
  /\ run' = [run EXCEPT ![w] = NoRun]
  /\ UNCHANGED <<store, inputs, channel, orphans, sessions, upsets>>

\* Where a request goes when its run returns: run_candidate answers at once,
\* run_analysis reads the target again.
Returned == IF TargetKind = "incident_day" THEN "reread" ELSE "idle"

\* The plan is already completed: a receipt without a page.
ReturnCompleted(w) ==
  /\ pc[w] = "planned"
  /\ store.head.wave > 0
  /\ SamePlan(store, run[w].plan) /\ store.head.completed
  /\ pc' = [pc EXCEPT ![w] = Returned]
  /\ run' = [run EXCEPT ![w] =
               IF TargetKind = "incident_day"
               THEN [NoRun EXCEPT !.page = store.head, !.cycles = run[w].cycles + 1]
               ELSE NoRun]
  /\ UNCHANGED <<store, inputs, channel, orphans, sessions, upsets>>

\* Resume the durable wave, or begin the plan's, and open a broker session.
StartRun(w) ==
  LET p == run[w].plan
      resume == SamePlan(store, p)
  IN /\ pc[w] = "planned"
     /\ resume => ~store.head.completed
     /\ ~resume => MayReplace(store, p)
     /\ pc' = [pc EXCEPT ![w] = "search"]
     /\ run' = [run EXCEPT ![w] =
          [plan |-> p,
           rev |-> store.rev,
           at |-> IF resume THEN store.head.next ELSE Start,
           number |-> IF resume THEN store.pages + 1 ELSE 1,
           known |-> store.sources,
           tickets |-> store.tickets,
           streak |-> IF resume THEN store.head.streak ELSE 0,
           published |-> 0,
           cycles |-> run[w].cycles,
           page |-> run[w].page]]
     /\ sessions' = sessions \cup {w}
     /\ UNCHANGED <<store, inputs, channel, orphans, upsets>>

-------------------------------------------------------------------------------
(* One turn of the collection loop, and its publication.                   *)

\* Fault: a query too many.
HasQueryPastLast(plan, n) == n <= QueryCount[plan.wave]

HasQuery(plan, n) == n < QueryCount[plan.wave]

\* Where the loop goes after this page; Start when the wave is completed.
NextPosition(r, tickets, next) ==
  IF tickets >= MediaLimit \/ r.number >= MaxSourcePages THEN Start
  ELSE IF next # 0 THEN [query |-> r.at.query, provider |-> next]
  ELSE IF HasQuery(r.plan, r.at.query + 1)
  THEN [query |-> r.at.query + 1, provider |-> 0]
  ELSE Start

\* The page payload built from the locals r, the evidence found and the
\* provider's next cursor.
BuildPage(r, outcome, new, added, next) ==
  LET tickets == r.tickets + added
      position == NextPosition(r, tickets, next)
      safety == tickets >= MediaLimit \/ r.number >= MaxSourcePages
      streak == L!StreakAfter(r.streak, outcome)
  IN [wave |-> r.plan.wave, focus |-> r.plan.focus, inputs |-> r.plan.inputs,
      number |-> r.number, cursor |-> r.at, next |-> position,
      completed |-> position = Start, safety |-> safety,
      converged |-> position = Start /\ ~safety /\ streak >= ZeroYield,
      streak |-> streak, new |-> new, added |-> added, outcome |-> outcome]

\* Hand the page to the backend; known is what the run now skips.
Post(w, page, known) ==
  /\ pc' = [pc EXCEPT ![w] = "wait"]
  /\ run' = [run EXCEPT ![w].page = page,
                        ![w].known = known,
                        ![w].tickets = @ + page.added,
                        ![w].streak = page.streak]
  /\ channel' = [channel EXCEPT ![w] = Request(page, run[w].rev)]
  /\ UNCHANGED <<store, inputs, orphans, sessions, upsets>>

\* The page is collected: new are the unknown sources it kept, added their media
\* tickets.  The provider's next cursor lies past the current one.
SearchReturns(w) ==
  /\ pc[w] = "search"
  /\ \E new \in SUBSET (Url \ run[w].known),
        added \in 0..(MediaLimit - run[w].tickets),
        next \in {0} \cup (run[w].at.provider + 1)..ProviderPages[run[w].plan.wave] :
       /\ added <= MediaPerSource * Cardinality(new)
       /\ Post(w,
               BuildPage(run[w], IF new = {} THEN "quiet" ELSE "yield", new, added, next),
               run[w].known \cup new)

\* Collecting raises: the page's evidence is dropped, but the articles the page had
\* already taken stay in the run's known set; the provider cursor is kept.
SearchRaises(w) ==
  /\ pc[w] = "search"
  /\ \E touched \in SUBSET (Url \ run[w].known) :
       Post(w,
            BuildPage(run[w], "failed", {}, 0, run[w].at.provider),
            run[w].known \cup touched)

\* Fault: the session outlives the run.
RevokeNothing(w) == sessions

\* The finally clause of worker.run.
Revoke(w) == sessions \ {w}

\* The receipt arrives: continue from the cursor the page left, or return.
ReceiveReceipt(w) ==
  LET done == run[w].page.completed \/ run[w].published + 1 = MaxPagesPerRun
  IN /\ pc[w] = "wait"
     /\ channel[w].kind = "receipt"
     /\ channel' = [channel EXCEPT ![w] = Quiet]
     /\ pc' = [pc EXCEPT ![w] = IF done THEN Returned ELSE "search"]
     /\ run' = [run EXCEPT ![w] =
          IF ~done
          THEN [run[w] EXCEPT !.rev = channel[w].rev,
                              !.published = run[w].published + 1,
                              !.number = run[w].number + 1,
                              !.at = run[w].page.next,
                              !.page = NoRun.page]
          ELSE IF TargetKind = "incident_day"
          THEN [NoRun EXCEPT !.page = run[w].page, !.cycles = run[w].cycles + 1]
          ELSE NoRun]
     /\ sessions' = IF done THEN Revoke(w) ELSE sessions
     /\ UNCHANGED <<store, inputs, orphans, upsets>>

\* An exception leaves worker.run: the session is revoked and the request ends.
Abandon(w) ==
  /\ pc' = [pc EXCEPT ![w] = "idle"]
  /\ run' = [run EXCEPT ![w] = NoRun]
  /\ channel' = [channel EXCEPT ![w] = Quiet]
  /\ sessions' = Revoke(w)

\* Fault: a refused page is sent again as it is.
PublishRepeated(w) ==
  /\ pc[w] = "wait"
  /\ channel[w].kind = "conflict"
  /\ channel' = [channel EXCEPT ![w] = Request(run[w].page, run[w].rev)]
  /\ UNCHANGED <<store, inputs, pc, run, orphans, sessions, upsets>>

\* The backend refused the page: it was built on an older revision.
PublishRefused(w) ==
  /\ pc[w] = "wait"
  /\ channel[w].kind = "conflict"
  /\ Abandon(w)
  /\ UNCHANGED <<store, inputs, orphans, upsets>>

\* The request was lost, or still travels, or its answer was lost.
Unanswered(w) ==
  \/ orphans' = orphans
  \/ channel[w].kind = "request" /\ orphans' = orphans \cup {channel[w]}

\* The transport gives up on the exchange.
PublishTimesOut(w) ==
  /\ pc[w] = "wait"
  /\ upsets < MaxUpsets
  /\ upsets' = upsets + 1
  /\ Unanswered(w)
  /\ Abandon(w)
  /\ UNCHANGED <<store, inputs>>

\* The process dies; the broker and its sessions live in the same process.
Crash(w) ==
  /\ pc[w] # "idle"
  /\ upsets < MaxUpsets
  /\ upsets' = upsets + 1
  /\ Unanswered(w)
  /\ Abandon(w)
  /\ UNCHANGED <<store, inputs>>

-------------------------------------------------------------------------------
(* run_analysis between cycles.                                            *)

\* The incident is documented, or no further wave can help.
EnoughCycles(w) ==
  \/ store.coverage = "ready" /\ run[w].page.completed /\ run[w].page.converged
  \/ run[w].page.safety
  \/ run[w].page.wave >= MaxWave
  \/ run[w].cycles >= MaxCycles

\* Stop for one of those reasons, or because the runtime limit is reached.
StopCycling(w) ==
  /\ pc[w] = "reread"
  /\ pc' = [pc EXCEPT ![w] = "idle"]
  /\ run' = [run EXCEPT ![w] = NoRun]
  /\ UNCHANGED <<store, inputs, channel, orphans, sessions, upsets>>

\* Plan the next cycle from the target just read.
NextCycle(w) ==
  /\ pc[w] = "reread"
  /\ ~EnoughCycles(w)
  /\ pc' = [pc EXCEPT ![w] = "planned"]
  /\ run' = [run EXCEPT ![w].plan = PlanFor(store)]
  /\ UNCHANGED <<store, inputs, channel, orphans, sessions, upsets>>

-------------------------------------------------------------------------------
(* The backend and the other services (external).                          *)

\* Fault: a page built on any revision is accepted.
AcceptsStale(q) == q.base <= store.rev

\* The compare-and-set on the revision a page was built on.
Accepts(q) == q.base = store.rev

\* An accepted page becomes durable and coverage is assessed anew.
Commit(q) ==
  /\ Accepts(q)
  /\ \E c \in Coverage :
       store' = [rev |-> store.rev + 1,
                 head |-> q.page,
                 pages |-> IF PagesSpanWaves \/ q.page.wave = store.head.wave
                           THEN store.pages + 1 ELSE 1,
                 sources |-> store.sources \cup q.page.new,
                 tickets |-> store.tickets + q.page.added,
                 coverage |-> c]

BackendAccepts(w) ==
  /\ channel[w].kind = "request"
  /\ Commit(channel[w])
  /\ channel' = [channel EXCEPT ![w] = Receipt(store.rev + 1)]
  /\ UNCHANGED <<inputs, pc, run, orphans, sessions, upsets>>

BackendRejects(w) ==
  /\ channel[w].kind = "request"
  /\ ~Accepts(channel[w])
  /\ channel' = [channel EXCEPT ![w] = Conflict]
  /\ UNCHANGED <<store, inputs, pc, run, orphans, sessions, upsets>>

\* A request nobody waits for arrives late, or never.
OrphanArrives(q) ==
  /\ q \in orphans
  /\ Commit(q)
  /\ orphans' = orphans \ {q}
  /\ UNCHANGED <<inputs, pc, run, channel, sessions, upsets>>

OrphanVanishes(q) ==
  /\ q \in orphans
  /\ orphans' = orphans \ {q}
  /\ UNCHANGED <<store, inputs, pc, run, channel, sessions, upsets>>

\* Media analysis or satellite work writes to the same target.
ForeignUpdate ==
  /\ upsets < MaxUpsets
  /\ upsets' = upsets + 1
  /\ \E c \in Coverage : store' = [store EXCEPT !.rev = @ + 1, !.coverage = c]
  /\ UNCHANGED <<inputs, pc, run, channel, orphans, sessions>>

\* The label, the day, the source registry or the configuration changes.
PlanInputsChange ==
  /\ InputsMayChange
  /\ upsets < MaxUpsets
  /\ upsets' = upsets + 1
  /\ inputs' = inputs + 1
  /\ UNCHANGED <<store, pc, run, channel, orphans, sessions>>

-------------------------------------------------------------------------------
WorkerStep(w) ==
  \/ RefusePlan(w) \/ ReturnCompleted(w) \/ StartRun(w)
  \/ SearchReturns(w) \/ SearchRaises(w)
  \/ ReceiveReceipt(w) \/ PublishRefused(w)
  \/ StopCycling(w) \/ NextCycle(w)

BackendStep(w) == BackendAccepts(w) \/ BackendRejects(w)

Next ==
  \/ \E w \in Worker :
       \/ BeginRequest(w) \/ WorkerStep(w) \/ BackendStep(w)
       \/ PublishTimesOut(w) \/ Crash(w)
  \/ \E q \in orphans : OrphanArrives(q) \/ OrphanVanishes(q)
  \/ ForeignUpdate
  \/ PlanInputsChange

Spec == Init /\ [][Next]_vars

\* The service's own steps happen; requests, crashes, lost answers and the
\* writes of other services need not.  An exchange ends: the backend answers.
ServiceFairness ==
  \A w \in Worker : WF_vars(WorkerStep(w)) /\ WF_vars(BackendStep(w))

\* The caller asks again for as long as the target is not settled, and of
\* answers that keep coming some are accepted.
CallerFairness == \A w \in Worker : WF_vars(BeginRequest(w))

FairSpec == Spec /\ ServiceFairness
RetriedSpec == FairSpec /\ CallerFairness

-------------------------------------------------------------------------------
(* Properties.                                                             *)

RunType ==
  [plan: Plan, rev: Nat, at: L!Cursor, number: Nat, known: SUBSET Url,
   tickets: Nat, streak: Nat, published: Nat, cycles: Nat, page: Page]

ChannelType == {Quiet, Conflict} \cup Requests \cup [kind: {"receipt"}, rev: Nat]

\* Every variable keeps its type.
TypeOK ==
  /\ store \in [rev: Nat, head: Page, pages: Nat, sources: SUBSET Url,
                tickets: Nat, coverage: Coverage \cup {"none"}]
  /\ inputs \in Nat
  /\ pc \in [Worker -> {"idle", "planned", "search", "wait", "reread"}]
  /\ run \in [Worker -> RunType]
  /\ channel \in [Worker -> ChannelType]
  /\ orphans \subseteq Requests
  /\ sessions \subseteq Worker
  /\ upsets \in Nat

InFlight == orphans \cup {channel[w] : w \in {v \in Worker : channel[v].kind = "request"}}

\* Any publish request still in flight that the backend would accept, whoever
\* sent it and whether or not its sender still waits, extends the chain of
\* durable pages without a republished source and within the ticket limit.
RequestsExtendChain ==
  \A q \in InFlight :
    q.base = store.rev =>
      /\ L!Follows(store.head, q.page)
      /\ q.page.new \cap store.sources = {}
      /\ store.tickets + q.page.added <= MediaLimit

\* A resumed or continued run never stands past the queries of its plan: the
\* loop's branch for an exhausted query list is never needed.
CursorInPlan ==
  \A w \in Worker :
    pc[w] \in {"search", "wait"} => run[w].at.query < QueryCount[run[w].plan.wave]

\* The broker holds a session exactly for the requests inside worker.run,
\* whatever exception or crash ended the others.
SessionsOfRuns == sessions = {w \in Worker : pc[w] \in {"search", "wait"}}

\* The durable record is the chain ResearchLedger promises.
LedgerSpec == L!Spec

\* The worker refuses a plan only if the target or the plan's inputs moved on:
\* the plan the planner would build now differs, or the wave was planned from
\* other inputs.  It never refuses the planner's own current plan.
RefusalExplained ==
  [][\A w \in Worker :
       RefusePlan(w) => run[w].plan # PlanFor(store) \/ store.head.inputs # inputs]_vars

\* A request ends, whatever its cycles, conflicts and failures.
RequestsEnd == \A w \in Worker : pc[w] # "idle" ~> pc[w] = "idle"

\* The wave is over and no further one will be opened.
Settled ==
  /\ store.head.wave > 0
  /\ store.head.completed
  /\ ~WaveOpens(store)

\* A target asked for again and again settles, though every failed page is
\* published too and competing requests refuse each other's pages.
TargetSettles == <>Settled
===============================================================================
