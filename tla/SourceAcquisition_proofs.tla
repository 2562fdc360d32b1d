------------------------ MODULE SourceAcquisition_proofs ------------------------
(***************************************************************************)
(* Proofs about SourceAcquisition, for every value of its constants.       *)
(*                                                                         *)
(* TypeOK is inductive.  The chain of pages rests on IInv: everything that *)
(* was built on the current revision (a run that still searches, a request *)
(* in flight, a receipt on its way) agrees with the durable record, and    *)
(* nothing is built on a revision that does not exist yet.                 *)
(***************************************************************************)
EXTENDS SourceAcquisition, FiniteSetTheorems, TLAPS

-------------------------------------------------------------------------------
(* The inductive invariant: s is the durable record, r a run's locals.     *)

\* What every page in flight satisfies, whatever the record has become.
SoundPage(p) ==
  /\ L!WellFormed(p)
  /\ p.new # {} <=> p.outcome = "yield"
  /\ p.added > 0 => p.new # {}
  /\ ~p.completed => p.wave \in 1..MaxWave /\ p.next.query < QueryCount[p.wave]

SoundStore(s) ==
  /\ ~s.head.completed =>
       s.head.wave \in 1..MaxWave /\ s.head.next.query < QueryCount[s.head.wave]
  /\ s.head.number <= s.pages
  /\ s.tickets <= MediaLimit

\* A page that may extend the record.
Extends(s, p) ==
  /\ L!Follows(s.head, p)
  /\ p.number <= s.pages + 1
  /\ p.new \cap s.sources = {}
  /\ s.tickets + p.added <= MediaLimit

\* A request built on the record extends it; none was built on a later one.
SoundRequest(s, q) ==
  /\ SoundPage(q.page)
  /\ q.base <= s.rev
  /\ q.base = s.rev => Extends(s, q.page)

\* The locals continue, or open the wave after, the record they were read from.
Current(s, r) ==
  /\ s.sources \subseteq r.known
  /\ r.tickets = s.tickets
  /\ r.number <= s.pages + 1
  /\ \/ /\ ~s.head.completed
        /\ SamePlan(s, r.plan)
        /\ r.number > s.head.number
        /\ r.at = s.head.next
        /\ r.streak = s.head.streak
     \/ /\ s.head.completed
        /\ r.plan.wave = s.head.wave + 1
        /\ r.number = 1
        /\ r.at = Start
        /\ r.streak = 0

Searching(s, r) ==
  /\ r.rev <= s.rev
  /\ r.rev = s.rev => Current(s, r)
  /\ r.tickets <= MediaLimit
  /\ r.at.query < QueryCount[r.plan.wave]

\* The page a waiting run has posted is the one its locals describe.
Posted(r) ==
  /\ SoundPage(r.page)
  /\ <<r.page.wave, r.page.focus, r.page.inputs>> =
       <<r.plan.wave, r.plan.focus, r.plan.inputs>>
  /\ r.page.number = r.number
  /\ r.page.streak = r.streak
  /\ r.tickets <= MediaLimit
  /\ r.at.query < QueryCount[r.plan.wave]

\* Once the record holds that page, the locals agree with the record again.
Waiting(s, r, c) ==
  /\ Posted(r)
  /\ c.kind = "request" =>
       /\ c.page = r.page
       /\ c.base = s.rev =>
            /\ s.sources \cup r.page.new \subseteq r.known
            /\ r.tickets = s.tickets + r.page.added
  /\ c.kind = "receipt" =>
       /\ c.rev <= s.rev
       /\ c.rev = s.rev =>
            /\ s.head = r.page
            /\ s.sources \subseteq r.known
            /\ r.tickets = s.tickets
            /\ r.number <= s.pages

WorkerInv(w) ==
  /\ pc[w] = "planned" => run[w].plan.wave <= store.head.wave + 1
  /\ pc[w] = "search" => Searching(store, run[w])
  /\ pc[w] = "wait" => Waiting(store, run[w], channel[w])
  /\ channel[w].kind = "request" => SoundRequest(store, channel[w])

IInv ==
  /\ TypeOK
  /\ SoundStore(store)
  /\ \A w \in Worker : WorkerInv(w)
  /\ \A q \in orphans : SoundRequest(store, q)

-------------------------------------------------------------------------------
(* Types.                                                                  *)

\* The numeric constants, one by one.
LEMMA Limits ==
  /\ MaxWave \in Nat /\ MaxWave >= 1
  /\ MediaLimit \in Nat /\ MaxSourcePages \in Nat /\ MediaPerSource \in Nat
  /\ ZeroYield \in Nat /\ ZeroYield >= 1
<1>1. MediaLimit \in Nat \ {0} /\ MaxSourcePages \in Nat \ {0} /\ MediaPerSource \in Nat \ {0}
  BY ConstantsOK
<1>2. QED
  BY <1>1, ConstantsOK

LEMMA Queries ==
  ASSUME NEW n \in 1..MaxWave
  PROVE  QueryCount[n] \in Nat /\ QueryCount[n] >= 1 /\ ProviderPages[n] \in Nat
<1>1. QueryCount[n] \in Nat \ {0} /\ ProviderPages[n] \in Nat
  BY ConstantsOK
<1>2. QED
  BY <1>1

LEMMA StartType == Start \in L!Cursor
BY DEF Start, L!Start, L!Cursor

LEMMA NoProgressType == L!NoProgress(Initial) \in Page
BY ConstantsOK DEF L!NoProgress, Page, L!Page, Focus, L!Start, L!Cursor

\* AutomaticSourceAcquisitionPlanner.build returns a plan of a wave the code
\* allows, whatever the record.
LEMMA PlanForType ==
  ASSUME TypeOK
  PROVE  PlanFor(store) \in Plan
<1>1. /\ store.head.wave \in 0..MaxWave
      /\ store.head.focus \in Focus
      /\ inputs \in Nat
  BY DEF TypeOK, Page, L!Page
<1>2. store.coverage \in WebGap => store.coverage \in Focus
  BY DEF Focus
<1>3. Initial \in Focus /\ Convergence \in Focus
  BY DEF Focus
<1>4. CASE store.head.wave = 0
  BY <1>1, <1>3, <1>4, Limits DEF PlanFor, Plan
<1>5. CASE store.head.wave # 0 /\ WaveOpens(store)
  <2>1. store.head.wave + 1 \in 1..MaxWave
    BY <1>1, <1>5, Limits DEF WaveOpens
  <2>2. QED
    BY <1>1, <1>2, <1>3, <1>5, <2>1 DEF PlanFor, Plan
<1>6. CASE store.head.wave # 0 /\ ~WaveOpens(store)
  <2>1. store.head.wave \in 1..MaxWave
    BY <1>1, <1>6, Limits
  <2>2. QED
    BY <1>1, <1>6, <2>1 DEF PlanFor, Plan
<1>7. QED
  BY <1>4, <1>5, <1>6

LEMMA NextPositionType ==
  ASSUME NEW r \in RunType, NEW tickets \in Nat, NEW next \in Nat
  PROVE  NextPosition(r, tickets, next) \in L!Cursor
<1>1. r.at.query \in Nat /\ r.at.provider \in Nat
  BY DEF RunType, L!Cursor
<1>2. QED
  BY <1>1, StartType DEF NextPosition, HasQuery, L!Cursor

LEMMA BuildPageType ==
  ASSUME NEW r \in RunType, NEW outcome \in {"yield", "quiet", "failed"},
         NEW new \in SUBSET Url, NEW added \in Nat, NEW next \in Nat
  PROVE  BuildPage(r, outcome, new, added, next) \in Page
<1> DEFINE tickets == r.tickets + added
<1>1. tickets \in Nat
  BY DEF RunType
<1>2. NextPosition(r, tickets, next) \in L!Cursor
  BY <1>1, NextPositionType
<1>3. L!StreakAfter(r.streak, outcome) \in Nat
  BY DEF L!StreakAfter, RunType
<1>4. r.plan \in Plan /\ r.number \in Nat /\ r.at \in L!Cursor
  BY DEF RunType
<1>5. r.plan.wave \in 0..MaxWave /\ r.plan.focus \in Focus /\ r.plan.inputs \in Nat
  BY <1>4, Limits DEF Plan
<1>6. QED
  BY <1>2, <1>3, <1>4, <1>5 DEF BuildPage, Page, L!Page

LEMMA NoRunType == NoRun \in RunType
BY StartType, NoProgressType, ConstantsOK
DEF NoRun, NoPlan, RunType, Plan, Focus

\* A search leaves a posted page of the right type.
LEMMA PostType ==
  ASSUME TypeOK, NEW w \in Worker, NEW page \in Page, NEW known \in SUBSET Url,
         Post(w, page, known)
  PROVE  TypeOK'
<1>1. run[w] \in RunType /\ page.added \in Nat /\ page.streak \in Nat
  BY DEF TypeOK, Page, L!Page
<1>2. run'[w] = [run[w] EXCEPT !.page = page, !.known = known,
                               !.tickets = @ + page.added, !.streak = page.streak]
  BY DEF Post, TypeOK
<1>3. run'[w] \in RunType
  <2>1. run[w].tickets + page.added \in Nat
    BY <1>1 DEF RunType
  <2>2. QED
    BY <1>1, <1>2, <2>1 DEF RunType
<1>4. run' \in [Worker -> RunType]
  BY <1>3 DEF Post, TypeOK
<1>5. Request(page, run[w].rev) \in Requests
  BY <1>1 DEF Request, Requests, RunType
<1>6. channel' \in [Worker -> ChannelType]
  BY <1>5 DEF Post, TypeOK, ChannelType
<1>7. QED
  BY <1>4, <1>6 DEF Post, TypeOK

\* Forgetting a request keeps the types.
LEMMA AbandonType ==
  ASSUME TypeOK, NEW w \in Worker, Abandon(w)
  PROVE  /\ pc' \in [Worker -> {"idle", "planned", "search", "wait", "reread"}]
         /\ run' \in [Worker -> RunType]
         /\ channel' \in [Worker -> ChannelType]
         /\ sessions' \subseteq Worker
BY NoRunType DEF TypeOK, Abandon, Revoke, ChannelType

LEMMA UnansweredType ==
  ASSUME TypeOK, NEW w \in Worker, Unanswered(w)
  PROVE  orphans' \subseteq Requests
<1>1. channel[w] \in ChannelType
  BY DEF TypeOK
<1>2. channel[w].kind = "request" => channel[w] \in Requests
  BY <1>1 DEF ChannelType, Quiet, Conflict
<1>3. QED
  BY <1>2 DEF TypeOK, Unanswered

LEMMA CommitType ==
  ASSUME TypeOK, NEW q \in Requests, Commit(q)
  PROVE  store' \in [rev: Nat, head: Page, pages: Nat, sources: SUBSET Url,
                     tickets: Nat, coverage: Coverage \cup {"none"}]
<1>1. q.page \in Page /\ q.page.new \subseteq Url /\ q.page.added \in Nat
  BY DEF Requests, Page, L!Page
<1>2. PICK c \in Coverage :
        store' = [rev |-> store.rev + 1, head |-> q.page,
                  pages |-> IF PagesSpanWaves \/ q.page.wave = store.head.wave
                            THEN store.pages + 1 ELSE 1,
                  sources |-> store.sources \cup q.page.new,
                  tickets |-> store.tickets + q.page.added,
                  coverage |-> c]
  BY DEF Commit
<1>3. QED
  BY <1>1, <1>2 DEF TypeOK

LEMMA TypeInit == Init => TypeOK
<1> SUFFICES ASSUME Init PROVE TypeOK
  OBVIOUS
<1>1. store \in [rev: Nat, head: Page, pages: Nat, sources: SUBSET Url,
                tickets: Nat, coverage: Coverage \cup {"none"}]
  BY NoProgressType DEF Init
<1>2. run \in [Worker -> RunType]
  BY NoRunType DEF Init
<1>3. QED
  BY <1>1, <1>2 DEF Init, TypeOK, ChannelType

LEMMA TypeNext == TypeOK /\ [Next]_vars => TypeOK'
<1> SUFFICES ASSUME TypeOK, [Next]_vars PROVE TypeOK'
  OBVIOUS
<1> DEFINE States == {"idle", "planned", "search", "wait", "reread"}
<1>1. ASSUME NEW w \in Worker, BeginRequest(w) PROVE TypeOK'
  <2>1. [NoRun EXCEPT !.plan = PlanFor(store)] \in RunType
    BY PlanForType, NoRunType DEF RunType
  <2>2. QED
    BY <1>1, <2>1 DEF BeginRequest, TypeOK
<1>2. ASSUME NEW w \in Worker, RefusePlan(w) PROVE TypeOK'
  BY <1>2, NoRunType DEF RefusePlan, TypeOK
<1>3. ASSUME NEW w \in Worker, ReturnCompleted(w) PROVE TypeOK'
  <2>1. [NoRun EXCEPT !.page = store.head, !.cycles = run[w].cycles + 1] \in RunType
    <3>1. store.head \in Page /\ run[w].cycles + 1 \in Nat
      BY DEF TypeOK, RunType
    <3>2. QED
      BY <3>1, NoRunType DEF RunType
  <2>2. run' \in [Worker -> RunType]
    BY <1>3, <2>1, NoRunType DEF ReturnCompleted, TypeOK
  <2>3. QED
    BY <1>3, <2>2 DEF ReturnCompleted, Returned, TypeOK
<1>4. ASSUME NEW w \in Worker, StartRun(w) PROVE TypeOK'
  <2>1. /\ store.head \in Page /\ store.rev \in Nat /\ store.pages + 1 \in Nat
        /\ store.sources \in SUBSET Url /\ store.tickets \in Nat
        /\ run[w] \in RunType
    BY DEF TypeOK
  <2>2. store.head.next \in L!Cursor /\ store.head.streak \in Nat
    BY <2>1 DEF Page, L!Page
  <2>3. run'[w] \in RunType
    BY <1>4, <2>1, <2>2, StartType DEF StartRun, RunType, TypeOK
  <2>4. run' \in [Worker -> RunType]
    BY <1>4, <2>3 DEF StartRun, TypeOK
  <2>5. QED
    BY <1>4, <2>4 DEF StartRun, TypeOK
<1>5. ASSUME NEW w \in Worker, SearchReturns(w) PROVE TypeOK'
  <2>1. run[w] \in RunType /\ run[w].known \subseteq Url
    BY DEF TypeOK, RunType
  <2>2. run[w].tickets \in Nat /\ run[w].at.provider \in Nat /\ run[w].plan.wave \in 1..MaxWave
    BY <2>1 DEF RunType, L!Cursor, Plan
  <2>3. ProviderPages[run[w].plan.wave] \in Nat
    BY <2>2, Queries
  <2>4. PICK new \in SUBSET (Url \ run[w].known),
             added \in 0..(MediaLimit - run[w].tickets),
             next \in {0} \cup (run[w].at.provider + 1)..ProviderPages[run[w].plan.wave] :
          Post(w,
               BuildPage(run[w], IF new = {} THEN "quiet" ELSE "yield", new, added, next),
               run[w].known \cup new)
    BY <1>5 DEF SearchReturns
  <2>5. new \in SUBSET Url /\ added \in Nat /\ next \in Nat
    BY <2>2, <2>3, <2>4, Limits
  <2>6. BuildPage(run[w], IF new = {} THEN "quiet" ELSE "yield", new, added, next) \in Page
    BY <2>1, <2>5, BuildPageType
  <2>7. QED
    BY <2>1, <2>4, <2>5, <2>6, PostType
<1>6. ASSUME NEW w \in Worker, SearchRaises(w) PROVE TypeOK'
  <2>1. run[w] \in RunType /\ run[w].known \subseteq Url /\ run[w].at.provider \in Nat
    BY DEF TypeOK, RunType, L!Cursor
  <2>2. PICK touched \in SUBSET (Url \ run[w].known) :
          Post(w, BuildPage(run[w], "failed", {}, 0, run[w].at.provider),
               run[w].known \cup touched)
    BY <1>6 DEF SearchRaises
  <2>3. BuildPage(run[w], "failed", {}, 0, run[w].at.provider) \in Page
    BY <2>1, BuildPageType
  <2>4. run[w].known \cup touched \in SUBSET Url
    BY <2>1, <2>2
  <2>5. QED
    BY <2>2, <2>3, <2>4, PostType
<1>7. ASSUME NEW w \in Worker, ReceiveReceipt(w) PROVE TypeOK'
  <2>1. run[w] \in RunType /\ run[w].page \in Page /\ run[w].page.next \in L!Cursor
    BY DEF TypeOK, RunType, Page, L!Page
  <2>2. channel[w].rev \in Nat
    BY <1>7 DEF ReceiveReceipt, TypeOK, ChannelType, Quiet, Conflict, Requests
  <2>3. [run[w] EXCEPT !.rev = channel[w].rev,
                       !.published = run[w].published + 1,
                       !.number = run[w].number + 1,
                       !.at = run[w].page.next,
                       !.page = NoRun.page] \in RunType
    <3>1. run[w].published + 1 \in Nat /\ run[w].number + 1 \in Nat
      BY <2>1 DEF RunType
    <3>2. NoRun.page \in Page
      BY NoProgressType DEF NoRun
    <3>3. QED
      BY <2>1, <2>2, <3>1, <3>2 DEF RunType
  <2>4. [NoRun EXCEPT !.page = run[w].page, !.cycles = run[w].cycles + 1] \in RunType
    <3>1. run[w].cycles + 1 \in Nat
      BY <2>1 DEF RunType
    <3>2. QED
      BY <2>1, <3>1, NoRunType DEF RunType
  <2>5. run' \in [Worker -> RunType]
    BY <1>7, <2>3, <2>4, NoRunType DEF ReceiveReceipt, TypeOK
  <2>6. QED
    BY <1>7, <2>5 DEF ReceiveReceipt, Returned, Revoke, TypeOK, ChannelType
<1>8. ASSUME NEW w \in Worker, PublishRefused(w) PROVE TypeOK'
  BY <1>8, AbandonType DEF PublishRefused, TypeOK
<1>9. ASSUME NEW w \in Worker, PublishTimesOut(w) \/ Crash(w) PROVE TypeOK'
  <2>1. Abandon(w) /\ Unanswered(w) /\ UNCHANGED <<store, inputs>> /\ upsets' = upsets + 1
    BY <1>9 DEF PublishTimesOut, Crash
  <2>2. QED
    BY <2>1, AbandonType, UnansweredType DEF TypeOK
<1>10. ASSUME NEW w \in Worker, StopCycling(w) PROVE TypeOK'
  BY <1>10, NoRunType DEF StopCycling, TypeOK
<1>11. ASSUME NEW w \in Worker, NextCycle(w) PROVE TypeOK'
  <2>1. [run[w] EXCEPT !.plan = PlanFor(store)] \in RunType
    BY PlanForType DEF TypeOK, RunType
  <2>2. QED
    BY <1>11, <2>1 DEF NextCycle, TypeOK
<1>12. ASSUME NEW w \in Worker, BackendAccepts(w) PROVE TypeOK'
  <2>1. channel[w] \in Requests
    BY <1>12 DEF BackendAccepts, TypeOK, ChannelType, Quiet, Conflict
  <2>2. Receipt(store.rev + 1) \in ChannelType
    BY DEF Receipt, ChannelType, TypeOK
  <2>3. QED
    BY <1>12, <2>1, <2>2, CommitType DEF BackendAccepts, TypeOK
<1>13. ASSUME NEW w \in Worker, BackendRejects(w) PROVE TypeOK'
  BY <1>13 DEF BackendRejects, TypeOK, ChannelType
<1>14. ASSUME NEW q \in orphans, OrphanArrives(q) PROVE TypeOK'
  <2>1. q \in Requests
    BY DEF TypeOK
  <2>2. QED
    BY <1>14, <2>1, CommitType DEF OrphanArrives, TypeOK
<1>15. ASSUME NEW q \in orphans, OrphanVanishes(q) PROVE TypeOK'
  BY <1>15 DEF OrphanVanishes, TypeOK
<1>16. CASE ForeignUpdate
  <2>1. PICK c \in Coverage : store' = [store EXCEPT !.rev = @ + 1, !.coverage = c]
    BY <1>16 DEF ForeignUpdate
  <2>2. store' \in [rev: Nat, head: Page, pages: Nat, sources: SUBSET Url,
                   tickets: Nat, coverage: Coverage \cup {"none"}]
    <3>1. store.rev + 1 \in Nat
      BY DEF TypeOK
    <3>2. QED
      BY <2>1, <3>1 DEF TypeOK
  <2>3. QED
    BY <1>16, <2>2 DEF ForeignUpdate, TypeOK
<1>17. CASE PlanInputsChange
  BY <1>17 DEF PlanInputsChange, TypeOK
<1>18. CASE UNCHANGED vars
  BY <1>18 DEF vars, TypeOK
<1>19. QED
  BY <1>1, <1>2, <1>3, <1>4, <1>5, <1>6, <1>7, <1>8, <1>9, <1>10, <1>11, <1>12,
     <1>13, <1>14, <1>15, <1>16, <1>17, <1>18
  DEF Next, WorkerStep, BackendStep

\* Every variable keeps its type in every run, whatever the number of requests,
\* pages, waves and failures: no handler stores a malformed page or plan.
THEOREM TypeCorrect == Spec => []TypeOK
<1>1. Init => TypeOK
  BY TypeInit
<1>2. TypeOK /\ [Next]_vars => TypeOK'
  BY TypeNext
<1>3. QED
  BY <1>1, <1>2, PTL DEF Spec

-------------------------------------------------------------------------------
(* Sessions.                                                               *)

\* The broker never keeps a session of a run that returned, raised or crashed,
\* and no run searches or publishes without its own.
THEOREM SessionsCorrect == Spec => []SessionsOfRuns
<1> DEFINE Busy(w) == pc[w] = "search" \/ pc[w] = "wait"
           PC == {"idle", "planned", "search", "wait", "reread"}
           I == /\ pc \in [Worker -> PC]
                /\ sessions \subseteq Worker
                /\ \A w \in Worker : w \in sessions <=> Busy(w)
<1>1. Init => I
  BY DEF Init
<1>2. I /\ [Next]_vars => I'
  <2> SUFFICES ASSUME I, [Next]_vars PROVE I'
    OBVIOUS
  <2>1. ASSUME NEW w \in Worker, NEW x \in PC, x # "search", x # "wait",
               ~Busy(w), pc' = [pc EXCEPT ![w] = x], sessions' = sessions
        PROVE  I'
    BY <2>1
  <2>2. ASSUME NEW w \in Worker,
               \/ BeginRequest(w) \/ RefusePlan(w) \/ ReturnCompleted(w)
               \/ StopCycling(w) \/ NextCycle(w)
        PROVE  I'
    <3>1. CASE BeginRequest(w)
      BY <2>1, <3>1 DEF BeginRequest
    <3>2. CASE RefusePlan(w)
      BY <2>1, <3>2 DEF RefusePlan
    <3>3. CASE ReturnCompleted(w)
      BY <2>1, <3>3 DEF ReturnCompleted, Returned
    <3>4. CASE StopCycling(w)
      BY <2>1, <3>4 DEF StopCycling
    <3>5. CASE NextCycle(w)
      BY <2>1, <3>5 DEF NextCycle
    <3>6. QED
      BY <2>2, <3>1, <3>2, <3>3, <3>4, <3>5
  <2>3. ASSUME NEW w \in Worker, StartRun(w) PROVE I'
    <3>1. pc' = [pc EXCEPT ![w] = "search"] /\ sessions' = sessions \cup {w}
      BY <2>3 DEF StartRun
    <3>2. QED
      BY <3>1
  <2>4. ASSUME NEW w \in Worker, SearchReturns(w) \/ SearchRaises(w) PROVE I'
    <3>1. pc[w] = "search" /\ pc' = [pc EXCEPT ![w] = "wait"] /\ sessions' = sessions
      <4>1. CASE SearchReturns(w)
        <5>1. pc[w] = "search" /\ \E page, known : Post(w, page, known)
          BY <4>1, Zenon DEF SearchReturns
        <5>2. QED
          BY <5>1 DEF Post
      <4>2. CASE SearchRaises(w)
        <5>1. pc[w] = "search" /\ \E page, known : Post(w, page, known)
          BY <4>2, Zenon DEF SearchRaises
        <5>2. QED
          BY <5>1 DEF Post
      <4>3. QED
        BY <2>4, <4>1, <4>2
    <3>2. QED
      BY <3>1
  <2>5. ASSUME NEW w \in Worker, ReceiveReceipt(w) PROVE I'
    <3>1. CASE sessions' = sessions
      <4>1. \/ pc[w] = "wait" /\ pc' = [pc EXCEPT ![w] = "search"]
            \/ w \notin sessions
        BY <2>5, <3>1 DEF ReceiveReceipt, Revoke
      <4>2. QED
        BY <2>5, <3>1, <4>1 DEF ReceiveReceipt, Revoke
    <3>2. CASE sessions' # sessions
      <4>1. pc' = [pc EXCEPT ![w] = Returned] /\ sessions' = sessions \ {w}
        BY <2>5, <3>2 DEF ReceiveReceipt, Revoke
      <4>2. QED
        BY <4>1 DEF Returned
    <3>3. QED
      BY <3>1, <3>2
  <2>6. ASSUME NEW w \in Worker, PublishRefused(w) \/ PublishTimesOut(w) \/ Crash(w)
        PROVE  I'
    <3>1. pc' = [pc EXCEPT ![w] = "idle"] /\ sessions' = sessions \ {w}
      BY <2>6 DEF PublishRefused, PublishTimesOut, Crash, Abandon, Revoke
    <3>2. QED
      BY <3>1
  <2>7. ASSUME UNCHANGED <<pc, sessions>> PROVE I'
    BY <2>7
  <2>8. QED
    BY <2>2, <2>3, <2>4, <2>5, <2>6, <2>7
    DEF Next, WorkerStep, BackendStep, BackendAccepts, BackendRejects, OrphanArrives,
        OrphanVanishes, ForeignUpdate, PlanInputsChange, vars
<1>3. I => SessionsOfRuns
  BY DEF SessionsOfRuns
<1>4. QED
  BY <1>1, <1>2, <1>3, PTL DEF Spec

-------------------------------------------------------------------------------
(* The inductive invariant is preserved.                                   *)

\* What a run, a request or a receipt owes to an older record, it owes to the
\* newer one only if it was built on it: nothing is.
LEMMA StaleRequest ==
  ASSUME NEW s, NEW t, s.rev \in Nat, t.rev \in Nat, s.rev < t.rev,
         NEW q \in Requests, SoundRequest(s, q)
  PROVE  SoundRequest(t, q)
BY DEF SoundRequest, Requests

LEMMA StaleSearching ==
  ASSUME NEW s, NEW t, s.rev \in Nat, t.rev \in Nat, s.rev < t.rev,
         NEW r \in RunType, Searching(s, r)
  PROVE  Searching(t, r)
BY DEF Searching, RunType

LEMMA StaleWaiting ==
  ASSUME NEW s, NEW t, s.rev \in Nat, t.rev \in Nat, s.rev < t.rev,
         NEW r, NEW c \in ChannelType, Waiting(s, r, c),
         c.kind = "request" => c.base <= s.rev
  PROVE  Waiting(t, r, c)
<1>1. c.kind = "request" => c.base \in Nat
  BY DEF ChannelType, Quiet, Conflict, Requests
<1>2. c.kind = "receipt" => c.rev \in Nat
  BY DEF ChannelType, Quiet, Conflict, Requests
<1>3. c.kind = "request" => c.page = r.page /\ c.base # t.rev
  BY <1>1 DEF Waiting
<1>4. c.kind = "receipt" => c.rev <= t.rev /\ c.rev # t.rev
  BY <1>2 DEF Waiting
<1>5. Posted(r)
  BY DEF Waiting
<1>6. QED
  BY <1>3, <1>4, <1>5 DEF Waiting

LEMMA ChannelRequest ==
  ASSUME TypeOK, NEW w \in Worker, channel[w].kind = "request"
  PROVE  channel[w] \in Requests
<1>1. channel[w] \in ChannelType
  BY DEF TypeOK
<1>2. QED
  BY <1>1 DEF ChannelType, Quiet, Conflict

\* A worker that does not move keeps its part of the invariant, when the
\* record stays as it is and when it moves on.
LEMMA Bystander ==
  ASSUME TypeOK, NEW w \in Worker, WorkerInv(w),
         pc'[w] = pc[w], run'[w] = run[w], channel'[w] = channel[w],
         \/ store' = store
         \/ /\ store'.rev \in Nat /\ store.rev < store'.rev
            /\ store'.head.wave \in Nat /\ store.head.wave <= store'.head.wave
  PROVE  WorkerInv(w)'
<1>1. CASE store' = store
  BY <1>1 DEF WorkerInv
<1>2. CASE store' # store
  <2>1. store.rev \in Nat /\ run[w] \in RunType /\ channel[w] \in ChannelType
    BY DEF TypeOK
  <2>2. store.head.wave \in Nat /\ run[w].plan.wave \in Nat
    BY <2>1, Limits DEF TypeOK, Page, L!Page, RunType, Plan
  <2>3. channel[w].kind = "request" => SoundRequest(store', channel[w])
    BY <1>2, <2>1, StaleRequest, ChannelRequest DEF WorkerInv
  <2>4. pc[w] = "search" => Searching(store', run[w])
    BY <1>2, <2>1, StaleSearching DEF WorkerInv
  <2>5. channel[w].kind = "request" => channel[w].base <= store.rev
    BY DEF WorkerInv, SoundRequest
  <2>6. pc[w] = "wait" => Waiting(store', run[w], channel[w])
    BY <1>2, <2>1, <2>5, StaleWaiting DEF WorkerInv
  <2>7. pc[w] = "planned" => run[w].plan.wave <= store'.head.wave + 1
    BY <1>2, <2>2 DEF WorkerInv
  <2>8. QED
    BY <2>3, <2>4, <2>6, <2>7 DEF WorkerInv
<1>3. QED
  BY <1>1, <1>2

\* The page worker.run builds names a cursor inside its plan or ends the wave.
LEMMA BuildPageSound ==
  ASSUME NEW r \in RunType, NEW outcome \in {"yield", "quiet", "failed"},
         NEW new \in SUBSET Url, NEW added \in Nat, NEW next \in Nat,
         r.at.query < QueryCount[r.plan.wave],
         new # {} <=> outcome = "yield", added > 0 => new # {}
  PROVE  SoundPage(BuildPage(r, outcome, new, added, next))
<1> DEFINE tickets == r.tickets + added
           position == NextPosition(r, tickets, next)
           safety == tickets >= MediaLimit \/ r.number >= MaxSourcePages
           streak == L!StreakAfter(r.streak, outcome)
           page == BuildPage(r, outcome, new, added, next)
<1>1. /\ page.wave = r.plan.wave /\ page.next = position /\ page.safety = safety
      /\ page.completed = (position = Start) /\ page.streak = streak
      /\ page.converged = (position = Start /\ ~safety /\ streak >= ZeroYield)
      /\ page.new = new /\ page.added = added /\ page.outcome = outcome
  BY DEF BuildPage
<1>2. safety => position = Start
  BY DEF NextPosition, HasQuery
<1>3. L!WellFormed(page)
  BY <1>1, <1>2 DEF L!WellFormed, Start
<1>4. r.plan.wave \in 1..MaxWave
  BY DEF RunType, Plan
<1>5. position # Start => position.query < QueryCount[r.plan.wave]
  BY DEF NextPosition, HasQuery
<1>6. QED
  BY <1>1, <1>3, <1>4, <1>5 DEF SoundPage

\* Either way a search ends, the run posts a page built from its locals.
LEMMA SearchPosts ==
  ASSUME TypeOK, NEW w \in Worker, SearchReturns(w) \/ SearchRaises(w),
         run[w].tickets <= MediaLimit
  PROVE  /\ pc[w] = "search"
         /\ \E outcome \in {"yield", "quiet", "failed"}, new \in SUBSET Url, added \in Nat,
               next \in Nat, known \in SUBSET Url :
              /\ new # {} <=> outcome = "yield"
              /\ added > 0 => new # {}
              /\ run[w].tickets + added <= MediaLimit
              /\ new \cap run[w].known = {}
              /\ run[w].known \cup new \subseteq known
              /\ Post(w, BuildPage(run[w], outcome, new, added, next), known)
<1>1. run[w].known \subseteq Url /\ run[w].at.provider \in Nat /\ run[w].tickets \in Nat
      /\ run[w].plan.wave \in 1..MaxWave
  BY DEF TypeOK, RunType, L!Cursor, Plan
<1>2. CASE SearchReturns(w)
  <2>1. PICK new \in SUBSET (Url \ run[w].known),
             added \in 0..(MediaLimit - run[w].tickets),
             next \in {0} \cup (run[w].at.provider + 1)..ProviderPages[run[w].plan.wave] :
          /\ added <= MediaPerSource * Cardinality(new)
          /\ Post(w,
                  BuildPage(run[w], IF new = {} THEN "quiet" ELSE "yield", new, added, next),
                  run[w].known \cup new)
    BY <1>2 DEF SearchReturns
  <2>2. ProviderPages[run[w].plan.wave] \in Nat
    BY <1>1, Queries
  <2>3. added \in Nat /\ next \in Nat /\ run[w].tickets + added <= MediaLimit
    BY <1>1, <2>1, <2>2, Limits
  <2>4. new = {} => added = 0
    <3>1. new = {} => Cardinality(new) = 0
      BY FS_EmptySet
    <3>2. QED
      BY <2>1, <2>3, <3>1, Limits
  <2>5. /\ pc[w] = "search"
        /\ new \in SUBSET Url /\ new \cap run[w].known = {}
        /\ run[w].known \cup new \in SUBSET Url
    BY <1>1, <1>2, <2>1 DEF SearchReturns
  <2>6. CASE new = {}
    <3>1. Post(w, BuildPage(run[w], "quiet", new, added, next), run[w].known \cup new)
      BY <2>1, <2>6
    <3>2. (added > 0 => new # {}) /\ (new # {} <=> "quiet" = "yield")
      BY <2>4, <2>6
    <3>3. QED
      BY <2>3, <2>5, <3>1, <3>2, Zenon
  <2>7. CASE new # {}
    <3>1. Post(w, BuildPage(run[w], "yield", new, added, next), run[w].known \cup new)
      BY <2>1, <2>7
    <3>2. QED
      BY <2>3, <2>5, <2>7, <3>1
  <2>8. QED
    BY <2>6, <2>7
<1>3. CASE SearchRaises(w)
  <2>1. PICK touched \in SUBSET (Url \ run[w].known) :
          Post(w, BuildPage(run[w], "failed", {}, 0, run[w].at.provider),
               run[w].known \cup touched)
    BY <1>3 DEF SearchRaises
  <2>2. pc[w] = "search"
    BY <1>3 DEF SearchRaises
  <2>3. run[w].known \cup touched \in SUBSET Url /\ {} \in SUBSET Url
    BY <1>1, <2>1
  <2>4. run[w].tickets + 0 <= MediaLimit
    BY <1>1
  <2>5. QED
    BY <1>1, <2>1, <2>2, <2>3, <2>4
<1>4. QED
  BY <1>2, <1>3

\* A page built from locals that agree with the record extends it.
LEMMA BuildPageExtends ==
  ASSUME NEW s, NEW r \in RunType, Current(s, r),
         NEW outcome \in {"yield", "quiet", "failed"},
         NEW new \in SUBSET Url, NEW added \in Nat, NEW next \in Nat,
         new \cap r.known = {}, r.tickets + added <= MediaLimit,
         SoundPage(BuildPage(r, outcome, new, added, next))
  PROVE  Extends(s, BuildPage(r, outcome, new, added, next))
<1> DEFINE page == BuildPage(r, outcome, new, added, next)
<1>1. /\ page.wave = r.plan.wave /\ page.focus = r.plan.focus
      /\ page.inputs = r.plan.inputs /\ page.number = r.number /\ page.cursor = r.at
      /\ page.streak = L!StreakAfter(r.streak, outcome)
      /\ page.new = new /\ page.added = added /\ page.outcome = outcome
  BY DEF BuildPage
<1>2. CASE ~s.head.completed
  <2>1. /\ SamePlan(s, r.plan) /\ r.number > s.head.number
        /\ r.at = s.head.next /\ r.streak = s.head.streak
    BY <1>2 DEF Current
  <2>2. L!Continues(s.head, page)
    BY <1>1, <1>2, <2>1 DEF L!Continues, SamePlan
  <2>3. QED
    BY <1>1, <2>2 DEF Extends, Current, L!Follows, SoundPage
<1>3. CASE s.head.completed
  <2>1. r.plan.wave = s.head.wave + 1 /\ r.number = 1 /\ r.at = Start /\ r.streak = 0
    BY <1>3 DEF Current
  <2>2. L!Opens(s.head, page)
    BY <1>1, <1>3, <2>1 DEF L!Opens, Start
  <2>3. QED
    BY <1>1, <2>2 DEF Extends, Current, L!Follows, SoundPage
<1>4. QED
  BY <1>2, <1>3

\* A sound request the backend accepts leaves a sound record.
LEMMA CommitSound ==
  ASSUME TypeOK, SoundStore(store), NEW q \in Requests, SoundRequest(store, q), Commit(q)
  PROVE  /\ SoundStore(store')
         /\ store'.rev = store.rev + 1
         /\ store'.head = q.page
         /\ store'.sources = store.sources \cup q.page.new
         /\ store'.tickets = store.tickets + q.page.added
         /\ q.page.number <= store'.pages
         /\ store'.head.wave \in Nat /\ store.head.wave <= store'.head.wave
         /\ q.base = store.rev /\ Extends(store, q.page)
<1>1. /\ q.base = store.rev
      /\ store'.rev = store.rev + 1
      /\ store'.head = q.page
      /\ store'.pages = IF PagesSpanWaves \/ q.page.wave = store.head.wave
                        THEN store.pages + 1 ELSE 1
      /\ store'.sources = store.sources \cup q.page.new
      /\ store'.tickets = store.tickets + q.page.added
  BY DEF Commit, Accepts
<1>2. Extends(store, q.page)
  BY <1>1 DEF SoundRequest
<1>3. /\ store.head.wave \in Nat /\ store.pages \in Nat
      /\ q.page.wave \in Nat /\ q.page.number \in Nat
  BY DEF TypeOK, Requests, Page, L!Page
<1>4. L!Continues(store.head, q.page) \/ L!Opens(store.head, q.page)
  BY <1>2 DEF Extends, L!Follows
<1>5. store.head.wave <= q.page.wave
  BY <1>3, <1>4 DEF L!Continues, L!Opens
<1>6. q.page.number <= store'.pages
  <2>1. CASE L!Continues(store.head, q.page)
    BY <1>1, <1>2, <1>3, <2>1 DEF L!Continues, Extends
  <2>2. CASE L!Opens(store.head, q.page)
    BY <1>1, <1>3, <2>2 DEF L!Opens
  <2>3. QED
    BY <1>4, <2>1, <2>2
<1>7. SoundStore(store')
  BY <1>1, <1>2, <1>6 DEF SoundStore, SoundRequest, SoundPage, Extends
<1>8. QED
  BY <1>1, <1>2, <1>3, <1>5, <1>6, <1>7

LEMMA InvInit == Init => IInv
<1> SUFFICES ASSUME Init PROVE IInv
  OBVIOUS
<1>1. SoundStore(store)
  BY Limits DEF Init, SoundStore, L!NoProgress
<1>2. ASSUME NEW w \in Worker PROVE WorkerInv(w)
  BY DEF Init, WorkerInv, Quiet
<1>3. QED
  BY <1>1, <1>2, TypeInit DEF IInv, Init

\* A step of one worker that leaves the record alone has only that worker's part
\* to preserve.
LEMMA OwnStep ==
  ASSUME IInv, TypeOK', NEW w \in Worker, store' = store,
         pc' = [pc EXCEPT ![w] = pc'[w]], run' = [run EXCEPT ![w] = run'[w]],
         channel' = [channel EXCEPT ![w] = channel'[w]],
         orphans' \subseteq orphans \cup {q \in {channel[w]} : q.kind = "request"},
         WorkerInv(w)'
  PROVE  IInv'
<1>1. ASSUME NEW v \in Worker PROVE WorkerInv(v)'
  <2>1. CASE v # w
    <3>1. pc'[v] = pc[v] /\ run'[v] = run[v] /\ channel'[v] = channel[v]
      BY <2>1 DEF IInv, TypeOK
    <3>2. QED
      BY <3>1, Bystander DEF IInv
  <2>2. QED
    BY <2>1
<1>2. ASSUME NEW q \in orphans' PROVE SoundRequest(store', q)
  BY DEF IInv, WorkerInv
<1>3. QED
  BY <1>1, <1>2 DEF IInv

\* A step that moves the record on leaves every other actor with a stale base.
LEMMA StoreStep ==
  ASSUME IInv, TypeOK',
         store'.rev \in Nat, store.rev < store'.rev,
         store'.head.wave \in Nat, store.head.wave <= store'.head.wave,
         SoundStore(store'), orphans' \subseteq orphans,
         \A v \in Worker :
           \/ pc'[v] = pc[v] /\ run'[v] = run[v] /\ channel'[v] = channel[v]
           \/ WorkerInv(v)'
  PROVE  IInv'
<1>1. ASSUME NEW v \in Worker PROVE WorkerInv(v)'
  BY Bystander DEF IInv
<1>2. ASSUME NEW q \in orphans' PROVE SoundRequest(store', q)
  <2>1. q \in Requests /\ store.rev \in Nat /\ SoundRequest(store, q)
    BY DEF IInv, TypeOK
  <2>2. QED
    BY <2>1, StaleRequest
<1>3. QED
  BY <1>1, <1>2 DEF IInv

LEMMA AbandonSound ==
  ASSUME IInv, TypeOK', NEW w \in Worker, Abandon(w), store' = store,
         orphans' \subseteq orphans \cup {q \in {channel[w]} : q.kind = "request"}
  PROVE  IInv'
<1>1. pc'[w] = "idle" /\ channel'[w].kind = "none"
  BY DEF Abandon, IInv, TypeOK, Quiet
<1>2. WorkerInv(w)'
  BY <1>1 DEF WorkerInv
<1>3. /\ pc' = [pc EXCEPT ![w] = pc'[w]] /\ run' = [run EXCEPT ![w] = run'[w]]
      /\ channel' = [channel EXCEPT ![w] = channel'[w]]
  BY DEF Abandon, IInv, TypeOK
<1>4. QED
  BY <1>2, <1>3, OwnStep

LEMMA InvNext == IInv /\ [Next]_vars => IInv'
<1> SUFFICES ASSUME IInv, [Next]_vars PROVE IInv'
  OBVIOUS
<1>t. TypeOK /\ TypeOK'
  BY TypeNext DEF IInv
<1>1. ASSUME NEW w \in Worker, BeginRequest(w) \/ NextCycle(w) PROVE IInv'
  <2>1. /\ pc[w] \in {"idle", "reread"} /\ pc' = [pc EXCEPT ![w] = "planned"]
        /\ UNCHANGED <<store, channel, orphans>>
    BY <1>1 DEF BeginRequest, NextCycle
  <2>2. run' = [run EXCEPT ![w] = run'[w]] /\ run'[w].plan = PlanFor(store)
    <3>1. CASE BeginRequest(w)
      <4>1. run' = [run EXCEPT ![w] = [NoRun EXCEPT !.plan = PlanFor(store)]]
        BY <3>1 DEF BeginRequest
      <4>2. [NoRun EXCEPT !.plan = PlanFor(store)].plan = PlanFor(store)
        BY DEF NoRun
      <4>3. QED
        BY <1>t, <4>1, <4>2 DEF TypeOK
    <3>2. CASE NextCycle(w)
      <4>1. run' = [run EXCEPT ![w] = [run[w] EXCEPT !.plan = PlanFor(store)]]
        BY <1>t, <3>2 DEF NextCycle, TypeOK
      <4>2. [run[w] EXCEPT !.plan = PlanFor(store)].plan = PlanFor(store)
        BY <1>t DEF TypeOK, RunType
      <4>3. QED
        BY <1>t, <4>1, <4>2 DEF TypeOK
    <3>3. QED
      BY <1>1, <3>1, <3>2
  <2>3. PlanFor(store).wave <= store.head.wave + 1
    BY <1>t, Limits DEF PlanFor, TypeOK, Page, L!Page
  <2>4. WorkerInv(w)'
    BY <1>t, <2>1, <2>2, <2>3 DEF WorkerInv, IInv, TypeOK
  <2>5. QED
    BY <1>t, <2>1, <2>2, <2>4, OwnStep DEF TypeOK
<1>2. ASSUME NEW w \in Worker, RefusePlan(w) \/ ReturnCompleted(w) \/ StopCycling(w)
      PROVE  IInv'
  <2>1. /\ pc' = [pc EXCEPT ![w] = pc'[w]] /\ pc'[w] \in {"idle", "reread"}
        /\ run' = [run EXCEPT ![w] = run'[w]] /\ UNCHANGED <<store, channel, orphans>>
    BY <1>2, <1>t DEF RefusePlan, ReturnCompleted, StopCycling, Returned, TypeOK
  <2>2. WorkerInv(w)'
    BY <2>1 DEF WorkerInv, IInv
  <2>3. QED
    BY <1>t, <2>1, <2>2, OwnStep DEF TypeOK
<1>3. ASSUME NEW w \in Worker, StartRun(w) PROVE IInv'
  <2> DEFINE r == run'[w]
             resume == SamePlan(store, run[w].plan)
  <2>1. /\ pc[w] = "planned" /\ pc' = [pc EXCEPT ![w] = "search"]
        /\ run' = [run EXCEPT ![w] = r] /\ UNCHANGED <<store, channel, orphans>>
    BY <1>3, <1>t DEF StartRun, TypeOK
  <2>2. /\ r.plan = run[w].plan /\ r.rev = store.rev
        /\ r.at = (IF resume THEN store.head.next ELSE Start)
        /\ r.number = (IF resume THEN store.pages + 1 ELSE 1)
        /\ r.known = store.sources /\ r.tickets = store.tickets
        /\ r.streak = (IF resume THEN store.head.streak ELSE 0)
    BY <1>3, <1>t DEF StartRun, TypeOK
  <2>3. /\ store.head.wave \in Nat /\ store.head.number \in Nat /\ store.pages \in Nat
        /\ store.rev \in Nat /\ run[w].plan.wave \in 1..MaxWave
    BY <1>t, Limits DEF TypeOK, Page, L!Page, RunType, Plan
  <2>4. SoundStore(store) /\ run[w].plan.wave <= store.head.wave + 1
    BY <2>1 DEF IInv, WorkerInv
  <2>5. ASSUME resume PROVE WorkerInv(w)'
    <3>1. ~store.head.completed
      BY <1>3, <2>5 DEF StartRun
    <3>2. Current(store, r)
      BY <2>2, <2>3, <2>4, <2>5, <3>1 DEF Current, SoundStore
    <3>3. r.at.query < QueryCount[r.plan.wave]
      BY <2>2, <2>4, <2>5, <3>1 DEF SoundStore, SamePlan
    <3>4. QED
      BY <1>t, <2>1, <2>2, <2>3, <2>4, <3>2, <3>3
      DEF WorkerInv, Searching, SoundStore, IInv, TypeOK
  <2>6. ASSUME ~resume PROVE WorkerInv(w)'
    <3>1. store.head.completed /\ run[w].plan.wave = store.head.wave + 1
      <4>1. CASE store.head.wave = 0
        BY <2>3, <2>4, <4>1 DEF SoundStore
      <4>2. CASE store.head.wave # 0
        BY <1>3, <2>6, <4>2 DEF StartRun, MayReplace, WaveDue
      <4>3. QED
        BY <4>1, <4>2
    <3>2. Current(store, r)
      BY <2>2, <2>3, <2>6, <3>1 DEF Current
    <3>3. r.at.query < QueryCount[r.plan.wave]
      BY <2>2, <2>3, <2>6, Queries DEF Start, L!Start
    <3>4. QED
      BY <1>t, <2>1, <2>2, <2>3, <2>4, <3>2, <3>3
      DEF WorkerInv, Searching, SoundStore, IInv, TypeOK
  <2>7. WorkerInv(w)'
    BY <2>5, <2>6
  <2>8. QED
    BY <1>t, <2>1, <2>7, OwnStep DEF TypeOK
<1>4. ASSUME NEW w \in Worker, SearchReturns(w) \/ SearchRaises(w) PROVE IInv'
  <2>1. pc[w] = "search" /\ run[w] \in RunType /\ Searching(store, run[w])
    <3>1. pc[w] = "search"
      BY <1>4 DEF SearchReturns, SearchRaises
    <3>2. QED
      BY <1>t, <3>1 DEF IInv, WorkerInv, TypeOK
  <2>2. PICK outcome \in {"yield", "quiet", "failed"}, new \in SUBSET Url, added \in Nat,
             next \in Nat, known \in SUBSET Url :
          /\ new # {} <=> outcome = "yield"
          /\ added > 0 => new # {}
          /\ run[w].tickets + added <= MediaLimit
          /\ new \cap run[w].known = {}
          /\ run[w].known \cup new \subseteq known
          /\ Post(w, BuildPage(run[w], outcome, new, added, next), known)
    BY <1>t, <1>4, <2>1, SearchPosts DEF Searching
  <2> DEFINE page == BuildPage(run[w], outcome, new, added, next)
             r == run'[w]
  <2>3. page \in Page /\ SoundPage(page)
    BY <2>1, <2>2, BuildPageType, BuildPageSound DEF Searching
  <2>4. /\ pc' = [pc EXCEPT ![w] = "wait"]
        /\ run' = [run EXCEPT ![w] = r]
        /\ r.page = page /\ r.known = known /\ r.tickets = run[w].tickets + page.added
        /\ r.streak = page.streak /\ r.plan = run[w].plan /\ r.number = run[w].number
        /\ r.at = run[w].at
        /\ channel' = [channel EXCEPT ![w] = Request(page, run[w].rev)]
        /\ UNCHANGED <<store, orphans>>
    <3> HIDE DEF page
    <3>1. Post(w, page, known)
      BY <2>2 DEF page
    <3>2. QED
      BY <1>t, <2>1, <3>1 DEF Post, TypeOK, RunType
  <2>5. /\ <<page.wave, page.focus, page.inputs>> =
             <<run[w].plan.wave, run[w].plan.focus, run[w].plan.inputs>>
        /\ page.number = run[w].number /\ page.new = new /\ page.added = added
    BY DEF BuildPage
  <2>6. Posted(r)
    <3> HIDE DEF page
    <3>1. QED
      BY <2>1, <2>2, <2>3, <2>4, <2>5 DEF Posted, Searching
  <2>7. run[w].rev = store.rev => Extends(store, page)
    BY <2>1, <2>2, <2>3, BuildPageExtends DEF Searching
  <2>8. channel'[w] = [kind |-> "request", page |-> page, base |-> run[w].rev]
    <3> HIDE DEF page
    <3>1. QED
      BY <1>t, <2>4 DEF TypeOK, Request
  <2>9. WorkerInv(w)'
    <3> HIDE DEF page
    <3>1. SoundRequest(store, channel'[w])
      BY <2>1, <2>3, <2>7, <2>8 DEF SoundRequest, Searching
    <3>2. Waiting(store, r, channel'[w])
      BY <2>1, <2>2, <2>4, <2>5, <2>6, <2>8 DEF Waiting, Searching, Current
    <3>3. pc'[w] = "wait" /\ store' = store
      BY <1>t, <2>4 DEF TypeOK
    <3>4. QED
      BY <3>1, <3>2, <3>3 DEF WorkerInv
  <2>10. QED
    <3> HIDE DEF page
    <3>1. QED
      BY <1>t, <2>4, <2>9, OwnStep DEF TypeOK
<1>5. ASSUME NEW w \in Worker, ReceiveReceipt(w) PROVE IInv'
  <2> DEFINE r == run'[w]
             done == run[w].page.completed \/ run[w].published + 1 = MaxPagesPerRun
  <2>1. /\ pc[w] = "wait" /\ channel[w].kind = "receipt"
        /\ channel' = [channel EXCEPT ![w] = Quiet]
        /\ pc' = [pc EXCEPT ![w] = IF done THEN Returned ELSE "search"]
        /\ UNCHANGED <<store, orphans>>
    BY <1>5 DEF ReceiveReceipt
  <2>2. run' = [run EXCEPT ![w] = r]
    BY <1>t, <1>5 DEF ReceiveReceipt, TypeOK
  <2>3. ASSUME ~done PROVE WorkerInv(w)'
    <3>1. r = [run[w] EXCEPT !.rev = channel[w].rev,
                             !.published = run[w].published + 1,
                             !.number = run[w].number + 1,
                             !.at = run[w].page.next,
                             !.page = NoRun.page]
      BY <1>t, <1>5, <2>3 DEF ReceiveReceipt, TypeOK
    <3>2. run[w] \in RunType
      BY <1>t DEF TypeOK
    <3>3. /\ r.rev = channel[w].rev /\ r.number = run[w].number + 1
          /\ r.at = run[w].page.next /\ r.plan = run[w].plan
          /\ r.known = run[w].known /\ r.tickets = run[w].tickets
          /\ r.streak = run[w].streak
      BY <3>1, <3>2 DEF RunType
    <3>4. Waiting(store, run[w], channel[w]) /\ Posted(run[w])
      BY <2>1 DEF IInv, WorkerInv, Waiting
    <3>5. ~run[w].page.completed
      BY <2>3
    <3>6. r.tickets <= MediaLimit /\ r.at.query < QueryCount[r.plan.wave]
      BY <3>3, <3>4, <3>5 DEF Posted, SoundPage
    <3>7. r.rev = store.rev => Current(store, r)
      <4>1. SUFFICES ASSUME channel[w].rev = store.rev PROVE Current(store, r)
        BY <3>3
      <4>2. /\ store.head = run[w].page /\ store.sources \subseteq run[w].known
            /\ run[w].tickets = store.tickets /\ run[w].number <= store.pages
        BY <2>1, <3>4, <4>1 DEF Waiting
      <4>3. run[w].number \in Nat /\ store.pages \in Nat
        BY <1>t, <3>2 DEF RunType, TypeOK
      <4>4. QED
        BY <3>3, <3>4, <3>5, <4>2, <4>3 DEF Current, Posted, SamePlan
    <3>8. Searching(store, r)
      BY <2>1, <3>3, <3>4, <3>6, <3>7 DEF Searching, Waiting
    <3>9. pc'[w] = "search" /\ channel'[w].kind = "none" /\ store' = store
      BY <1>t, <2>1, <2>3 DEF TypeOK, Quiet
    <3>10. QED
      BY <3>8, <3>9 DEF WorkerInv
  <2>4. ASSUME done PROVE WorkerInv(w)'
    <3>1. pc'[w] = Returned /\ channel'[w].kind = "none"
      BY <1>t, <2>1, <2>4 DEF TypeOK, Quiet
    <3>2. QED
      BY <3>1 DEF WorkerInv, Returned
  <2>5. WorkerInv(w)'
    BY <2>3, <2>4
  <2>6. QED
    BY <1>t, <2>1, <2>2, <2>5, OwnStep DEF TypeOK
<1>6. ASSUME NEW w \in Worker, PublishRefused(w) PROVE IInv'
  BY <1>t, <1>6, AbandonSound DEF PublishRefused
<1>7. ASSUME NEW w \in Worker, PublishTimesOut(w) \/ Crash(w) PROVE IInv'
  <2>1. Abandon(w) /\ Unanswered(w) /\ store' = store
    BY <1>7 DEF PublishTimesOut, Crash
  <2>2. orphans' \subseteq orphans \cup {q \in {channel[w]} : q.kind = "request"}
    BY <2>1 DEF Unanswered
  <2>3. QED
    BY <1>t, <2>1, <2>2, AbandonSound
<1>8. ASSUME NEW w \in Worker, BackendAccepts(w) PROVE IInv'
  <2> DEFINE q == channel[w]
  <2>1. q \in Requests /\ SoundRequest(store, q)
    BY <1>t, <1>8, ChannelRequest DEF BackendAccepts, IInv, WorkerInv
  <2>2. /\ Commit(q) /\ SoundStore(store)
        /\ channel' = [channel EXCEPT ![w] = Receipt(store.rev + 1)]
        /\ UNCHANGED <<pc, run, orphans>>
    BY <1>8 DEF BackendAccepts, IInv
  <2>3. /\ SoundStore(store') /\ store'.rev = store.rev + 1 /\ store'.head = q.page
        /\ store'.sources = store.sources \cup q.page.new
        /\ store'.tickets = store.tickets + q.page.added
        /\ q.page.number <= store'.pages
        /\ store'.head.wave \in Nat /\ store.head.wave <= store'.head.wave
        /\ q.base = store.rev
    BY <1>t, <2>1, <2>2, CommitSound
  <2>4. channel'[w] = [kind |-> "receipt", rev |-> store'.rev]
    BY <1>t, <2>2, <2>3 DEF TypeOK, Receipt
  <2>5. WorkerInv(w)'
    <3>1. CASE pc[w] = "wait"
      <4>1. Waiting(store, run[w], q)
        BY <3>1 DEF IInv, WorkerInv
      <4>2. q.kind = "request" /\ store.rev \in Nat
        BY <1>t, <1>8 DEF BackendAccepts, TypeOK
      <4>3. /\ Posted(run[w]) /\ q.page = run[w].page
            /\ store.sources \cup run[w].page.new \subseteq run[w].known
            /\ run[w].tickets = store.tickets + run[w].page.added
        BY <2>3, <4>1, <4>2 DEF Waiting
      <4>4. run[w].number <= store'.pages
        BY <2>3, <4>3 DEF Posted
      <4>5. Waiting(store', run[w], channel'[w])
        BY <2>3, <2>4, <4>2, <4>3, <4>4 DEF Waiting
      <4>6. QED
        BY <2>2, <2>4, <3>1, <4>5 DEF WorkerInv
    <3>2. CASE pc[w] # "wait"
      <4>1. store.rev \in Nat /\ run[w] \in RunType /\ store.head.wave \in Nat
        BY <1>t DEF TypeOK, Page, L!Page
      <4>2. run[w].plan.wave \in Nat
        BY <4>1, Limits DEF RunType, Plan
      <4>3. pc[w] = "search" => Searching(store', run[w])
        BY <2>3, <4>1, StaleSearching DEF IInv, WorkerInv
      <4>4. pc[w] = "planned" => run[w].plan.wave <= store'.head.wave + 1
        BY <2>3, <4>1, <4>2 DEF IInv, WorkerInv
      <4>5. QED
        BY <2>2, <2>4, <3>2, <4>3, <4>4 DEF WorkerInv
    <3>3. QED
      BY <3>1, <3>2
  <2>6. \A v \in Worker \ {w} :
          pc'[v] = pc[v] /\ run'[v] = run[v] /\ channel'[v] = channel[v]
    BY <1>t, <2>2 DEF TypeOK
  <2>7. store'.rev \in Nat /\ store.rev < store'.rev
    BY <1>t, <2>3 DEF TypeOK
  <2>8. QED
    BY <1>t, <2>2, <2>3, <2>5, <2>6, <2>7, StoreStep
<1>9. ASSUME NEW w \in Worker, BackendRejects(w) PROVE IInv'
  <2>1. /\ channel' = [channel EXCEPT ![w] = Conflict]
        /\ UNCHANGED <<store, pc, run, orphans>> /\ channel'[w] = Conflict
    BY <1>t, <1>9 DEF BackendRejects, TypeOK
  <2>2. pc[w] = "wait" => Posted(run[w])
    BY DEF IInv, WorkerInv, Waiting
  <2>3. WorkerInv(w)'
    BY <2>1, <2>2 DEF IInv, WorkerInv, Waiting, Conflict
  <2>4. QED
    BY <1>t, <2>1, <2>3, OwnStep DEF TypeOK
<1>10. ASSUME NEW q \in orphans, OrphanArrives(q) PROVE IInv'
  <2>1. q \in Requests /\ SoundRequest(store, q) /\ SoundStore(store)
    BY <1>t DEF IInv, TypeOK
  <2>2. Commit(q) /\ UNCHANGED <<pc, run, channel>> /\ orphans' \subseteq orphans
    BY <1>10 DEF OrphanArrives
  <2>3. /\ SoundStore(store') /\ store'.rev = store.rev + 1
        /\ store'.head.wave \in Nat /\ store.head.wave <= store'.head.wave
    BY <1>t, <2>1, <2>2, CommitSound
  <2>4. store'.rev \in Nat /\ store.rev < store'.rev
    BY <1>t, <2>3 DEF TypeOK
  <2>5. QED
    BY <1>t, <2>2, <2>3, <2>4, StoreStep
<1>11. ASSUME NEW q \in orphans, OrphanVanishes(q) PROVE IInv'
  <2>1. UNCHANGED <<store, pc, run, channel>> /\ orphans' \subseteq orphans
    BY <1>11 DEF OrphanVanishes
  <2>2. QED
    BY <1>t, <2>1 DEF IInv, WorkerInv
<1>12. CASE ForeignUpdate
  <2>1. PICK c \in Coverage : store' = [store EXCEPT !.rev = @ + 1, !.coverage = c]
    BY <1>12 DEF ForeignUpdate
  <2>2. UNCHANGED <<pc, run, channel, orphans>>
    BY <1>12 DEF ForeignUpdate
  <2>3. /\ store'.rev = store.rev + 1 /\ store'.head = store.head
        /\ store'.pages = store.pages /\ store'.tickets = store.tickets
    BY <1>t, <2>1 DEF TypeOK
  <2>4. SoundStore(store')
    BY <2>3 DEF SoundStore, IInv
  <2>5. /\ store'.rev \in Nat /\ store.rev < store'.rev
        /\ store'.head.wave \in Nat /\ store.head.wave <= store'.head.wave
    BY <1>t, <2>3 DEF TypeOK, Page, L!Page
  <2>6. QED
    BY <1>t, <2>2, <2>4, <2>5, StoreStep
<1>13. CASE PlanInputsChange
  <2>1. UNCHANGED <<store, pc, run, channel, orphans>>
    BY <1>13 DEF PlanInputsChange
  <2>2. QED
    BY <1>t, <2>1 DEF IInv, WorkerInv
<1>14. CASE UNCHANGED vars
  BY <1>t, <1>14 DEF vars, IInv, WorkerInv
<1>15. QED
  BY <1>1, <1>2, <1>3, <1>4, <1>5, <1>6, <1>7, <1>8, <1>9, <1>10, <1>11, <1>12, <1>13, <1>14
  DEF Next, WorkerStep, BackendStep

LEMMA Invariance == Spec => []IInv
<1>1. Init => IInv
  BY InvInit
<1>2. IInv /\ [Next]_vars => IInv'
  BY InvNext
<1>3. QED
  BY <1>1, <1>2, PTL DEF Spec

-------------------------------------------------------------------------------
(* What follows.                                                           *)

\* Whatever crashed, timed out or competed, no publish request in flight that the
\* backend would still accept can break the chain of durable pages.
THEOREM ChainPreserved == Spec => []RequestsExtendChain
<1>1. IInv => RequestsExtendChain
  <2> SUFFICES ASSUME IInv, NEW q \in InFlight, q.base = store.rev
               PROVE  /\ L!Follows(store.head, q.page)
                      /\ q.page.new \cap store.sources = {}
                      /\ store.tickets + q.page.added <= MediaLimit
    BY DEF RequestsExtendChain
  <2>1. SoundRequest(store, q)
    BY DEF InFlight, IInv, WorkerInv
  <2>2. QED
    BY <2>1 DEF SoundRequest, Extends
<1>2. QED
  BY <1>1, Invariance, PTL

\* The loop of worker.run never stands past its plan's queries: the branch for an
\* exhausted query list cannot be taken.
THEOREM CursorCorrect == Spec => []CursorInPlan
<1>1. IInv => CursorInPlan
  BY DEF IInv, WorkerInv, Searching, Waiting, Posted, CursorInPlan
<1>2. QED
  BY <1>1, Invariance, PTL

\* The pages the service makes durable, under every interleaving, crash and lost
\* answer, are the chain ResearchLedger promises.
THEOREM Refinement == Spec => LedgerSpec
<1>1. Init => L!Init
  <2>1. Initial \in Focus
    BY DEF Focus
  <2>2. QED
    BY <2>1 DEF Init, L!Init
<1>2. ASSUME IInv, NEW q \in Requests, SoundRequest(store, q), Commit(q)
      PROVE  L!Next
  <2>1. /\ store'.head = q.page
        /\ store'.sources = store.sources \cup q.page.new
        /\ store'.tickets = store.tickets + q.page.added
        /\ Extends(store, q.page)
    BY <1>2, CommitSound DEF IInv
  <2>2. q.page \in Page
    BY DEF Requests
  <2>3. QED
    BY <1>2, <2>1, <2>2 DEF L!Next, L!AppendPage, Extends, SoundRequest, SoundPage, Page
<1>3. IInv /\ [Next]_vars => [L!Next]_(L!ledgerVars)
  <2> SUFFICES ASSUME IInv, [Next]_vars PROVE L!Next \/ UNCHANGED L!ledgerVars
    OBVIOUS
  <2>1. ASSUME NEW w \in Worker, BackendAccepts(w) PROVE L!Next
    <3>1. channel[w] \in Requests /\ SoundRequest(store, channel[w]) /\ Commit(channel[w])
      BY <2>1, ChannelRequest DEF BackendAccepts, IInv, WorkerInv
    <3>2. QED
      BY <1>2, <3>1
  <2>2. ASSUME NEW q \in orphans, OrphanArrives(q) PROVE L!Next
    <3>1. q \in Requests /\ SoundRequest(store, q) /\ Commit(q)
      BY <2>2 DEF OrphanArrives, IInv, TypeOK
    <3>2. QED
      BY <1>2, <3>1
  <2>3. CASE ForeignUpdate
    <3>1. PICK c \in Coverage : store' = [store EXCEPT !.rev = @ + 1, !.coverage = c]
      BY <2>3 DEF ForeignUpdate
    <3>2. QED
      BY <3>1 DEF IInv, TypeOK, L!ledgerVars
  <2>4. ASSUME store' = store PROVE UNCHANGED L!ledgerVars
    BY <2>4 DEF L!ledgerVars
  <2>5. ASSUME NEW w \in Worker, SearchReturns(w) \/ SearchRaises(w) PROVE store' = store
    <3>1. \E page, known : Post(w, page, known)
      BY <2>5, Zenon DEF SearchReturns, SearchRaises
    <3>2. QED
      BY <3>1 DEF Post
  <2>6. QED
    BY <2>1, <2>2, <2>3, <2>4, <2>5
    DEF Next, WorkerStep, BackendStep, BeginRequest, RefusePlan, ReturnCompleted, StartRun,
        ReceiveReceipt, PublishRefused, StopCycling, NextCycle, BackendRejects,
        PublishTimesOut, Crash, OrphanVanishes, PlanInputsChange, vars
<1>4. QED
  BY <1>1, <1>3, Invariance, PTL DEF Spec, LedgerSpec, L!Spec

\* For an incident day the planner and the worker agree: the worker refuses a plan
\* only if the target or the plan's inputs moved on since it was built.
THEOREM IncidentPlansAccepted ==
  ASSUME TargetKind = "incident_day"
  PROVE  Spec => RefusalExplained
<1>1. ASSUME NEW w \in Worker, RefusePlan(w), run[w].plan = PlanFor(store)
      PROVE  store.head.inputs # inputs
  <2>1. ~SamePlan(store, PlanFor(store)) /\ ~MayReplace(store, PlanFor(store))
    BY <1>1 DEF RefusePlan
  <2>2. store.head.wave # 0
    BY <2>1 DEF MayReplace
  <2>3. ~WaveOpens(store)
    BY <2>1, <2>2 DEF MayReplace, PlanFor, WaveOpens
  <2>4. PlanFor(store) = [wave |-> store.head.wave, focus |-> store.head.focus,
                          inputs |-> inputs]
    BY <2>2, <2>3 DEF PlanFor
  <2>5. QED
    BY <2>1, <2>4 DEF SamePlan
<1>2. [Next]_vars =>
        [\A w \in Worker :
           RefusePlan(w) => run[w].plan # PlanFor(store) \/ store.head.inputs # inputs]_vars
  BY <1>1
<1>3. QED
  BY <1>2, PTL DEF Spec, RefusalExplained
===============================================================================
