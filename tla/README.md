# TLA+ models of fireviewer-evidence-ingestion

This directory holds TLA+ modules for the services that acquire, analyse and
publish evidence for FireViewer, the TLC configurations that check them on small
instances, and TLAPS proofs about eight of the modules. `PROJECT.json` maps every
definition to the lines it translates.

    tlc -workers 2 -config SourceAcquisition_safety.cfg MCSourceAcquisition.tla
    tlapm SourceAcquisition_proofs.tla

Paths below are relative to `src/src/fireviewer_evidence_ingestion/`.

## 1. The system

Small HTTP services work on one *durable evidence target* (an incident day, or
an event candidate) which a backend outside this repository keeps. A service
reads the target, does slow and sometimes paid work, and publishes the result
with the revision it was built on; the backend commits it only if that revision
is still current. There is no other coordination between requests, replicas and
services, except a reservation object in S3 and one lock inside a process.

| Component | State it keeps | Operations |
|---|---|---|
| source acquisition worker (`mvp/research/source_acquisition.py`) | locals of a run: revision, cursor, page number, known urls/bodies/digests, ticket and video counts, zero-yield streak, paid analyses | `run`: validate the plan against the durable progress, resume or start, then for each page search, collect, build, publish, continue from the receipt; revoke the session in a `finally` |
| planner (`source_planner.py`) | none | `build`: wave, focus and identity of the plan, from progress and coverage |
| acquisition service (`source_acquisition_service.py`) | none between requests | `run_candidate` (one run), `run_analysis` (cycles until documented, safety limit, last wave, cycle or time limit) |
| public-media worker and service (`public_media_cpu*.py`) | locals of a run: revision, selection, attempts, outcomes | `run_analysis`: select, analyse each media, publish a batch for each |
| satellite CPU worker and asynchronous provider (`satellite_cpu.py`) | S3 reservation, request object, endpoint jobs | reserve, store, invoke, record, poll, publish |
| satellite service (`satellite_cpu_service.py`) | `observation_lock` | one handler per worker; a busy observation worker answers at once |
| satellite observation worker (`satellite_observations.py`) | locals of a call; openEO credits | choose by durable context, read, compute, publish |
| research service, agent, broker, client (`research_*.py`) | broker sessions, agent evidence, stored blobs | queue, configure, agent process, tool calls, revoke, answer |
| research RPC (`research_rpc.py`) | the bytes of two socket buffers | one request and one reply, framed by length |
| multimodal provider (`mvp/research/multimodal_evidence.py`) | a lot of paid calls per process, cached AWS credentials and their lock | reserve, exchange credentials, call Bedrock with repetitions |
| satellite corpora (`*_corpus.py`, `sentinel2_radiometry.py`) | one run of a command-line tool: selection, budgets, files | walk a catalogue, select pairs or versions, read within budgets |
| transcription, web search, surface areas | none | outbound calls |

Interactions: requests reach every service over a *threading* HTTP server (the
research service alone is single-threaded, over a Unix socket). Acquisition and
media runs fetch the web through a broker session. Media analysis works on what
acquisition has published; each of its commits moves the revision that
acquisition, media and satellite work all build on.

**What is hard.** Two requests on one target; a publication that timed out and
is committed later; a crash between two pages or between a paid call and its
record; a page that raises after it took evidence or spent money; two modules
(planner and worker) that decide the same thing apart; counters at their limit;
a session that must be revoked on every way out; a lock that must be released on
every way out; jobs that wait for each other. `PROJECT.json` lists these hazards at their
lines, each with the properties that cover it or the reason none does.

**What makes each component correct.**

- Acquisition: the durable pages form one chain of waves and cursors without a
  source twice and within the ticket limits; the worker accepts what the planner
  builds; requests end and targets settle; sessions end with their runs.
- Page collection: limits hold and nothing is taken twice, whatever pages raise;
  the paid budget is kept.
- Public media: attempts of one media are consecutive and stop at a success;
  nothing is committed while collection is open; what a receipt says is left is left.
- Satellite analysis: at most one caller invokes for one reservation; waits can
  be resumed; calls end; the artifacts of a day are all analysed.
- Satellite observations: no result id twice, credits are not spent twice without
  cause, the lock never sticks, remaining counts are right.
- Multimodal provider: a process pays for no more than its lot, but for answers
  that were lost; every attempt is signed with credentials that are still valid;
  the lock of the credentials is free again after every failure.
- Corpora: what the loops select is what a definition over the whole catalogue
  selects, nothing the cutoff forbids included; what a run reports is what it paid and wrote.
- Research: candidates cite pages the broker served and blobs that hold them;
  sessions end with jobs; every job is answered.

## 2. The modules

### ResearchLedger: the abstract promise

The durable record of a target as a chain of pages. Each page continues the wave
of its predecessor from the cursor it left, or opens the next wave after a
completed one; it brings only new sources, stays within the ticket limit and
carries the zero-yield streak its predecessors earned. `SourceAcquisition` implements it
with the mapping `head <- store.head, sources <- store.sources, tickets <- store.tickets`.

### MediaLedger and ObservationLedger: the same for the two analyses

The durable record of the other two writers, each as it may be seen from outside. In
`MediaLedger` the batches of a media are its attempts, numbered from one, made only of
a ticket of a closed collection, at most `MaxAttempts`, none after a success; between
them the collection may bring further pages. In `ObservationLedger` a target gains one
result at a time, of an artifact that it names at that very revision and that can
be read, beside the single reference its tickets give there, and the first with it. Neither
knows of calls, sessions, locks, late batches or crashes. `PublicMediaAnalysis` and `SatelliteObservations`
implement them by the identity mapping of the backend's variables.

### SourceAcquisition: requests, worker, planner, backend

One `Worker` is one HTTP request being served.

| Variable | In the code |
|---|---|
| `store` | the target in the backend: revision, progress record of the last page, sources, tickets, coverage |
| `inputs` | everything else a plan's identity hashes (label, day, registry, configuration), as a version |
| `pc`, `run` | where a request is, and the locals of `worker.run` and of the cycle loop |
| `channel` | its publication: request, receipt or conflict |
| `orphans` | publications still in flight whose sender has given up or died |
| `sessions` | broker sessions |
| `upsets` | bound on crashes, lost answers, foreign writes and changes of inputs |

`BeginRequest` is the first read with `PlanFor` (the planner's `build`).
`worker.run` reads the target a second time: `RefusePlan`, `ReturnCompleted`,
`StartRun`. A turn of the loop is `SearchReturns` or `SearchRaises` (which build
and post a page), then `ReceiveReceipt`, `PublishRefused` or `PublishTimesOut`. Between
cycles `run_analysis` does `StopCycling` or `NextCycle`. The backend's
`BackendAccepts`, `BackendRejects`, `OrphanArrives`, `OrphanVanishes` and
`ForeignUpdate` are external: the compare-and-set is taken from how the client
in the code uses it.

Two points of reading. The backend may count `page_count` over all waves or over
the last one: the code does not tell, so `PagesSpanWaves` is a constant. The
safety run takes the first reading, the liveness run the second, and the proofs
hold for both. And only some documentary gaps give a wave a focus of its own
(`_WEB_ACTIONABLE_FOCUS`): `WebGap` within `Gap`; any other gap opens a wave with
the focus of convergence.

### PageCollection: inside one page

What `SearchReturns` and `SearchRaises` take as given, in detail: links, articles, media files, the
multimodal call, and what each exception leaves in the run's `known` sets and
counters. Its invariant `PageAsPosted` is what `SourceAcquisition` assumes of a page.
A body and a digest are model values; a page's content may change between two
fetches.

A url has spellings. The code skips a link if it is a known url as the search spelled it
(line 416), but publishes, hashes into `source_id` and remembers `str(response.url)`, as
httpx writes it (506, 511, 531), and a later run remembers `str(source_url)` as it reads back
(733). The constants `Published` and `Restored` are these two conversions, any functions
of spellings; in the instance two links lead to one published url, which reads back in the other
spelling. A page found under a second spelling is therefore visited again; if its content
has changed it is taken again as the same source, and its media are counted from
zero, since `source_media` belongs to the visit. So `NothingTwice` and the limit per source in
`TicketsWithinLimits` are stated of a url that is `Plain`: one link alone leads to it and it
reads back as it is. Of the others the code promises neither; what holds for every
url is that no content is a source twice, no media file has two tickets, and the limits of
the target and of its videos are kept. What the backend makes of two sources with one
`source_id` is not in this repository (its receipt has a `duplicate_source_count`):
`Merges` lets it keep both or merge them in any way, and the properties hold for each.
`SourceAcquisition` and `ResearchLedger` speak of articles, a page with its content, which
is the identity that the posted page guarantees.

### PublicMediaAnalysis

`BeginRun` (read, select, open the session), `AnalyseMedia` (any outcome the
stages may journal), `Return`, the exchange of each batch with the backend, `Abort` (an
exception, a time-out or a crash; the batch may remain in `late`), and acquisition as
seen from here: `PublishPage`, which opens a wave, closes it, or does both at once
(a wave of a single page); `WaveEnds` is the page that closes an open wave.

### SatelliteAnalysis

One `Call` per HTTP call of any replica. Reserve (conditional put), inspect the
reservation, store the request, invoke, record, poll, publish, as separate steps
that crash or lose their answer separately; the AWS client sends an unanswered
request again (`total_max_attempts`), which each `...Unanswered` action models.
The reservation key is a hash of the request body, so an artifact stands for its
body. The worker's publication, also a compare-and-set, can be refused: that is one
outcome of `PublishUnanswered`.

### SatelliteObservations

Pure functions of tickets and batches say what is done in which context;
`Acquire` takes the lock without blocking; `Refuse`, `Replay`, `Start`, `OpenEo`
(twice for a Sentinel-1 pair), `Process`, `Publish` follow the code's early
returns; every end of a call releases the lock. Other replicas appear as
`OtherPublishes`, a restart with other credits as `Redeploy`. Done-ness counts
references of any collection, the computation only those of its own: both
readings are kept apart (`ReferenceOf`, `UsedReference`).

### ResearchSessions

Clients queue; the service runs one agent at a time between `Configure` and
`Revoke`; the broker serves each tool call in a thread which reads the session once (`Authorise`)
and then outlives session, agent and job (`Look`, `Fetch`, `StoreUnanswered`,
`ToolFails`). A client that times out changes nothing: its request stays queued.
Service, agent and broker are separate processes. `ServiceDies` may happen at any point of a
job: its clients lose their connections, the session configured stays in the broker,
and the agent, which nobody kills any more, may go on calling tools (`OrphanCallsTool`)
beside the jobs of the service started again (`Restart`).
`SessionsOfJobs` therefore counts: beside the session of the job being served there are at most
as many as answers were lost and services died.
Blobs are written without overwriting and outlive jobs, since a job for the same
research uses the same paths.

### RpcFrames: under one call of ResearchSessions

`ResearchSessions` takes an RPC as one step that is answered, fails or loses its
answer. This module is one call in detail: `SendCopies` and `SendReturns` are the
client's single `send` (its stream is unbuffered, and the count `send` returns is not
looked at), `Receive` its single `recv`, `ServerReads` and `ServerWrites` the
buffered loops of the server. Sizes are segments of which a socket buffer holds
only some.

### BedrockClient: under the multimodal call of PageCollection

`Reserve` takes a call of the lot, for good. `UseCached`, `AssumeRole`, `Assumed` and
`AssumeFails` are the exchange of credentials under the client's lock;
`Answered`, `AttemptRefused`, `AttemptFails`, `AnswerLost` are the outcomes of
one attempt, which the AWS client repeats up to `MaxAttempts`. `Tick` moves a clock
of ticks of 100 s, `Restart` is a new process with a new lot.
`PageCollection` sees of all this only whether a call returned and that it was paid.

### SatelliteCorpus: one run of a corpus command

One run for one of four sources over a catalogue chosen in `Init`: `ReadPage` walks the
catalogue; `CheckHeaders`, `SkipPost`, `PairPost`, `KeepFirst`, `Complement` are the
selection loops, fallbacks and lazily asked availability included; `BeginPair`, `RequestRaster`, `RasterRefused`,
`Materialise` and `ProductFails` read what was selected within the budgets of credits
and output; `ReadRaises` and `CatalogueRaises` leave the run. Products are numbered in the order the
code sorts them, and a footprint is a set of cells. The references it gives to
`SatelliteObservations` are of the collection their processor is for.

## 3. What the runs check

| Run | Instance | Shows |
|---|---|---|
| `acquisition_safety` | two requests, two waves (two queries; one query of two pages), one crash, lost answer, foreign write or change of inputs; 1.5 million states | `TypeOK`; `RequestsExtendChain`: whatever publication the backend would still accept, late ones included, extends the chain; `CursorInPlan`: the branch for an exhausted query list is not reachable; `SessionsOfRuns`; `LedgerSpec` (refinement); `RefusalExplained` |
| `acquisition_liveness` | two requests asked again and again, three coverages, no upsets | `RequestsEnd`; `TargetSettles` although requests refuse each other's pages and every search may fail |
| `collection` | three links, two of them to one published url that reads back in the other spelling; three bodies, four digests; limits of 3 media, 1 video, 2 per source, 2 analyses; three pages a run, and further runs | `TicketsWithinLimits`, `NothingTwice`, `PageAsPosted`; `HonestWithoutFailure`: as long as no page of a run raised, its budget is kept and what it rejects as a duplicate is one |
| `media` | two runs over a photo and a video, two attempts, one further wave of one page or two, one crash or late batch; 1.3 million states | `AttemptsInOrder`; `LedgerSpec` (refinement of `MediaLedger`); `ReceiptHonest`; `MediaSettles` |
| `satellite_jobs` | two calls over two artifacts, client repeats once, one poll, two upsets | `InvokesItsOwn`: who may still invoke has started all jobs there are, and an artifact costs no more jobs than one AWS request has attempts; `WaitIsResumable`: waits are for the reserved job, and what was published is its output; `CallsEnd`; `AllAnalysed` |
| `research` | two jobs of one research, two pages, one path, three tool calls, one loss, one death of the service | `CitedWasFetched`, `CitedMediaIsStored`, `SessionsOfJobs`, `JobsAnswered` |
| `observations` | two calls over a Sentinel-1 artifact with two possible references, a thermal product and one of a foreign collection, three upsets | `LedgerSpec` (refinement of `ObservationLedger`), `PaidOnce`, `RemainingHonest`, `AllObserved` |
| `bedrock` | two threads, a lot of three, four attempts, six ticks, one lost answer, one restart | `PaidWithinLots`, `SignedWithValid`, `CallsEnd` |
| `corpus` | all catalogues of six products on two tracks over two cells with at most one product that is not open to the cutoff, in up to two pages; credits for a pair and a half, output for one product | `PairsAsDefined`: the loops agree with a definition over the whole catalogue; `ReportHonest` |

Three further runs each end in a violation; they state what a comment, an
assertion or a limit of the repository says and the code does not do.

- `acquisition_candidate` / `RefusalExplained`: for an event candidate the planner opens
  wave 2 (a test asserts it), and the worker accepts next waves only for incident
  days, so every later request of an unconverged candidate ends in the same error.
- `satellite_duplicate` / `NoDuplicateJob`: the AWS client repeats
  `invoke_endpoint_async` below the reservation, so a lost answer yields a second paid job.
- `rpc` / `FrameDelivered`: a frame within `MAX_RPC_BYTES` that does not fit the
  socket buffer is sent in part and then waited for, or read in part and taken for broken.

What the code does and no property calls wrong, seen while modelling:

- A first page that fails is journaled as retryable, and the loop moves on to the next
  query; nothing in the wave comes back to it.
- Paid calls of a page that raises are not counted in the budget of the run, and the
  content hash of an article outlives the page that dropped it, so that the same article
  elsewhere is rejected as belonging to the evidence set. `HonestWithoutFailure`
  is therefore stated of runs without such a page.
- The lot of paid Bedrock calls is one of the process, not of a run; a reservation is never given back.
- An article found under two spellings of its url, with changed content, becomes a source twice
  under one `source_id`, and may bring `media_per_source` media each time.
- A session of the research broker stays if the call that opens or closes it is lost or the service
  dies in between; it has no lifetime, and the agent may go on in it.
- A thermal file that cannot be decoded stays on disk, uncounted. A corpus run that
  raises loses, for its report, what it has already paid for and written.

**Bounds.** Two requests give every conflict of the compare-and-set (a third only
repeats the role of one of the two); two waves, two queries and two provider
pages give every kind of next position; one late publication and one foreign
write each meet every state of the other request. `ZeroYield = 2` keeps the streak
visible across pages. Every counter bounded in a guard is named
(`MaxUpsets`, `MaxReopenings`, `MaxLosses`, `MaxSteps`, `MaxPolls`, `MaxClock`,
`MaxLost`, `MaxStarts`, `MaxDeaths`); nothing is
cut off by a state constraint. The results of section 4 do not depend on these
bounds. Symmetry is used for safety runs only.

In `BedrockClient` a tick of 100 s is more than an attempt may take (connection,
answer and the pause before it), so the clock passes at most one tick during an attempt;
`TimesOK` says that the repetitions of a call begin within the margin (four
attempts of 95 s and 300 s in the code) and that credentials are issued for longer. The clock
of the instance runs past the expiry of the credentials first issued. In `SatelliteCorpus`
three products of either side of the event on two tracks give every fallback (a
later product without partner, an earlier one that turns out unavailable, footprints that do not
meet); one and a half pairs of credits is where a budget ends in the middle of a pair.

**Fairness.** A service's own steps are weakly fair: nothing in them waits except for the network,
whose calls have time-outs. A backend exchange ends, with an answer or a
time-out. Requests, crashes, losses, and what the agent, the endpoint or a broker
thread does are not fair; `JobsAnswered` and `CallsEnd` therefore hold even if the agent
or the endpoint stays silent. `TargetSettles`, `MediaSettles`, `AllAnalysed` and
`AllObserved` assume a caller that asks again while a receipt says that something
is left, which is how the services are meant to be driven (an assumption
about a scheduler outside this repository). `AllObserved` assumes strong fairness
of taking the lock: the lock does not block and gives no order, so a caller that
is only ever told "busy" must in the end meet it free. `AllAnalysed` is claimed
only while nothing was lost and if the endpoint ends its jobs: after a lost
answer an ambiguous reservation makes each later call fail at the first pending
artifact, a hazard listed as such. `CallsEnd` of `BedrockClient` needs
no fair lock: a thread waits for it only behind calls that fail, and the lot bounds their number.

## 4. What is proved

Every theorem holds for all values of the constants that satisfy the assumptions
of its module (`ConstantsOK`, `NamesOK`, `TimesOK`, `LimitsOK`, `CorpusOK`: types, positive limits, and
what is said below). Each proof module extends the module it is about.

| Module | Theorem | States |
|---|---|---|
| `SourceAcquisition_proofs` | `TypeCorrect`, `SessionsCorrect`, `ChainPreserved`, `CursorCorrect` | `TypeOK`, `SessionsOfRuns`, `RequestsExtendChain`, `CursorInPlan` are invariants |
| | `Refinement` | `Spec => LedgerSpec`: the service implements `ResearchLedger` |
| | `IncidentPlansAccepted` | for incident days, `Spec => RefusalExplained` |
| `PageCollection_proofs` | `TypeCorrect`, `LimitsKept`, `TakenOnce`, `PostsWhatIsAssumed`, `HonestRuns` | `TypeOK`, `TicketsWithinLimits`, `NothingTwice`, `PageAsPosted`, `HonestWithoutFailure` are invariants |
| `BedrockClient_proofs` | `TypeCorrect`, `SignaturesValid`, `PaymentsBounded` | `TypeOK`, `SignedWithValid`, `PaidWithinLots` are invariants |
| `SatelliteAnalysis_proofs` | `TypeCorrect`, `OneCallPays`, `WaitsResume` | `TypeOK`, `InvokesItsOwn`, `WaitIsResumable` are invariants |
| | `CallsBounded` | `Spec => CallsShorten`: a call has a bounded number of steps of its own |
| `SatelliteObservations_proofs` | `TypeCorrect`, `ResultsUnique`, `CreditsBounded` | `TypeOK`, `ResultIdsUnique`, `PaidOnce` are invariants, if `OwnReferences` |
| | `ReceiptsHonest` | `Spec => RemainingHonest`, if `OwnReferences` |
| | `Refinement` | `Spec => LedgerSpec`, if `OwnReferences`: the worker implements `ObservationLedger` |
| `PublicMediaAnalysis_proofs` | `TypeCorrect`, `AttemptsOrdered` | `TypeOK`, `AttemptsInOrder` are invariants |
| | `Refinement` | `Spec => LedgerSpec`: the service implements `MediaLedger` |
| | `ClosedWhenAnalysed`, `ReceiptsHonest` | `Spec => AnalysedAfterCollection` (no batch while a wave is open), `Spec => ReceiptHonest` |
| `SatelliteCorpus_proofs` | `TypeCorrect`, `ReportsHonest`, `SelectionCorrect` | `TypeOK`, `ReportHonest`, `PairsAsDefined` are invariants |
| | `RunsEnd` | every step of a run lowers a lexicographic measure of naturals |
| `ResearchSessions_proofs` | `TypeCorrect`, `CitationsFetched`, `CitationsStored`, `SessionsRevoked` | `TypeOK`, `CitedWasFetched`, `CitedMediaIsStored`, `SessionsOfJobs` are invariants |

In each module the safety properties are consequences of one inductive invariant
`IInv` (in `BedrockClient_proofs`, of three small ones), shown with a lemma for each action.

**SourceAcquisition.** `RequestsExtendChain` is not inductive: it says nothing of a run that has not yet
posted, or of a receipt on its way. The invariant adds that, under the
revision each was built on: a searching run whose revision is current agrees with
the record (its cursor, streak, number, known sources and tickets); the page in a
waiting run is the one its locals describe, so that a receipt for the current
revision puts them in agreement again; nothing is built on a revision beyond the
record's. A commit moves the revision, after which whatever was built on the old one is only
claimed to be well formed. That is why the proof needs one lemma for
the acting request (`OwnStep`), one for bystanders (`Bystander`) and one for the
record (`StoreStep`). The refinement follows from `IInv` since each commit is an
accepted request, and everything else leaves the record alone.

**PageCollection.** A page that raises keeps what it added to the known sets and the
counters and drops what it collected, so neither is exact. The invariant says which way each may
be wrong: the known sets cover the evidence and the counts are never below it (`Covered`,
`Counted`), which is what the limits and uniqueness need; the analyses counted may be
below those made, and equal them while no page has raised, which is `HonestWithoutFailure`.
Known urls cover those with one spelling only (`Spellings`): there an accepted link is the url
it is published at, and was not known. That an accepted article is new in any case, which
the limit of a page's tickets needs, follows from the known contents.

**BedrockClient.** `Clocked`: a step in progress began in this tick or the one
before. `Covers`: credentials outlive, in ticks, the attempts still to come. `Budget`
counts calls in flight as if they were paid. `TimesOK` is what these rest on:
attempts begin within the margin, and new credentials outlive it.

**SatelliteAnalysis.** Between a successful conditional put and the record of its
submission a call is an *owner*. An owner is alone on its artifact (`OneOwner`) and
finds the reservation as it wrote it (`Sound`); where no reservation is, there is neither
owner nor job (`Untouched`). A crashed owner leaves the reservation behind, so nobody
becomes one again: that is the price at which double payment is excluded. Two further
invariants stand on it. `WithinAttempts`: an artifact has no more jobs than its
owner has made attempts. `PublishesOutputs`: whatever was analysed, or is about to be published, has
the job its reservation names, with an output, and outputs last (`Lasting`).
`CallsBounded` needs neither: a measure of a call's own attempts and polls (`Effort`)
falls with each of its steps and is not touched by anybody else's.

**SatelliteObservations.** A call that has started is stale, or knows the target as
it is (`Current`): its artifact has no result beside its reference, and it counts
what is left. It holds the lock, so no other call of the process pays beside it (`Alone`).
`Budget` is an account: a live call has spent at most the steps it has done, beyond two
requests for each upset except the one that made it stale; when it ends, its two requests are
covered by its result or by that upset. The refinement adds what a call was let through for
(`Admitted`): its artifact is processable and its reference the one in use, unless it is
stale; a commit is made by a call that is not, and is therefore a result of the ledger
(`CommitIsResult`). The proofs assume
`OwnReferences`: a reference belongs to the collection its processor is for. The code counts
references of any collection to decide whether an artifact is done, and computes
only beside its own; with a foreign reference the two differ. The corpus commands
write no such reference, and in the checked instance there is none.

**PublicMediaAnalysis.** What a run has read of a media is out of date as soon as
anybody commits, but then so is the revision its batch is built on. `Live` says that
a run is stale or has read the attempts as they are, also just after its own
commit, whose receipt it may not have read (`Base`, `Left`); `Queued` says the same
of a batch in flight whose run is gone. For the refinement, batches are made only of tickets
(`Ticketed`), and a batch is committed on the revision on which the collection was closed
and its media open (`CommitAppends`). `ReceiptHonest` needs more, in a second invariant
`HInv`: what a run that is not stale read, with the attempts and successes of its own that
the backend has committed, is what is durable (`Agrees`); the batch in flight is in doubt
until it is taken (`InDoubt`, `Unread`).

**SatelliteCorpus.** Pairs that are selected are of different tracks, so no two share a
product (`NothingShared`), and a raster asked for is always a new one. What is paid, written
or failed belongs to the pairs dealt with or to the one in hand (`Paid`, `Booked`). A
pair is begun only if both its rasters can be paid, so credits do not run out in its middle.
That the selection is right is an invariant of the loops' progress (`Progress`): what
has been judged was judged as the definition judges it; each visited product of a
track comes later than those left, and was paired, cannot be, or found the list
full; the pair kept is the best of its track so far; each complement adds a cell. When a loop
ends nothing is left, and the definition's choice is what was kept. `RunsEnd` is the safety half of termination:
a step ends its phase or leaves fewer `Steps`, and phases are finitely many.

**ResearchSessions.** What the broker has served and stored only grows (`Grows`), so a
citation that was right stays right. A thread carries the job it was started for; it
adds to that job's pages and to the blobs of its research, and touches neither the agent nor the session of a
later job. `SessionsOfJobs` is inductive as it stands, since the faults are counted where they
happen: `Behind` bounds what a step may leave by what was left and the session in hand.

**Model-checked only.** All liveness: fairness and ENABLED are outside the prover's
reach: `RequestsEnd`, `TargetSettles`, `MediaSettles`, `AllAnalysed`, `AllObserved`,
`JobsAnswered` and the two `CallsEnd`. For `SatelliteAnalysis` and `SatelliteCorpus` the part of
termination that needs no fairness is proved: `CallsBounded`, `RunsEnd`. `RpcFrames` and the other two runs that end in a violation. No module uses a
recursive operator.

## 5. What is not modelled

- The backend, S3, SageMaker, openEO, Bedrock, Azure Speech, web search and the
  detector: external, any answer of the kind the code handles.
- Text, HTML, prompts, the projection of a page for the multimodal model and the grounding
  of its claims, domain policies, image and raster numerics with the radiometric
  normalisation of pairs, ids of contents inside a batch, authentication, settings and
  health endpoints. openEO credits are whole numbers: the rounding of their sum is left out.
- The repair of archived Sentinel-2 pairs.
- A restart of the broker (its sessions are in memory, so it ends those it has), and a time-out
  of the service's own socket: it has none, and reading a request and writing an answer rest
  on the client's time-out.
- Two articles published at one url, after the backend has merged them: in
  `SourceAcquisition` and `ResearchLedger` both stay sources (`PageCollection` has the merge).
- A search that fails twice at one provider cursor is in the safety instance only: the liveness
  instance has one page per query.
- A change of `inputs` in the middle of a wave makes every later plan another
  plan than the durable one, and the target is then refused on purpose; the
  property `RefusalExplained` names this case, no property forbids it.
- A batch the backend refuses for its content raises before later media are tried, so the
  same media come first again; and ids inside a batch do not include the attempt. Both depend
  on what the backend refuses, which this repository does not say.
- Processor revisions, date and box of an incident day do not change while
  observations are made; references are of their processor's own collection.
- The transcription client, the web search adapter and the surface areas: requests
  and conversions without state. Their outcomes appear as those of `TranscriptionOutcomes` and of a search page.

## 6. Plan

Done, in this order: ledger and core with its proofs, page collection, satellite
analysis, public media, research sessions, satellite observations; then the RPC frames, the
multimodal client, the corpora, and the proofs of all services.

Left:
1. acquisition and media analysis composed on one revision, in place of
   `ForeignUpdate` and `PublishPage`; each of the two is proved for any writes of the
   other, so the composition would show liveness of the pair;
2. bounds on the own steps of a call, as in `CallsBounded`, for the client of the paid provider,
   the media runs and the research service, where liveness is only model-checked.
