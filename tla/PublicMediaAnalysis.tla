-------------------------- MODULE PublicMediaAnalysis --------------------------
(***************************************************************************)
(* The public-media CPU worker.  HTTP requests, served concurrently, each  *)
(* take the media tickets of a collected incident day that have no         *)
(* successful analysis and an attempt left, analyse them one by one and    *)
(* publish a batch for each, on the revision the previous receipt gave.    *)
(*                                                                         *)
(* The backend is external: it commits a batch only on its current         *)
(* revision.  What the fetch, the detector, the speech service and the     *)
(* model answer is chosen nondeterministically.                            *)
(***************************************************************************)
EXTENDS Naturals, Sequences, FiniteSets

CONSTANTS
  Run,              \* requests that may be served at the same time
  Kind,             \* the kind of each media ticket, in the order of their ids
  FirstTickets,     \* the tickets the first collected wave leaves
  Transcription,    \* a speech provider is configured
  Evidence,         \* a multimodal evidence provider is configured
  MaxPerRun,        \* maximum_media_per_run
  MaxAttempts,      \* maximum_attempts_per_media
  MaxReopenings,    \* bound on the waves opened after the first collection
  MaxUpsets         \* bound on crashes and lost answers

Media == DOMAIN Kind

ASSUME ConstantsOK ==
  /\ Kind \in Seq({"photo", "video", "audio"})
  /\ FirstTickets \subseteq Media
  /\ {Transcription, Evidence} \subseteq BOOLEAN
  /\ {MaxPerRun, MaxAttempts} \subseteq Nat \ {0}
  /\ {MaxReopenings, MaxUpsets} \subseteq Nat

VARIABLES
  rev,        \* source revision of the target, in the backend
  collected,  \* research_progress.completed
  tickets,    \* research_media_tickets
  batches,    \* research_media_analysis_batches, in the order of their commits
  run,        \* the locals of each run_analysis
  channel,    \* its publication: "none", "sent", "taken" or "refused"
  late,       \* batches still in flight whose run is over
  sessions,   \* broker sessions, one per configured run
  reopenings, \* waves opened so far
  upsets      \* crashes and lost answers so far

\* The abstract specification of the durable batches.
L == INSTANCE MediaLedger

durable == <<rev, collected, tickets, batches, reopenings>>
vars == <<rev, collected, tickets, batches, reopenings, run, channel, late, sessions, upsets>>

NoRun == [at |-> "idle", rev |-> 0, eligible |-> {}, seen |-> [m \in Media |-> 0],
          completed |-> {}, todo |-> {}, attempted |-> {}, succeeded |-> {},
          outcome |-> "none"]

Init ==
  /\ rev = 0
  /\ collected = TRUE
  /\ tickets = FirstTickets
  /\ batches = [m \in Media |-> <<>>]
  /\ run = [r \in Run |-> NoRun]
  /\ channel = [r \in Run |-> "none"]
  /\ late = {}
  /\ sessions = {}
  /\ reopenings = 0
  /\ upsets = 0

-------------------------------------------------------------------------------
(* What the durable batches say.                                           *)

Succeeded(m) == \E i \in DOMAIN batches[m] : batches[m][i].outcome = "success"

\* Fault: an attempt too many.
AttemptPastLast(n) == n <= MaxAttempts

AttemptLeft(n) == n < MaxAttempts

Pending == {m \in tickets : ~Succeeded(m) /\ AttemptLeft(Len(batches[m]))}

\* pending[:maximum_media_per_run]
Selected(pending) ==
  {m \in pending : Cardinality({n \in pending : n < m}) < MaxPerRun}

-------------------------------------------------------------------------------
(* run_analysis.                                                           *)

\* Read the target, select, and open a broker session.
BeginRun(r) ==
  /\ run[r].at = "idle"
  /\ collected
  /\ run' = [run EXCEPT ![r] =
       [NoRun EXCEPT !.at = "analyse", !.rev = rev, !.eligible = tickets,
                     !.seen = [m \in Media |-> Len(batches[m])],
                     !.completed = {m \in tickets : Succeeded(m)},
                     !.todo = Selected(Pending)]]
  /\ sessions' = sessions \cup {r}
  /\ UNCHANGED <<durable, channel, late, upsets>>

\* The stages of _payload and the outcomes each may journal; "none" is a stage
\* that journals nothing for this kind of media.
VisualOutcomes(m) ==
  IF Kind[m] = "audio" THEN {"none"} ELSE {"success", "partial"}

TranscriptionOutcomes(m) ==
  IF Kind[m] = "photo" THEN {"none"}
  ELSE IF ~Transcription THEN {"not_provided"}
  ELSE {"success", "partial", "failed"} \cup (IF Kind[m] = "video" THEN {"missing"} ELSE {})

ClaimOutcomes ==
  IF Evidence THEN {"success", "partial", "failed"} ELSE {"not_provided"}

Journals(m) ==
  VisualOutcomes(m) \X TranscriptionOutcomes(m) \X ClaimOutcomes

Outcome(journal) ==
  IF {journal[1], journal[2], journal[3]} \cap {"failed", "partial", "not_provided"} = {}
  THEN "success" ELSE "partial"

\* "failed" is the payload of any exception, such as a fetch that does not verify.
Outcomes(m) == {Outcome(j) : j \in Journals(m)} \cup {"failed"}

First(todo) == CHOOSE m \in todo : \A n \in todo : m <= n
NextMedia(r) == First(run[r].todo)

\* Analyse the next media and send its batch.
AnalyseMedia(r) ==
  /\ run[r].at = "analyse"
  /\ run[r].todo # {}
  /\ LET m == NextMedia(r)
     IN \E outcome \in Outcomes(m) :
          run' = [run EXCEPT ![r].at = "publish", ![r].outcome = outcome,
                             ![r].attempted = @ \cup {m}]
  /\ channel' = [channel EXCEPT ![r] = "sent"]
  /\ UNCHANGED <<durable, late, sessions, upsets>>

\* The receipt's revision is what the next batch is built on.
ReceiveReceipt(r) ==
  /\ run[r].at = "publish"
  /\ channel[r] = "taken"
  /\ LET m == NextMedia(r)
     IN run' = [run EXCEPT
          ![r].at = "analyse", ![r].rev = run[r].rev + 1,
          ![r].todo = @ \ {m}, ![r].outcome = "none",
          ![r].succeeded = IF run[r].outcome = "success" THEN @ \cup {m} ELSE @]
  /\ channel' = [channel EXCEPT ![r] = "none"]
  /\ UNCHANGED <<durable, late, sessions, upsets>>

Revoke(r) == sessions \ {r}

\* The finally clause, and the run is over.
End(r) ==
  /\ run' = [run EXCEPT ![r] = NoRun]
  /\ channel' = [channel EXCEPT ![r] = "none"]
  /\ sessions' = Revoke(r)

\* Fault: an attempt that failed in this run is not counted.
RemainingForgetsRun(r) ==
  {m \in run[r].eligible \ (run[r].completed \cup run[r].succeeded) :
     AttemptLeft(run[r].seen[m])}

\* remaining_count of the receipt counts these.
Remaining(r) ==
  {m \in run[r].eligible \ (run[r].completed \cup run[r].succeeded) :
     AttemptLeft(run[r].seen[m] + IF m \in run[r].attempted THEN 1 ELSE 0)}

Return(r) ==
  /\ run[r].at = "analyse"
  /\ run[r].todo = {}
  /\ End(r)
  /\ UNCHANGED <<durable, late, upsets>>

\* Fault: a refused batch is sent again on the revision read once more.
SendAgain(r) ==
  /\ run[r].at = "publish"
  /\ channel[r] = "refused"
  /\ run' = [run EXCEPT ![r].rev = rev]
  /\ channel' = [channel EXCEPT ![r] = "sent"]
  /\ UNCHANGED <<durable, late, sessions, upsets>>

\* Fault: a refused batch is sent again as it is.
SendUnchanged(r) ==
  /\ run[r].at = "publish"
  /\ channel[r] = "refused"
  /\ channel' = [channel EXCEPT ![r] = "sent"]
  /\ UNCHANGED <<durable, run, late, sessions, upsets>>

\* The backend refused the batch: the exception ends the run.
PublishRefused(r) ==
  /\ run[r].at = "publish"
  /\ channel[r] = "refused"
  /\ End(r)
  /\ UNCHANGED <<durable, late, upsets>>

\* The attempt number makes the batch id: the batches of the first read, plus one.
Batch(r, m) == [attempt |-> run[r].seen[m] + 1, outcome |-> run[r].outcome]

Request(r) == [media |-> NextMedia(r), base |-> run[r].rev, batch |-> Batch(r, NextMedia(r))]

\* The exchange times out before or after the commit, or the process dies; a batch
\* already sent may still arrive.
Abort(r) ==
  /\ run[r].at # "idle"
  /\ upsets < MaxUpsets
  /\ upsets' = upsets + 1
  /\ \/ late' = late
     \/ channel[r] = "sent" /\ late' = late \cup {Request(r)}
  /\ End(r)
  /\ UNCHANGED durable

-------------------------------------------------------------------------------
(* The backend, and the collection of sources.                             *)

Commit(q) ==
  /\ q.base = rev
  /\ rev' = rev + 1
  /\ batches' = [batches EXCEPT ![q.media] = Append(@, q.batch)]
  /\ UNCHANGED <<collected, tickets, reopenings>>

BackendTakes(r) ==
  /\ channel[r] = "sent"
  /\ Commit(Request(r))
  /\ channel' = [channel EXCEPT ![r] = "taken"]
  /\ UNCHANGED <<run, late, sessions, upsets>>

BackendRefuses(r) ==
  /\ channel[r] = "sent"
  /\ run[r].rev # rev
  /\ channel' = [channel EXCEPT ![r] = "refused"]
  /\ UNCHANGED <<durable, run, late, sessions, upsets>>

\* A late batch is committed all the same, or refused or lost.
LateArrives(q) ==
  /\ Commit(q)
  /\ late' = late \ {q}
  /\ UNCHANGED <<run, channel, sessions, upsets>>

LateVanishes(q) ==
  /\ late' = late \ {q}
  /\ UNCHANGED <<durable, run, channel, sessions, upsets>>

\* A page of a further wave: the first opens it, and may be its only one; the last
\* closes it.  A wave has one page or two, and its tickets are counted when it closes:
\* nobody reads them before.
PublishPage(done) ==
  /\ IF collected THEN reopenings < MaxReopenings ELSE done
  /\ reopenings' = reopenings + IF collected THEN 1 ELSE 0
  /\ collected' = done
  /\ rev' = rev + 1
  /\ \E found \in IF done THEN SUBSET (Media \ tickets) ELSE {{}} :
       tickets' = tickets \cup found
  /\ UNCHANGED <<batches, run, channel, late, sessions, upsets>>

WaveEnds == ~collected /\ PublishPage(TRUE)

-------------------------------------------------------------------------------
RunStep(r) ==
  \/ AnalyseMedia(r) \/ ReceiveReceipt(r) \/ Return(r) \/ PublishRefused(r)

BackendStep(r) == BackendTakes(r) \/ BackendRefuses(r)

Next ==
  \/ \E r \in Run : BeginRun(r) \/ RunStep(r) \/ BackendStep(r) \/ Abort(r)
  \/ \E q \in late : LateArrives(q) \/ LateVanishes(q)
  \/ \E done \in BOOLEAN : PublishPage(done)

Spec == Init /\ [][Next]_vars

\* Steps of a run and answers of the backend happen, an open wave is collected,
\* and the caller asks again for as long as the receipts leave media to analyse.
FairSpec ==
  /\ Spec
  /\ \A r \in Run :
       WF_vars(RunStep(r)) /\ WF_vars(BackendStep(r)) /\ WF_vars(BeginRun(r))
  /\ WF_vars(WaveEnds)

-------------------------------------------------------------------------------
(* Properties.                                                             *)

Batches == [attempt: 1..MaxAttempts, outcome: {"success", "partial", "failed"}]
Requests == [media: Media, base: Nat, batch: Batches]
Channels == {"none", "sent", "taken", "refused"}
Runs == [at: {"idle", "analyse", "publish"}, rev: Nat, eligible: SUBSET Media,
         seen: [Media -> 0..MaxAttempts], completed: SUBSET Media, todo: SUBSET Media,
         attempted: SUBSET Media, succeeded: SUBSET Media,
         outcome: {"none", "success", "partial", "failed"}]

\* Every variable keeps its type.
TypeOK ==
  /\ rev \in Nat
  /\ collected \in BOOLEAN
  /\ tickets \subseteq Media
  /\ batches \in [Media -> Seq(Batches)]
  /\ run \in [Run -> Runs]
  /\ channel \in [Run -> Channels]
  /\ late \subseteq Requests
  /\ sessions \subseteq Run
  /\ reopenings \in 0..MaxReopenings
  /\ upsets \in 0..MaxUpsets

\* The batches of a media are its attempts in order, whoever made them: no two
\* have one batch id, and only the last may be a success.
AttemptsInOrder ==
  \A m \in Media : \A i \in DOMAIN batches[m] :
    /\ batches[m][i].attempt = i
    /\ batches[m][i].outcome = "success" => i = Len(batches[m])

\* The durable batches are the ledger MediaLedger promises.  A worker checks once,
\* long before it commits, that the collection is closed ("after source collection
\* closes") and that a media has a ticket, an attempt left and no success: they hold
\* when the batch is committed, though waves, other runs and late batches came between.
LedgerSpec == L!Spec

\* The remaining_count a run returns is what is really left, unless the target
\* moved on behind the run.
ReceiptHonest ==
  [][\A r \in Run : Return(r) /\ run[r].rev = rev => Remaining(r) = Pending]_vars

\* An incident day asked for again and again has none of its media left, though
\* runs refuse each other's batches and attempts fail.
MediaSettles == <>[](Pending = {})
===============================================================================
