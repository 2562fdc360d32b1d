--------------------------- MODULE SatelliteAnalysis ---------------------------
(***************************************************************************)
(* The satellite CPU worker and its paid asynchronous SageMaker provider.  *)
(* HTTP calls, served by a threading server in one or more replicas, each  *)
(* analyse the first artifact of an incident day that has no analysis yet. *)
(* They meet in S3: one reservation object per request body decides which  *)
(* of them may invoke the endpoint, and tells the others where its output  *)
(* will appear.  An artifact stands here for its request body, which the   *)
(* worker derives from it.                                                 *)
(*                                                                         *)
(* S3, the endpoint and the backend are external.  The AWS client repeats  *)
(* a request whose answer it has not seen (total_max_attempts).            *)
(***************************************************************************)
EXTENDS Naturals, Sequences

CONSTANTS
  Call,         \* HTTP calls that may be served at the same time
  LastArtifact, \* artifacts are the positions 1..LastArtifact of their tickets
  SdkAttempts,  \* total_max_attempts of the AWS clients
  MaxPolls,     \* polls of one call: maximum_wait_seconds over poll_seconds
  MaxUpsets     \* bound on lost answers, failures, failed jobs and crashes

ASSUME ConstantsOK ==
  /\ {LastArtifact, SdkAttempts} \subseteq Nat \ {0}
  /\ {MaxPolls, MaxUpsets} \subseteq Nat

VARIABLES
  reservation, \* reservation.json of each artifact's request
  request,     \* artifacts whose request.json is stored
  jobs,        \* the endpoint's jobs for each artifact, every one of them paid
  analysed,    \* artifacts with a completed or abstained batch, in the backend
  call,        \* the local state of each call
  upsets       \* lost answers, failures, failed jobs and crashes so far

vars == <<reservation, request, jobs, analysed, call, upsets>>

Artifact == 1..LastArtifact

NoReservation == [state |-> "none", job |-> 0]
Reserved == [state |-> "reserved", job |-> 0]
Submitted(j) == [state |-> "submitted", job |-> j]

\* A call: started counts the jobs it has had accepted, job the one it waits for.
NoCall == [at |-> "idle", artifact |-> 1, attempt |-> 1, started |-> 0,
           job |-> 0, polls |-> 0]

Init ==
  /\ reservation = [a \in Artifact |-> NoReservation]
  /\ request = {}
  /\ jobs = [a \in Artifact |-> <<>>]
  /\ analysed = {}
  /\ call = [c \in Call |-> NoCall]
  /\ upsets = 0

-------------------------------------------------------------------------------
(* Steps shared by the handlers.                                           *)

Of(c) == call[c].artifact
Goto(c, step) == call' = [call EXCEPT ![c].at = step, ![c].attempt = 1]

\* The call ends, with an answer or an error.
End(c) == call' = [call EXCEPT ![c] = NoCall]

Upset == upsets < MaxUpsets /\ upsets' = upsets + 1

\* Fault: an attempt too many.
TriesPastLast(c) == call[c].attempt <= SdkAttempts

TriesAgain(c) == call[c].attempt < SdkAttempts

\* The answer of an AWS request is lost: the client sends the request again, and
\* after its last attempt raises, which ends the call.
AnswerLost(c) ==
  /\ Upset
  /\ IF TriesAgain(c)
     THEN call' = [call EXCEPT ![c].attempt = @ + 1]
     ELSE End(c)

-------------------------------------------------------------------------------
(* SatelliteCpuWorker.run before the provider.                             *)

Pending == Artifact \ analysed
First(pending) == CHOOSE a \in pending : \A b \in pending : a <= b

\* The first pending artifact is the call's; the bands it needs are fetched and
\* its raster is built.  Without one, the receipt is empty and nothing changes.
BeginCall(c) ==
  /\ call[c].at = "idle"
  /\ Pending # {}
  /\ call' = [call EXCEPT ![c] =
       [NoCall EXCEPT !.at = "reserve", !.artifact = First(Pending)]]
  /\ UNCHANGED <<reservation, request, jobs, analysed, upsets>>

-------------------------------------------------------------------------------
(* invoke: the reservation.                                                *)

\* Fault: the reservation is written whether or not one exists.
MayReserveAgain(a) == reservation[a].state # "submitted"

\* IfNoneMatch="*": the write happens only if the object does not exist.
MayReserve(a) == reservation[a] = NoReservation

PutReservation(a) ==
  reservation' = IF MayReserve(a)
                 THEN [reservation EXCEPT ![a] = Reserved] ELSE reservation

\* The write is answered: the call owns the request, or somebody has it (412).
Reserve(c) ==
  /\ call[c].at = "reserve"
  /\ PutReservation(Of(c))
  /\ Goto(c, IF MayReserve(Of(c)) THEN "store" ELSE "inspect")
  /\ UNCHANGED <<request, jobs, analysed, upsets>>

\* The write may have happened all the same: a retry then meets its own object.
ReserveUnanswered(c) ==
  /\ call[c].at = "reserve"
  /\ reservation' = reservation \/ PutReservation(Of(c))
  /\ AnswerLost(c)
  /\ UNCHANGED <<request, jobs, analysed>>

\* The existing reservation tells where the output will be.
FindSubmitted(c) ==
  LET r == reservation[Of(c)]
  IN /\ call[c].at = "inspect"
     /\ r.state = "submitted"
     /\ call' = [call EXCEPT ![c].at = "poll", ![c].job = r.job]
     /\ UNCHANGED <<reservation, request, jobs, analysed, upsets>>

\* "sagemaker_submission_state_ambiguous": reserved, and nobody says more.
FindReserved(c) ==
  /\ call[c].at = "inspect"
  /\ reservation[Of(c)].state # "submitted"
  /\ End(c)
  /\ UNCHANGED <<reservation, request, jobs, analysed, upsets>>

-------------------------------------------------------------------------------
(* invoke: the submission, by the call that made the reservation.          *)

\* The request body, IfNoneMatch="*"; a refused write ends the call.
StoreRequest(c) ==
  /\ call[c].at = "store"
  /\ request' = request \cup {Of(c)}
  /\ IF Of(c) \in request THEN End(c) ELSE Goto(c, "invoke")
  /\ UNCHANGED <<reservation, jobs, analysed, upsets>>

StoreUnanswered(c) ==
  /\ call[c].at = "store"
  /\ request' \in {request, request \cup {Of(c)}}
  /\ AnswerLost(c)
  /\ UNCHANGED <<reservation, jobs, analysed>>

\* The endpoint takes a job each time it is asked.
NewJob(a) == jobs' = [jobs EXCEPT ![a] = Append(@, "running")]

\* Fault: the call waits for its output before it records where that will be.
PollUnrecorded(c) == [call[c] EXCEPT !.at = "poll"]

ThenRecord(c) == [call[c] EXCEPT !.at = "record"]

InvokeEndpoint(c) ==
  /\ call[c].at = "invoke"
  /\ NewJob(Of(c))
  /\ call' = [call EXCEPT ![c] =
       [ThenRecord(c) EXCEPT !.attempt = 1,
                             !.job = Len(jobs[Of(c)]) + 1,
                             !.started = call[c].started + 1]]
  /\ UNCHANGED <<reservation, request, analysed, upsets>>

\* The client asks again, though the endpoint may have taken the job.
InvokeUnanswered(c) ==
  /\ call[c].at = "invoke"
  /\ \E taken \in BOOLEAN :
       /\ IF taken THEN NewJob(Of(c)) ELSE jobs' = jobs
       /\ Upset
       /\ call' = [call EXCEPT ![c] =
            IF TriesAgain(c)
            THEN [call[c] EXCEPT !.attempt = call[c].attempt + 1,
                                 !.started = call[c].started + (IF taken THEN 1 ELSE 0)]
            ELSE NoCall]
  /\ UNCHANGED <<reservation, request, analysed>>

\* IfMatch=etag: only the object as this call wrote it is replaced.
RecordSubmission(c) ==
  /\ call[c].at = "record"
  /\ IF reservation[Of(c)] = Reserved
     THEN /\ reservation' = [reservation EXCEPT ![Of(c)] = Submitted(call[c].job)]
          /\ Goto(c, "poll")
     ELSE reservation' = reservation /\ End(c)
  /\ UNCHANGED <<request, jobs, analysed, upsets>>

RecordUnanswered(c) ==
  /\ call[c].at = "record"
  /\ \/ reservation' = reservation
     \/ /\ reservation[Of(c)] = Reserved
        /\ reservation' = [reservation EXCEPT ![Of(c)] = Submitted(call[c].job)]
  /\ AnswerLost(c)
  /\ UNCHANGED <<request, jobs, analysed>>

-------------------------------------------------------------------------------
(* invoke: the polling window; then the worker publishes.                  *)

JobOf(c) == jobs[Of(c)][call[c].job]
WindowOpen(c) == call[c].polls < MaxPolls

\* The output is there: it is read and the worker publishes what it says.
FindOutput(c) ==
  /\ call[c].at = "poll"
  /\ WindowOpen(c)
  /\ JobOf(c) = "output"
  /\ Goto(c, "publish")
  /\ UNCHANGED <<reservation, request, jobs, analysed, upsets>>

FindFailure(c) ==
  /\ call[c].at = "poll"
  /\ WindowOpen(c)
  /\ JobOf(c) = "failure"
  /\ End(c)
  /\ UNCHANGED <<reservation, request, jobs, analysed, upsets>>

\* Fault: a poll that finds nothing does not use up the window.
SamePolls(c) == call[c].polls

NextPolls(c) == call[c].polls + 1

\* Neither object exists (403 and 404 alike): sleep and look again.
PollAgain(c) ==
  /\ call[c].at = "poll"
  /\ WindowOpen(c)
  /\ JobOf(c) = "running"
  /\ call' = [call EXCEPT ![c].polls = NextPolls(c)]
  /\ UNCHANGED <<reservation, request, jobs, analysed, upsets>>

\* "sagemaker_async_timeout": a later call resumes from the reservation.
WindowCloses(c) ==
  /\ call[c].at = "poll"
  /\ ~WindowOpen(c)
  /\ End(c)
  /\ UNCHANGED <<reservation, request, jobs, analysed, upsets>>

\* The backend takes the batch; a second one of the same request changes nothing.
Publish(c) ==
  /\ call[c].at = "publish"
  /\ analysed' = analysed \cup {Of(c)}
  /\ End(c)
  /\ UNCHANGED <<reservation, request, jobs, upsets>>

\* The backend refuses the batch, or takes it and its answer is lost.
PublishUnanswered(c) ==
  /\ call[c].at = "publish"
  /\ Upset
  /\ analysed' \in {analysed, analysed \cup {Of(c)}}
  /\ End(c)
  /\ UNCHANGED <<reservation, request, jobs>>

\* Fetching, building, federating, reading or polling raises, or the process dies.
Fail(c) ==
  /\ call[c].at # "idle"
  /\ Upset
  /\ End(c)
  /\ UNCHANGED <<reservation, request, jobs, analysed>>

-------------------------------------------------------------------------------
(* The endpoint.                                                           *)

JobSucceeds(a, j) ==
  /\ jobs[a][j] = "running"
  /\ jobs' = [jobs EXCEPT ![a][j] = "output"]
  /\ UNCHANGED <<reservation, request, analysed, call, upsets>>

JobFails(a, j) ==
  /\ jobs[a][j] = "running"
  /\ Upset
  /\ jobs' = [jobs EXCEPT ![a][j] = "failure"]
  /\ UNCHANGED <<reservation, request, analysed, call>>

-------------------------------------------------------------------------------
CallStep(c) ==
  \/ Reserve(c) \/ FindSubmitted(c) \/ FindReserved(c)
  \/ StoreRequest(c) \/ InvokeEndpoint(c) \/ RecordSubmission(c)
  \/ FindOutput(c) \/ FindFailure(c) \/ PollAgain(c) \/ WindowCloses(c)
  \/ Publish(c)

CallUpset(c) ==
  \/ ReserveUnanswered(c) \/ StoreUnanswered(c) \/ InvokeUnanswered(c)
  \/ RecordUnanswered(c) \/ PublishUnanswered(c) \/ Fail(c)

EndpointStep == \E a \in Artifact : \E j \in 1..Len(jobs[a]) : JobSucceeds(a, j)

Next ==
  \/ \E c \in Call : BeginCall(c) \/ CallStep(c) \/ CallUpset(c)
  \/ EndpointStep
  \/ \E a \in Artifact : \E j \in 1..Len(jobs[a]) : JobFails(a, j)
  \/ Pending = {} /\ UNCHANGED vars

Spec == Init /\ [][Next]_vars

\* A call's own steps happen, and the caller asks again for as long as the receipts
\* it gets leave an artifact pending.  The endpoint need not end its jobs.
FairSpec ==
  /\ Spec
  /\ \A c \in Call : WF_vars(CallStep(c)) /\ WF_vars(BeginCall(c))

-------------------------------------------------------------------------------
(* Properties.                                                             *)

Steps == {"idle", "reserve", "inspect", "store", "invoke", "record", "poll", "publish"}

Reservations == [state: {"none", "reserved", "submitted"}, job: Nat]
Calls == [at: Steps, artifact: Artifact, attempt: 1..SdkAttempts, started: Nat, job: Nat,
          polls: 0..MaxPolls]

\* Every variable keeps its type; a job number names a job of the artifact.
TypeOK ==
  /\ reservation \in [Artifact -> Reservations]
  /\ jobs \in [Artifact -> Seq({"running", "output", "failure"})]
  /\ \A a \in Artifact :
       reservation[a] \in {NoReservation, Reserved} \cup {Submitted(j) : j \in 1..Len(jobs[a])}
  /\ request \subseteq Artifact
  /\ analysed \subseteq Artifact
  /\ call \in [Call -> Calls]
  /\ \A c \in Call : call[c].job <= Len(jobs[Of(c)])
  /\ upsets \in 0..MaxUpsets

\* A call that may still invoke the endpoint has itself started every job its
\* artifact has: no job is ever paid for beside another call's, whatever crashes,
\* repeated calls and lost answers came before; so an artifact never costs more
\* jobs than one request of the AWS client has attempts.
InvokesItsOwn ==
  /\ \A c \in Call :
       call[c].at \in {"store", "invoke"} => Len(jobs[Of(c)]) = call[c].started
  /\ \A a \in Artifact : Len(jobs[a]) <= SdkAttempts

\* The job a call waits for, or publishes, is the one the reservation records, so
\* that a later call resumes the same wait ("Short polling windows are resumed
\* from the immutable S3 reservation"); what the backend was given came from
\* that job, and still is its output.
WaitIsResumable ==
  /\ \A c \in Call :
       call[c].at \in {"poll", "publish"} => reservation[Of(c)] = Submitted(call[c].job)
  /\ \A a \in analysed :
       \E j \in 1..Len(jobs[a]) : reservation[a] = Submitted(j) /\ jobs[a][j] = "output"

\* Every call ends within its polling window, even if the endpoint never answers.
CallsEnd == \A c \in Call : call[c].at # "idle" ~> call[c].at = "idle"

JobsRun == \E a \in Artifact : \E j \in 1..Len(jobs[a]) : jobs[a][j] = "running"

\* If the endpoint ends its jobs and no answer, job or process is lost, calls that
\* compete for one reservation and give up on it cost the incident day none of its
\* artifacts.
AllAnalysed == ([]<>~JobsRun) => <>(Pending = {} \/ upsets > 0)

\* "S3 reservation prevents paid duplicate calls."
NoDuplicateJob == \A a \in Artifact : Len(jobs[a]) <= 1
===============================================================================
