---------------------------- MODULE ResearchSessions ----------------------------
(***************************************************************************)
(* The isolated research service and its network broker.  Clients queue at *)
(* a service that runs one sandboxed agent process at a time; the agent    *)
(* reaches the network only through a broker, in a session the service     *)
(* configures before the agent starts and revokes after it has ended.      *)
(* The three are separate processes that talk over Unix sockets, so each   *)
(* may outlive another: an agent its service, a thread of the broker its   *)
(* agent, a session all of them.                                           *)
(*                                                                         *)
(* A Job is one client request; several may ask for the same research.     *)
(* A Url stands for a public page together with its content.               *)
(***************************************************************************)
EXTENDS Naturals, Sequences, SequencesExt, FiniteSets

CONSTANTS
  Research,   \* the research each job asks for, job by job
  Url,        \* public pages the policy allows
  Path,       \* candidate ids the model may give to a stored page
  MaxSteps,   \* MAX_TOOL_STEPS
  MaxLosses,  \* bound on lost answers between the service and the broker
  MaxDeaths   \* bound on deaths of the service process

ASSUME ConstantsOK ==
  /\ Research \in Seq(Range(Research))
  /\ MaxSteps \in Nat \ {0}
  /\ {MaxLosses, MaxDeaths} \subseteq Nat

Job == DOMAIN Research
NoPath == "no path"
Unfetched == "unfetched"
NoPage == "no page"

ASSUME NamesOK == {NoPath, Unfetched} \cap Path = {} /\ {NoPath, NoPage} \cap Url = {}

VARIABLES
  queue,    \* jobs whose connection waits to be accepted
  sent,     \* jobs a client has asked for
  serving,  \* the job being served, 0 if none
  stage,    \* where execute_research is
  agent,    \* the agent process: tool steps, pending call, pages fetched
  result,   \* what execute_research returns, once the agent has ended
  answer,   \* what each job was answered
  sessions, \* jobs with a session in the broker
  threads,  \* broker threads, each at one tool call
  fetched,  \* pages the broker has served to each job
  blobs,    \* the page stored under each path of each research
  losses,   \* lost answers so far
  orphans,  \* tool steps left to the agent of each job whose service died
  deaths    \* deaths of the service so far

vars == <<queue, sent, serving, stage, agent, result, answer, sessions,
          threads, fetched, blobs, losses, orphans, deaths>>

service == <<queue, serving, stage, result, answer>>
broker == <<sessions, threads, fetched, blobs>>
faults == <<losses, deaths>>

NoAgent == [steps |-> 0, waits |-> FALSE, evidence |-> [u \in Url |-> Unfetched]]
Error == [ok |-> FALSE, candidates |-> {}]
NoAnswer == [ok |-> FALSE, candidates |-> {<<>>}]

\* A candidate cites a page; one that is a media also names its blob.
Candidate == Url \X (Path \cup {NoPath})

Init ==
  /\ queue = <<>>
  /\ sent = {}
  /\ serving = 0
  /\ stage = "idle"
  /\ agent = NoAgent
  /\ result = Error
  /\ answer = [j \in Job |-> NoAnswer]
  /\ sessions = {}
  /\ threads = {}
  /\ fetched = [j \in Job |-> {}]
  /\ blobs = [r \in Range(Research) |-> [p \in Path |-> NoPath]]
  /\ losses = 0
  /\ orphans = [j \in Job |-> 0]
  /\ deaths = 0

-------------------------------------------------------------------------------
(* The client.                                                             *)

\* run_isolated_research connects and writes its request.  A client that times out
\* changes nothing here: its request stays in the queue and is served all the same.
AskFor(j) ==
  /\ j \notin sent
  /\ stage # "down"
  /\ sent' = sent \cup {j}
  /\ queue' = Append(queue, j)
  /\ UNCHANGED <<serving, stage, agent, result, answer, broker, orphans, faults>>

\* Without a service, nobody listens: connecting fails.
AskInVain(j) ==
  /\ j \notin sent
  /\ stage = "down"
  /\ sent' = sent \cup {j}
  /\ answer' = [answer EXCEPT ![j] = Error]
  /\ UNCHANGED <<queue, serving, stage, agent, result, broker, orphans, faults>>

-------------------------------------------------------------------------------
(* The service: execute_research, one job at a time.                       *)

Accept ==
  /\ stage = "idle"
  /\ queue # <<>>
  /\ serving' = Head(queue)
  /\ queue' = Tail(queue)
  /\ stage' = "configure"
  /\ UNCHANGED <<sent, agent, result, answer, broker, orphans, faults>>

\* The job is over: its client is answered and the next may be accepted.
Answer(a) ==
  /\ answer' = [answer EXCEPT ![serving] = a]
  /\ serving' = 0
  /\ stage' = "idle"
  /\ result' = Error
  /\ UNCHANGED queue

\* The broker opens a session and the agent starts.
Configure ==
  /\ stage = "configure"
  /\ sessions' = sessions \cup {serving}
  /\ stage' = "agent"
  /\ agent' = NoAgent
  /\ UNCHANGED <<sent, queue, serving, result, answer, threads, fetched, blobs, orphans, faults>>

Lost == losses < MaxLosses /\ losses' = losses + 1 /\ UNCHANGED deaths

\* The call fails before or after the session exists: nothing will revoke it.
ConfigureFails ==
  /\ stage = "configure"
  /\ Lost
  /\ sessions' \in {sessions, sessions \cup {serving}}
  /\ Answer(Error)
  /\ UNCHANGED <<sent, agent, threads, fetched, blobs, orphans>>

\* The agent process has ended: with a result, or with any error.
AgentEnds(r) ==
  /\ stage' = "revoke"
  /\ result' = r
  /\ agent' = NoAgent
  /\ UNCHANGED <<queue, serving, answer>>

\* Fault: the agent may run as long as it likes.
NeverTimesOut == FALSE /\ UNCHANGED vars

\* subprocess.run kills the agent at its timeout, whatever it was doing.
AgentTimesOut ==
  /\ stage = "agent"
  /\ AgentEnds(Error)
  /\ UNCHANGED <<sent, broker, orphans, faults>>

\* Fault: the session outlives the job.
RevokeNothing == sessions

Revoked == sessions \ {serving}

\* The finally clause: the session is revoked and the result is the answer.
Revoke ==
  /\ stage = "revoke"
  /\ sessions' = Revoked
  /\ Answer(result)
  /\ UNCHANGED <<sent, agent, threads, fetched, blobs, orphans, faults>>

\* The call fails before or after it took effect; its error replaces the result.
RevokeFails ==
  /\ stage = "revoke"
  /\ Lost
  /\ sessions' \in {sessions, Revoked}
  /\ Answer(Error)
  /\ UNCHANGED <<sent, agent, threads, fetched, blobs, orphans>>

\* The service process dies.  The clients it held lose their connection.  A session
\* stays in the broker, unless the call to open it had not arrived or the call to
\* revoke it had; the agent stays too, with nobody to kill it at the time-out.
ServiceDies ==
  /\ stage # "down"
  /\ deaths < MaxDeaths
  /\ deaths' = deaths + 1
  /\ answer' = [j \in Job |-> IF j = serving \/ j \in Range(queue) THEN Error ELSE answer[j]]
  /\ sessions' \in CASE stage = "configure" -> {sessions, sessions \cup {serving}}
                     [] stage = "revoke" -> {sessions, Revoked}
                     [] OTHER -> {sessions}
  /\ orphans' = IF stage = "agent"
                THEN [orphans EXCEPT ![serving] = MaxSteps - agent.steps] ELSE orphans
  /\ queue' = <<>> /\ serving' = 0 /\ stage' = "down"
  /\ agent' = NoAgent /\ result' = Error
  /\ UNCHANGED <<sent, threads, fetched, blobs, losses>>

\* main unlinks the socket of the process before it and listens anew.
Restart ==
  /\ stage = "down"
  /\ stage' = "idle"
  /\ UNCHANGED <<sent, queue, serving, agent, result, answer, broker, orphans, faults>>

-------------------------------------------------------------------------------
(* The agent: run_research.                                                *)

\* Fault: a step too many.
StepPastLast == agent.steps <= MaxSteps

StepLeft == agent.steps < MaxSteps

\* What a tool call names: a page to fetch, and perhaps to store under an id the
\* model chose; a search or an inspection leaves no evidence.
Arguments == (Url \X (Path \cup {NoPath})) \cup {<<NoPage, NoPath>>}

CallTool ==
  /\ stage = "agent"
  /\ ~agent.waits
  /\ StepLeft
  /\ agent' = [agent EXCEPT !.steps = @ + 1, !.waits = TRUE]
  /\ \E a \in Arguments :
       threads' = threads \cup {[job |-> serving, url |-> a[1], path |-> a[2], at |-> "arrived"]}
  /\ UNCHANGED <<sent, service, sessions, fetched, blobs, orphans, faults>>

\* An agent that outlived its service goes on, one call at a time, in the session
\* nobody revokes; what it writes at the end nobody reads.
OrphanCallsTool(j) ==
  /\ orphans[j] > 0
  /\ \A t \in threads : t.job # j
  /\ orphans' = [orphans EXCEPT ![j] = @ - 1]
  /\ \E a \in Arguments :
       threads' = threads \cup {[job |-> j, url |-> a[1], path |-> a[2], at |-> "arrived"]}
  /\ UNCHANGED <<sent, service, agent, sessions, fetched, blobs, faults>>

\* Fault: what the model cites need not have been fetched.
CitesAnything(cited, stored) == \A u \in stored : agent.evidence[u] \in Path

\* _build_candidates: every cited page was fetched, every cited media stored.
MayCite(cited, stored) ==
  /\ \A u \in cited : agent.evidence[u] # Unfetched
  /\ \A u \in stored : agent.evidence[u] \in Path

Cite(cited, stored) ==
  {<<u, IF u \in stored THEN agent.evidence[u] ELSE NoPath>> : u \in cited}

\* The model's final answer; candidates that cannot be built end the process.
Finish ==
  /\ stage = "agent"
  /\ ~agent.waits
  /\ StepLeft
  /\ \E cited \in SUBSET Url : \E stored \in SUBSET cited :
       AgentEnds(IF MayCite(cited, stored)
                 THEN [ok |-> TRUE, candidates |-> Cite(cited, stored)]
                 ELSE Error)
  /\ UNCHANGED <<sent, broker, orphans, faults>>

\* No final answer within the steps, a reply that is no decision, a tool call whose
\* answer does not come in time.
AgentRaises ==
  /\ stage = "agent"
  /\ AgentEnds(Error)
  /\ UNCHANGED <<sent, broker, orphans, faults>>

-------------------------------------------------------------------------------
(* The broker: one thread per request.                                     *)

\* The agent still waits for this thread's answer.
Awaited(t) == stage = "agent" /\ serving = t.job /\ agent.waits

\* An error answer ends the agent, also one without its service; without an agent,
\* nobody sees it.
AnswerError(t) ==
  /\ IF Awaited(t) THEN AgentEnds(Error) ELSE UNCHANGED <<service, agent>>
  /\ orphans' = [orphans EXCEPT ![t.job] = 0]

\* _session: the policy is read once, under the lock.
Authorise(t) ==
  /\ t.at = "arrived"
  /\ t.job \in sessions
  /\ threads' = (threads \ {t}) \cup {[t EXCEPT !.at = "authorised"]}
  /\ UNCHANGED <<sent, service, agent, sessions, fetched, blobs, orphans, faults>>

\* No session, a refused url or type, a redirect, a size, an unreachable server.
ToolFails(t) ==
  /\ threads' = threads \ {t}
  /\ AnswerError(t)
  /\ UNCHANGED <<sent, sessions, fetched, blobs, faults>>

Blob(t) == blobs[Research[t.job]][t.path]

\* Fault: a blob is replaced.
Overwrites(t) == TRUE

\* overwrite=False
MayStore(t) == Blob(t) = NoPath

Stored(t) == [blobs EXCEPT ![Research[t.job]][t.path] = t.url]

\* The blob is stored, but the storage's answer is lost.
StoreUnanswered(t) ==
  /\ t.at = "authorised"
  /\ t.path \in Path
  /\ MayStore(t)
  /\ threads' = threads \ {t}
  /\ blobs' = Stored(t)
  /\ AnswerError(t)
  /\ UNCHANGED <<sent, sessions, fetched, faults>>

\* A search or an inspection answers.
Look(t) ==
  /\ t.at = "authorised"
  /\ t.url = NoPage
  /\ threads' = threads \ {t}
  /\ agent' = IF Awaited(t) THEN [agent EXCEPT !.waits = FALSE] ELSE agent
  /\ UNCHANGED <<sent, service, sessions, fetched, blobs, orphans, faults>>

\* The page is fetched, and stored if the model asked for that.
Fetch(t) ==
  /\ t.at = "authorised"
  /\ t.url \in Url
  /\ t.path \in Path => MayStore(t)
  /\ threads' = threads \ {t}
  /\ fetched' = [fetched EXCEPT ![t.job] = @ \cup {t.url}]
  /\ blobs' = IF t.path \in Path THEN Stored(t) ELSE blobs
  /\ agent' = IF Awaited(t)
              THEN [agent EXCEPT !.waits = FALSE, !.evidence[t.url] = t.path] ELSE agent
  /\ UNCHANGED <<sent, service, sessions, orphans, faults>>

-------------------------------------------------------------------------------
ServiceStep ==
  Accept \/ Configure \/ AgentTimesOut \/ Revoke

Next ==
  \/ \E j \in Job : AskFor(j) \/ AskInVain(j) \/ OrphanCallsTool(j)
  \/ ServiceStep \/ ConfigureFails \/ RevokeFails \/ ServiceDies \/ Restart
  \/ CallTool \/ Finish \/ AgentRaises
  \/ \E t \in threads : Authorise(t) \/ ToolFails(t) \/ Look(t) \/ Fetch(t)
                         \/ StoreUnanswered(t)
  \/ sent = Job /\ queue = <<>> /\ serving = 0 /\ threads = {} /\ UNCHANGED vars

Spec == Init /\ [][Next]_vars

\* The service's own steps happen, its timeout among them; the agent, the broker's
\* threads and the network may stay silent for ever, and nothing here restarts a
\* service that died.
FairSpec == Spec /\ WF_vars(ServiceStep)

-------------------------------------------------------------------------------
(* Properties.                                                             *)

\* A thread stores only a page it fetches.
Thread ==
  {t \in [job: Job, url: Url \cup {NoPage}, path: Path \cup {NoPath},
          at: {"arrived", "authorised"}] :
     t.path \in Path => t.url \in Url}

Output == [ok: {TRUE}, candidates: SUBSET Candidate]

\* Every variable keeps its type.
TypeOK ==
  /\ queue \in Seq(Job)
  /\ sent \subseteq Job
  /\ serving \in Job \cup {0}
  /\ stage \in {"idle", "configure", "agent", "revoke", "down"}
  /\ agent \in [steps: 0..MaxSteps, waits: BOOLEAN,
                evidence: [Url -> Path \cup {NoPath, Unfetched}]]
  /\ result \in Output \cup {Error}
  /\ answer \in [Job -> Output \cup {Error, NoAnswer}]
  /\ sessions \subseteq Job
  /\ threads \subseteq Thread
  /\ fetched \in [Job -> SUBSET Url]
  /\ blobs \in [Range(Research) -> [Path -> Url \cup {NoPath}]]
  /\ losses \in 0..MaxLosses
  /\ orphans \in [Job -> 0..MaxSteps]
  /\ deaths \in 0..MaxDeaths

\* A client is given only candidates whose pages the broker served to its own job:
\* neither invented by the model nor left over from another job's session or agent.
CitedWasFetched ==
  \A j \in Job : answer[j].ok => \A c \in answer[j].candidates : c[1] \in fetched[j]

\* A media candidate names a blob that holds, and goes on holding, the page it
\* cites, though later jobs of the same research, and agents that outlived their
\* service, store under the same ids.
CitedMediaIsStored ==
  \A j \in Job : answer[j].ok =>
    \A c \in answer[j].candidates :
      c[2] \in Path => blobs[Research[j]][c[2]] = c[1]

\* The session of the job being served, from configure to revoke.
Current == IF stage \in {"agent", "revoke"} THEN {serving} ELSE {}

\* The job being served has its session until it is revoked, however the agent ends.
\* Beside it the broker has no more sessions than calls between service and broker
\* lost their answer and services died: each leaves one behind at most, and nothing
\* else leaves any.
SessionsOfJobs ==
  /\ Current \subseteq sessions
  /\ Cardinality(sessions \ Current) <= losses + deaths

\* Every job asked for is answered, even if the model, the broker's threads, the
\* network or the service process never come back.
JobsAnswered == \A j \in Job : j \in sent ~> answer[j] # NoAnswer
===============================================================================
