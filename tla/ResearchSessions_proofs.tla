------------------------- MODULE ResearchSessions_proofs -------------------------
(***************************************************************************)
(* Proofs about ResearchSessions, for any list of jobs and any pages,      *)
(* paths, steps, lost answers and deaths of the service.                   *)
(*                                                                         *)
(* What the broker has served and stored only grows, so a citation that    *)
(* was right when the agent made it stays right; and threads that outlive  *)
(* their job reach neither the agent nor the session of the next one.      *)
(* Only a fault, counted as it happens, leaves a session behind.           *)
(***************************************************************************)
EXTENDS ResearchSessions, FiniteSetTheorems, TLAPS

\* What a citation of page u, stored under p, says of job j is so.
Holds(u, p, j, f, b) == u \in f[j] /\ (p \in Path => b[Research[j]][p] = u)

\* The agent of job j knows only pages the broker served to j.
Evidenced(e, j, f, b) == \A u \in Url : e[u] # Unfetched => Holds(u, e[u], j, f, b)

\* A result given to job j cites only such pages.
Sound(r, j, f, b) == r.ok => \A c \in r.candidates : Holds(c[1], c[2], j, f, b)

Serving == IF stage \in {"idle", "down"} THEN serving = 0 ELSE serving \in Job

IInv ==
  /\ TypeOK
  /\ Serving
  /\ stage = "agent" => Evidenced(agent.evidence, serving, fetched, blobs)
  /\ stage = "revoke" => Sound(result, serving, fetched, blobs)
  /\ \A j \in Job : Sound(answer[j], j, fetched, blobs)
  /\ SessionsOfJobs

Results == Output \cup {Error, NoAnswer}
Evidences == [Url -> Path \cup {NoPath, Unfetched}]

\* What the broker has served and stored stays.
Grows ==
  /\ \A j \in Job : fetched[j] \subseteq fetched'[j]
  /\ \A r \in Range(Research) : \A p \in Path :
       blobs[r][p] # NoPath => blobs'[r][p] = blobs[r][p]

-------------------------------------------------------------------------------
(* Lemmas about the operators.                                             *)

LEMMA Names ==
  /\ NoPath \notin Path /\ Unfetched \notin Path /\ NoPath # Unfetched
  /\ NoPath \notin Url /\ NoPage \notin Url
BY NamesOK DEF NoPath, Unfetched, NoPage

LEMMA Jobs ==
  /\ \A j \in Job : Research[j] \in Range(Research)
  /\ 0 \notin Job
BY ConstantsOK DEF Job, Range

LEMMA Numbers ==
  /\ MaxSteps \in Nat /\ MaxSteps >= 1
  /\ MaxLosses \in Nat /\ MaxDeaths \in Nat
BY ConstantsOK

\* Nothing is promised of an error.
LEMMA Errors ==
  /\ Error \in Results /\ NoAnswer \in Results /\ ~Error.ok /\ ~NoAnswer.ok
  /\ \A j, f, b : Sound(Error, j, f, b) /\ Sound(NoAnswer, j, f, b)
BY DEF Error, NoAnswer, Results, Sound

\* What holds of a page keeps holding.
LEMMA StillHolds ==
  ASSUME Grows, NEW j \in Job, NEW u \in Url, NEW p, Holds(u, p, j, fetched, blobs)
  PROVE  Holds(u, p, j, fetched', blobs')
BY Jobs, Names DEF Grows, Holds

LEMMA StillSound ==
  ASSUME Grows, NEW j \in Job, NEW r \in Results, Sound(r, j, fetched, blobs)
  PROVE  Sound(r, j, fetched', blobs')
<1>1. ASSUME r.ok, NEW c \in r.candidates PROVE c[1] \in Url
  <2>1. r \in Output
    BY <1>1, Errors DEF Results
  <2>2. c \in Candidate
    BY <1>1, <2>1 DEF Output
  <2>3. QED
    BY <2>2 DEF Candidate
<1>2. QED
  BY <1>1, StillHolds DEF Sound

LEMMA StillEvidenced ==
  ASSUME Grows, NEW j \in Job, NEW e, Evidenced(e, j, fetched, blobs)
  PROVE  Evidenced(e, j, fetched', blobs')
BY StillHolds DEF Evidenced

LEMMA SameGrows == fetched' = fetched /\ blobs' = blobs => Grows
BY DEF Grows

\* The agent that has just started knows nothing.
LEMMA NoAgentType ==
  /\ NoAgent \in [steps: 0..MaxSteps, waits: BOOLEAN, evidence: Evidences]
  /\ \A j, f, b : Evidenced(NoAgent.evidence, j, f, b)
<1>1. NoAgent.evidence = [u \in Url |-> Unfetched]
  BY DEF NoAgent
<1>2. NoAgent.evidence \in Evidences
  BY <1>1 DEF Evidences
<1>3. QED
  BY <1>1, <1>2, Numbers DEF NoAgent, Evidenced

\* The types, one by one.
LEMMA Types ==
  ASSUME IInv
  PROVE  /\ queue \in Seq(Job) /\ sent \subseteq Job
         /\ agent \in [steps: 0..MaxSteps, waits: BOOLEAN, evidence: Evidences]
         /\ agent.evidence \in Evidences
         /\ result \in Output \cup {Error} /\ answer \in [Job -> Results]
         /\ sessions \subseteq Job /\ threads \subseteq Thread
         /\ fetched \in [Job -> SUBSET Url]
         /\ blobs \in [Range(Research) -> [Path -> Url \cup {NoPath}]]
         /\ losses \in 0..MaxLosses /\ losses \in Nat
         /\ orphans \in [Job -> 0..MaxSteps] /\ deaths \in 0..MaxDeaths /\ deaths \in Nat
BY Numbers DEF IInv, TypeOK, Results, Evidences

LEMMA LostType ==
  ASSUME losses \in 0..MaxLosses, Lost
  PROVE  losses' \in 0..MaxLosses /\ losses' = losses + 1 /\ deaths' = deaths
BY Numbers DEF Lost

\* Sessions that are no more than those left behind, and perhaps the current one.
LEMMA Behind ==
  ASSUME IInv, NEW S, S \subseteq (sessions \ Current) \cup {serving}
  PROVE  /\ Cardinality(S) \in Nat /\ Cardinality(S) <= losses + deaths + 1
         /\ S \subseteq sessions \ Current => Cardinality(S) <= losses + deaths
<1> DEFINE left == sessions \ Current
<1>1. IsFiniteSet(Job)
  <2>1. Len(Research) \in Nat /\ Job = 1..Len(Research)
    BY ConstantsOK DEF Job
  <2>2. QED
    BY <2>1, FS_Interval
<1>2. IsFiniteSet(left)
  BY <1>1, Types, FS_Subset
<1>3. Cardinality(left) <= losses + deaths
  BY DEF IInv, SessionsOfJobs
<1> HIDE DEF left
<1>4. /\ IsFiniteSet(left \cup {serving}) /\ Cardinality(left) \in Nat
      /\ Cardinality(left \cup {serving}) \in Nat
      /\ Cardinality(left \cup {serving}) <= Cardinality(left) + 1
  <2>1. IsFiniteSet(left \cup {serving})
    BY <1>2, FS_AddElement
  <2>2. QED
    BY <1>2, <2>1, FS_AddElement, FS_CardinalityType
<1>5. S \in SUBSET (left \cup {serving})
  BY DEF left
<1>6. /\ IsFiniteSet(S) /\ Cardinality(S) \in Nat
      /\ Cardinality(S) <= Cardinality(left \cup {serving})
  BY <1>4, <1>5, FS_Subset, FS_CardinalityType
<1>7. S \subseteq left => Cardinality(S) <= Cardinality(left)
  BY <1>2, FS_Subset
<1>8. QED
  BY <1>3, <1>4, <1>6, <1>7, Types DEF left

\* Nothing that the sessions depend on moves.
LEMMA SameSessions ==
  ASSUME IInv, UNCHANGED <<stage, serving, sessions, losses, deaths>>
  PROVE  SessionsOfJobs'
BY DEF IInv, SessionsOfJobs, Current

-------------------------------------------------------------------------------
(* The steps.                                                              *)

LEMMA InitIInv == Init => IInv
<1> SUFFICES ASSUME Init PROVE IInv
  OBVIOUS
<1>1. agent = NoAgent /\ result = Error /\ answer = [j \in Job |-> NoAnswer] /\ stage = "idle"
  BY DEF Init
<1>2. TypeOK
  <2>1. /\ queue \in Seq(Job) /\ fetched \in [Job -> SUBSET Url]
        /\ blobs \in [Range(Research) -> [Path -> Url \cup {NoPath}]]
    BY DEF Init
  <2>2. agent \in [steps: 0..MaxSteps, waits: BOOLEAN, evidence: [Url -> Path \cup {NoPath, Unfetched}]]
    BY <1>1, NoAgentType DEF Evidences
  <2>3. result \in Output \cup {Error} /\ answer \in [Job -> Output \cup {Error, NoAnswer}]
    BY <1>1
  <2>4. losses \in 0..MaxLosses /\ deaths \in 0..MaxDeaths /\ orphans \in [Job -> 0..MaxSteps]
    BY Numbers DEF Init
  <2>5. QED
    BY <2>1, <2>2, <2>3, <2>4 DEF Init, TypeOK
<1>3. \A j \in Job : Sound(answer[j], j, fetched, blobs)
  BY <1>1, Errors
<1>4. SessionsOfJobs
  BY <1>1, FS_EmptySet DEF Init, SessionsOfJobs, Current
<1>5. QED
  BY <1>1, <1>2, <1>3, <1>4 DEF IInv, Serving, Init

\* The answers given so far stay right while the broker serves more.
LEMMA AnswersStay ==
  ASSUME IInv, Grows, answer' = answer
  PROVE  \A j \in Job : Sound(answer'[j], j, fetched', blobs')
BY Types, StillSound DEF IInv

\* A step of the service that gives its job the answer r.
LEMMA AnswersSound ==
  ASSUME IInv, serving \in Job, NEW r \in Output \cup {Error},
         Sound(r, serving, fetched, blobs),
         Answer(r), UNCHANGED <<sent, agent, threads, fetched, blobs, orphans, deaths>>,
         sessions' \subseteq Job, losses' \in 0..MaxLosses,
         Cardinality(sessions') <= losses' + deaths
  PROVE  IInv'
<1>1. /\ answer' = [answer EXCEPT ![serving] = r]
      /\ serving' = 0 /\ stage' = "idle" /\ result' = Error /\ queue' = queue
  BY DEF Answer
<1>2. answer' \in [Job -> Results]
  BY <1>1, Types DEF Results
<1>3. TypeOK'
  BY <1>1, <1>2 DEF IInv, TypeOK, Results, Thread
<1>4. \A j \in Job : Sound(answer'[j], j, fetched', blobs')
  BY <1>1, Types DEF IInv
<1>5. SessionsOfJobs'
  <2>1. Current' = {}
    BY <1>1 DEF Current
  <2>2. sessions' \ Current' = sessions'
    BY <2>1
  <2>3. QED
    BY <2>1, <2>2 DEF SessionsOfJobs
<1>6. QED
  BY <1>1, <1>3, <1>4, <1>5 DEF IInv, Serving

\* A step that ends the agent with the result r, whatever the broker serves or
\* stores in the same step.
LEMMA AgentEndsSound ==
  ASSUME IInv, stage = "agent", NEW r \in Output \cup {Error},
         AgentEnds(r), Grows, Sound(r, serving, fetched', blobs'),
         threads' \subseteq Thread, fetched' \in [Job -> SUBSET Url],
         blobs' \in [Range(Research) -> [Path -> Url \cup {NoPath}]],
         orphans' \in [Job -> 0..MaxSteps],
         UNCHANGED <<sent, sessions, faults>>
  PROVE  IInv'
<1>1. /\ stage' = "revoke" /\ result' = r /\ agent' = NoAgent
      /\ queue' = queue /\ serving' = serving /\ answer' = answer
  BY DEF AgentEnds
<1>2. TypeOK'
  BY <1>1, NoAgentType DEF IInv, TypeOK, Evidences, faults
<1>3. \A j \in Job : Sound(answer'[j], j, fetched', blobs')
  BY <1>1, AnswersStay
<1>4. SessionsOfJobs'
  BY <1>1 DEF IInv, SessionsOfJobs, Current, faults
<1>5. QED
  BY <1>1, <1>2, <1>3, <1>4 DEF IInv, Serving

\* A step of the broker's that leaves the service alone; the agent may go on.
LEMMA BrokerStep ==
  ASSUME IInv, Grows, UNCHANGED <<sent, service, sessions, faults>>,
         threads' \subseteq Thread, fetched' \in [Job -> SUBSET Url],
         blobs' \in [Range(Research) -> [Path -> Url \cup {NoPath}]],
         orphans' \in [Job -> 0..MaxSteps],
         agent' \in [steps: 0..MaxSteps, waits: BOOLEAN, evidence: Evidences],
         stage = "agent" => Evidenced(agent'.evidence, serving, fetched', blobs')
  PROVE  IInv'
<1>1. /\ stage' = stage /\ serving' = serving /\ result' = result
      /\ answer' = answer /\ queue' = queue
  BY DEF service
<1>2. TypeOK'
  BY <1>1 DEF IInv, TypeOK, Evidences, faults
<1>3. \A j \in Job : Sound(answer'[j], j, fetched', blobs')
  BY <1>1, AnswersStay
<1>4. stage' = "revoke" => Sound(result', serving', fetched', blobs')
  BY <1>1, Types, StillSound DEF IInv, Serving, Results
<1>5. SessionsOfJobs'
  BY <1>1, SameSessions DEF faults
<1>6. QED
  BY <1>1, <1>2, <1>3, <1>4, <1>5 DEF IInv, Serving

LEMMA AskStep ==
  ASSUME IInv, NEW j \in Job, AskFor(j)
  PROVE  IInv'
<1>1. Append(queue, j) \in Seq(Job)
  BY Types
<1>2. TypeOK'
  BY <1>1 DEF AskFor, IInv, TypeOK, broker, faults, Thread
<1>3. SessionsOfJobs'
  BY SameSessions DEF AskFor, broker, faults
<1>4. QED
  BY <1>2, <1>3 DEF AskFor, IInv, Serving, broker

LEMMA AskInVainStep ==
  ASSUME IInv, NEW j \in Job, AskInVain(j)
  PROVE  IInv'
<1>1. answer' = [answer EXCEPT ![j] = Error] /\ answer' \in [Job -> Results]
  BY Types, Errors DEF AskInVain
<1>2. TypeOK'
  BY <1>1 DEF AskInVain, IInv, TypeOK, broker, faults, Thread, Results
<1>3. SessionsOfJobs'
  BY SameSessions DEF AskInVain, broker, faults
<1>4. \A k \in Job : Sound(answer'[k], k, fetched', blobs')
  BY <1>1, Types, Errors DEF AskInVain, IInv, broker
<1>5. QED
  BY <1>2, <1>3, <1>4 DEF AskInVain, IInv, Serving, broker

LEMMA AcceptStep ==
  ASSUME IInv, Accept
  PROVE  IInv'
<1>1. Head(queue) \in Job /\ Tail(queue) \in Seq(Job)
  BY Types DEF Accept
<1>2. stage = "idle" /\ stage' = "configure"
  BY DEF Accept
<1>3. TypeOK'
  BY <1>1 DEF Accept, IInv, TypeOK, broker, faults, Thread
<1>4. SessionsOfJobs'
  BY <1>2 DEF Accept, IInv, SessionsOfJobs, Current, broker, faults
<1>5. QED
  BY <1>1, <1>2, <1>3, <1>4 DEF Accept, IInv, Serving, broker

LEMMA ConfigureStep ==
  ASSUME IInv, Configure
  PROVE  IInv'
<1>1. serving \in Job /\ stage = "configure"
  BY DEF Configure, IInv, Serving
<1>2. TypeOK'
  BY <1>1, NoAgentType DEF Configure, IInv, TypeOK, Thread, Evidences, faults
<1>3. Evidenced(agent'.evidence, serving', fetched', blobs')
  BY NoAgentType DEF Configure
<1>4. SessionsOfJobs'
  <2>1. Current = {} /\ Current' = {serving}
    BY <1>1 DEF Configure, Current
  <2>2. /\ sessions' \ Current' \subseteq sessions \ Current
        /\ Current' \subseteq sessions'
    BY <2>1 DEF Configure
  <2>3. Cardinality(sessions' \ Current') <= losses + deaths
    BY <2>2, Behind
  <2>4. QED
    BY <2>2, <2>3 DEF SessionsOfJobs, Configure, faults
<1>5. QED
  BY <1>1, <1>2, <1>3, <1>4 DEF Configure, IInv, Serving

\* A call between service and broker that fails may leave the session behind.
LEMMA ServiceFailsStep ==
  ASSUME IInv, ConfigureFails \/ RevokeFails
  PROVE  IInv'
<1>1. serving \in Job
  BY DEF ConfigureFails, RevokeFails, IInv, Serving
<1>2. losses' \in 0..MaxLosses /\ losses' = losses + 1 /\ deaths' = deaths
  BY Types, LostType DEF ConfigureFails, RevokeFails
<1>3. sessions' \subseteq Job
  BY <1>1, Types DEF ConfigureFails, RevokeFails, Revoked
<1>4. Answer(Error) /\ UNCHANGED <<sent, agent, threads, fetched, blobs, orphans>>
  BY DEF ConfigureFails, RevokeFails
<1>5. Cardinality(sessions') <= losses' + deaths
  <2>1. sessions' \subseteq (sessions \ Current) \cup {serving}
    BY DEF ConfigureFails, RevokeFails, Revoked, Current
  <2>2. Cardinality(sessions') \in Nat /\ Cardinality(sessions') <= losses + deaths + 1
    BY <2>1, Behind
  <2>3. QED
    BY <1>2, <2>2, Types
<1>6. QED
  BY <1>1, <1>2, <1>3, <1>4, <1>5, Errors, AnswersSound

LEMMA RevokeStep ==
  ASSUME IInv, Revoke
  PROVE  IInv'
<1>1. stage = "revoke" /\ serving \in Job /\ Answer(result)
  BY DEF Revoke, IInv, Serving
<1>2. sessions' \subseteq Job /\ losses' \in 0..MaxLosses /\ losses' = losses
  BY Types DEF Revoke, Revoked, faults
<1>3. Cardinality(sessions') <= losses' + deaths
  <2>1. sessions' \subseteq sessions \ Current
    BY <1>1 DEF Revoke, Revoked, Current
  <2>2. QED
    BY <1>2, <2>1, Behind
<1>4. result \in Output \cup {Error} /\ Sound(result, serving, fetched, blobs)
  BY <1>1, Types DEF IInv
<1>5. UNCHANGED <<sent, agent, threads, fetched, blobs, orphans, deaths>>
  BY DEF Revoke, faults
<1>6. QED
  BY <1>1, <1>2, <1>3, <1>4, <1>5, AnswersSound

\* The service that dies leaves its session behind, unless it had none.
LEMMA DeathStep ==
  ASSUME IInv, ServiceDies
  PROVE  IInv'
<1>1. /\ stage # "down" /\ deaths < MaxDeaths /\ deaths' = deaths + 1
      /\ answer' = [j \in Job |-> IF j = serving \/ j \in Range(queue) THEN Error ELSE answer[j]]
      /\ queue' = <<>> /\ serving' = 0 /\ stage' = "down"
      /\ agent' = NoAgent /\ result' = Error
      /\ UNCHANGED <<sent, threads, fetched, blobs, losses>>
  BY DEF ServiceDies
<1>2. stage = "configure" \/ stage = "agent" \/ stage = "revoke" \/ stage = "idle"
  BY <1>1 DEF IInv, TypeOK
<1>3. stage # "idle" => serving \in Job
  BY <1>1 DEF IInv, Serving
<1>4. /\ sessions' \subseteq (sessions \ Current) \cup {serving}
      /\ sessions' \subseteq Job
  <2>1. CASE stage = "configure"
    BY <1>3, <2>1, Types DEF ServiceDies, Current
  <2>2. CASE stage = "revoke"
    BY <1>3, <2>2, Types DEF ServiceDies, Current, Revoked
  <2>3. CASE stage \in {"agent", "idle"}
    BY <1>3, <2>3, Types DEF ServiceDies, Current
  <2>4. QED
    BY <1>2, <2>1, <2>2, <2>3
<1>5. orphans' \in [Job -> 0..MaxSteps]
  <2>1. MaxSteps - agent.steps \in 0..MaxSteps
    BY Types, Numbers
  <2>2. orphans' \in {orphans, [orphans EXCEPT ![serving] = MaxSteps - agent.steps]}
    BY DEF ServiceDies
  <2>3. QED
    BY <2>1, <2>2, Types
<1>6. deaths' \in 0..MaxDeaths
  BY <1>1, Types, Numbers
<1>7. answer' \in [Job -> Results]
  BY <1>1, Types, Errors
<1>8. TypeOK'
  <2>1. agent' \in [steps: 0..MaxSteps, waits: BOOLEAN, evidence: [Url -> Path \cup {NoPath, Unfetched}]]
    BY <1>1, NoAgentType DEF Evidences
  <2>2. queue' \in Seq(Job)
    BY <1>1
  <2>3. answer' \in [Job -> Output \cup {Error, NoAnswer}]
    BY <1>7 DEF Results
  <2>4. QED
    BY <1>1, <1>4, <1>5, <1>6, <2>1, <2>2, <2>3 DEF IInv, TypeOK, Thread
<1>9. \A j \in Job : Sound(answer'[j], j, fetched', blobs')
  BY <1>1, Types, Errors DEF IInv
<1>10. SessionsOfJobs'
  <2>1. Current' = {}
    BY <1>1 DEF Current
  <2>2. sessions' \ Current' = sessions'
    BY <2>1
  <2>3. Cardinality(sessions') \in Nat /\ Cardinality(sessions') <= losses + deaths + 1
    BY <1>4, Behind
  <2>4. Cardinality(sessions') <= losses' + deaths'
    BY <1>1, <2>3, Types
  <2>5. QED
    BY <2>1, <2>2, <2>4 DEF SessionsOfJobs
<1>11. QED
  BY <1>1, <1>8, <1>9, <1>10 DEF IInv, Serving

LEMMA RestartStep ==
  ASSUME IInv, Restart
  PROVE  IInv'
<1>1. /\ stage = "down" /\ stage' = "idle"
      /\ UNCHANGED <<sent, queue, serving, agent, result, answer, sessions, threads, fetched,
                     blobs, losses, orphans, deaths>>
  BY DEF Restart, broker, faults
<1>2. TypeOK'
  BY <1>1 DEF IInv, TypeOK, Thread
<1>3. SessionsOfJobs'
  BY <1>1 DEF IInv, SessionsOfJobs, Current
<1>4. QED
  BY <1>1, <1>2, <1>3 DEF IInv, Serving

LEMMA AgentFailsStep ==
  ASSUME IInv, AgentTimesOut \/ AgentRaises
  PROVE  IInv'
<1>1. stage = "agent" /\ AgentEnds(Error) /\ UNCHANGED <<sent, broker, orphans, faults>>
  BY DEF AgentTimesOut, AgentRaises
<1>2. Grows
  BY <1>1, SameGrows DEF broker
<1>3. QED
  BY <1>1, <1>2, Types, Errors, AgentEndsSound DEF broker

LEMMA CallToolStep ==
  ASSUME IInv, CallTool
  PROVE  IInv'
<1>1. stage = "agent" /\ serving \in Job
  BY DEF CallTool, IInv, Serving
<1>2. PICK a \in Arguments :
        threads' = threads \cup {[job |-> serving, url |-> a[1], path |-> a[2], at |-> "arrived"]}
  BY DEF CallTool
<1>3. /\ a[1] \in Url \cup {NoPage} /\ a[2] \in Path \cup {NoPath}
      /\ a[2] \in Path => a[1] \in Url
  BY Names DEF Arguments
<1>4. threads' \subseteq Thread
  <2> DEFINE t == [job |-> serving, url |-> a[1], path |-> a[2], at |-> "arrived"]
  <2>1. t \in Thread
    BY <1>1, <1>3 DEF Thread
  <2>2. QED
    BY <1>2, <2>1, Types
<1>5. agent' = [agent EXCEPT !.steps = agent.steps + 1, !.waits = TRUE]
  BY DEF CallTool
<1>6. agent.steps + 1 \in 0..MaxSteps
  BY Types, Numbers DEF CallTool, StepLeft
<1>7. /\ agent' \in [steps: 0..MaxSteps, waits: BOOLEAN, evidence: Evidences]
      /\ agent'.evidence = agent.evidence
  BY <1>5, <1>6, Types
<1>8. QED
  BY <1>1, <1>4, <1>7, Types, SameGrows, BrokerStep DEF CallTool, IInv

\* The call of an agent nobody waits for is a thread like any other.
LEMMA OrphanCallsStep ==
  ASSUME IInv, NEW j \in Job, OrphanCallsTool(j)
  PROVE  IInv'
<1>1. PICK a \in Arguments :
        threads' = threads \cup {[job |-> j, url |-> a[1], path |-> a[2], at |-> "arrived"]}
  BY DEF OrphanCallsTool
<1>2. /\ a[1] \in Url \cup {NoPage} /\ a[2] \in Path \cup {NoPath}
      /\ a[2] \in Path => a[1] \in Url
  BY Names DEF Arguments
<1>3. threads' \subseteq Thread
  <2> DEFINE t == [job |-> j, url |-> a[1], path |-> a[2], at |-> "arrived"]
  <2>1. t \in Thread
    BY <1>2 DEF Thread
  <2>2. QED
    BY <1>1, <2>1, Types
<1>4. orphans' \in [Job -> 0..MaxSteps]
  BY Types, Numbers DEF OrphanCallsTool
<1>5. QED
  BY <1>3, <1>4, Types, SameGrows, BrokerStep DEF OrphanCallsTool, IInv

\* A final answer the builder accepts cites what the agent knows.
LEMMA FinishStep ==
  ASSUME IInv, Finish
  PROVE  IInv'
<1>1. stage = "agent" /\ serving \in Job /\ UNCHANGED <<sent, broker, orphans, faults>>
  BY DEF Finish, IInv, Serving
<1>2. PICK cited \in SUBSET Url : \E stored \in SUBSET cited :
        AgentEnds(IF MayCite(cited, stored)
                  THEN [ok |-> TRUE, candidates |-> Cite(cited, stored)]
                  ELSE Error)
  BY DEF Finish
<1>3. PICK stored \in SUBSET cited :
        AgentEnds(IF MayCite(cited, stored)
                  THEN [ok |-> TRUE, candidates |-> Cite(cited, stored)]
                  ELSE Error)
  BY <1>2
<1>4. Evidenced(agent.evidence, serving, fetched, blobs)
  BY <1>1 DEF IInv
<1>5. Grows
  BY <1>1, SameGrows DEF broker
<1>6. CASE ~MayCite(cited, stored)
  BY <1>1, <1>3, <1>5, <1>6, Types, Errors, AgentEndsSound DEF broker
<1>7. CASE MayCite(cited, stored)
  <2> DEFINE r == [ok |-> TRUE, candidates |-> Cite(cited, stored)]
  <2>1. ASSUME NEW u \in cited
        PROVE  LET p == IF u \in stored THEN agent.evidence[u] ELSE NoPath
               IN  p \in Path \cup {NoPath} /\ Holds(u, p, serving, fetched, blobs)
    <3>1. agent.evidence[u] # Unfetched /\ u \in Url
      BY <1>7, <2>1 DEF MayCite
    <3>2. Holds(u, agent.evidence[u], serving, fetched, blobs)
      BY <1>4, <3>1 DEF Evidenced
    <3>3. u \in stored => agent.evidence[u] \in Path
      BY <1>7 DEF MayCite
    <3>4. QED
      BY <3>2, <3>3, Names DEF Holds
  <2>2. Cite(cited, stored) \subseteq Candidate
    BY <2>1 DEF Cite, Candidate
  <2>3. r \in Output
    BY <2>2 DEF Output
  <2>4. Sound(r, serving, fetched, blobs)
    BY <2>1 DEF Sound, Cite
  <2>5. AgentEnds(r)
    BY <1>3, <1>7
  <2> HIDE DEF r
  <2>6. QED
    BY <1>1, <1>5, <2>3, <2>4, <2>5, Types, AgentEndsSound DEF broker
<1>8. QED
  BY <1>6, <1>7

LEMMA AuthoriseStep ==
  ASSUME IInv, NEW t \in threads, Authorise(t)
  PROVE  IInv'
<1>1. t \in Thread /\ [t EXCEPT !.at = "authorised"] \in Thread
  BY Types DEF Thread
<1>2. threads' \subseteq Thread
  BY <1>1, Types DEF Authorise
<1>3. QED
  BY <1>2, Types, SameGrows, BrokerStep DEF Authorise, IInv

\* An error answered to the awaiting agent ends it; otherwise nothing moves.
LEMMA ErrorAnswered ==
  ASSUME IInv, NEW t \in threads, AnswerError(t), Grows, threads' = threads \ {t},
         fetched' \in [Job -> SUBSET Url],
         blobs' \in [Range(Research) -> [Path -> Url \cup {NoPath}]],
         UNCHANGED <<sent, sessions, faults>>
  PROVE  IInv'
<1>1. threads' \subseteq Thread /\ orphans' \in [Job -> 0..MaxSteps]
  <2>1. 0 \in 0..MaxSteps /\ orphans' = [orphans EXCEPT ![t.job] = 0]
    BY Numbers DEF AnswerError
  <2>2. QED
    BY <2>1, Types
<1>2. CASE Awaited(t)
  BY <1>1, <1>2, Errors, AgentEndsSound DEF Awaited, AnswerError
<1>3. CASE ~Awaited(t)
  <2>1. UNCHANGED <<service, agent>>
    BY <1>3 DEF AnswerError
  <2>2. stage = "agent" => Evidenced(agent'.evidence, serving, fetched', blobs')
    BY <2>1, StillEvidenced DEF IInv, Serving
  <2>3. QED
    BY <1>1, <2>1, <2>2, Types, BrokerStep
<1>4. QED
  BY <1>2, <1>3

LEMMA ToolFailsStep ==
  ASSUME IInv, NEW t \in threads, ToolFails(t)
  PROVE  IInv'
BY Types, SameGrows, ErrorAnswered DEF ToolFails

\* Storing under a free path keeps what other paths hold.
LEMMA Storing ==
  ASSUME IInv, NEW t \in threads, MayStore(t), t.path \in Path, t.url \in Url
  PROVE  LET r == Research[t.job]
         IN  /\ Stored(t) \in [Range(Research) -> [Path -> Url \cup {NoPath}]]
             /\ Stored(t)[r][t.path] = t.url
             /\ \A s \in Range(Research) : \A p \in Path :
                  blobs[s][p] # NoPath => Stored(t)[s][p] = blobs[s][p]
<1>1. t.job \in Job
  BY Types DEF Thread
<1>2. Research[t.job] \in Range(Research)
  BY <1>1, Jobs
<1>3. QED
  BY <1>2, Types DEF Stored, MayStore, Blob

LEMMA StoreUnansweredStep ==
  ASSUME IInv, NEW t \in threads, StoreUnanswered(t)
  PROVE  IInv'
<1>1. /\ t.path \in Path /\ t.url \in Url /\ MayStore(t) /\ blobs' = Stored(t)
      /\ fetched' = fetched /\ threads' = threads \ {t} /\ AnswerError(t)
  BY Types DEF StoreUnanswered, Thread
<1>2. /\ blobs' \in [Range(Research) -> [Path -> Url \cup {NoPath}]]
      /\ Grows
  BY <1>1, Storing DEF Grows
<1>3. QED
  BY <1>1, <1>2, Types, ErrorAnswered DEF StoreUnanswered

LEMMA LookStep ==
  ASSUME IInv, NEW t \in threads, Look(t)
  PROVE  IInv'
<1>1. agent' \in {agent, [agent EXCEPT !.waits = FALSE]}
  BY DEF Look
<1>2. /\ agent' \in [steps: 0..MaxSteps, waits: BOOLEAN, evidence: Evidences]
      /\ agent'.evidence = agent.evidence
  BY <1>1, Types
<1>3. threads' \subseteq Thread
  BY Types DEF Look
<1>4. QED
  BY <1>2, <1>3, Types, SameGrows, BrokerStep DEF Look, IInv

\* The page joins what the broker served to the thread's job, and what the agent
\* knows only if the agent is that job's.
LEMMA FetchStep ==
  ASSUME IInv, NEW t \in threads, Fetch(t)
  PROVE  IInv'
<1>1. t.job \in Job /\ t.url \in Url /\ t.path \in Path \cup {NoPath}
  BY Types DEF Fetch, Thread
<1>2. threads' \subseteq Thread
  BY Types DEF Fetch
<1>3. /\ fetched' \in [Job -> SUBSET Url]
      /\ t.url \in fetched'[t.job]
      /\ \A j \in Job : fetched[j] \subseteq fetched'[j]
  BY <1>1, Types DEF Fetch
<1>4. /\ blobs' \in [Range(Research) -> [Path -> Url \cup {NoPath}]]
      /\ t.path \in Path => blobs'[Research[t.job]][t.path] = t.url
      /\ \A s \in Range(Research) : \A p \in Path :
           blobs[s][p] # NoPath => blobs'[s][p] = blobs[s][p]
  <2>1. CASE t.path \in Path
    <3>1. MayStore(t) /\ blobs' = Stored(t)
      BY <2>1 DEF Fetch
    <3>2. QED
      BY <1>1, <2>1, <3>1, Storing
  <2>2. CASE t.path \notin Path
    BY <2>2, Types DEF Fetch
  <2>3. QED
    BY <2>1, <2>2
<1>5. Grows
  BY <1>3, <1>4 DEF Grows
<1>6. Holds(t.url, t.path, t.job, fetched', blobs')
  BY <1>3, <1>4 DEF Holds
<1>7. CASE Awaited(t)
  <2>1. agent' = [agent EXCEPT !.waits = FALSE, !.evidence[t.url] = t.path]
    BY <1>7 DEF Fetch
  <2>2. agent'.evidence = [agent.evidence EXCEPT ![t.url] = t.path]
    BY <2>1, Types
  <2>3. agent'.evidence \in Evidences
    BY <1>1, <2>2, Types DEF Evidences
  <2>4. agent' \in [steps: 0..MaxSteps, waits: BOOLEAN, evidence: Evidences]
    BY <2>1, <2>2, <2>3, Types
  <2>5. stage = "agent" /\ serving = t.job
    BY <1>7 DEF Awaited
  <2>6. Evidenced(agent.evidence, serving, fetched', blobs')
    BY <1>1, <1>5, <2>5, StillEvidenced DEF IInv
  <2>7. Evidenced(agent'.evidence, serving, fetched', blobs')
    <3>1. ASSUME NEW u \in Url, agent'.evidence[u] # Unfetched
          PROVE  Holds(u, agent'.evidence[u], serving, fetched', blobs')
      <4>1. CASE u = t.url
        <5>1. agent'.evidence[u] = t.path
          BY <2>2, <4>1, Types DEF Evidences
        <5>2. QED
          BY <1>6, <2>5, <4>1, <5>1
      <4>2. CASE u # t.url
        <5>1. agent'.evidence[u] = agent.evidence[u]
          BY <2>2, <4>2, Types DEF Evidences
        <5>2. QED
          BY <2>6, <3>1, <5>1 DEF Evidenced
      <4>3. QED
        BY <4>1, <4>2
    <3>2. QED
      BY <3>1 DEF Evidenced
  <2>8. QED
    BY <1>2, <1>3, <1>4, <1>5, <2>4, <2>7, Types, BrokerStep DEF Fetch
<1>8. CASE ~Awaited(t)
  <2>1. agent' = agent
    BY <1>8 DEF Fetch
  <2>2. stage = "agent" => Evidenced(agent'.evidence, serving, fetched', blobs')
    BY <1>5, <2>1, StillEvidenced DEF IInv, Serving
  <2>3. QED
    BY <1>2, <1>3, <1>4, <1>5, <2>1, <2>2, Types, BrokerStep DEF Fetch
<1>9. QED
  BY <1>7, <1>8

-------------------------------------------------------------------------------
(* The theorems.                                                           *)

LEMMA NextIInv == IInv /\ [Next]_vars => IInv'
<1> SUFFICES ASSUME IInv, [Next]_vars PROVE IInv'
  OBVIOUS
<1>1. CASE UNCHANGED vars
  <2>1. SessionsOfJobs'
    BY <1>1, SameSessions DEF vars
  <2>2. QED
    BY <1>1, <2>1 DEF vars, IInv, TypeOK, Serving, Thread
<1>2. ASSUME NEW j \in Job, AskFor(j) \/ AskInVain(j) \/ OrphanCallsTool(j) PROVE IInv'
  BY <1>2, AskStep, AskInVainStep, OrphanCallsStep
<1>3. CASE ServiceStep
  BY <1>3, AcceptStep, ConfigureStep, AgentFailsStep, RevokeStep DEF ServiceStep
<1>4. CASE ConfigureFails \/ RevokeFails \/ CallTool \/ Finish \/ AgentRaises
  BY <1>4, ServiceFailsStep, CallToolStep, FinishStep, AgentFailsStep
<1>5. ASSUME NEW t \in threads,
             \/ Authorise(t) \/ ToolFails(t) \/ Look(t) \/ Fetch(t) \/ StoreUnanswered(t)
      PROVE  IInv'
  BY <1>5, AuthoriseStep, ToolFailsStep, LookStep, FetchStep, StoreUnansweredStep
<1>6. CASE ServiceDies \/ Restart
  BY <1>6, DeathStep, RestartStep
<1>7. QED
  BY <1>1, <1>2, <1>3, <1>4, <1>5, <1>6 DEF Next

LEMMA Invariance == Spec => []IInv
BY InitIInv, NextIInv, PTL DEF Spec

\* Every variable keeps its type; a broker thread stores only a page it fetches.
THEOREM TypeCorrect == Spec => []TypeOK
<1>1. IInv => TypeOK
  BY DEF IInv
<1>2. QED
  BY <1>1, Invariance, PTL

\* Every page an answer cites was served by the broker to the very job answered,
\* whatever threads of earlier jobs are still running.
THEOREM CitationsFetched == Spec => []CitedWasFetched
<1>1. IInv => CitedWasFetched
  BY DEF IInv, Sound, Holds, CitedWasFetched
<1>2. QED
  BY <1>1, Invariance, PTL

\* A media an answer names is stored, for ever, under the path the answer gives and
\* with the page it cites: later jobs of the same research cannot replace it.
THEOREM CitationsStored == Spec => []CitedMediaIsStored
<1>1. IInv => CitedMediaIsStored
  BY DEF IInv, Sound, Holds, CitedMediaIsStored
<1>2. QED
  BY <1>1, Invariance, PTL

\* The job being served has its session; beside it the broker has at most one for
\* each lost answer and each death of the service process, and without either none.
THEOREM SessionsRevoked == Spec => []SessionsOfJobs
<1>1. IInv => SessionsOfJobs
  BY DEF IInv
<1>2. QED
  BY <1>1, Invariance, PTL

===============================================================================
