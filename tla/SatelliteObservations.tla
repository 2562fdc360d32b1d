------------------------- MODULE SatelliteObservations -------------------------
(***************************************************************************)
(* The deterministic satellite observation worker.  Each HTTP call asks    *)
(* for one artifact of an incident day; a lock lets one call at a time     *)
(* through in a process.  A call reads the target, decides from the        *)
(* durable batches whether the artifact is done in its current context     *)
(* (itself, its processor and its pre-fire reference), reads the product,  *)
(* twice through the paid openEO service for Sentinel-1, and publishes on  *)
(* the revision it read.                                                   *)
(*                                                                         *)
(* The backend, the product store and openEO are external; what the pixels *)
(* say is chosen nondeterministically.  The incident day's date and box    *)
(* and the processors' revisions do not change.                            *)
(***************************************************************************)
EXTENDS Naturals, Sequences, FiniteSets

CONSTANTS
  Call,          \* HTTP threads of the process
  Artifact,      \* satellite artifacts the target may have
  Processor,     \* satellite_observation_processor of each
  Reference,     \* the artifacts with temporal_role "pre_fire_reference"
  Foreign,       \* artifacts of a collection their processor is not for
  Malformed,     \* artifacts without the assets their processor reads
  FirstTickets,  \* the artifacts the target has first
  MaxUpsets      \* bound on failures, lost answers, writes of others, restarts

ASSUME ConstantsOK ==
  /\ Processor \in [Artifact -> {"clms", "frp", "s1", "s2"}]
  /\ Reference \subseteq Artifact
  /\ Foreign \subseteq Artifact
  /\ Malformed \subseteq Artifact
  /\ FirstTickets \subseteq Artifact
  /\ IsFiniteSet(Artifact) /\ Artifact # {}
  /\ "none" \notin Artifact \cup Call
  /\ MaxUpsets \in Nat

VARIABLES
  rev,        \* source revision of the target, in the backend
  tickets,    \* satellite_artifact_tickets
  batches,    \* satellite_observation_batches, in the order of their commits
  authorised, \* the process may spend openEO credits
  lock,       \* observation_lock: the call that holds it, or "none"
  call,       \* the locals of each call
  paid,       \* openEO requests spent on each artifact beside each reference
  upsets      \* failures, lost answers, writes of others and restarts so far

vars == <<rev, tickets, batches, authorised, lock, call, paid, upsets>>
backend == <<rev, tickets, batches>>

L == INSTANCE ObservationLedger

NoReference == "none"

-------------------------------------------------------------------------------
(* What the target says: pure functions of tickets and batches.            *)

Eligible == tickets \ Reference

NeedsReference(a) == Processor[a] \in {"s1", "s2"}
ReferencesOf(a) == {b \in tickets \cap Reference : Processor[b] = Processor[a]}

\* A change is known to be done only beside exactly one reference.
HasContext(a) == NeedsReference(a) => Cardinality(ReferencesOf(a)) = 1

Among(refs) == IF refs = {} THEN NoReference ELSE CHOOSE b \in refs : TRUE

ReferenceOf(a) == IF NeedsReference(a) THEN Among(ReferencesOf(a)) ELSE NoReference

\* The reference a change is computed beside.
UsedReference(a) ==
  IF NeedsReference(a) THEN Among(ReferencesOf(a) \ Foreign) ELSE NoReference

Results == {batches[i] : i \in DOMAIN batches}

\* Fault: an unavailable result is tried again under the same result id.
DoneIfAvailable(a) ==
  /\ HasContext(a)
  /\ \E b \in Results :
       b.artifact = a /\ b.reference = ReferenceOf(a) /\ b.status # "unavailable"

\* Fault: a result computed beside another reference still counts.
DoneBesideAny(a) == HasContext(a) /\ \E b \in Results : b.artifact = a

\* _current_completed_artifact_ids
Done(a) ==
  /\ HasContext(a)
  /\ \E b \in Results : b.artifact = a /\ b.reference = ReferenceOf(a)

\* Fault: the references are left to do too.
LeftWithReferences == {a \in tickets : ~Done(a)}

\* What is still to do, an artifact without a single reference included.
Left == {a \in Eligible : ~Done(a)}

Processable(a) ==
  /\ a \in Eligible \ (Foreign \cup Malformed)
  /\ NeedsReference(a) => /\ Cardinality(ReferencesOf(a) \ Foreign) = 1
                         /\ UsedReference(a) \notin Malformed

-------------------------------------------------------------------------------
NoCall == [at |-> "idle", artifact |-> CHOOSE a \in Artifact : TRUE,
           reference |-> NoReference, base |-> 0, left |-> 0, status |-> "completed"]

Init ==
  /\ rev = 0
  /\ tickets = FirstTickets
  /\ batches = <<>>
  /\ authorised = FALSE
  /\ lock = "none"
  /\ call = [c \in Call |-> NoCall]
  /\ paid = [a \in Artifact |-> [b \in Reference |-> 0]]
  /\ upsets = 0

Upset == upsets < MaxUpsets /\ upsets' = upsets + 1

Goto(c, step) == call' = [call EXCEPT ![c].at = step]

\* Fault: a busy worker takes another call.
LockIgnored == TRUE

LockFree == lock = "none"

\* A busy process answers at once that a retry is due; a free one takes the call.
Acquire(c, a) ==
  /\ call[c].at = "idle"
  /\ LockFree
  /\ lock' = c
  /\ call' = [call EXCEPT ![c] = [NoCall EXCEPT !.at = "read", !.artifact = a]]
  /\ UNCHANGED <<backend, authorised, paid, upsets>>

\* The finally clause, whatever ended the run.
End(c) ==
  /\ lock' = "none"
  /\ call' = [call EXCEPT ![c] = NoCall]

-------------------------------------------------------------------------------
(* run.                                                                    *)

\* An unknown or malformed artifact, or no single reference for a change.
Refuse(c) ==
  LET a == call[c].artifact
  IN /\ call[c].at = "read"
     /\ ~(a \in Eligible /\ Done(a))
     /\ ~Processable(a)
     /\ End(c)
     /\ UNCHANGED <<backend, authorised, paid, upsets>>

\* The artifact is done in its context: a receipt without any work.
Replay(c) ==
  LET a == call[c].artifact
  IN /\ call[c].at = "read"
     /\ a \in Eligible
     /\ Done(a)
     /\ End(c)
     /\ UNCHANGED <<backend, authorised, paid, upsets>>

\* Sentinel-1 without authorised credits publishes that it is unavailable; the
\* rest reads its product first, Sentinel-1 through two openEO requests.
Start(c) ==
  LET a == call[c].artifact
      unavailable == Processor[a] = "s1" /\ ~authorised
  IN /\ call[c].at = "read"
     /\ Processable(a)
     /\ ~Done(a)
     /\ call' = [call EXCEPT ![c] =
          [at |-> IF unavailable THEN "publish"
                  ELSE IF Processor[a] = "s1" THEN "pre" ELSE "process",
           artifact |-> a, reference |-> UsedReference(a), base |-> rev,
           left |-> Cardinality(Left),
           status |-> IF unavailable THEN "unavailable" ELSE "completed"]]
     /\ UNCHANGED <<backend, authorised, lock, paid, upsets>>

\* One openEO request: first for the reference, then for the artifact.
OpenEo(c) ==
  /\ call[c].at \in {"pre", "post"}
  /\ paid' = [paid EXCEPT ![call[c].artifact][call[c].reference] = @ + 1]
  /\ Goto(c, IF call[c].at = "pre" THEN "post" ELSE "process")
  /\ UNCHANGED <<backend, authorised, lock, upsets>>

\* The product is there; the observations are computed.
Process(c) ==
  /\ call[c].at = "process"
  /\ \E status \in {"completed", "no_observation"} :
       call' = [call EXCEPT ![c].at = "publish", ![c].status = status]
  /\ UNCHANGED <<backend, authorised, lock, paid, upsets>>

\* A read or a check of the product raises; an openEO request may be spent on it.
ProcessRaises(c) ==
  /\ call[c].at \in {"pre", "post", "process"}
  /\ Upset
  /\ \/ paid' = paid
     \/ /\ call[c].at # "process"
        /\ paid' = [paid EXCEPT ![call[c].artifact][call[c].reference] = @ + 1]
  /\ End(c)
  /\ UNCHANGED <<backend, authorised>>

Commit(c) ==
  /\ call[c].base = rev
  /\ rev' = rev + 1
  /\ batches' = Append(batches, [artifact |-> call[c].artifact,
                                 reference |-> call[c].reference,
                                 status |-> call[c].status])
  /\ UNCHANGED tickets

\* Fault: the artifact just published is still counted.
RemainingOfRead(c) == call[c].left

\* remaining of the receipt, from what the call read.
Remaining(c) == IF call[c].left = 0 THEN 0 ELSE call[c].left - 1

\* Committed, and the receipt is returned.
Publish(c) ==
  /\ call[c].at = "publish"
  /\ Commit(c)
  /\ End(c)
  /\ UNCHANGED <<authorised, paid, upsets>>

\* The target has moved on since the call read it.
PublishRefused(c) ==
  /\ call[c].at = "publish"
  /\ call[c].base # rev
  /\ End(c)
  /\ UNCHANGED <<backend, authorised, paid, upsets>>

\* The answer is lost, with or without the commit.
PublishUnanswered(c) ==
  /\ call[c].at = "publish"
  /\ Upset
  /\ Commit(c) \/ UNCHANGED backend
  /\ End(c)
  /\ UNCHANGED <<authorised, paid>>

-------------------------------------------------------------------------------
(* Others.                                                                 *)

\* A ticket appears or is withdrawn.
TicketsChange(a) ==
  /\ Upset
  /\ rev' = rev + 1
  /\ tickets' = IF a \in tickets THEN tickets \ {a} ELSE tickets \cup {a}
  /\ UNCHANGED <<batches, authorised, lock, call, paid>>

\* Another process analyses an artifact.
OtherPublishes(a) ==
  /\ Upset
  /\ Processable(a) /\ ~Done(a)
  /\ rev' = rev + 1
  /\ \E status \in {"completed", "unavailable"} :
       /\ status = "unavailable" => Processor[a] = "s1"
       /\ batches' = Append(batches, [artifact |-> a, reference |-> UsedReference(a),
                                      status |-> status])
  /\ UNCHANGED <<tickets, authorised, lock, call, paid>>

\* The process is replaced by one configured otherwise; its calls are lost.
Redeploy ==
  /\ Upset
  /\ authorised' = ~authorised
  /\ lock' = "none"
  /\ call' = [c \in Call |-> NoCall]
  /\ UNCHANGED <<backend, paid>>

-------------------------------------------------------------------------------
CallStep(c) ==
  \/ Refuse(c) \/ Replay(c) \/ Start(c) \/ OpenEo(c) \/ Process(c)
  \/ Publish(c) \/ PublishRefused(c)

Next ==
  \/ \E c \in Call : \E a \in Artifact : Acquire(c, a)
  \/ \E c \in Call : CallStep(c) \/ ProcessRaises(c) \/ PublishUnanswered(c)
  \/ \E a \in Artifact : TicketsChange(a) \/ OtherPublishes(a)
  \/ Redeploy

Spec == Init /\ [][Next]_vars

\* A call's steps happen, and a caller that goes on asking for an artifact is not
\* turned away as busy for ever.
FairSpec ==
  /\ Spec
  /\ \A c \in Call : WF_vars(CallStep(c))
  /\ \A a \in Artifact : SF_vars(\E c \in Call : Acquire(c, a))

-------------------------------------------------------------------------------
(* Properties.                                                             *)

Batch == [artifact: Artifact, reference: Reference \cup {NoReference},
          status: {"completed", "no_observation", "unavailable"}]

Calls == [at: {"idle", "read", "pre", "post", "process", "publish"},
          artifact: Artifact, reference: Reference \cup {NoReference},
          base: Nat, left: 0..Cardinality(Artifact \ Reference),
          status: {"completed", "no_observation", "unavailable"}]

\* Every variable keeps its type.
TypeOK ==
  /\ rev \in Nat
  /\ tickets \subseteq Artifact
  /\ batches \in Seq(Batch)
  /\ authorised \in BOOLEAN
  /\ lock \in Call \cup {"none"}
  /\ call \in [Call -> Calls]
  /\ paid \in [Artifact -> [Reference -> Nat]]
  /\ upsets \in 0..MaxUpsets

\* The durable results are those of an ObservationLedger: what was found out of a
\* product is published only onto a target in which the artifact can still be read,
\* beside the reference it was computed with, and has no result, whatever calls,
\* restarts, replicas and tickets came between.  No result id is taken twice.
LedgerSpec == L!Spec

\* The two openEO requests of a pair are spent once, and once more at most for each
\* failure, lost answer, foreign write or restart; competing calls cost nothing.
PaidOnce ==
  \A a \in Artifact : \A b \in Reference : paid[a][b] <= 2 * (1 + upsets)

\* The remaining count of a receipt is what is left after its commit.
RemainingHonest ==
  [][\A c \in Call : Publish(c) => Remaining(c) = Cardinality(Left')]_vars

\* Every artifact that can be processed is, beside the reference it has in the end,
\* if each is asked for again and again.
AllObserved == <>[](\A a \in Artifact : Processable(a) =>
  \E b \in Results : b.artifact = a /\ b.reference = UsedReference(a))
===============================================================================
