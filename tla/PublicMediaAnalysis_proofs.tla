----------------------- MODULE PublicMediaAnalysis_proofs -----------------------
(***************************************************************************)
(* Proofs about PublicMediaAnalysis, for any number of concurrent runs,    *)
(* media, attempts, reopened waves and upsets.                             *)
(*                                                                         *)
(* What a run read of a media is out of date as soon as anybody commits,   *)
(* but then so is the revision its batch is built on: the invariant ties   *)
(* what a run or a batch in flight says of a media to that revision.       *)
(***************************************************************************)
EXTENDS PublicMediaAnalysis, SequenceTheorems, WellFoundedInduction, TLAPS

\* The n-th attempt of media m is the next one, and none before it is a success.
NextAttempt(m, n, bt) == n = Len(bt[m]) + 1 /\ \A i \in DOMAIN bt[m] : bt[m][i].outcome # "success"

\* A batch in flight is stale, or the next attempt of its media in a closed collection.
Queued(q, rv, col, bt) ==
  /\ q.base <= rv
  /\ q.base = rv => col /\ NextAttempt(q.media, q.batch.attempt, bt)

\* The revision a run's next batch is built on, and the media it still has to analyse.
Base(k, ch) == k.rev + (IF ch = "taken" THEN 1 ELSE 0)
Left(k, ch) == IF ch = "taken" THEN k.todo \ {First(k.todo)} ELSE k.todo

\* A run is stale, or has read the target as it is.
Live(k, ch, rv, col, bt) ==
  k.at # "idle" =>
    /\ Base(k, ch) <= rv
    /\ Base(k, ch) = rv =>
         /\ col
         /\ \A m \in Left(k, ch) : NextAttempt(m, k.seen[m] + 1, bt)

\* Where a run stands with its publication.
Shape(k, ch) ==
  /\ k.at = "publish" <=> ch # "none"
  /\ k.at = "publish" => k.todo # {} /\ k.outcome # "none"
  /\ \A m \in k.todo : k.seen[m] < MaxAttempts

IInv ==
  /\ TypeOK
  /\ AttemptsInOrder
  /\ \A r \in Run : Shape(run[r], channel[r])
  /\ \A r \in Run : Live(run[r], channel[r], rev, collected, batches)
  /\ \A q \in late : Queued(q, rev, collected, batches)

-------------------------------------------------------------------------------
(* Lemmas about the operators.                                             *)

LEMMA Numbers ==
  /\ MaxAttempts \in Nat /\ MaxAttempts >= 1 /\ MaxReopenings \in Nat /\ MaxUpsets \in Nat
  /\ Len(Kind) \in Nat /\ Media = 1..Len(Kind) /\ FirstTickets \subseteq Media
<1>1. MaxAttempts \in Nat \ {0} /\ MaxReopenings \in Nat /\ MaxUpsets \in Nat
  BY ConstantsOK
<1>2. Len(Kind) \in Nat /\ Media = 1..Len(Kind)
  BY ConstantsOK, LenProperties DEF Media
<1>3. QED
  BY <1>1, <1>2, ConstantsOK

\* A set of numbers that is not empty has a least member.
LEMMA LeastElement ==
  ASSUME NEW S, S \subseteq Nat, S # {}
  PROVE  \E a \in S : \A b \in S : a <= b
<1>1. PICK a \in S : \A b \in S : ~ (<<b, a>> \in OpToRel(<, Nat))
  BY NatLessThanWellFounded, WFMin
<1>2. \A b \in S : ~ (b < a)
  BY <1>1 DEF OpToRel
<1>3. QED
  BY <1>2

LEMMA FirstOf == ASSUME NEW s \in SUBSET Media, s # {} PROVE First(s) \in s
<1>1. \E a \in s : \A b \in s : a <= b
  <2>1. s \subseteq Nat
    BY Numbers
  <2>2. QED
    BY <2>1, LeastElement
<1>2. QED
  BY <1>1 DEF First

\* No more batches than attempts.
LEMMA Attempts ==
  ASSUME IInv, NEW m \in Media
  PROVE  /\ batches[m] \in Seq(Batches) /\ Len(batches[m]) \in 0..MaxAttempts
         /\ DOMAIN batches[m] = 1..Len(batches[m])
<1>1. batches[m] \in Seq(Batches)
  BY DEF IInv, TypeOK
<1>2. Len(batches[m]) \in Nat /\ DOMAIN batches[m] = 1..Len(batches[m])
  BY <1>1, LenProperties
<1>3. CASE Len(batches[m]) = 0
  BY <1>1, <1>2, <1>3, Numbers
<1>4. CASE Len(batches[m]) # 0
  <2>1. Len(batches[m]) \in 1..Len(batches[m])
    BY <1>2, <1>4
  <2>2. batches[m][Len(batches[m])] \in Batches
    BY <1>1, <2>1, ElementOfSeq
  <2>3. batches[m][Len(batches[m])].attempt = Len(batches[m])
    BY <1>2, <2>1 DEF IInv, AttemptsInOrder
  <2>4. Len(batches[m]) <= MaxAttempts
    BY <2>2, <2>3, Numbers DEF Batches
  <2>5. QED
    BY <1>1, <1>2, <2>4, Numbers
<1>5. QED
  BY <1>3, <1>4

\* What is pending may be attempted again.
LEMMA PendingFresh ==
  ASSUME IInv, NEW m \in Pending
  PROVE  m \in Media /\ Len(batches[m]) < MaxAttempts /\ NextAttempt(m, Len(batches[m]) + 1, batches)
BY DEF IInv, TypeOK, Pending, Succeeded, AttemptLeft, NextAttempt

LEMMA NoRunType ==
  /\ NoRun \in Runs /\ Shape(NoRun, "none")
  /\ \A rv, col, bt : Live(NoRun, "none", rv, col, bt)
<1>1. [m \in Media |-> 0] \in [Media -> 0..MaxAttempts]
  BY Numbers
<1>2. QED
  BY <1>1 DEF NoRun, Runs, Shape, Live

\* The request of a run whose batch is sent.
LEMMA SentRequest ==
  ASSUME IInv, NEW r \in Run, channel[r] = "sent"
  PROVE  /\ Request(r) \in Requests
         /\ Request(r).media = First(run[r].todo) /\ Request(r).base = run[r].rev
         /\ First(run[r].todo) \in run[r].todo
         /\ Queued(Request(r), rev, collected, batches)
<1> DEFINE k == run[r]
           m == First(k.todo)
<1>1. k \in Runs /\ Shape(k, "sent") /\ Live(k, "sent", rev, collected, batches)
  BY DEF IInv, TypeOK
<1>2. k.at = "publish" /\ m \in k.todo /\ m \in Media
  BY <1>1, FirstOf DEF Shape, Runs
<1>3. Request(r) = [media |-> m, base |-> k.rev,
                    batch |-> [attempt |-> k.seen[m] + 1, outcome |-> k.outcome]]
  BY DEF Request, Batch, NextMedia
<1>4. k.seen[m] \in Nat /\ k.seen[m] + 1 \in 1..MaxAttempts
  BY <1>1, <1>2, Numbers DEF Runs, Shape
<1> HIDE DEF k, m
<1>5. [attempt |-> k.seen[m] + 1, outcome |-> k.outcome] \in Batches
  BY <1>1, <1>2, <1>4 DEF Batches, Shape, Runs
<1>6. Request(r) \in Requests
  BY <1>1, <1>2, <1>3, <1>5 DEF Requests, Runs
<1>7. Queued(Request(r), rev, collected, batches)
  <2>1. k.rev \in Nat /\ Base(k, "sent") = k.rev /\ Left(k, "sent") = k.todo
    BY <1>1 DEF Base, Left, Runs
  <2>2. /\ k.rev <= rev
        /\ k.rev = rev => collected /\ NextAttempt(m, k.seen[m] + 1, batches)
    BY <1>1, <1>2, <2>1 DEF Live
  <2>3. QED
    BY <1>3, <2>2 DEF Queued
<1>8. QED
  BY <1>2, <1>3, <1>6, <1>7 DEF k, m

-------------------------------------------------------------------------------
(* The steps.                                                              *)

LEMMA InitIInv == Init => IInv
<1> SUFFICES ASSUME Init PROVE IInv
  OBVIOUS
<1>1. /\ batches = [m \in Media |-> <<>>] /\ run = [r \in Run |-> NoRun]
      /\ channel = [r \in Run |-> "none"] /\ late = {}
  BY DEF Init
<1>2. /\ batches \in [Media -> Seq(Batches)] /\ AttemptsInOrder
  BY <1>1, EmptySeq DEF AttemptsInOrder
<1>3. TypeOK
  BY <1>1, <1>2, NoRunType, Numbers DEF Init, TypeOK, Channels
<1>4. QED
  BY <1>1, <1>2, <1>3, NoRunType DEF IInv

\* A step of one run, or between it and its channel, that commits nothing.
LEMMA LocalStep ==
  ASSUME IInv, NEW r \in Run, NEW k \in Runs, NEW ch \in Channels,
         run' = [run EXCEPT ![r] = k], channel' = [channel EXCEPT ![r] = ch],
         Shape(k, ch), Live(k, ch, rev, collected, batches),
         UNCHANGED durable,
         late' \subseteq Requests, \A q \in late' : Queued(q, rev, collected, batches),
         sessions' \subseteq Run, upsets' \in 0..MaxUpsets
  PROVE  IInv'
<1>1. run \in [Run -> Runs] /\ channel \in [Run -> Channels]
  BY DEF IInv, TypeOK
<1>2. /\ run' \in [Run -> Runs] /\ channel' \in [Run -> Channels]
      /\ run'[r] = k /\ channel'[r] = ch
      /\ \A s \in Run : s # r => run'[s] = run[s] /\ channel'[s] = channel[s]
  BY <1>1
<1>3. /\ rev' = rev /\ collected' = collected /\ tickets' = tickets
      /\ batches' = batches /\ reopenings' = reopenings
  BY DEF durable
<1>4. TypeOK' /\ AttemptsInOrder'
  <2>1. TypeOK'
    BY <1>2, <1>3 DEF IInv, TypeOK
  <2>2. AttemptsInOrder'
    BY <1>3 DEF IInv, AttemptsInOrder
  <2>3. QED
    BY <2>1, <2>2
<1>5. ASSUME NEW s \in Run
      PROVE  Shape(run'[s], channel'[s]) /\ Live(run'[s], channel'[s], rev', collected', batches')
  BY <1>2, <1>3 DEF IInv
<1>6. \A q \in late' : Queued(q, rev', collected', batches')
  BY <1>3
<1>7. QED
  BY <1>4, <1>5, <1>6 DEF IInv

\* The types of a run.
LEMMA Locals ==
  ASSUME IInv, NEW r \in Run
  PROVE  /\ run[r] \in Runs /\ channel[r] \in Channels
         /\ run \in [Run -> Runs] /\ channel \in [Run -> Channels]
         /\ Shape(run[r], channel[r]) /\ Live(run[r], channel[r], rev, collected, batches)
         /\ rev \in Nat /\ tickets \subseteq Media /\ late \subseteq Requests
         /\ \A q \in late : Queued(q, rev, collected, batches)
         /\ sessions \subseteq Run /\ upsets \in 0..MaxUpsets
         /\ run[r].rev \in Nat /\ run[r].todo \subseteq Media
BY DEF IInv, TypeOK, Runs

LEMMA BeginStep ==
  ASSUME IInv, NEW r \in Run, BeginRun(r)
  PROVE  IInv'
<1> DEFINE k == [NoRun EXCEPT !.at = "analyse", !.rev = rev, !.eligible = tickets,
                              !.seen = [m \in Media |-> Len(batches[m])],
                              !.completed = {m \in tickets : Succeeded(m)},
                              !.todo = Selected(Pending)]
<1>1. /\ run' = [run EXCEPT ![r] = k] /\ channel' = channel /\ late' = late
      /\ sessions' = sessions \cup {r} /\ UNCHANGED durable /\ upsets' = upsets
      /\ run[r].at = "idle" /\ collected
  BY DEF BeginRun
<1>2. [m \in Media |-> Len(batches[m])] \in [Media -> 0..MaxAttempts]
  BY Attempts
<1>3. Selected(Pending) \subseteq Pending /\ Selected(Pending) \subseteq Media
  BY PendingFresh DEF Selected
<1>4. {m \in tickets : Succeeded(m)} \subseteq Media /\ tickets \subseteq Media /\ rev \in Nat
  BY Locals
<1>5. k \in Runs
  BY <1>2, <1>3, <1>4, NoRunType DEF Runs
<1>6. /\ k.at = "analyse" /\ k.rev = rev /\ k.todo = Selected(Pending)
      /\ \A m \in Media : k.seen[m] = Len(batches[m])
  BY DEF NoRun
<1> HIDE DEF k
<1>7. channel[r] = "none" /\ channel' = [channel EXCEPT ![r] = "none"]
  <2>1. channel[r] = "none"
    BY <1>1, Locals DEF Shape
  <2>2. QED
    BY <1>1, <2>1, Locals
<1>8. ASSUME NEW m \in k.todo
      PROVE  m \in Media /\ k.seen[m] < MaxAttempts /\ NextAttempt(m, k.seen[m] + 1, batches)
  BY <1>3, <1>6, <1>8, PendingFresh
<1>9. Shape(k, "none")
  BY <1>6, <1>8 DEF Shape
<1>10. Live(k, "none", rev, collected, batches)
  <2>1. Base(k, "none") = rev /\ Left(k, "none") = k.todo
    BY <1>4, <1>6 DEF Base, Left
  <2>2. QED
    BY <1>1, <1>4, <1>8, <2>1 DEF Live
<1>11. "none" \in Channels
  BY DEF Channels
<1>12. QED
  BY <1>1, <1>5, <1>7, <1>9, <1>10, <1>11, Locals, LocalStep

LEMMA AnalyseStep ==
  ASSUME IInv, NEW r \in Run, AnalyseMedia(r)
  PROVE  IInv'
<1> DEFINE m == NextMedia(r)
<1>1. /\ run[r].at = "analyse" /\ run[r].todo # {}
      /\ channel' = [channel EXCEPT ![r] = "sent"]
      /\ UNCHANGED <<durable, late, sessions, upsets>>
  BY DEF AnalyseMedia
<1>2. m \in Media
  BY <1>1, FirstOf, Locals DEF NextMedia
<1>3. PICK outcome \in {"success", "partial", "failed"} :
        run' = [run EXCEPT ![r].at = "publish", ![r].outcome = outcome,
                           ![r].attempted = run[r].attempted \cup {m}]
  BY Locals DEF AnalyseMedia, Outcomes, Outcome
<1> HIDE DEF m
<1> DEFINE k == [run[r] EXCEPT !.at = "publish", !.outcome = outcome,
                               !.attempted = run[r].attempted \cup {m}]
<1>4. run' = [run EXCEPT ![r] = k]
  BY <1>3, Locals
<1>5. /\ k \in Runs /\ k.at = "publish" /\ k.outcome = outcome
      /\ k.rev = run[r].rev /\ k.todo = run[r].todo /\ k.seen = run[r].seen
  BY <1>2, Locals DEF Runs
<1> HIDE DEF k
<1>6. channel[r] = "none"
  BY <1>1, Locals DEF Shape, Channels
<1>7. Shape(k, "sent")
  BY <1>1, <1>5, Locals DEF Shape
<1>8. Live(k, "sent", rev, collected, batches)
  BY <1>1, <1>5, <1>6, Locals DEF Live, Base, Left
<1>9. "sent" \in Channels
  BY DEF Channels
<1>10. QED
  BY <1>1, <1>4, <1>5, <1>7, <1>8, <1>9, Locals, LocalStep

LEMMA ReceiveStep ==
  ASSUME IInv, NEW r \in Run, ReceiveReceipt(r)
  PROVE  IInv'
<1> DEFINE m == First(run[r].todo)
           k == [run[r] EXCEPT !.at = "analyse", !.rev = run[r].rev + 1,
                               !.todo = run[r].todo \ {m}, !.outcome = "none",
                               !.succeeded = IF run[r].outcome = "success"
                                             THEN run[r].succeeded \cup {m}
                                             ELSE run[r].succeeded]
<1>1. /\ run[r].at = "publish" /\ channel[r] = "taken"
      /\ channel' = [channel EXCEPT ![r] = "none"]
      /\ UNCHANGED <<durable, late, sessions, upsets>>
  BY DEF ReceiveReceipt
<1>2. run' = [run EXCEPT ![r] = k]
  BY Locals DEF ReceiveReceipt, NextMedia
<1>3. m \in Media
  BY <1>1, FirstOf, Locals DEF Shape
<1> HIDE DEF m
<1>4. /\ k \in Runs /\ k.at = "analyse" /\ k.rev = run[r].rev + 1
      /\ k.todo = run[r].todo \ {m} /\ k.seen = run[r].seen
  <2> DEFINE s == IF run[r].outcome = "success" THEN run[r].succeeded \cup {m}
                                                ELSE run[r].succeeded
  <2>1. run[r] \in Runs /\ run[r].rev + 1 \in Nat
    BY Locals
  <2>2. s \in SUBSET Media /\ run[r].todo \ {m} \in SUBSET Media
    BY <1>3, <2>1 DEF Runs
  <2> HIDE DEF s
  <2>3. k = [run[r] EXCEPT !.at = "analyse", !.rev = run[r].rev + 1,
                           !.todo = run[r].todo \ {m}, !.outcome = "none",
                           !.succeeded = s]
    BY DEF s
  <2> HIDE DEF k
  <2>4. QED
    BY <2>1, <2>2, <2>3 DEF Runs
<1> HIDE DEF k
<1>5. Shape(k, "none")
  BY <1>4, Locals DEF Shape
<1>6. Live(k, "none", rev, collected, batches)
  <2>1. Live(run[r], "taken", rev, collected, batches)
    BY <1>1, Locals
  <2>2. Base(k, "none") = Base(run[r], "taken") /\ Left(k, "none") = Left(run[r], "taken")
    BY <1>4, Locals DEF Base, Left, m
  <2>3. QED
    BY <1>1, <1>4, <2>1, <2>2 DEF Live
<1>7. "none" \in Channels
  BY DEF Channels
<1>8. QED
  BY <1>1, <1>2, <1>4, <1>5, <1>6, <1>7, Locals, LocalStep

\* A run ends, and may leave its batch in flight.
LEMMA EndStep ==
  ASSUME IInv, NEW r \in Run, End(r), UNCHANGED durable,
         late' = late \/ (channel[r] = "sent" /\ late' = late \cup {Request(r)}),
         upsets' \in 0..MaxUpsets
  PROVE  IInv'
<1>1. /\ run' = [run EXCEPT ![r] = NoRun] /\ channel' = [channel EXCEPT ![r] = "none"]
      /\ sessions' \subseteq Run
  BY Locals DEF End, Revoke
<1>2. late' \subseteq Requests /\ \A q \in late' : Queued(q, rev, collected, batches)
  BY Locals, SentRequest
<1>3. "none" \in Channels
  BY DEF Channels
<1>4. QED
  BY <1>1, <1>2, <1>3, NoRunType, LocalStep

LEMMA EndSteps ==
  ASSUME IInv, NEW r \in Run, Return(r) \/ PublishRefused(r) \/ Abort(r)
  PROVE  IInv'
<1>1. End(r) /\ UNCHANGED durable
  BY DEF Return, PublishRefused, Abort
<1>2. late' = late \/ (channel[r] = "sent" /\ late' = late \cup {Request(r)})
  BY DEF Return, PublishRefused, Abort
<1>3. upsets' \in 0..MaxUpsets
  BY Locals, Numbers DEF Return, PublishRefused, Abort
<1>4. QED
  BY <1>1, <1>2, <1>3, EndStep

LEMMA RefuseStep ==
  ASSUME IInv, NEW r \in Run, BackendRefuses(r)
  PROVE  IInv'
<1>1. /\ channel[r] = "sent" /\ run[r].rev # rev /\ channel' = [channel EXCEPT ![r] = "refused"]
      /\ UNCHANGED <<durable, run, late, sessions, upsets>>
  BY DEF BackendRefuses
<1>2. run' = [run EXCEPT ![r] = run[r]]
  BY <1>1, Locals
<1>3. Shape(run[r], "refused")
  BY <1>1, Locals DEF Shape
<1>4. Live(run[r], "refused", rev, collected, batches)
  BY <1>1, Locals DEF Live, Base, Left
<1>5. "refused" \in Channels
  BY DEF Channels
<1>6. QED
  BY <1>1, <1>2, <1>3, <1>4, <1>5, Locals, LocalStep


\* A commit makes stale whatever was built on an earlier revision.
LEMMA Stale ==
  ASSUME NEW rv \in Nat, NEW col, NEW bt, NEW col2, NEW bt2
  PROVE  /\ \A k \in Runs, ch \in Channels : Live(k, ch, rv, col, bt) => Live(k, ch, rv + 1, col2, bt2)
         /\ \A q \in Requests : Queued(q, rv, col, bt) => Queued(q, rv + 1, col2, bt2)
<1>1. ASSUME NEW k \in Runs, NEW ch \in Channels, Live(k, ch, rv, col, bt)
      PROVE  Live(k, ch, rv + 1, col2, bt2)
  <2>1. Base(k, ch) \in Nat
    BY DEF Base, Runs
  <2>2. QED
    BY <1>1, <2>1 DEF Live
<1>2. ASSUME NEW q \in Requests, Queued(q, rv, col, bt)
      PROVE  Queued(q, rv + 1, col2, bt2)
  BY <1>2 DEF Queued, Requests
<1>3. QED
  BY <1>1, <1>2

\* A batch the backend commits is the next attempt of its media.
LEMMA Committed ==
  ASSUME IInv, NEW q \in Requests, Commit(q), Queued(q, rev, collected, batches)
  PROVE  /\ rev \in Nat /\ rev' = rev + 1 /\ collected /\ collected' = collected
         /\ tickets' = tickets /\ reopenings' = reopenings
         /\ batches' \in [Media -> Seq(Batches)] /\ AttemptsInOrder'
         /\ \A m \in Media : m # q.media => batches'[m] = batches[m]
<1> DEFINE m == q.media
           s == batches[m]
           e == q.batch
<1>1. rev \in Nat /\ batches \in [Media -> Seq(Batches)] /\ m \in Media /\ e \in Batches
  BY DEF IInv, TypeOK, Requests
<1>2. batches' = [batches EXCEPT ![m] = Append(s, e)] /\ q.base = rev
  BY DEF Commit
<1>3. collected /\ NextAttempt(m, e.attempt, batches)
  BY <1>2 DEF Queued
<1>4. s \in Seq(Batches) /\ Len(s) \in Nat /\ DOMAIN s = 1..Len(s)
  BY <1>1, LenProperties
<1>5. \A i \in DOMAIN s : s[i].attempt = i
  BY <1>1 DEF IInv, AttemptsInOrder
<1>6. e.attempt = Len(s) + 1 /\ \A i \in DOMAIN s : s[i].outcome # "success"
  BY <1>3 DEF NextAttempt
<1> HIDE DEF m, s, e
<1>7. /\ Append(s, e) \in Seq(Batches) /\ Len(Append(s, e)) = Len(s) + 1
      /\ \A i \in 1..Len(s) : Append(s, e)[i] = s[i]
      /\ Append(s, e)[Len(s) + 1] = e
  BY <1>1, <1>4, AppendProperties
<1>8. DOMAIN Append(s, e) = 1..(Len(s) + 1)
  BY <1>7, LenProperties
<1>9. /\ batches' \in [Media -> Seq(Batches)] /\ batches'[m] = Append(s, e)
      /\ \A n \in Media : n # m => batches'[n] = batches[n]
  BY <1>1, <1>2, <1>7
<1>10. ASSUME NEW i \in DOMAIN Append(s, e)
       PROVE  /\ Append(s, e)[i].attempt = i
              /\ Append(s, e)[i].outcome = "success" => i = Len(Append(s, e))
  <2>1. CASE i = Len(s) + 1
    BY <1>6, <1>7, <2>1
  <2>2. CASE i # Len(s) + 1
    <3>1. i \in 1..Len(s)
      BY <1>4, <1>8, <2>2
    <3>2. QED
      BY <1>4, <1>5, <1>6, <1>7, <3>1
  <2>3. QED
    BY <2>1, <2>2
<1>11. AttemptsInOrder'
  <2>1. ASSUME NEW n \in Media, NEW i \in DOMAIN batches'[n]
        PROVE  /\ batches'[n][i].attempt = i
               /\ batches'[n][i].outcome = "success" => i = Len(batches'[n])
    <3>1. CASE n = m
      BY <1>9, <1>10, <2>1, <3>1
    <3>2. CASE n # m
      BY <1>9, <2>1, <3>2 DEF IInv, AttemptsInOrder
    <3>3. QED
      BY <3>1, <3>2
  <2>2. QED
    BY <2>1 DEF AttemptsInOrder
<1>12. QED
  BY <1>1, <1>3, <1>9, <1>11 DEF Commit, m

LEMMA TakeStep ==
  ASSUME IInv, NEW r \in Run, BackendTakes(r)
  PROVE  IInv'
<1> DEFINE q == Request(r)
           k == run[r]
<1>1. /\ channel[r] = "sent" /\ Commit(q) /\ channel' = [channel EXCEPT ![r] = "taken"]
      /\ UNCHANGED <<run, late, sessions, upsets>>
  BY DEF BackendTakes
<1>2. /\ q \in Requests /\ Queued(q, rev, collected, batches) /\ q.base = rev
      /\ q.media = First(k.todo) /\ q.base = k.rev
  BY <1>1, SentRequest DEF Commit
<1>3. /\ rev \in Nat /\ rev' = rev + 1 /\ collected /\ collected' = collected
      /\ tickets' = tickets /\ reopenings' = reopenings
      /\ batches' \in [Media -> Seq(Batches)] /\ AttemptsInOrder'
      /\ \A m \in Media : m # q.media => batches'[m] = batches[m]
  BY <1>1, <1>2, Committed
<1> HIDE DEF q
<1>4. /\ channel' \in [Run -> Channels] /\ channel'[r] = "taken"
      /\ \A s \in Run : s # r => channel'[s] = channel[s]
  BY <1>1, Locals DEF Channels
<1>5. TypeOK'
  BY <1>1, <1>3, <1>4 DEF IInv, TypeOK
<1>6. Shape(k, "taken") /\ k \in Runs
  BY <1>1, Locals DEF Shape
<1>7. Live(k, "taken", rev', collected', batches')
  <2>1. Live(k, "sent", rev, collected, batches) /\ k.at # "idle"
    BY <1>1, <1>6, Locals DEF Shape
  <2>2. \A m \in k.todo : NextAttempt(m, k.seen[m] + 1, batches)
    BY <1>2, <1>3, <2>1 DEF Live, Base, Left
  <2>3. \A m \in k.todo \ {First(k.todo)} : batches'[m] = batches[m]
    BY <1>2, <1>3, <1>6 DEF Runs
  <2>4. \A m \in k.todo \ {First(k.todo)} : NextAttempt(m, k.seen[m] + 1, batches')
    BY <2>2, <2>3 DEF NextAttempt
  <2>5. Base(k, "taken") = rev' /\ Left(k, "taken") = k.todo \ {First(k.todo)}
    BY <1>2, <1>3 DEF Base, Left
  <2> HIDE DEF k
  <2>6. QED
    BY <1>3, <2>4, <2>5 DEF Live
<1>8. ASSUME NEW s \in Run
      PROVE  Shape(run'[s], channel'[s]) /\ Live(run'[s], channel'[s], rev', collected', batches')
  <2>1. CASE s = r
    BY <1>1, <1>4, <1>6, <1>7, <2>1
  <2>2. CASE s # r
    BY <1>1, <1>3, <1>4, <2>2, Stale, Locals
  <2>3. QED
    BY <2>1, <2>2
<1>9. \A p \in late' : Queued(p, rev', collected', batches')
  BY <1>1, <1>3, Stale, Locals DEF IInv, TypeOK
<1>10. QED
  BY <1>3, <1>5, <1>8, <1>9 DEF IInv

LEMMA LateArrivesStep ==
  ASSUME IInv, NEW q \in late, LateArrives(q)
  PROVE  IInv'
<1>1. /\ Commit(q) /\ late' = late \ {q} /\ UNCHANGED <<run, channel, sessions, upsets>>
  BY DEF LateArrives
<1>2. q \in Requests /\ Queued(q, rev, collected, batches) /\ late \subseteq Requests
  BY DEF IInv, TypeOK
<1>3. /\ rev \in Nat /\ rev' = rev + 1 /\ collected' = collected
      /\ tickets' = tickets /\ reopenings' = reopenings
      /\ batches' \in [Media -> Seq(Batches)] /\ AttemptsInOrder'
  BY <1>1, <1>2, Committed
<1>4. TypeOK'
  BY <1>1, <1>3 DEF IInv, TypeOK
<1>5. \A r \in Run : Shape(run'[r], channel'[r]) /\ Live(run'[r], channel'[r], rev', collected', batches')
  BY <1>1, <1>3, Stale, Locals
<1>6. \A p \in late' : Queued(p, rev', collected', batches')
  BY <1>1, <1>2, <1>3, Stale DEF IInv
<1>7. QED
  BY <1>3, <1>4, <1>5, <1>6 DEF IInv

LEMMA PageStep ==
  ASSUME IInv, NEW done \in BOOLEAN, PublishPage(done)
  PROVE  IInv'
<1>1. /\ rev \in Nat /\ rev' = rev + 1 /\ collected' \in BOOLEAN
      /\ UNCHANGED <<batches, run, channel, late, sessions, upsets>>
  BY DEF PublishPage, IInv, TypeOK
<1>2. tickets' \subseteq Media
  BY DEF PublishPage, IInv, TypeOK
<1>3. reopenings' \in 0..MaxReopenings
  BY Numbers DEF PublishPage, IInv, TypeOK
<1>4. TypeOK'
  BY <1>1, <1>2, <1>3 DEF IInv, TypeOK
<1>5. \A r \in Run : Shape(run'[r], channel'[r]) /\ Live(run'[r], channel'[r], rev', collected', batches')
  BY <1>1, Stale, Locals
<1>6. \A q \in late' : Queued(q, rev', collected', batches')
  BY <1>1, Stale DEF IInv, TypeOK
<1>7. AttemptsInOrder'
  BY <1>1 DEF IInv, AttemptsInOrder
<1>8. QED
  BY <1>4, <1>5, <1>6, <1>7 DEF IInv

LEMMA LateVanishesStep ==
  ASSUME IInv, NEW q \in late, LateVanishes(q)
  PROVE  IInv'
<1>1. late' = late \ {q} /\ UNCHANGED <<durable, run, channel, sessions, upsets>>
  BY DEF LateVanishes
<1>2. TypeOK'
  BY <1>1 DEF IInv, TypeOK, durable
<1>3. QED
  BY <1>1, <1>2 DEF IInv, durable, AttemptsInOrder

-------------------------------------------------------------------------------
(* The theorems.                                                           *)

LEMMA NextIInv == IInv /\ [Next]_vars => IInv'
<1> SUFFICES ASSUME IInv, [Next]_vars PROVE IInv'
  OBVIOUS
<1>1. CASE UNCHANGED vars
  <2>1. TypeOK'
    BY <1>1 DEF vars, IInv, TypeOK
  <2>2. QED
    BY <1>1, <2>1 DEF vars, IInv, AttemptsInOrder
<1>2. ASSUME NEW r \in Run, BeginRun(r) \/ RunStep(r) \/ BackendStep(r) \/ Abort(r)
      PROVE  IInv'
  BY <1>2, BeginStep, AnalyseStep, ReceiveStep, EndSteps, TakeStep, RefuseStep
     DEF RunStep, BackendStep
<1>3. ASSUME NEW q \in late, LateArrives(q) \/ LateVanishes(q) PROVE IInv'
  BY <1>3, LateArrivesStep, LateVanishesStep
<1>4. ASSUME NEW done \in BOOLEAN, PublishPage(done) PROVE IInv'
  BY <1>4, PageStep
<1>5. QED
  BY <1>1, <1>2, <1>3, <1>4 DEF Next

LEMMA Invariance == Spec => []IInv
BY InitIInv, NextIInv, PTL DEF Spec

\* Every variable keeps its type: in particular no media has more attempts than its
\* bound, though concurrent runs count them on what they read long before.
THEOREM TypeCorrect == Spec => []TypeOK
<1>1. IInv => TypeOK
  BY DEF IInv
<1>2. QED
  BY <1>1, Invariance, PTL

\* However many runs, late batches and crashes there are, the backend's check of the
\* revision alone makes the batches of a media its attempts in order.
THEOREM AttemptsOrdered == Spec => []AttemptsInOrder
<1>1. IInv => AttemptsInOrder
  BY DEF IInv
<1>2. QED
  BY <1>1, Invariance, PTL

\* A batch sent while a wave was closed is not taken once another one is open.
LEMMA OnlyClosed == IInv /\ [Next]_vars => [batches' # batches => collected]_vars
<1> SUFFICES ASSUME IInv, Next, batches' # batches PROVE collected
  BY DEF vars
<1>1. ASSUME NEW r \in Run, BeginRun(r) \/ RunStep(r) \/ Abort(r) \/ BackendRefuses(r) PROVE FALSE
  BY <1>1 DEF BeginRun, RunStep, AnalyseMedia, ReceiveReceipt, Return, PublishRefused,
     Abort, BackendRefuses, durable
<1>2. ASSUME NEW r \in Run, BackendTakes(r) PROVE collected
  BY <1>2, SentRequest, Committed DEF BackendTakes
<1>3. ASSUME NEW q \in late, LateArrives(q) PROVE collected
  BY <1>3, Committed DEF LateArrives, IInv, TypeOK
<1>4. ASSUME NEW q \in late, LateVanishes(q) PROVE FALSE
  BY <1>4 DEF LateVanishes, durable
<1>5. ASSUME NEW done \in BOOLEAN, PublishPage(done) PROVE FALSE
  BY <1>5 DEF PublishPage
<1>6. QED
  BY <1>1, <1>2, <1>3, <1>4, <1>5 DEF Next, BackendStep

\* A batch is committed only while the collection it analyses is closed, though
\* the worker checked that long before ("after source collection closes").
AnalysedAfterCollection == [][batches' # batches => collected]_vars

\* No media is analysed into the evidence while a wave is still being collected.
THEOREM ClosedWhenAnalysed == Spec => AnalysedAfterCollection
BY Invariance, OnlyClosed, PTL DEF Spec, AnalysedAfterCollection

-------------------------------------------------------------------------------
(* The ledger.                                                             *)

\* What a run has to analyse and what is in flight has a ticket.
Ticketed ==
  /\ \A r \in Run : run[r].todo \subseteq tickets
  /\ \A q \in late : q.media \in tickets

LEMMA InitTicketed == Init => Ticketed
BY DEF Init, Ticketed, NoRun

LEMMA NextTicketed == IInv /\ Ticketed /\ [Next]_vars => Ticketed'
<1> SUFFICES ASSUME IInv, Ticketed, [Next]_vars PROVE Ticketed'
  OBVIOUS
<1>0. run \in [Run -> Runs]
  BY DEF IInv, TypeOK
<1>1. CASE UNCHANGED vars
  BY <1>1 DEF vars, Ticketed
<1>2. ASSUME NEW r \in Run, BeginRun(r) PROVE Ticketed'
  <2>1. Selected(Pending) \subseteq tickets
    BY DEF Selected, Pending
  <2>2. run'[r].todo = Selected(Pending) /\ \A s \in Run : s # r => run'[s] = run[s]
    BY <1>0, <1>2 DEF BeginRun, NoRun
  <2>3. tickets' = tickets /\ late' = late
    BY <1>2 DEF BeginRun, durable
  <2>4. QED
    BY <2>1, <2>2, <2>3 DEF Ticketed
<1>3. ASSUME NEW r \in Run, AnalyseMedia(r) \/ ReceiveReceipt(r) PROVE Ticketed'
  <2>1. run'[r].todo \subseteq run[r].todo /\ \A s \in Run : s # r => run'[s] = run[s]
    <3>1. run[r] \in Runs
      BY <1>0
    <3>2. CASE AnalyseMedia(r)
      BY <1>0, <3>1, <3>2 DEF AnalyseMedia, Runs
    <3>3. CASE ReceiveReceipt(r)
      <4> DEFINE m == NextMedia(r)
                 won == IF run[r].outcome = "success" THEN run[r].succeeded \cup {m}
                                                      ELSE run[r].succeeded
                 k == [run[r] EXCEPT !.at = "analyse", !.rev = run[r].rev + 1,
                                     !.todo = run[r].todo \ {m}, !.outcome = "none",
                                     !.succeeded = won]
      <4>1. run' = [run EXCEPT ![r] = k]
        BY <1>0, <3>3 DEF ReceiveReceipt
      <4>2. k.todo = run[r].todo \ {m}
        BY <3>1 DEF Runs
      <4> HIDE DEF k
      <4>3. QED
        BY <1>0, <4>1, <4>2
    <3>4. QED
      BY <1>3, <3>2, <3>3
  <2>2. tickets' = tickets /\ late' = late
    BY <1>3 DEF AnalyseMedia, ReceiveReceipt, durable
  <2>3. QED
    BY <2>1, <2>2 DEF Ticketed
<1>4. ASSUME NEW r \in Run, Return(r) \/ PublishRefused(r) \/ Abort(r) PROVE Ticketed'
  <2>1. /\ run'[r].todo = {} /\ \A s \in Run : s # r => run'[s] = run[s]
        /\ tickets' = tickets
    BY <1>0, <1>4 DEF Return, PublishRefused, Abort, End, NoRun, durable
  <2>2. ASSUME NEW q \in late', q \notin late PROVE q.media \in tickets
    <3>1. channel[r] = "sent" /\ q = Request(r)
      BY <1>4, <2>2 DEF Return, PublishRefused, Abort
    <3>2. QED
      BY <3>1, SentRequest DEF Ticketed
  <2>3. QED
    BY <2>1, <2>2 DEF Ticketed
<1>5. ASSUME NEW r \in Run, BackendStep(r) PROVE Ticketed'
  BY <1>5 DEF BackendStep, BackendTakes, BackendRefuses, Commit, Ticketed, durable
<1>6. ASSUME NEW q \in late, LateArrives(q) \/ LateVanishes(q) PROVE Ticketed'
  BY <1>6 DEF LateArrives, LateVanishes, Commit, Ticketed, durable
<1>7. ASSUME NEW done \in BOOLEAN, PublishPage(done) PROVE Ticketed'
  BY <1>7 DEF PublishPage, Ticketed
<1>8. QED
  BY <1>1, <1>2, <1>3, <1>4, <1>5, <1>6, <1>7 DEF Next, RunStep

\* A commit that the backend takes is the next entry of its media.
LEMMA CommitAppends ==
  ASSUME IInv, NEW q \in Requests, Commit(q), Queued(q, rev, collected, batches),
         q.media \in tickets
  PROVE  L!Next
<1> DEFINE m == q.media
<1>1. /\ m \in Media /\ q.batch \in Batches /\ q.base = rev
      /\ batches \in [Media -> Seq(Batches)] /\ Len(batches[m]) \in Nat
  BY Attempts DEF Requests, Commit, IInv, TypeOK
<1>2. /\ collected /\ q.batch.attempt = Len(batches[m]) + 1
      /\ \A i \in DOMAIN batches[m] : batches[m][i].outcome # "success"
  BY <1>1 DEF Queued, NextAttempt
<1>3. Len(batches[m]) < MaxAttempts
  BY <1>1, <1>2, Numbers DEF Batches
<1>4. /\ q.batch.outcome \in L!Outcome
      /\ q.batch = L!Attempt(Len(batches[m]) + 1, q.batch.outcome)
  BY <1>1, <1>2 DEF Batches, L!Outcome, L!Attempt
<1>5. /\ batches' = [batches EXCEPT ![m] = Append(@, q.batch)]
      /\ rev' = rev + 1 /\ collected' = collected /\ tickets' = tickets
  BY DEF Commit
<1>6. L!AppendBatch(m, q.batch.outcome)
  BY <1>2, <1>3, <1>4, <1>5 DEF L!AppendBatch, L!Open
<1>7. QED
  BY <1>1, <1>4, <1>6 DEF L!Next

LEMMA LedgerStep == IInv /\ Ticketed /\ [Next]_vars => [L!Next]_(L!ledgerVars)
<1> SUFFICES ASSUME IInv, Ticketed, [Next]_vars PROVE L!Next \/ UNCHANGED L!ledgerVars
  OBVIOUS
<1>1. CASE UNCHANGED vars
  BY <1>1 DEF vars, L!ledgerVars
<1>2. ASSUME NEW r \in Run, BeginRun(r) \/ RunStep(r) \/ BackendRefuses(r) \/ Abort(r)
      PROVE  UNCHANGED L!ledgerVars
  BY <1>2 DEF BeginRun, RunStep, AnalyseMedia, ReceiveReceipt, Return, PublishRefused,
     BackendRefuses, Abort, durable, L!ledgerVars
<1>3. ASSUME NEW r \in Run, BackendTakes(r) PROVE L!Next
  <2>1. channel[r] = "sent" /\ Commit(Request(r))
    BY <1>3 DEF BackendTakes
  <2>2. Request(r).media \in tickets
    BY <2>1, SentRequest DEF Ticketed
  <2>3. QED
    BY <2>1, <2>2, SentRequest, CommitAppends
<1>4. ASSUME NEW q \in late, LateArrives(q) PROVE L!Next
  <2>1. Commit(q) /\ q \in Requests /\ Queued(q, rev, collected, batches) /\ q.media \in tickets
    BY <1>4 DEF LateArrives, IInv, TypeOK, Ticketed
  <2>2. QED
    BY <2>1, CommitAppends
<1>5. ASSUME NEW q \in late, LateVanishes(q) PROVE UNCHANGED L!ledgerVars
  BY <1>5 DEF LateVanishes, durable, L!ledgerVars
<1>6. ASSUME NEW done \in BOOLEAN, PublishPage(done) PROVE L!Next
  <2>1. PICK found \in (IF done THEN SUBSET (Media \ tickets) ELSE {{}}) :
          tickets' = tickets \cup found
    BY <1>6 DEF PublishPage
  <2>2. tickets \subseteq Media /\ collected' = done /\ rev' = rev + 1 /\ batches' = batches
    BY <1>6 DEF PublishPage, IInv, TypeOK
  <2>3. tickets \subseteq tickets' /\ tickets' \subseteq Media
    BY <2>1, <2>2
  <2>4. tickets' # tickets => collected'
    BY <2>1, <2>2
  <2>5. QED
    BY <2>2, <2>3, <2>4 DEF L!Next, L!CollectMore
<1>7. QED
  BY <1>1, <1>2, <1>3, <1>4, <1>5, <1>6 DEF Next, BackendStep

\* However many runs compete, however late their batches arrive and whatever waves
\* reopen the collection meanwhile, the durable batches are the ledger: each attempt
\* is made of a ticket, in a closed collection, once, in order, and none is made of a
\* media that needs none.
THEOREM Refinement == Spec => LedgerSpec
<1>1. Init => L!Init
  BY ConstantsOK DEF Init, L!Init
<1>2. Spec => [](IInv /\ Ticketed)
  <2>1. Init => IInv /\ Ticketed
    BY InitIInv, InitTicketed
  <2>2. IInv /\ Ticketed /\ [Next]_vars => (IInv /\ Ticketed)'
    BY NextIInv, NextTicketed
  <2>3. QED
    BY <2>1, <2>2, PTL DEF Spec
<1>3. QED
  BY <1>1, <1>2, LedgerStep, PTL DEF Spec, LedgerSpec, L!Spec

-------------------------------------------------------------------------------
(* The receipts.                                                           *)

Won(m, bt) == \E i \in DOMAIN bt[m] : bt[m][i].outcome = "success"

\* What a run has sent and knows no commit of; what was committed behind its back.
InDoubt(k, ch) == IF ch \in {"sent", "refused"} THEN {First(k.todo)} ELSE {}
Unread(k, ch) == IF ch = "taken" /\ k.outcome = "success" THEN {First(k.todo)} ELSE {}

\* Of the media still to do, a run has attempted the one it publishes.
Tried(k) == k.attempted \cap k.todo = IF k.at = "publish" THEN {First(k.todo)} ELSE {}

\* What a run that is not stale adds to what it read is what is durable.
Agrees(k, ch, tk, bt) ==
  /\ k.eligible = tk
  /\ \A m \in Media : Len(bt[m]) = k.seen[m] + IF m \in k.attempted \ InDoubt(k, ch) THEN 1 ELSE 0
  /\ \A m \in tk : Won(m, bt) <=> m \in k.completed \cup k.succeeded \cup Unread(k, ch)

Known(k, ch, rv, tk, bt) ==
  k.at # "idle" => Tried(k) /\ (Base(k, ch) = rv => Agrees(k, ch, tk, bt))

HInv == \A r \in Run : Known(run[r], channel[r], rev, tickets, batches)

\* A step of one run that commits nothing.
LEMMA LocalKnown ==
  ASSUME IInv, HInv, NEW r \in Run, NEW k, NEW ch,
         run' = [run EXCEPT ![r] = k], channel' = [channel EXCEPT ![r] = ch],
         UNCHANGED durable, Known(k, ch, rev, tickets, batches)
  PROVE  HInv'
<1>1. /\ run'[r] = k /\ channel'[r] = ch
      /\ \A s \in Run : s # r => run'[s] = run[s] /\ channel'[s] = channel[s]
  BY Locals
<1>2. rev' = rev /\ tickets' = tickets /\ batches' = batches
  BY DEF durable
<1>3. ASSUME NEW s \in Run PROVE Known(run'[s], channel'[s], rev', tickets', batches')
  <2>1. CASE s = r
    BY <1>1, <1>2, <2>1
  <2>2. CASE s # r
    BY <1>1, <1>2, <2>2 DEF HInv
  <2>3. QED
    BY <2>1, <2>2
<1>4. QED
  BY <1>3 DEF HInv

\* After somebody else's commit a run is stale.
LEMMA StaleKnown ==
  ASSUME IInv, HInv, NEW s \in Run, NEW tk, NEW bt
  PROVE  Known(run[s], channel[s], rev + 1, tk, bt)
<1>1. run[s].at # "idle" => Base(run[s], channel[s]) <= rev
  BY Locals DEF Live
<1>2. Base(run[s], channel[s]) \in Nat /\ rev \in Nat
  BY Locals DEF Base
<1>3. QED
  BY <1>1, <1>2 DEF HInv, Known

LEMMA BeginKnown ==
  ASSUME IInv, HInv, NEW r \in Run, BeginRun(r)
  PROVE  HInv'
<1> DEFINE k == [NoRun EXCEPT !.at = "analyse", !.rev = rev, !.eligible = tickets,
                              !.seen = [m \in Media |-> Len(batches[m])],
                              !.completed = {m \in tickets : Succeeded(m)},
                              !.todo = Selected(Pending)]
<1>1. run' = [run EXCEPT ![r] = k] /\ channel' = channel /\ UNCHANGED durable /\ run[r].at = "idle"
  BY DEF BeginRun
<1>2. /\ k.at = "analyse" /\ k.rev = rev /\ k.eligible = tickets
      /\ \A m \in Media : k.seen[m] = Len(batches[m])
      /\ k.completed = {m \in tickets : Succeeded(m)} /\ k.attempted = {} /\ k.succeeded = {}
  BY DEF NoRun
<1> HIDE DEF k
<1>3. channel[r] = "none" /\ channel' = [channel EXCEPT ![r] = "none"]
  <2>1. channel[r] = "none"
    BY <1>1, Locals DEF Shape
  <2>2. QED
    BY <1>1, <2>1, Locals
<1>4. InDoubt(k, "none") = {} /\ Unread(k, "none") = {}
  BY DEF InDoubt, Unread
<1>5. Tried(k)
  BY <1>2 DEF Tried
<1>6. Agrees(k, "none", tickets, batches)
  <2>1. \A m \in Media : Len(batches[m]) = k.seen[m] + 0
    BY <1>2, Attempts
  <2>2. \A m \in tickets : Won(m, batches) <=> Succeeded(m)
    BY DEF Won, Succeeded
  <2>3. QED
    BY <1>2, <1>4, <2>1, <2>2 DEF Agrees
<1>7. QED
  BY <1>1, <1>3, <1>5, <1>6, LocalKnown DEF Known

LEMMA AnalyseKnown ==
  ASSUME IInv, HInv, NEW r \in Run, AnalyseMedia(r)
  PROVE  HInv'
<1> DEFINE m == First(run[r].todo)
<1>1. /\ run[r].at = "analyse" /\ run[r].todo # {}
      /\ channel' = [channel EXCEPT ![r] = "sent"] /\ UNCHANGED durable
  BY DEF AnalyseMedia
<1>2. m \in run[r].todo
  BY <1>1, FirstOf, Locals
<1>3. PICK outcome :
        run' = [run EXCEPT ![r].at = "publish", ![r].outcome = outcome,
                           ![r].attempted = run[r].attempted \cup {m}]
  BY Locals DEF AnalyseMedia, NextMedia
<1> DEFINE k == [run[r] EXCEPT !.at = "publish", !.outcome = outcome,
                               !.attempted = run[r].attempted \cup {m}]
<1>4. run' = [run EXCEPT ![r] = k]
  BY <1>3, Locals
<1>5. /\ k.at = "publish" /\ k.attempted = run[r].attempted \cup {m}
      /\ k.rev = run[r].rev /\ k.todo = run[r].todo /\ k.seen = run[r].seen
      /\ k.eligible = run[r].eligible /\ k.completed = run[r].completed
      /\ k.succeeded = run[r].succeeded
  BY Locals DEF Runs
<1> HIDE DEF k
<1>6. channel[r] = "none" /\ Known(run[r], "none", rev, tickets, batches)
  <2>1. channel[r] = "none"
    BY <1>1, Locals DEF Shape, Channels
  <2>2. QED
    BY <2>1 DEF HInv
<1>7. run[r].attempted \cap run[r].todo = {} /\ m \notin run[r].attempted
  BY <1>1, <1>2, <1>6 DEF Known, Tried
<1>8. Tried(k)
  BY <1>2, <1>5, <1>7 DEF Tried
<1>9. Base(k, "sent") = Base(run[r], "none")
  BY <1>5 DEF Base
<1>10. k.attempted \ InDoubt(k, "sent") = run[r].attempted \ InDoubt(run[r], "none")
  BY <1>5, <1>7 DEF InDoubt
<1>11. Unread(k, "sent") = Unread(run[r], "none")
  BY DEF Unread
<1> HIDE DEF m
<1>12. Known(k, "sent", rev, tickets, batches)
  BY <1>1, <1>5, <1>6, <1>8, <1>9, <1>10, <1>11 DEF Known, Agrees
<1>13. QED
  BY <1>1, <1>4, <1>12, LocalKnown

LEMMA ReceiveKnown ==
  ASSUME IInv, HInv, NEW r \in Run, ReceiveReceipt(r)
  PROVE  HInv'
<1> DEFINE m == First(run[r].todo)
           won == IF run[r].outcome = "success" THEN run[r].succeeded \cup {m}
                                                ELSE run[r].succeeded
           k == [run[r] EXCEPT !.at = "analyse", !.rev = run[r].rev + 1,
                               !.todo = run[r].todo \ {m}, !.outcome = "none",
                               !.succeeded = won]
<1>1. /\ run[r].at = "publish" /\ channel[r] = "taken"
      /\ channel' = [channel EXCEPT ![r] = "none"] /\ UNCHANGED durable
  BY DEF ReceiveReceipt
<1>2. run' = [run EXCEPT ![r] = k]
  BY Locals DEF ReceiveReceipt, NextMedia
<1>3. won = run[r].succeeded \cup Unread(run[r], "taken")
  BY DEF Unread
<1> HIDE DEF won
<1>4. /\ k.at = "analyse" /\ k.attempted = run[r].attempted
      /\ k.rev = run[r].rev + 1 /\ k.todo = run[r].todo \ {m} /\ k.seen = run[r].seen
      /\ k.eligible = run[r].eligible /\ k.completed = run[r].completed
      /\ k.succeeded = won
  BY Locals DEF Runs
<1> HIDE DEF k
<1>5. Known(run[r], "taken", rev, tickets, batches)
  BY <1>1 DEF HInv
<1>6. run[r].attempted \cap run[r].todo = {m}
  BY <1>1, <1>5 DEF Known, Tried
<1>7. Tried(k)
  BY <1>4, <1>6 DEF Tried
<1>8. Base(k, "none") = Base(run[r], "taken")
  BY <1>4, Locals DEF Base
<1>9. k.attempted \ InDoubt(k, "none") = run[r].attempted \ InDoubt(run[r], "taken")
  BY <1>4 DEF InDoubt
<1>10. k.succeeded \cup Unread(k, "none") = run[r].succeeded \cup Unread(run[r], "taken")
  BY <1>3, <1>4 DEF Unread
<1> HIDE DEF m
<1>11. Known(k, "none", rev, tickets, batches)
  BY <1>1, <1>4, <1>5, <1>7, <1>8, <1>9, <1>10 DEF Known, Agrees
<1>12. QED
  BY <1>1, <1>2, <1>11, LocalKnown

LEMMA EndKnown ==
  ASSUME IInv, HInv, NEW r \in Run, Return(r) \/ PublishRefused(r) \/ Abort(r)
  PROVE  HInv'
<1>1. End(r) /\ UNCHANGED durable
  BY DEF Return, PublishRefused, Abort
<1>2. run' = [run EXCEPT ![r] = NoRun] /\ channel' = [channel EXCEPT ![r] = "none"]
  BY <1>1 DEF End
<1>3. Known(NoRun, "none", rev, tickets, batches)
  BY DEF Known, NoRun
<1>4. QED
  BY <1>1, <1>2, <1>3, LocalKnown

LEMMA RefuseKnown ==
  ASSUME IInv, HInv, NEW r \in Run, BackendRefuses(r)
  PROVE  HInv'
<1>1. /\ channel[r] = "sent" /\ run[r].rev # rev /\ channel' = [channel EXCEPT ![r] = "refused"]
      /\ UNCHANGED <<durable, run>>
  BY DEF BackendRefuses
<1>2. run' = [run EXCEPT ![r] = run[r]]
  BY <1>1, Locals
<1>3. Base(run[r], "refused") # rev
  BY <1>1, Locals DEF Base
<1>4. Known(run[r], "refused", rev, tickets, batches)
  BY <1>1, <1>3 DEF HInv, Known
<1>5. QED
  BY <1>1, <1>2, <1>4, LocalKnown

\* The run whose batch is committed is the only one that agrees with it.
LEMMA TakeKnown ==
  ASSUME IInv, HInv, NEW r \in Run, BackendTakes(r)
  PROVE  HInv'
<1> DEFINE q == Request(r)
           k == run[r]
           m == First(k.todo)
<1>1. /\ channel[r] = "sent" /\ Commit(q) /\ channel' = [channel EXCEPT ![r] = "taken"]
      /\ run' = run
  BY DEF BackendTakes
<1>2. /\ q \in Requests /\ Queued(q, rev, collected, batches) /\ q.base = rev
      /\ q.media = m /\ q.base = k.rev /\ m \in k.todo /\ m \in Media
  BY <1>1, SentRequest, Locals DEF Commit
<1>3. /\ rev \in Nat /\ rev' = rev + 1 /\ tickets' = tickets
      /\ \A n \in Media : n # m => batches'[n] = batches[n]
  BY <1>1, <1>2, Committed
<1>4. q.batch.outcome = k.outcome /\ batches' = [batches EXCEPT ![m] = Append(@, q.batch)]
  BY <1>1, <1>2 DEF Commit, Request, Batch
<1>5. /\ k \in Runs /\ k.at = "publish" /\ Known(k, "sent", rev, tickets, batches)
  BY <1>1, Locals DEF Shape, HInv
<1> HIDE DEF q, k, m
<1>6. k.attempted \cap k.todo = {m}
  BY <1>5 DEF Known, Tried, m
<1>7. Base(k, "sent") = rev /\ Base(k, "taken") = rev'
  <2>1. k.rev = rev
    BY <1>2
  <2>2. QED
    BY <1>3, <2>1 DEF Base
<1>8. Agrees(k, "sent", tickets, batches)
  BY <1>5, <1>7 DEF Known
<1>9. InDoubt(k, "sent") = {m} /\ InDoubt(k, "taken") = {} /\ Unread(k, "sent") = {}
      /\ Unread(k, "taken") = IF k.outcome = "success" THEN {m} ELSE {}
  BY DEF InDoubt, Unread, m
<1>10. /\ batches \in [Media -> Seq(Batches)] /\ q.batch \in Batches
       /\ Len(batches[m]) \in Nat /\ DOMAIN batches[m] = 1..Len(batches[m])
  BY <1>2, Attempts DEF IInv, TypeOK, Requests
<1>11. PICK s : s = Append(batches[m], q.batch)
  OBVIOUS
<1>12. /\ batches'[m] = s /\ Len(s) = Len(batches[m]) + 1
       /\ \A i \in 1..Len(batches[m]) : s[i] = batches[m][i]
       /\ s[Len(batches[m]) + 1] = q.batch /\ DOMAIN s = 1..(Len(batches[m]) + 1)
  <2>1. batches[m] \in Seq(Batches)
    BY <1>2, <1>10
  <2>2. s \in Seq(Batches)
    BY <1>10, <1>11, <2>1, AppendProperties
  <2>3. QED
    BY <1>2, <1>4, <1>10, <1>11, <2>1, <2>2, AppendProperties, LenProperties
<1>13. Won(m, batches') <=> Won(m, batches) \/ k.outcome = "success"
  <2>1. ASSUME Won(m, batches') PROVE Won(m, batches) \/ k.outcome = "success"
    <3>1. PICK i \in 1..(Len(batches[m]) + 1) : s[i].outcome = "success"
      BY <1>12, <2>1 DEF Won
    <3>2. CASE i = Len(batches[m]) + 1
      BY <1>4, <1>12, <3>1, <3>2
    <3>3. CASE i # Len(batches[m]) + 1
      <4>1. i \in DOMAIN batches[m] /\ batches[m][i].outcome = "success"
        BY <1>10, <1>12, <3>1, <3>3
      <4>2. QED
        BY <4>1 DEF Won
    <3>4. QED
      BY <3>2, <3>3
  <2>2. ASSUME Won(m, batches) PROVE Won(m, batches')
    <3>1. PICK i \in 1..Len(batches[m]) : batches[m][i].outcome = "success"
      BY <1>10, <2>2 DEF Won
    <3>2. i \in 1..(Len(batches[m]) + 1) /\ s[i].outcome = "success"
      BY <1>10, <1>12, <3>1
    <3>3. QED
      BY <1>12, <3>2 DEF Won
  <2>3. ASSUME k.outcome = "success" PROVE Won(m, batches')
    <3>1. Len(batches[m]) + 1 \in 1..(Len(batches[m]) + 1)
      BY <1>10
    <3>2. QED
      BY <1>4, <1>12, <2>3, <3>1 DEF Won
  <2>4. QED
    BY <2>1, <2>2, <2>3
<1>14. Agrees(k, "taken", tickets', batches')
  <2>1. k.eligible = tickets'
    BY <1>3, <1>8 DEF Agrees
  <2>2. ASSUME NEW n \in Media
        PROVE  Len(batches'[n]) = k.seen[n] + IF n \in k.attempted \ {} THEN 1 ELSE 0
    <3>1. Len(batches[n]) = k.seen[n] + IF n \in k.attempted \ {m} THEN 1 ELSE 0
      BY <1>8, <1>9 DEF Agrees
    <3>2. CASE n = m
      <4>1. n \in k.attempted /\ k.seen[n] \in Nat
        BY <1>2, <1>5, <1>6, <3>2, Numbers DEF Runs
      <4>2. QED
        BY <1>12, <3>1, <3>2, <4>1
    <3>3. CASE n # m
      BY <1>3, <3>1, <3>3
    <3>4. QED
      BY <3>2, <3>3
  <2>3. ASSUME NEW n \in tickets'
        PROVE  Won(n, batches') <=> n \in k.completed \cup k.succeeded \cup Unread(k, "taken")
    <3>1. n \in tickets /\ n \in Media
      BY <1>3, Locals
    <3>2. Won(n, batches) <=> n \in k.completed \cup k.succeeded
      BY <1>8, <1>9, <3>1 DEF Agrees
    <3>3. CASE n = m
      BY <1>9, <1>13, <3>2, <3>3
    <3>4. CASE n # m
      <4>1. batches'[n] = batches[n]
        BY <1>3, <3>1, <3>4
      <4>2. Won(n, batches') <=> Won(n, batches)
        BY <4>1 DEF Won
      <4>3. QED
        BY <1>9, <3>2, <3>4, <4>2
    <3>5. QED
      BY <3>3, <3>4
  <2>4. QED
    BY <1>9, <2>1, <2>2, <2>3 DEF Agrees
<1>15. Known(k, "taken", rev', tickets', batches')
  BY <1>5, <1>14 DEF Known
<1>16. ASSUME NEW s2 \in Run
       PROVE  Known(run'[s2], channel'[s2], rev', tickets', batches')
  <2>1. CASE s2 = r
    BY <1>1, <1>15, <2>1, Locals DEF k
  <2>2. CASE s2 # r
    BY <1>1, <1>3, <2>2, StaleKnown, Locals
  <2>3. QED
    BY <2>1, <2>2
<1>17. QED
  BY <1>16 DEF HInv

\* What others commit leaves every run stale.
LEMMA MovedKnown ==
  ASSUME IInv, HInv, rev' = rev + 1, UNCHANGED <<run, channel>>
  PROVE  HInv'
<1>1. \A s \in Run : Known(run'[s], channel'[s], rev', tickets', batches')
  BY StaleKnown
<1>2. QED
  BY <1>1 DEF HInv

LEMMA NextHInv == IInv /\ HInv /\ [Next]_vars => HInv'
<1> SUFFICES ASSUME IInv, HInv, [Next]_vars PROVE HInv'
  OBVIOUS
<1>1. CASE UNCHANGED vars
  BY <1>1 DEF vars, HInv
<1>2. ASSUME NEW r \in Run, BeginRun(r) \/ RunStep(r) \/ BackendStep(r) \/ Abort(r)
      PROVE  HInv'
  BY <1>2, BeginKnown, AnalyseKnown, ReceiveKnown, EndKnown, TakeKnown, RefuseKnown
     DEF RunStep, BackendStep
<1>3. ASSUME NEW q \in late, LateArrives(q) PROVE HInv'
  BY <1>3, MovedKnown DEF LateArrives, Commit
<1>4. ASSUME NEW q \in late, LateVanishes(q) PROVE HInv'
  BY <1>4 DEF LateVanishes, HInv, durable
<1>5. ASSUME NEW done \in BOOLEAN, PublishPage(done) PROVE HInv'
  BY <1>5, MovedKnown DEF PublishPage
<1>6. QED
  BY <1>1, <1>2, <1>3, <1>4, <1>5 DEF Next

LEMMA InitHInv == Init => HInv
BY DEF Init, HInv, Known, NoRun

LEMMA ReturnCounts ==
  ASSUME IInv, HInv, NEW r \in Run, Return(r), run[r].rev = rev
  PROVE  Remaining(r) = Pending
<1>1. run[r].at = "analyse" /\ channel[r] = "none"
  BY Locals DEF Return, Shape, Channels
<1>2. Base(run[r], channel[r]) = rev
  BY <1>1, Locals DEF Base
<1>3. Agrees(run[r], "none", tickets, batches)
  BY <1>1, <1>2 DEF HInv, Known
<1>4. run[r].eligible = tickets /\ InDoubt(run[r], "none") = {} /\ Unread(run[r], "none") = {}
  BY <1>3 DEF Agrees, InDoubt, Unread
<1>5. ASSUME NEW m \in tickets
      PROVE  /\ Succeeded(m) <=> m \in run[r].completed \cup run[r].succeeded
             /\ Len(batches[m]) = run[r].seen[m] + IF m \in run[r].attempted THEN 1 ELSE 0
  BY <1>3, <1>4, Locals DEF Agrees, Won, Succeeded
<1>6. QED
  BY <1>4, <1>5 DEF Remaining, Pending

\* Whoever commits between two batches of a run, the number it returns counts exactly
\* the media that are left, if its last batch is still the latest change.
THEOREM ReceiptsHonest == Spec => ReceiptHonest
<1>1. Spec => [](IInv /\ HInv)
  <2>1. Init => IInv /\ HInv
    BY InitIInv, InitHInv
  <2>2. IInv /\ HInv /\ [Next]_vars => (IInv /\ HInv)'
    BY NextIInv, NextHInv
  <2>3. QED
    BY <2>1, <2>2, PTL DEF Spec
<1>2. IInv /\ HInv /\ [Next]_vars =>
        [\A r \in Run : Return(r) /\ run[r].rev = rev => Remaining(r) = Pending]_vars
  BY ReturnCounts
<1>3. QED
  BY <1>1, <1>2, PTL DEF Spec, ReceiptHonest


===============================================================================
