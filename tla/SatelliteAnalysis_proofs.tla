------------------------ MODULE SatelliteAnalysis_proofs ------------------------
(***************************************************************************)
(* Proofs about SatelliteAnalysis, for any number of calls, artifacts,     *)
(* attempts and upsets.                                                    *)
(*                                                                         *)
(* What makes the reservation safe is that an owner, a call between its    *)
(* successful conditional put and the record of its submission, is alone   *)
(* on its artifact and finds the reservation as it wrote it.               *)
(***************************************************************************)
EXTENDS SatelliteAnalysis, SequenceTheorems, WellFoundedInduction, TLAPS

\* Steps at which a call has made the reservation of its artifact.
Owner == {"store", "invoke", "record"}

\* What the stored objects say to a call with the local state k.
Sound(res, jb, k) ==
  /\ k.job <= Len(jb[k.artifact])
  /\ k.at = "reserve" => k.started = 0
  /\ k.at \in {"store", "invoke"} =>
       res[k.artifact] = Reserved /\ Len(jb[k.artifact]) = k.started
  /\ k.at = "record" =>
       k.job >= 1 /\ res[k.artifact] \in {Reserved, Submitted(k.job)}
  /\ k.at \in {"poll", "publish"} => k.job >= 1 /\ res[k.artifact] = Submitted(k.job)

OneOwner ==
  \A c, d \in Call :
    call[c].at \in Owner /\ call[d].at \in Owner /\ Of(c) = Of(d) => c = d

\* Before the reservation there is no owner and no job.
Untouched ==
  \A a \in Artifact : reservation[a] = NoReservation =>
    /\ jobs[a] = <<>>
    /\ \A c \in Call : call[c].at \in Owner => Of(c) # a

IInv ==
  /\ TypeOK
  /\ \A c \in Call : Sound(reservation, jobs, call[c])
  /\ OneOwner
  /\ Untouched

-------------------------------------------------------------------------------
(* Lemmas about the operators.                                             *)

JobStates == {"running", "output", "failure"}

\* The numeric constants, one by one.
LEMMA Numbers ==
  /\ LastArtifact \in Nat /\ LastArtifact >= 1 /\ SdkAttempts \in Nat /\ SdkAttempts >= 1
  /\ MaxPolls \in Nat /\ MaxUpsets \in Nat
<1>1. LastArtifact \in Nat \ {0} /\ SdkAttempts \in Nat \ {0} /\ MaxPolls \in Nat /\ MaxUpsets \in Nat
  BY ConstantsOK
<1>2. QED
  BY <1>1

\* The states of a reservation are told apart.
LEMMA Different ==
  /\ NoReservation # Reserved
  /\ \A j : Submitted(j) # NoReservation /\ Submitted(j) # Reserved
  /\ \A i, j : Submitted(i) = Submitted(j) => i = j
BY DEF NoReservation, Reserved, Submitted

\* A reservation that is submitted names a job.
LEMMA SubmittedNames ==
  ASSUME TypeOK, NEW a \in Artifact, reservation[a].state = "submitted"
  PROVE  /\ reservation[a] = Submitted(reservation[a].job)
         /\ reservation[a].job \in 1..Len(jobs[a])
BY DEF TypeOK, NoReservation, Reserved, Submitted

\* A set of numbers that is not empty has a least member.
LEMMA LeastElement ==
  ASSUME NEW S, S \subseteq Nat, S # {}
  PROVE  \E a \in S : \A b \in S : a <= b
<1>1. PICK a \in S : \A b \in S : ~ (<<b, a>> \in OpToRel(<, Nat))
  BY NatLessThanWellFounded, WFMin
<1>2. \A b \in S : ~ (b < a)
  BY <1>1 DEF OpToRel
<1>3. QED
  BY <1>2

\* Appending makes a sequence one longer.
LEMMA Longer ==
  ASSUME NEW S, NEW s \in Seq(S), NEW e \in S
  PROVE  Append(s, e) \in Seq(S) /\ Len(Append(s, e)) = Len(s) + 1
BY AppendProperties

LEMMA NoCallType == NoCall \in Calls
BY Numbers DEF NoCall, Calls, Steps, Artifact

-------------------------------------------------------------------------------
(* One step of one call.                                                   *)

\* What the step does to the stored objects of artifact a.
StoresNothing == reservation' = reservation /\ jobs' = jobs

Reserves(a) ==
  /\ reservation[a] = NoReservation
  /\ reservation' = [reservation EXCEPT ![a] = Reserved]
  /\ jobs' = jobs

Invokes(c) ==
  /\ call[c].at = "invoke"
  /\ reservation' = reservation
  /\ jobs' = [jobs EXCEPT ![Of(c)] = Append(@, "running")]

Records(c) ==
  /\ call[c].at = "record"
  /\ reservation[Of(c)] = Reserved
  /\ reservation' = [reservation EXCEPT ![Of(c)] = Submitted(call[c].job)]
  /\ jobs' = jobs

\* A call that goes from its local state to n and changes the objects of its own
\* artifact in one of these ways keeps the invariant, if n is sound and is an owner
\* only if the call was one or has just reserved.
LEMMA StepOfCall ==
  ASSUME IInv, NEW c \in Call, NEW n \in Calls,
         call' = [call EXCEPT ![c] = n],
         StoresNothing \/ Reserves(Of(c)) \/ Invokes(c) \/ Records(c),
         Sound(reservation', jobs', n),
         n.at \in Owner => /\ n.artifact = Of(c)
                           /\ call[c].at \in Owner \/ Reserves(Of(c)),
         request' \subseteq Artifact, analysed' \subseteq Artifact, upsets' \in 0..MaxUpsets
  PROVE  IInv'
<1>0. /\ reservation \in [Artifact -> Reservations]
      /\ jobs \in [Artifact -> Seq(JobStates)]
      /\ call \in [Call -> Calls]
      /\ \A d \in Call : Sound(reservation, jobs, call[d])
      /\ \A d \in Call : Of(d) \in Artifact
  BY DEF IInv, TypeOK, Calls, JobStates, Of
<1>1. /\ call' \in [Call -> Calls]
      /\ call'[c] = n
      /\ \A d \in Call : d # c => call'[d] = call[d]
  BY <1>0
<1>2. /\ jobs' \in [Artifact -> Seq(JobStates)]
      /\ \A a \in Artifact : Len(jobs[a]) \in Nat /\ Len(jobs[a]) <= Len(jobs'[a])
      /\ \A a \in Artifact : jobs'[a] # jobs[a] => Invokes(c) /\ a = Of(c)
  <2>1. \A a \in Artifact : Len(jobs[a]) \in Nat
    BY <1>0
  <2>2. CASE Invokes(c)
    <3>1. Append(jobs[Of(c)], "running") \in Seq(JobStates)
      BY <1>0, Longer DEF JobStates
    <3>2. jobs' \in [Artifact -> Seq(JobStates)]
      BY <1>0, <2>2, <3>1 DEF Invokes
    <3>3. \A a \in Artifact : a # Of(c) => jobs'[a] = jobs[a]
      BY <1>0, <2>2 DEF Invokes
    <3>4. Len(jobs'[Of(c)]) = Len(jobs[Of(c)]) + 1
      <4>1. jobs'[Of(c)] = Append(jobs[Of(c)], "running")
        BY <1>0, <2>2 DEF Invokes
      <4>2. jobs[Of(c)] \in Seq(JobStates) /\ "running" \in JobStates
        BY <1>0 DEF JobStates
      <4>3. QED
        BY <4>1, <4>2, Longer
    <3>5. ASSUME NEW a \in Artifact PROVE Len(jobs[a]) <= Len(jobs'[a])
      <4>1. Len(jobs[a]) \in Nat
        BY <2>1
      <4>2. QED
        BY <3>3, <3>4, <4>1
    <3>6. \A a \in Artifact : jobs'[a] # jobs[a] => Invokes(c) /\ a = Of(c)
      BY <2>2, <3>3
    <3>7. QED
      BY <2>1, <3>2, <3>5, <3>6
  <2>3. CASE jobs' = jobs
    BY <1>0, <2>1, <2>3
  <2>4. QED
    BY <2>2, <2>3 DEF StoresNothing, Reserves, Records
<1>3. /\ reservation' \in [Artifact -> Reservations]
      /\ \A a \in Artifact :
           \/ reservation'[a] = reservation[a]
           \/ reservation[a] = NoReservation /\ reservation'[a] = Reserved /\ Reserves(a)
           \/ /\ a = Of(c) /\ call[c].at = "record" /\ Records(c)
              /\ reservation[a] = Reserved /\ reservation'[a] = Submitted(call[c].job)
  <2>1. CASE reservation' = reservation
    BY <1>0, <2>1
  <2>2. CASE Reserves(Of(c))
    <3>1. Reserved \in Reservations
      BY DEF Reserved, Reservations
    <3>2. QED
      BY <1>0, <2>2, <3>1 DEF Reserves
  <2>3. CASE Records(c)
    <3>1. Submitted(call[c].job) \in Reservations
      BY <1>0 DEF Submitted, Reservations, Calls
    <3>2. QED
      BY <1>0, <2>3, <3>1 DEF Records
  <2>4. QED
    BY <2>1, <2>2, <2>3 DEF StoresNothing, Invokes
<1>4. TypeOK'
  <2>1. ASSUME NEW a \in Artifact
        PROVE  reservation'[a] \in
                 {NoReservation, Reserved} \cup {Submitted(j) : j \in 1..Len(jobs'[a])}
    <3>1. CASE reservation'[a] = reservation[a]
      BY <1>2, <3>1 DEF IInv, TypeOK
    <3>2. CASE reservation'[a] = Reserved
      BY <3>2
    <3>3. CASE a = Of(c) /\ call[c].at = "record" /\ reservation'[a] = Submitted(call[c].job)
      <4>1. call[c].job >= 1 /\ call[c].job <= Len(jobs[a]) /\ call[c].job \in Nat
        BY <1>0, <3>3 DEF Sound, Of, Calls
      <4>2. Len(jobs'[a]) \in Nat
        BY <1>2
      <4>3. call[c].job \in 1..Len(jobs'[a])
        BY <1>2, <4>1, <4>2
      <4>4. QED
        BY <3>3, <4>3
    <3>4. QED
      BY <1>3, <3>1, <3>2, <3>3
  <2>2. ASSUME NEW d \in Call
        PROVE  call'[d].job <= Len(jobs'[call'[d].artifact])
    <3>1. CASE d = c
      BY <1>1, <3>1 DEF Sound
    <3>2. CASE d # c
      <4>1. call'[d] = call[d] /\ call[d].artifact \in Artifact /\ call[d].job \in Nat
        BY <1>0, <1>1, <3>2 DEF Calls
      <4>2. call[d].job <= Len(jobs[call[d].artifact])
        BY <1>0 DEF Sound
      <4>3. Len(jobs'[call[d].artifact]) \in Nat
        BY <1>2, <4>1
      <4>4. QED
        BY <1>2, <4>1, <4>2, <4>3
    <3>3. QED
      BY <3>1, <3>2
  <2>3. QED
    BY <1>1, <1>2, <1>3, <2>1, <2>2 DEF TypeOK, Of, JobStates
<1>5. OneOwner'
  <2>1. ASSUME NEW d \in Call, d # c, call[d].at \in Owner, n.at \in Owner
        PROVE  call[d].artifact # n.artifact
    <3>1. CASE call[c].at \in Owner
      BY <1>0, <2>1, <3>1 DEF IInv, OneOwner, Of
    <3>2. CASE Reserves(Of(c))
      BY <1>0, <2>1, <3>2 DEF IInv, Untouched, Reserves, Of
    <3>3. QED
      BY <2>1, <3>1, <3>2
  <2>2. QED
    BY <1>1, <2>1 DEF IInv, OneOwner, Of
<1>6. Untouched'
  <2> SUFFICES ASSUME NEW a \in Artifact, reservation'[a] = NoReservation
               PROVE  jobs'[a] = <<>> /\ \A d \in Call : call'[d].at \in Owner => call'[d].artifact # a
    BY DEF Untouched, Of
  <2>1. reservation[a] = NoReservation
    BY <1>3, Different
  <2>2. jobs[a] = <<>> /\ \A d \in Call : call[d].at \in Owner => call[d].artifact # a
    BY <2>1 DEF IInv, Untouched, Of
  <2>3. jobs'[a] = jobs[a]
    BY <1>2, <2>2 DEF Invokes, Owner, Of
  <2>4. n.at \in Owner => n.artifact # a
    <3>1. ASSUME Reserves(Of(c)) PROVE Of(c) # a
      BY <1>0, <3>1, Different DEF Reserves
    <3>2. QED
      BY <2>2, <3>1 DEF Of
  <2>5. QED
    BY <1>1, <2>2, <2>3, <2>4
<1>7. ASSUME NEW d \in Call PROVE Sound(reservation', jobs', call'[d])
  <2>1. CASE d = c
    BY <1>1, <2>1
  <2>2. CASE d # c
    <3> DEFINE k == call[d]
    <3>1. call'[d] = k /\ k \in Calls /\ k.artifact \in Artifact /\ Sound(reservation, jobs, k)
      BY <1>0, <1>1, <2>2 DEF Calls
    <3>2. ASSUME k.at \in Owner
          PROVE  reservation'[k.artifact] = reservation[k.artifact] /\ jobs'[k.artifact] = jobs[k.artifact]
      <4>1. k.artifact # Of(c) \/ call[c].at \notin Owner
        BY <2>2, <3>2 DEF IInv, OneOwner, Of
      <4>2. reservation[k.artifact] # NoReservation
        BY <3>1, <3>2 DEF IInv, Untouched, Of
      <4>3. QED
        <5>1. jobs'[k.artifact] = jobs[k.artifact]
          BY <1>2, <3>1, <4>1 DEF Invokes, Owner
        <5>2. reservation'[k.artifact] = reservation[k.artifact]
          BY <1>3, <3>1, <4>1, <4>2 DEF Owner
        <5>3. QED
          BY <5>1, <5>2
    <3>3. ASSUME k.at \in {"poll", "publish"}
          PROVE  reservation'[k.artifact] = reservation[k.artifact]
      BY <1>3, <3>1, <3>3, Different DEF Sound
    <3>4. k.job <= Len(jobs'[k.artifact])
      <4>1. k.job \in Nat /\ Len(jobs[k.artifact]) \in Nat /\ Len(jobs'[k.artifact]) \in Nat
        BY <1>2, <3>1 DEF Calls
      <4>2. QED
        BY <1>2, <3>1, <4>1 DEF Sound
    <3> HIDE DEF k
    <3>5. QED
      BY <3>1, <3>2, <3>3, <3>4 DEF Sound, Owner
  <2>3. QED
    BY <2>1, <2>2
<1>8. QED
  BY <1>4, <1>5, <1>6, <1>7 DEF IInv

-------------------------------------------------------------------------------
(* The actions.                                                            *)

LEMMA InitIInv == Init => IInv
<1> SUFFICES ASSUME Init PROVE IInv
  OBVIOUS
<1>1. /\ reservation = [a \in Artifact |-> NoReservation]
      /\ jobs = [a \in Artifact |-> <<>>]
      /\ call = [c \in Call |-> NoCall]
  BY DEF Init
<1>2. NoCall.artifact \in Artifact
  BY Numbers DEF NoCall, Artifact
<1>3. NoCall.job = 0 /\ NoCall.at = "idle" /\ Len(jobs[NoCall.artifact]) = 0
  BY <1>1, <1>2, EmptySeq DEF NoCall
<1>4. TypeOK
  <2>1. reservation \in [Artifact -> Reservations]
    BY <1>1 DEF NoReservation, Reservations
  <2>2. call \in [Call -> Calls]
    BY <1>1, NoCallType
  <2>3. ASSUME NEW c \in Call PROVE call[c].job <= Len(jobs[Of(c)])
    <3>1. call[c] = NoCall
      BY <1>1
    <3>2. QED
      BY <1>3, <3>1 DEF Of
  <2>4. QED
    BY <1>1, <2>1, <2>2, <2>3, Numbers DEF Init, TypeOK
<1>5. ASSUME NEW c \in Call PROVE Sound(reservation, jobs, call[c])
  <2>1. call[c] = NoCall
    BY <1>1
  <2>2. QED
    BY <1>3, <2>1 DEF Sound
<1>6. OneOwner /\ Untouched
  BY <1>1 DEF OneOwner, Untouched, NoCall, Owner
<1>7. QED
  BY <1>4, <1>5, <1>6 DEF IInv

\* Facts every step of a call starts from.
LEMMA Locals ==
  ASSUME IInv, NEW c \in Call
  PROVE  /\ call \in [Call -> Calls] /\ call[c] \in Calls
         /\ Of(c) \in Artifact
         /\ Len(jobs[Of(c)]) \in Nat
         /\ jobs[Of(c)] \in Seq(JobStates)
         /\ Sound(reservation, jobs, call[c])
         /\ reservation \in [Artifact -> Reservations] /\ jobs \in [Artifact -> Seq(JobStates)]
         /\ request \subseteq Artifact /\ analysed \subseteq Artifact /\ upsets \in 0..MaxUpsets
BY DEF IInv, TypeOK, Calls, Of, JobStates

\* A call that ends leaves nothing to be sound.
LEMMA NoCallSound ==
  ASSUME IInv, jobs' \in [Artifact -> Seq(JobStates)]
  PROVE  Sound(reservation', jobs', NoCall) /\ NoCall.at \notin Owner
<1>1. NoCall.artifact \in Artifact
  BY Numbers DEF NoCall, Artifact
<1>2. Len(jobs'[NoCall.artifact]) \in Nat
  BY <1>1
<1>3. QED
  BY <1>2 DEF NoCall, Sound, Owner

LEMMA UpsetType == ASSUME upsets \in 0..MaxUpsets, Upset PROVE upsets' \in 0..MaxUpsets
BY Numbers DEF Upset

\* Steps that leave the stored objects alone and end the call.
LEMMA Ends ==
  ASSUME IInv, NEW c \in Call, StoresNothing, End(c),
         request' \subseteq Artifact, analysed' \subseteq Artifact, upsets' \in 0..MaxUpsets
  PROVE  IInv'
<1>1. Sound(reservation', jobs', NoCall) /\ NoCall.at \notin Owner
  BY NoCallSound, Locals DEF StoresNothing
<1>2. QED
  BY <1>1, StepOfCall, NoCallType DEF End

\* The next attempt of an unanswered request.
LEMMA Again ==
  ASSUME IInv, NEW c \in Call, TriesAgain(c)
  PROVE  [call[c] EXCEPT !.attempt = @ + 1] \in Calls
<1> DEFINE k == call[c]
<1>1. k \in Calls
  BY Locals
<1>2. k.attempt + 1 \in 1..SdkAttempts
  BY <1>1, Numbers DEF TriesAgain, Calls
<1> HIDE DEF k
<1>3. [k EXCEPT !.attempt = @ + 1] \in Calls
  BY <1>1, <1>2 DEF Calls
<1>4. QED
  BY <1>3 DEF k

LEMMA BeginStep ==
  ASSUME IInv, NEW c \in Call, BeginCall(c)
  PROVE  IInv'
<1> DEFINE n == [NoCall EXCEPT !.at = "reserve", !.artifact = First(Pending)]
<1>1. First(Pending) \in Artifact
  <2>1. PICK a \in Pending : \A b \in Pending : a <= b
    <3>1. Pending \subseteq Nat /\ Pending # {}
      BY Numbers DEF BeginCall, Pending, Artifact
    <3>2. QED
      BY <3>1, LeastElement
  <2>2. QED
    BY <2>1 DEF First, Pending
<1>2. n \in Calls
  BY <1>1, NoCallType DEF Calls, Steps, NoCall
<1>3. Len(jobs[First(Pending)]) \in Nat
  BY <1>1, Locals
<1>4. Sound(reservation', jobs', n) /\ n.at \notin Owner
  BY <1>3 DEF BeginCall, Sound, NoCall, Owner
<1>5. call' = [call EXCEPT ![c] = n]
  BY DEF BeginCall
<1> HIDE DEF n
<1>6. QED
  BY <1>2, <1>4, <1>5, StepOfCall, Locals DEF BeginCall, StoresNothing

\* A call that goes to its next step keeps the rest of its local state.
LEMMA Moves ==
  ASSUME IInv, NEW c \in Call, NEW step \in Steps, Goto(c, step)
  PROVE  \E n \in Calls :
           /\ call' = [call EXCEPT ![c] = n]
           /\ n.at = step /\ n.artifact = Of(c)
           /\ n.job = call[c].job /\ n.started = call[c].started
<1> DEFINE n == [call[c] EXCEPT !.at = step, !.attempt = 1]
<1>1. call[c] \in Calls
  BY Locals
<1>2. n \in Calls
  <2>1. 1 \in 1..SdkAttempts
    BY Numbers
  <2>2. QED
    BY <1>1, <2>1 DEF Calls
<1>3. call' = [call EXCEPT ![c] = n]
  BY DEF Goto
<1>4. n.at = step /\ n.artifact = Of(c) /\ n.job = call[c].job /\ n.started = call[c].started
  BY <1>1 DEF Calls, Of
<1> HIDE DEF n
<1>5. QED
  BY <1>2, <1>3, <1>4

\* A call whose answer is lost stands where it stood, or ends.
LEMMA Unanswered ==
  ASSUME IInv, NEW c \in Call, AnswerLost(c)
  PROVE  /\ upsets' \in 0..MaxUpsets
         /\ \E n \in Calls :
              /\ call' = [call EXCEPT ![c] = n]
              /\ \/ n = NoCall
                 \/ /\ n.at = call[c].at /\ n.artifact = Of(c)
                    /\ n.job = call[c].job /\ n.started = call[c].started
<1>1. upsets' \in 0..MaxUpsets
  BY UpsetType, Locals DEF AnswerLost
<1>2. CASE TriesAgain(c)
  <2> DEFINE n == [call[c] EXCEPT !.attempt = @ + 1]
  <2>1. n \in Calls
    BY <1>2, Again
  <2>2. call' = [call EXCEPT ![c] = n]
    BY <1>2 DEF AnswerLost
  <2>3. n.at = call[c].at /\ n.artifact = Of(c) /\ n.job = call[c].job /\ n.started = call[c].started
    BY Locals DEF Calls, Of
  <2> HIDE DEF n
  <2>4. QED
    BY <1>1, <2>1, <2>2, <2>3
<1>3. CASE ~TriesAgain(c)
  BY <1>1, <1>3, NoCallType DEF AnswerLost, End
<1>4. QED
  BY <1>2, <1>3

\* What the conditional put does to the stored objects, and to the call's right to
\* submit, when the reservation is free.
LEMMA FreshReservation ==
  ASSUME IInv, NEW c \in Call, call[c].at = "reserve", Reserves(Of(c))
  PROVE  /\ reservation'[Of(c)] = Reserved
         /\ Len(jobs'[Of(c)]) = 0
         /\ call[c].started = 0 /\ call[c].job <= Len(jobs'[Of(c)])
<1>1. jobs[Of(c)] = <<>>
  BY Locals DEF IInv, Untouched, Reserves
<1>2. QED
  BY <1>1, Locals, EmptySeq DEF Reserves, Sound, Of

LEMMA ReserveStep ==
  ASSUME IInv, NEW c \in Call, Reserve(c)
  PROVE  IInv'
<1>1. request' \subseteq Artifact /\ analysed' \subseteq Artifact /\ upsets' \in 0..MaxUpsets
  BY Locals DEF Reserve
<1>2. CASE MayReserve(Of(c))
  <2>1. Reserves(Of(c)) /\ call[c].at = "reserve" /\ Goto(c, "store")
    BY <1>2 DEF Reserve, PutReservation, MayReserve, Reserves
  <2>2. PICK n \in Calls : /\ call' = [call EXCEPT ![c] = n]
                           /\ n.at = "store" /\ n.artifact = Of(c)
                           /\ n.job = call[c].job /\ n.started = call[c].started
    BY <2>1, Moves DEF Steps
  <2>3. Sound(reservation', jobs', n)
    BY <2>1, <2>2, FreshReservation DEF Sound
  <2>4. QED
    BY <1>1, <2>1, <2>2, <2>3, StepOfCall
<1>3. CASE ~MayReserve(Of(c))
  <2>1. StoresNothing /\ Goto(c, "inspect")
    BY <1>3 DEF Reserve, PutReservation, StoresNothing
  <2>2. PICK n \in Calls : /\ call' = [call EXCEPT ![c] = n]
                           /\ n.at = "inspect" /\ n.artifact = Of(c)
                           /\ n.job = call[c].job /\ n.started = call[c].started
    BY <2>1, Moves DEF Steps
  <2>3. Sound(reservation', jobs', n)
    BY <2>1, <2>2, Locals DEF Sound, StoresNothing, Of
  <2>4. n.at \notin Owner
    BY <2>2 DEF Owner
  <2>5. QED
    BY <1>1, <2>1, <2>2, <2>3, <2>4, StepOfCall
<1>4. QED
  BY <1>2, <1>3

LEMMA ReserveUnansweredStep ==
  ASSUME IInv, NEW c \in Call, ReserveUnanswered(c)
  PROVE  IInv'
<1>1. /\ request' \subseteq Artifact /\ analysed' \subseteq Artifact
      /\ call[c].at = "reserve" /\ AnswerLost(c)
  BY Locals DEF ReserveUnanswered
<1>2. upsets' \in 0..MaxUpsets
  BY <1>1, Unanswered
<1>3. PICK n \in Calls : /\ call' = [call EXCEPT ![c] = n]
                         /\ \/ n = NoCall
                            \/ /\ n.at = "reserve" /\ n.artifact = Of(c)
                               /\ n.job = call[c].job /\ n.started = call[c].started
  BY <1>1, Unanswered
<1>4. StoresNothing \/ Reserves(Of(c))
  BY DEF ReserveUnanswered, PutReservation, MayReserve, Reserves, StoresNothing
<1>5. jobs' \in [Artifact -> Seq(JobStates)]
  BY <1>4, Locals DEF StoresNothing, Reserves
<1>6. Sound(reservation', jobs', n)
  <2>1. CASE n = NoCall
    BY <1>5, <2>1, NoCallSound
  <2>2. CASE n # NoCall
    <3>1. jobs' = jobs
      BY <1>4 DEF StoresNothing, Reserves
    <3>2. QED
      BY <1>1, <1>3, <2>2, <3>1, Locals DEF Sound, Of
  <2>3. QED
    BY <2>1, <2>2
<1>7. n.at \notin Owner
  BY <1>3 DEF NoCall, Owner
<1>8. QED
  BY <1>1, <1>2, <1>3, <1>4, <1>6, <1>7, StepOfCall

LEMMA FindSubmittedStep ==
  ASSUME IInv, NEW c \in Call, FindSubmitted(c)
  PROVE  IInv'
<1> DEFINE r == reservation[Of(c)]
<1>1. r = Submitted(r.job) /\ r.job \in 1..Len(jobs[Of(c)]) /\ StoresNothing
  BY Locals, SubmittedNames DEF FindSubmitted, StoresNothing, IInv
<1> DEFINE n == [call[c] EXCEPT !.at = "poll", !.job = r.job]
<1>2. call' = [call EXCEPT ![c] = n]
  BY DEF FindSubmitted
<1>3. n \in Calls /\ n.at = "poll" /\ n.artifact = Of(c) /\ n.job = r.job
  <2>1. r.job \in Nat /\ call[c] \in Calls
    BY <1>1, Locals
  <2> HIDE DEF r
  <2>2. QED
    BY <2>1 DEF Calls, Of, Steps
<1> HIDE DEF n
<1>4. Sound(reservation', jobs', n)
  BY <1>1, <1>3, Locals DEF Sound, StoresNothing
<1>5. n.at \notin Owner
  BY <1>3 DEF Owner
<1>6. QED
  BY <1>1, <1>2, <1>3, <1>4, <1>5, StepOfCall, Locals DEF FindSubmitted

\* The steps that end a call whatever they change in the backend.
LEMMA EndSteps ==
  ASSUME IInv, NEW c \in Call,
         \/ FindReserved(c) \/ FindFailure(c) \/ WindowCloses(c)
         \/ Publish(c) \/ PublishUnanswered(c) \/ Fail(c)
  PROVE  IInv'
<1>1. Of(c) \in Artifact /\ request \subseteq Artifact /\ analysed \subseteq Artifact
      /\ upsets \in 0..MaxUpsets
  BY Locals
<1>2. CASE FindReserved(c) \/ FindFailure(c) \/ WindowCloses(c) \/ Publish(c)
  BY <1>1, <1>2, Ends DEF FindReserved, FindFailure, WindowCloses, Publish, StoresNothing
<1>3. CASE PublishUnanswered(c) \/ Fail(c)
  <2>1. upsets' \in 0..MaxUpsets
    BY <1>1, <1>3, UpsetType DEF PublishUnanswered, Fail
  <2>2. QED
    BY <1>1, <1>3, <2>1, Ends DEF PublishUnanswered, Fail, StoresNothing
<1>4. QED
  BY <1>2, <1>3

\* What the call that stores the request or invokes the endpoint knows.
LEMMA OwnerStep ==
  ASSUME IInv, NEW c \in Call, call[c].at \in {"store", "invoke"}
  PROVE  /\ call[c].at \in Owner
         /\ reservation[Of(c)] = Reserved
         /\ Len(jobs[Of(c)]) = call[c].started
         /\ call[c].job <= Len(jobs[Of(c)])
BY Locals DEF Sound, Owner, Of

LEMMA StoreRequestStep ==
  ASSUME IInv, NEW c \in Call, StoreRequest(c)
  PROVE  IInv'
<1>1. /\ StoresNothing /\ call[c].at = "store"
      /\ request' \subseteq Artifact /\ analysed' \subseteq Artifact /\ upsets' \in 0..MaxUpsets
  BY Locals DEF StoreRequest, StoresNothing
<1>2. CASE Of(c) \in request
  BY <1>1, <1>2, Ends DEF StoreRequest
<1>3. CASE Of(c) \notin request
  <2>1. Goto(c, "invoke")
    BY <1>3 DEF StoreRequest
  <2>2. PICK n \in Calls : /\ call' = [call EXCEPT ![c] = n]
                           /\ n.at = "invoke" /\ n.artifact = Of(c)
                           /\ n.job = call[c].job /\ n.started = call[c].started
    BY <2>1, Moves DEF Steps
  <2>3. Sound(reservation', jobs', n)
    BY <1>1, <2>2, OwnerStep DEF Sound, StoresNothing
  <2>4. QED
    BY <1>1, <2>2, <2>3, OwnerStep, StepOfCall
<1>4. QED
  BY <1>2, <1>3

LEMMA StoreUnansweredStep ==
  ASSUME IInv, NEW c \in Call, StoreUnanswered(c)
  PROVE  IInv'
<1>1. /\ StoresNothing /\ call[c].at = "store" /\ AnswerLost(c)
      /\ request' \subseteq Artifact /\ analysed' \subseteq Artifact
  BY Locals DEF StoreUnanswered, StoresNothing
<1>2. upsets' \in 0..MaxUpsets
  BY <1>1, Unanswered
<1>3. PICK n \in Calls : /\ call' = [call EXCEPT ![c] = n]
                         /\ \/ n = NoCall
                            \/ /\ n.at = "store" /\ n.artifact = Of(c)
                               /\ n.job = call[c].job /\ n.started = call[c].started
  BY <1>1, Unanswered
<1>4. CASE n = NoCall
  BY <1>1, <1>2, <1>3, <1>4, Ends DEF End
<1>5. CASE n # NoCall
  <2>1. Sound(reservation', jobs', n)
    BY <1>1, <1>3, <1>5, OwnerStep DEF Sound, StoresNothing
  <2>2. QED
    BY <1>1, <1>2, <1>3, <1>5, <2>1, OwnerStep, StepOfCall
<1>6. QED
  BY <1>4, <1>5

\* A new job is one more job of the call's artifact, and of no other.
LEMMA OneMoreJob ==
  ASSUME IInv, NEW c \in Call, NewJob(Of(c))
  PROVE  /\ jobs' \in [Artifact -> Seq(JobStates)]
         /\ Len(jobs'[Of(c)]) = Len(jobs[Of(c)]) + 1
<1>1. "running" \in JobStates
  BY DEF JobStates
<1>2. /\ Append(jobs[Of(c)], "running") \in Seq(JobStates)
      /\ Len(Append(jobs[Of(c)], "running")) = Len(jobs[Of(c)]) + 1
  BY <1>1, Locals, Longer
<1>3. QED
  BY <1>2, Locals DEF NewJob

LEMMA InvokeStep ==
  ASSUME IInv, NEW c \in Call, InvokeEndpoint(c)
  PROVE  IInv'
<1> DEFINE l == Len(jobs[Of(c)])
<1>1. /\ call[c].at = "invoke" /\ NewJob(Of(c)) /\ reservation' = reservation
      /\ request' \subseteq Artifact /\ analysed' \subseteq Artifact /\ upsets' \in 0..MaxUpsets
  BY Locals DEF InvokeEndpoint
<1>2. Invokes(c)
  BY <1>1 DEF Invokes, NewJob
<1>3. l \in Nat /\ Len(jobs'[Of(c)]) = l + 1 /\ call[c] \in Calls
  BY <1>1, OneMoreJob, Locals
<1> DEFINE n == [ThenRecord(c) EXCEPT !.attempt = 1, !.job = l + 1, !.started = call[c].started + 1]
<1>4. call' = [call EXCEPT ![c] = n]
  BY DEF InvokeEndpoint
<1> HIDE DEF l
<1>5. n \in Calls /\ n.at = "record" /\ n.artifact = Of(c) /\ n.job = l + 1
  <2>1. 1 \in 1..SdkAttempts
    BY Numbers
  <2>2. ThenRecord(c) \in Calls
    BY <1>3 DEF ThenRecord, Calls, Steps
  <2>3. call[c].started + 1 \in Nat /\ l + 1 \in Nat
    BY <1>3 DEF Calls
  <2>4. n \in Calls
    BY <2>1, <2>2, <2>3 DEF Calls
  <2>5. QED
    BY <2>2, <2>4, <1>3 DEF Calls, ThenRecord, Of
<1> HIDE DEF n
<1>6. Sound(reservation', jobs', n)
  BY <1>1, <1>3, <1>5, OwnerStep DEF Sound
<1>7. QED
  BY <1>1, <1>2, <1>4, <1>5, <1>6, OwnerStep, StepOfCall

LEMMA InvokeUnansweredStep ==
  ASSUME IInv, NEW c \in Call, InvokeUnanswered(c)
  PROVE  IInv'
<1> DEFINE next(taken) == [call[c] EXCEPT !.attempt = call[c].attempt + 1,
                                          !.started = call[c].started + (IF taken THEN 1 ELSE 0)]
<1>1. PICK taken \in BOOLEAN :
        /\ IF taken THEN NewJob(Of(c)) ELSE jobs' = jobs
        /\ Upset
        /\ call' = [call EXCEPT ![c] = IF TriesAgain(c) THEN next(taken) ELSE NoCall]
  BY DEF InvokeUnanswered
<1>2. /\ call[c].at = "invoke" /\ reservation' = reservation
      /\ request' \subseteq Artifact /\ analysed' \subseteq Artifact
  BY Locals DEF InvokeUnanswered
<1>3. upsets' \in 0..MaxUpsets
  BY <1>1, UpsetType, Locals
<1>4. StoresNothing \/ Invokes(c)
  BY <1>1, <1>2 DEF StoresNothing, Invokes, NewJob
<1>5. CASE ~TriesAgain(c)
  <2>1. jobs' \in [Artifact -> Seq(JobStates)]
    BY <1>1, OneMoreJob, Locals
  <2>2. Sound(reservation', jobs', NoCall) /\ NoCall.at \notin Owner
    BY <2>1, NoCallSound
  <2>3. call' = [call EXCEPT ![c] = NoCall]
    BY <1>1, <1>5
  <2>4. QED
    BY <1>2, <1>3, <1>4, <2>2, <2>3, NoCallType, StepOfCall
<1>6. CASE TriesAgain(c)
  <2>1. call[c] \in Calls /\ Len(jobs[Of(c)]) \in Nat
    BY Locals
  <2>2. call[c].attempt + 1 \in 1..SdkAttempts
    BY <1>6, <2>1, Numbers DEF TriesAgain, Calls
  <2>3. call[c].started + (IF taken THEN 1 ELSE 0) \in Nat
    BY <2>1 DEF Calls
  <2>4. Len(jobs'[Of(c)]) = call[c].started + (IF taken THEN 1 ELSE 0)
    <3>1. CASE taken
      BY <1>1, <1>2, <3>1, OneMoreJob, OwnerStep
    <3>2. CASE ~taken
      <4>1. jobs' = jobs /\ Len(jobs[Of(c)]) = call[c].started
        BY <1>1, <1>2, <3>2, OwnerStep
      <4>2. QED
        BY <2>1, <3>2, <4>1
    <3>3. QED
      BY <3>1, <3>2
  <2>5. /\ next(taken) \in Calls
        /\ next(taken).at = "invoke" /\ next(taken).artifact = Of(c)
        /\ next(taken).job = call[c].job
        /\ next(taken).started = call[c].started + (IF taken THEN 1 ELSE 0)
    BY <1>2, <2>1, <2>2, <2>3 DEF Calls, Of
  <2>6. call' = [call EXCEPT ![c] = next(taken)]
    BY <1>1, <1>6
  <2> HIDE DEF next
  <2>7. call[c].job <= Len(jobs'[Of(c)])
    <3>1. call[c].job \in Nat /\ call[c].started \in Nat /\ call[c].job <= call[c].started
      BY <1>2, <2>1, OwnerStep DEF Calls
    <3>2. QED
      BY <2>4, <3>1
  <2>8. Sound(reservation', jobs', next(taken))
    BY <1>2, <2>4, <2>5, <2>7, OwnerStep DEF Sound
  <2>9. QED
    BY <1>2, <1>3, <1>4, <2>5, <2>6, <2>8, OwnerStep, StepOfCall
<1>7. QED
  BY <1>5, <1>6

LEMMA RecordStep ==
  ASSUME IInv, NEW c \in Call, RecordSubmission(c)
  PROVE  IInv'
<1>1. /\ call[c].at = "record" /\ jobs' = jobs
      /\ request' \subseteq Artifact /\ analysed' \subseteq Artifact /\ upsets' \in 0..MaxUpsets
  BY Locals DEF RecordSubmission
<1>2. CASE reservation[Of(c)] # Reserved
  BY <1>1, <1>2, Ends DEF RecordSubmission, StoresNothing
<1>3. CASE reservation[Of(c)] = Reserved
  <2>1. Records(c) /\ Goto(c, "poll")
    BY <1>1, <1>3 DEF RecordSubmission, Records
  <2>2. PICK n \in Calls : /\ call' = [call EXCEPT ![c] = n]
                           /\ n.at = "poll" /\ n.artifact = Of(c)
                           /\ n.job = call[c].job /\ n.started = call[c].started
    BY <2>1, Moves DEF Steps
  <2>3. reservation'[Of(c)] = Submitted(call[c].job)
    BY <2>1, Locals DEF Records
  <2>4. Sound(reservation', jobs', n) /\ n.at \notin Owner
    BY <1>1, <2>2, <2>3, Locals DEF Sound, Of, Owner
  <2>5. QED
    BY <1>1, <2>1, <2>2, <2>4, StepOfCall
<1>4. QED
  BY <1>2, <1>3

LEMMA RecordUnansweredStep ==
  ASSUME IInv, NEW c \in Call, RecordUnanswered(c)
  PROVE  IInv'
<1>1. /\ call[c].at = "record" /\ jobs' = jobs /\ AnswerLost(c)
      /\ request' \subseteq Artifact /\ analysed' \subseteq Artifact
  BY Locals DEF RecordUnanswered
<1>2. upsets' \in 0..MaxUpsets
  BY <1>1, Unanswered
<1>3. PICK n \in Calls : /\ call' = [call EXCEPT ![c] = n]
                         /\ \/ n = NoCall
                            \/ /\ n.at = "record" /\ n.artifact = Of(c)
                               /\ n.job = call[c].job /\ n.started = call[c].started
  BY <1>1, Unanswered
<1>4. StoresNothing \/ Records(c)
  BY <1>1 DEF RecordUnanswered, StoresNothing, Records
<1>5. CASE n = NoCall
  <2>1. Sound(reservation', jobs', NoCall) /\ NoCall.at \notin Owner
    BY <1>1, NoCallSound, Locals
  <2>2. QED
    BY <1>1, <1>2, <1>3, <1>4, <1>5, <2>1, StepOfCall
<1>6. CASE n # NoCall
  <2>1. reservation'[Of(c)] \in {reservation[Of(c)], Submitted(call[c].job)}
    BY <1>4, Locals DEF StoresNothing, Records
  <2>2. Sound(reservation', jobs', n)
    BY <1>1, <1>3, <1>6, <2>1, Locals DEF Sound, Of
  <2>3. call[c].at \in Owner
    BY <1>1 DEF Owner
  <2>4. QED
    BY <1>1, <1>2, <1>3, <1>4, <1>6, <2>2, <2>3, StepOfCall
<1>7. QED
  BY <1>5, <1>6

\* Polling changes no stored object.
LEMMA PollStep ==
  ASSUME IInv, NEW c \in Call, FindOutput(c) \/ PollAgain(c)
  PROVE  IInv'
<1>1. /\ StoresNothing /\ call[c].at = "poll"
      /\ request' \subseteq Artifact /\ analysed' \subseteq Artifact /\ upsets' \in 0..MaxUpsets
  BY Locals DEF FindOutput, PollAgain, StoresNothing
<1>2. \E n \in Calls : /\ call' = [call EXCEPT ![c] = n]
                       /\ n.at \in {"poll", "publish"} /\ n.artifact = Of(c)
                       /\ n.job = call[c].job
  <2>1. CASE FindOutput(c)
    <3>1. Goto(c, "publish") /\ "publish" \in Steps
      BY <2>1 DEF FindOutput, Steps
    <3>2. QED
      BY <3>1, Moves
  <2>2. CASE PollAgain(c)
    <3> DEFINE n == [call[c] EXCEPT !.polls = NextPolls(c)]
    <3>1. call[c] \in Calls
      BY Locals
    <3>2. NextPolls(c) \in 0..MaxPolls
      BY <2>2, <3>1, Numbers DEF PollAgain, WindowOpen, NextPolls, Calls
    <3>3. n \in Calls
      BY <3>1, <3>2 DEF Calls
    <3>4. n.at = "poll" /\ n.artifact = Of(c) /\ n.job = call[c].job
      BY <1>1, <3>1 DEF Calls, Of
    <3>5. call' = [call EXCEPT ![c] = n]
      BY <2>2 DEF PollAgain
    <3> HIDE DEF n
    <3>6. QED
      BY <3>3, <3>4, <3>5
  <2>3. QED
    BY <2>1, <2>2
<1>3. PICK n \in Calls : /\ call' = [call EXCEPT ![c] = n]
                         /\ n.at \in {"poll", "publish"} /\ n.artifact = Of(c)
                         /\ n.job = call[c].job
  BY <1>2
<1>4. Sound(reservation', jobs', n) /\ n.at \notin Owner
  BY <1>1, <1>3, Locals DEF Sound, StoresNothing, Of, Owner
<1>5. QED
  BY <1>1, <1>3, <1>4, StepOfCall

\* The endpoint ends a job: no artifact gets another, and no call moves.
LEMMA JobStep ==
  ASSUME IInv, NEW a \in Artifact, NEW j \in 1..Len(jobs[a]), JobSucceeds(a, j) \/ JobFails(a, j)
  PROVE  IInv'
<1>1. PICK e \in JobStates : jobs' = [jobs EXCEPT ![a] = [@ EXCEPT ![j] = e]]
  BY DEF JobSucceeds, JobFails, JobStates
<1>2. /\ reservation' = reservation /\ request' = request /\ analysed' = analysed /\ call' = call
      /\ upsets' \in 0..MaxUpsets
  BY UpsetType DEF JobSucceeds, JobFails, IInv, TypeOK
<1>3. /\ jobs \in [Artifact -> Seq(JobStates)]
      /\ \A b \in Artifact : jobs[b] \in Seq(JobStates)
  BY DEF IInv, TypeOK, JobStates
<1>4. /\ [jobs[a] EXCEPT ![j] = e] \in Seq(JobStates)
      /\ Len([jobs[a] EXCEPT ![j] = e]) = Len(jobs[a])
  BY <1>3, ExceptSeq
<1>5. /\ jobs' \in [Artifact -> Seq(JobStates)]
      /\ \A b \in Artifact : Len(jobs'[b]) = Len(jobs[b])
  BY <1>1, <1>3, <1>4
<1>6. TypeOK'
  BY <1>2, <1>5 DEF IInv, TypeOK, JobStates, Of, Calls
<1>7. \A c \in Call : Sound(reservation', jobs', call'[c])
  BY <1>2, <1>5 DEF IInv, TypeOK, Sound, Calls
<1>8. Untouched'
  <2>1. jobs[a] # <<>>
    BY <1>3, EmptySeq
  <2>2. \A b \in Artifact : jobs[b] = <<>> => jobs'[b] = <<>>
    BY <1>1, <1>3, <2>1
  <2>3. QED
    BY <1>2, <2>2 DEF IInv, Untouched, Of
<1>9. OneOwner'
  BY <1>2 DEF IInv, OneOwner, Of
<1>10. QED
  BY <1>6, <1>7, <1>8, <1>9 DEF IInv

LEMMA NextIInv == IInv /\ [Next]_vars => IInv'
<1> SUFFICES ASSUME IInv, [Next]_vars PROVE IInv'
  OBVIOUS
<1>1. CASE UNCHANGED vars
  BY <1>1 DEF vars, IInv, TypeOK, Sound, OneOwner, Untouched, Of
<1>2. ASSUME NEW c \in Call, BeginCall(c) PROVE IInv'
  BY <1>2, BeginStep
<1>3. ASSUME NEW c \in Call, CallStep(c) PROVE IInv'
  BY <1>3, ReserveStep, FindSubmittedStep, EndSteps, StoreRequestStep, InvokeStep, RecordStep,
     PollStep DEF CallStep
<1>4. ASSUME NEW c \in Call, CallUpset(c) PROVE IInv'
  BY <1>4, ReserveUnansweredStep, StoreUnansweredStep, InvokeUnansweredStep,
     RecordUnansweredStep, EndSteps DEF CallUpset
<1>5. ASSUME NEW a \in Artifact, NEW j \in 1..Len(jobs[a]), JobSucceeds(a, j) \/ JobFails(a, j)
      PROVE  IInv'
  BY <1>5, JobStep
<1>6. QED
  BY <1>1, <1>2, <1>3, <1>4, <1>5 DEF Next, EndpointStep

LEMMA Invariance == Spec => []IInv
BY InitIInv, NextIInv, PTL DEF Spec

-------------------------------------------------------------------------------
(* What a day costs, and what it is given.                                 *)

\* A call stores its request before it invokes, and counts one job per attempt.
Bounded(k) ==
  /\ k.at = "store" => k.started = 0
  /\ k.at = "invoke" => k.started < k.attempt

\* A call moves only itself; it stays within its attempts, and it publishes only
\* once it has found the output of its job.
LEMMA LocalStep ==
  ASSUME IInv, NEW c \in Call, Bounded(call[c]),
         BeginCall(c) \/ CallStep(c) \/ CallUpset(c)
  PROVE  /\ \A d \in Call : d # c => call'[d] = call[d]
         /\ Bounded(call'[c])
         /\ call'[c].at = "publish" =>
              /\ jobs' = jobs /\ call'[c].artifact = Of(c) /\ call'[c].job = call[c].job
              /\ call[c].at = "poll" /\ JobOf(c) = "output"
<1>0. /\ call \in [Call -> Calls] /\ call[c] \in Calls /\ Sound(reservation, jobs, call[c])
      /\ call[c].attempt \in Nat /\ call[c].started \in Nat
  BY Locals, Numbers DEF Calls
<1>1. CASE BeginCall(c)
  BY <1>0, <1>1 DEF BeginCall, Bounded, NoCall
<1>2. ASSUME End(c)
      PROVE  /\ \A d \in Call : d # c => call'[d] = call[d]
             /\ call'[c].at = "idle"
  BY <1>0, <1>2 DEF End, NoCall
<1>3. ASSUME NEW step, Goto(c, step)
      PROVE  /\ \A d \in Call : d # c => call'[d] = call[d]
             /\ call'[c].at = step /\ call'[c].attempt = 1
             /\ call'[c].artifact = Of(c) /\ call'[c].job = call[c].job
             /\ call'[c].started = call[c].started
  BY <1>0, <1>3 DEF Goto, Calls, Of
<1>4. ASSUME AnswerLost(c)
      PROVE  /\ \A d \in Call : d # c => call'[d] = call[d]
             /\ \/ call'[c].at = "idle"
                \/ call'[c].at = call[c].at /\ call'[c].started = call[c].started
  BY <1>0, <1>2, <1>4 DEF AnswerLost, Calls
<1>5. CASE Reserve(c)
  BY <1>0, <1>3, <1>5 DEF Reserve, Sound, Bounded
<1>6. CASE FindSubmitted(c)
  BY <1>0, <1>6 DEF FindSubmitted, Calls, Bounded
<1>7. CASE StoreRequest(c)
  BY <1>0, <1>2, <1>3, <1>7 DEF StoreRequest, Bounded
<1>8. CASE InvokeEndpoint(c)
  <2>1. /\ \A d \in Call : d # c => call'[d] = call[d]
        /\ call'[c].at = "record"
    BY <1>0, <1>8 DEF InvokeEndpoint, ThenRecord, Calls
  <2>2. QED
    BY <2>1 DEF Bounded
<1>9. CASE RecordSubmission(c)
  BY <1>0, <1>2, <1>3, <1>9 DEF RecordSubmission, Bounded
<1>10. CASE FindOutput(c)
  BY <1>0, <1>3, <1>10 DEF FindOutput, Bounded
<1>11. CASE PollAgain(c)
  <2>1. /\ \A d \in Call : d # c => call'[d] = call[d]
        /\ call'[c].at = "poll"
    BY <1>0, <1>11 DEF PollAgain, Calls
  <2>2. QED
    BY <2>1 DEF Bounded
<1>12. CASE \/ FindReserved(c) \/ FindFailure(c) \/ WindowCloses(c)
            \/ Publish(c) \/ PublishUnanswered(c) \/ Fail(c)
  BY <1>2, <1>12 DEF FindReserved, FindFailure, WindowCloses, Publish, PublishUnanswered,
     Fail, Bounded
<1>13. CASE ReserveUnanswered(c) \/ StoreUnanswered(c) \/ RecordUnanswered(c)
  BY <1>0, <1>4, <1>13 DEF ReserveUnanswered, StoreUnanswered, RecordUnanswered, Bounded
<1>14. CASE InvokeUnanswered(c)
  <2>1. PICK taken \in BOOLEAN :
          call' = [call EXCEPT ![c] =
            IF TriesAgain(c)
            THEN [call[c] EXCEPT !.attempt = call[c].attempt + 1,
                                 !.started = call[c].started + (IF taken THEN 1 ELSE 0)]
            ELSE NoCall]
    BY <1>14 DEF InvokeUnanswered
  <2>2. call[c].at = "invoke" /\ call[c].started < call[c].attempt
    BY <1>14 DEF InvokeUnanswered, Bounded
  <2>3. CASE TriesAgain(c)
    <3>1. /\ \A d \in Call : d # c => call'[d] = call[d]
          /\ call'[c].at = "invoke"
          /\ call'[c].attempt = call[c].attempt + 1
          /\ call'[c].started = call[c].started + (IF taken THEN 1 ELSE 0)
      BY <1>0, <2>1, <2>2, <2>3 DEF Calls
    <3>2. call'[c].started < call'[c].attempt
      BY <1>0, <2>2, <3>1
    <3>3. QED
      BY <3>1, <3>2 DEF Bounded
  <2>4. CASE ~TriesAgain(c)
    BY <1>0, <2>1, <2>4 DEF Bounded, NoCall
  <2>5. QED
    BY <2>3, <2>4
<1>15. QED
  BY <1>1, <1>5, <1>6, <1>7, <1>8, <1>9, <1>10, <1>11, <1>12, <1>13, <1>14
     DEF CallStep, CallUpset

\* What becomes of the stored objects: submissions stay as they were recorded, and a
\* call adds a job only while it invokes, within its attempts.
Lasting ==
  \A a \in Artifact, j \in Nat :
    reservation[a] = Submitted(j) => reservation'[a] = Submitted(j)

OutputsStay ==
  \A a \in Artifact : \A j \in 1..Len(jobs[a]) :
    jobs[a][j] = "output" => j \in 1..Len(jobs'[a]) /\ jobs'[a][j] = "output"

LEMMA JobsOfCall ==
  ASSUME IInv, NEW c \in Call, BeginCall(c) \/ CallStep(c) \/ CallUpset(c)
  PROVE  \/ jobs' = jobs
         \/ call[c].at = "invoke" /\ NewJob(Of(c))
<1>1. CASE BeginCall(c)
  BY <1>1 DEF BeginCall
<1>2. CASE CallStep(c)
  BY <1>2 DEF CallStep, Reserve, FindSubmitted, FindReserved, StoreRequest, InvokeEndpoint,
     RecordSubmission, FindOutput, FindFailure, PollAgain, WindowCloses, Publish
<1>3. CASE CallUpset(c)
  BY <1>3 DEF CallUpset, ReserveUnanswered, StoreUnanswered, InvokeUnanswered,
     RecordUnanswered, PublishUnanswered, Fail
<1>4. QED
  BY <1>1, <1>2, <1>3

LEMMA ReservationsOfCall ==
  ASSUME IInv, NEW c \in Call, BeginCall(c) \/ CallStep(c) \/ CallUpset(c)
  PROVE  \/ reservation' = reservation
         \/ reservation[Of(c)] \in {NoReservation, Reserved}
              /\ \E r : reservation' = [reservation EXCEPT ![Of(c)] = r]
<1>1. CASE BeginCall(c)
  BY <1>1 DEF BeginCall
<1>2. CASE CallStep(c)
  BY <1>2 DEF CallStep, Reserve, PutReservation, MayReserve, FindSubmitted, FindReserved,
     StoreRequest, InvokeEndpoint, RecordSubmission, FindOutput, FindFailure, PollAgain,
     WindowCloses, Publish
<1>3. CASE CallUpset(c)
  BY <1>3 DEF CallUpset, ReserveUnanswered, PutReservation, MayReserve, StoreUnanswered,
     InvokeUnanswered, RecordUnanswered, PublishUnanswered, Fail
<1>4. QED
  BY <1>1, <1>2, <1>3

\* The endpoint ends a job once: what it has ended stays as it is.
LEMMA JobsOfEndpoint ==
  ASSUME IInv, NEW a \in Artifact, NEW j \in 1..Len(jobs[a]), JobSucceeds(a, j) \/ JobFails(a, j)
  PROVE  /\ \A b \in Artifact : Len(jobs'[b]) = Len(jobs[b])
         /\ \A b \in Artifact : \A i \in 1..Len(jobs[b]) :
              jobs[b][i] = "output" => jobs'[b][i] = "output"
         /\ reservation' = reservation /\ analysed' = analysed /\ call' = call
<1>1. PICK e \in JobStates : jobs' = [jobs EXCEPT ![a] = [@ EXCEPT ![j] = e]]
  BY DEF JobSucceeds, JobFails, JobStates
<1>2. /\ jobs \in [Artifact -> Seq(JobStates)]
      /\ \A b \in Artifact : jobs[b] \in Seq(JobStates)
  BY DEF IInv, TypeOK, JobStates
<1>3. Len([jobs[a] EXCEPT ![j] = e]) = Len(jobs[a])
  BY <1>2, ExceptSeq
<1>4. jobs'[a] = [jobs[a] EXCEPT ![j] = e] /\ \A b \in Artifact : b # a => jobs'[b] = jobs[b]
  BY <1>1, <1>2
<1>5. \A i \in 1..Len(jobs[a]) : i # j => jobs'[a][i] = jobs[a][i]
  BY <1>2, <1>4
<1>6. jobs[a][j] = "running"
  BY DEF JobSucceeds, JobFails
<1>7. QED
  BY <1>3, <1>4, <1>5, <1>6 DEF JobSucceeds, JobFails

LEMMA OutputsKept == IInv /\ [Next]_vars => OutputsStay /\ Lasting
<1> SUFFICES ASSUME IInv, [Next]_vars PROVE OutputsStay /\ Lasting
  OBVIOUS
<1>0. /\ jobs \in [Artifact -> Seq(JobStates)] /\ reservation \in [Artifact -> Reservations]
      /\ \A a \in Artifact : jobs[a] \in Seq(JobStates) /\ Len(jobs[a]) \in Nat
  BY DEF IInv, TypeOK, JobStates
<1>1. CASE UNCHANGED vars
  BY <1>1 DEF vars, OutputsStay, Lasting
<1>2. ASSUME NEW c \in Call, BeginCall(c) \/ CallStep(c) \/ CallUpset(c)
      PROVE  OutputsStay /\ Lasting
  <2>1. OutputsStay
    <3>1. CASE jobs' = jobs
      BY <3>1 DEF OutputsStay
    <3>2. CASE NewJob(Of(c))
      <4>1. Of(c) \in Artifact /\ "running" \in JobStates
        BY <1>2, Locals DEF JobStates
      <4>2. /\ jobs'[Of(c)] = Append(jobs[Of(c)], "running")
            /\ \A a \in Artifact : a # Of(c) => jobs'[a] = jobs[a]
        BY <1>0, <3>2, <4>1 DEF NewJob
      <4>3. /\ Len(jobs'[Of(c)]) = Len(jobs[Of(c)]) + 1
            /\ \A j \in 1..Len(jobs[Of(c)]) : jobs'[Of(c)][j] = jobs[Of(c)][j]
        BY <1>0, <4>1, <4>2, AppendProperties
      <4>4. \A j \in 1..Len(jobs[Of(c)]) : j \in 1..Len(jobs'[Of(c)])
        BY <1>0, <4>1, <4>3
      <4>5. QED
        BY <4>2, <4>3, <4>4 DEF OutputsStay
    <3>3. QED
      BY <1>2, <3>1, <3>2, JobsOfCall
  <2>2. Lasting
    <3>1. CASE reservation' = reservation
      BY <3>1 DEF Lasting
    <3>2. ASSUME NEW r, reservation' = [reservation EXCEPT ![Of(c)] = r],
                 reservation[Of(c)] \in {NoReservation, Reserved}
          PROVE  Lasting
      BY <1>0, <3>2, Different DEF Lasting
    <3>3. QED
      BY <1>2, <3>1, <3>2, ReservationsOfCall
  <2>3. QED
    BY <2>1, <2>2
<1>3. ASSUME NEW a \in Artifact, NEW j \in 1..Len(jobs[a]), JobSucceeds(a, j) \/ JobFails(a, j)
      PROVE  OutputsStay /\ Lasting
  BY <1>3, JobsOfEndpoint DEF OutputsStay, Lasting
<1>4. QED
  BY <1>1, <1>2, <1>3 DEF Next, EndpointStep

\* The calls keep within their attempts, and so does each artifact.
WithinAttempts ==
  /\ \A c \in Call : Bounded(call[c])
  /\ \A a \in Artifact : Len(jobs[a]) <= SdkAttempts

\* A call that publishes has found its output; so has what the backend was given.
Output(a) == \E j \in 1..Len(jobs[a]) : reservation[a] = Submitted(j) /\ jobs[a][j] = "output"

PublishesOutputs ==
  /\ \A c \in Call : call[c].at = "publish" => JobOf(c) = "output"
  /\ \A a \in analysed : Output(a)

LEMMA NextWithinAttempts == IInv /\ WithinAttempts /\ [Next]_vars => WithinAttempts'
<1> SUFFICES ASSUME IInv, WithinAttempts, [Next]_vars PROVE WithinAttempts'
  OBVIOUS
<1>1. CASE UNCHANGED vars
  BY <1>1 DEF vars, WithinAttempts, Bounded
<1>2. ASSUME NEW c \in Call, BeginCall(c) \/ CallStep(c) \/ CallUpset(c)
      PROVE  WithinAttempts'
  <2>1. Bounded(call[c])
    BY DEF WithinAttempts
  <2>2. \A d \in Call : Bounded(call'[d])
    BY <1>2, <2>1, LocalStep DEF WithinAttempts
  <2>3. \A a \in Artifact : Len(jobs'[a]) <= SdkAttempts
    <3>1. CASE jobs' = jobs
      BY <3>1 DEF WithinAttempts
    <3>2. CASE call[c].at = "invoke" /\ NewJob(Of(c))
      <4>1. /\ Len(jobs'[Of(c)]) = call[c].started + 1
            /\ call[c].started \in Nat /\ call[c].attempt \in 1..SdkAttempts
            /\ jobs \in [Artifact -> Seq(JobStates)]
        BY <3>2, OneMoreJob, Locals DEF Sound, Of, Calls
      <4>2. Len(jobs'[Of(c)]) <= SdkAttempts
        BY <2>1, <3>2, <4>1, Numbers DEF Bounded
      <4>3. \A a \in Artifact : a # Of(c) => jobs'[a] = jobs[a]
        BY <3>2, <4>1 DEF NewJob
      <4>4. QED
        BY <4>2, <4>3 DEF WithinAttempts
    <3>3. QED
      BY <1>2, <3>1, <3>2, JobsOfCall
  <2>4. QED
    BY <2>2, <2>3 DEF WithinAttempts, Bounded
<1>3. ASSUME NEW a \in Artifact, NEW j \in 1..Len(jobs[a]), JobSucceeds(a, j) \/ JobFails(a, j)
      PROVE  WithinAttempts'
  BY <1>3, JobsOfEndpoint DEF WithinAttempts, Bounded
<1>4. QED
  BY <1>1, <1>2, <1>3 DEF Next, EndpointStep

LEMMA NextPublishesOutputs ==
  IInv /\ WithinAttempts /\ PublishesOutputs /\ [Next]_vars => PublishesOutputs'
<1> SUFFICES ASSUME IInv, WithinAttempts, PublishesOutputs, [Next]_vars PROVE PublishesOutputs'
  OBVIOUS
<1>0. /\ OutputsStay /\ Lasting
      /\ \A a \in Artifact : Len(jobs[a]) \in Nat
      /\ analysed \subseteq Artifact
  BY OutputsKept DEF IInv, TypeOK
<1>1. ASSUME NEW a \in analysed PROVE Output(a)'
  <2>1. PICK j \in 1..Len(jobs[a]) : reservation[a] = Submitted(j) /\ jobs[a][j] = "output"
    BY DEF PublishesOutputs, Output
  <2>2. a \in Artifact /\ j \in Nat
    BY <1>0, <2>1
  <2>3. /\ j \in 1..Len(jobs'[a]) /\ jobs'[a][j] = "output"
        /\ reservation'[a] = Submitted(j)
    BY <1>0, <2>1, <2>2 DEF OutputsStay, Lasting
  <2>4. QED
    BY <2>3 DEF Output
\* The call that publishes waits for the job its reservation names.
<1>2. ASSUME NEW c \in Call, call[c].at = "publish"
      PROVE  /\ Of(c) \in Artifact /\ call[c].job \in 1..Len(jobs[Of(c)])
             /\ reservation[Of(c)] = Submitted(call[c].job)
             /\ jobs[Of(c)][call[c].job] = "output"
  <2>1. /\ Of(c) \in Artifact /\ Len(jobs[Of(c)]) \in Nat /\ call[c].job \in Nat
        /\ Sound(reservation, jobs, call[c])
    BY Locals DEF Calls
  <2>2. QED
    BY <1>2, <2>1 DEF Sound, Of, PublishesOutputs, JobOf
<1>3. \A a \in analysed' : Output(a)'
  <2>1. ASSUME NEW c \in Call, Publish(c) \/ PublishUnanswered(c), NEW a \in Artifact, a = Of(c)
        PROVE  Output(a)'
    <3>1. call[c].at = "publish" /\ reservation' = reservation /\ jobs' = jobs
      BY <2>1 DEF Publish, PublishUnanswered
    <3>2. \E j \in 1..Len(jobs'[a]) : reservation'[a] = Submitted(j) /\ jobs'[a][j] = "output"
      BY <1>2, <2>1, <3>1
    <3>3. QED
      BY <3>2 DEF Output
  <2>2. ASSUME NEW a \in analysed', a \notin analysed
        PROVE  \E c \in Call : a = Of(c) /\ (Publish(c) \/ PublishUnanswered(c))
    BY <2>2 DEF Next, CallStep, CallUpset, EndpointStep, vars, BeginCall, Reserve, FindSubmitted,
       FindReserved, StoreRequest, InvokeEndpoint, RecordSubmission, FindOutput, FindFailure,
       PollAgain, WindowCloses, Publish, ReserveUnanswered, StoreUnanswered, InvokeUnanswered,
       RecordUnanswered, PublishUnanswered, Fail, JobSucceeds, JobFails
  <2>3. ASSUME NEW a \in analysed' PROVE Output(a)'
    <3>1. CASE a \in analysed
      BY <1>1, <3>1
    <3>2. CASE a \notin analysed
      <4>1. PICK c \in Call : a = Of(c) /\ (Publish(c) \/ PublishUnanswered(c))
        BY <2>2, <3>2
      <4>2. a \in Artifact
        BY <4>1, Locals
      <4>3. QED
        BY <2>1, <4>1, <4>2
    <3>3. QED
      BY <3>1, <3>2
  <2>4. QED
    BY <2>3
<1>4. ASSUME NEW c \in Call, call'[c].at = "publish"
      PROVE  jobs'[call'[c].artifact][call'[c].job] = "output"
  <2>1. CASE call'[c] = call[c]
    BY <1>0, <1>2, <1>4, <2>1 DEF OutputsStay, Of
  <2>2. CASE BeginCall(c) \/ CallStep(c) \/ CallUpset(c)
    BY <1>4, <2>2, LocalStep DEF WithinAttempts, JobOf, Of
  <2>3. call'[c] = call[c] \/ BeginCall(c) \/ CallStep(c) \/ CallUpset(c)
    <3>1. ASSUME NEW d \in Call, d # c, BeginCall(d) \/ CallStep(d) \/ CallUpset(d)
          PROVE  call'[c] = call[c]
      BY <3>1, LocalStep DEF WithinAttempts
    <3>2. QED
      BY <3>1 DEF Next, EndpointStep, JobSucceeds, JobFails, vars
  <2>4. QED
    BY <2>1, <2>2, <2>3
<1>5. QED
  BY <1>3, <1>4 DEF PublishesOutputs, JobOf, Of

LEMMA InitMore == Init => WithinAttempts /\ PublishesOutputs
<1> SUFFICES ASSUME Init PROVE WithinAttempts /\ PublishesOutputs
  OBVIOUS
<1>1. \A a \in Artifact : Len(jobs[a]) = 0
  BY EmptySeq DEF Init
<1>2. WithinAttempts
  BY <1>1, Numbers DEF Init, WithinAttempts, Bounded, NoCall
<1>3. PublishesOutputs
  BY DEF Init, PublishesOutputs, NoCall
<1>4. QED
  BY <1>2, <1>3

LEMMA MoreInvariance == Spec => [](WithinAttempts /\ PublishesOutputs)
<1>1. IInv /\ WithinAttempts /\ PublishesOutputs /\ [Next]_vars
        => (WithinAttempts /\ PublishesOutputs)'
  BY NextWithinAttempts, NextPublishesOutputs
<1>2. QED
  BY <1>1, InitMore, Invariance, PTL DEF Spec

-------------------------------------------------------------------------------
(* The theorems.                                                           *)

\* Every reservation is free, held, or names a job its artifact really has.
THEOREM TypeCorrect == Spec => []TypeOK
<1>1. IInv => TypeOK
  BY DEF IInv
<1>2. QED
  BY <1>1, Invariance, PTL

\* However many calls, replicas, repeated requests and crashes there are, a call that
\* may still invoke the endpoint has itself started every job of its artifact: the
\* conditional put of the reservation keeps every other call from paying beside it.
\* So no artifact costs more jobs than one AWS request has attempts.
THEOREM OneCallPays == Spec => []InvokesItsOwn
<1>1. IInv /\ WithinAttempts => InvokesItsOwn
  BY DEF IInv, Sound, InvokesItsOwn, WithinAttempts, Of
<1>2. QED
  BY <1>1, Invariance, MoreInvariance, PTL

\* A call waits for, and publishes, only the job its artifact's reservation records:
\* a call that gives up polling leaves its successor the same wait.  What the backend
\* holds of an artifact is the output of that job, for as long as it holds it.
THEOREM WaitsResume == Spec => []WaitIsResumable
<1>1. IInv /\ PublishesOutputs => WaitIsResumable
  BY DEF IInv, Sound, WaitIsResumable, PublishesOutputs, Output, Of
<1>2. QED
  BY <1>1, Invariance, MoreInvariance, PTL

-------------------------------------------------------------------------------
(* How long a call can take.                                               *)

\* The steps a call may still have before it, whatever the others do.
Effort(k) ==
  LET again == SdkAttempts - k.attempt
  IN CASE k.at = "idle"    -> 0
       [] k.at = "publish" -> 1
       [] k.at = "poll"    -> 2 + (MaxPolls - k.polls)
       [] k.at = "inspect" -> 3 + MaxPolls
       [] k.at = "record"  -> 3 + MaxPolls + again
       [] k.at = "invoke"  -> 3 + MaxPolls + SdkAttempts + again
       [] k.at = "store"   -> 3 + MaxPolls + 2 * SdkAttempts + again
       [] OTHER            -> 3 + MaxPolls + 3 * SdkAttempts + again

MaxEffort == 2 + MaxPolls + 4 * SdkAttempts

\* A call takes its steps downhill; only a new call starts again from the top.
CallsShorten ==
  [][\A c \in Call : call'[c] # call[c] =>
       \/ call[c].at = "idle" /\ Effort(call'[c]) <= MaxEffort
       \/ Effort(call'[c]) < Effort(call[c])]_vars

\* Where each step of a call leads.
Onward(k, n) ==
  \/ n.at = "idle"
  \/ k.at = "idle" /\ n.at = "reserve"
  \/ n.at = k.at /\ k.at \in {"reserve", "store", "invoke", "record"} /\ n.attempt > k.attempt
  \/ k.at = "reserve" /\ n.at \in {"store", "inspect"}
  \/ k.at = "inspect" /\ n.at = "poll"
  \/ k.at = "store" /\ n.at = "invoke"
  \/ k.at = "invoke" /\ n.at = "record"
  \/ k.at = "record" /\ n.at = "poll"
  \/ k.at = "poll" /\ n.at = "poll" /\ n.polls > k.polls
  \/ k.at = "poll" /\ n.at = "publish"

LEMMA OnwardShortens ==
  ASSUME NEW k \in Calls, NEW n \in Calls, Onward(k, n), k.at = "idle" => n.at = "reserve"
  PROVE  \/ k.at = "idle" /\ Effort(n) <= MaxEffort
         \/ Effort(n) < Effort(k)
<1> DEFINE A == SdkAttempts
           P == MaxPolls
           x == A - k.attempt
           y == A - n.attempt
           p == P - k.polls
           q == P - n.polls
<1>1. /\ A \in Nat /\ A >= 1 /\ P \in Nat
      /\ x \in 0..(A - 1) /\ y \in 0..(A - 1) /\ p \in 0..P /\ q \in 0..P
      /\ n.attempt > k.attempt => y < x
      /\ n.polls > k.polls => q < p
  BY Numbers DEF Calls
<1>2. /\ Effort(k) = CASE k.at = "idle"    -> 0
                       [] k.at = "publish" -> 1
                       [] k.at = "poll"    -> 2 + p
                       [] k.at = "inspect" -> 3 + P
                       [] k.at = "record"  -> 3 + P + x
                       [] k.at = "invoke"  -> 3 + P + A + x
                       [] k.at = "store"   -> 3 + P + 2 * A + x
                       [] OTHER            -> 3 + P + 3 * A + x
      /\ Effort(n) = CASE n.at = "idle"    -> 0
                       [] n.at = "publish" -> 1
                       [] n.at = "poll"    -> 2 + q
                       [] n.at = "inspect" -> 3 + P
                       [] n.at = "record"  -> 3 + P + y
                       [] n.at = "invoke"  -> 3 + P + A + y
                       [] n.at = "store"   -> 3 + P + 2 * A + y
                       [] OTHER            -> 3 + P + 3 * A + y
  BY DEF Effort
<1>3. MaxEffort = 2 + P + 4 * A
  BY DEF MaxEffort
<1>4. k.at \in Steps /\ n.at \in Steps
  BY DEF Calls
<1> HIDE DEF A, P, x, y, p, q
<1>5. CASE k.at = "idle"
  <2>1. n.at = "reserve"
    BY <1>5
  <2>2. Effort(n) = 3 + P + 3 * A + y
    BY <1>2, <2>1
  <2>3. QED
    BY <1>1, <1>3, <1>5, <2>2
<1>6. CASE k.at # "idle" /\ n.at = "idle"
  <2>1. Effort(n) = 0
    BY <1>2, <1>6
  <2>2. Effort(k) > 0
    BY <1>1, <1>2, <1>4, <1>6 DEF Steps
  <2>3. QED
    BY <2>1, <2>2
<1>7. CASE k.at # "idle" /\ n.at = k.at
  <2>1. CASE k.at = "reserve"
    BY <1>1, <1>2, <1>7, <2>1 DEF Onward
  <2>2. CASE k.at = "store"
    BY <1>1, <1>2, <1>7, <2>2 DEF Onward
  <2>3. CASE k.at = "invoke"
    BY <1>1, <1>2, <1>7, <2>3 DEF Onward
  <2>4. CASE k.at = "record"
    BY <1>1, <1>2, <1>7, <2>4 DEF Onward
  <2>5. CASE k.at = "poll"
    BY <1>1, <1>2, <1>7, <2>5 DEF Onward
  <2>6. QED
    BY <1>7, <2>1, <2>2, <2>3, <2>4, <2>5 DEF Onward
<1>8. CASE k.at # "idle" /\ n.at # k.at /\ n.at # "idle"
  <2>1. CASE k.at = "reserve"
    BY <1>1, <1>2, <1>8, <2>1 DEF Onward
  <2>2. CASE k.at = "inspect"
    BY <1>1, <1>2, <1>8, <2>2 DEF Onward
  <2>3. CASE k.at = "store"
    BY <1>1, <1>2, <1>8, <2>3 DEF Onward
  <2>4. CASE k.at = "invoke"
    BY <1>1, <1>2, <1>8, <2>4 DEF Onward
  <2>5. CASE k.at = "record"
    BY <1>1, <1>2, <1>8, <2>5 DEF Onward
  <2>6. CASE k.at = "poll"
    BY <1>1, <1>2, <1>8, <2>6 DEF Onward
  <2>7. QED
    BY <1>8, <2>1, <2>2, <2>3, <2>4, <2>5, <2>6 DEF Onward
<1>9. QED
  BY <1>5, <1>6, <1>7, <1>8

LEMMA StepsOnward ==
  ASSUME IInv, NEW c \in Call, BeginCall(c) \/ CallStep(c) \/ CallUpset(c)
  PROVE  /\ \A d \in Call : d # c => call'[d] = call[d]
         /\ Onward(call[c], call'[c])
         /\ call[c].at = "idle" => call'[c].at = "reserve"
<1>0. /\ call \in [Call -> Calls] /\ call[c] \in Calls
      /\ call[c].attempt \in Nat /\ call[c].polls \in Nat
  BY Locals, Numbers DEF Calls
<1>1. CASE BeginCall(c)
  BY <1>0, <1>1 DEF BeginCall, Onward, NoCall
<1>2. ASSUME End(c)
      PROVE  /\ \A d \in Call : d # c => call'[d] = call[d]
             /\ call'[c].at = "idle"
  BY <1>0, <1>2 DEF End, NoCall
<1>3. ASSUME NEW step, Goto(c, step)
      PROVE  /\ \A d \in Call : d # c => call'[d] = call[d]
             /\ call'[c].at = step
  BY <1>0, <1>3 DEF Goto, Calls
<1>4. ASSUME AnswerLost(c)
      PROVE  /\ \A d \in Call : d # c => call'[d] = call[d]
             /\ \/ call'[c].at = "idle"
                \/ call'[c].at = call[c].at /\ call'[c].attempt > call[c].attempt
  BY <1>0, <1>2, <1>4 DEF AnswerLost, Calls
<1>5. CASE Reserve(c)
  BY <1>0, <1>3, <1>5 DEF Reserve, Onward
<1>6. CASE FindSubmitted(c)
  BY <1>0, <1>6 DEF FindSubmitted, Calls, Onward
<1>7. CASE StoreRequest(c)
  BY <1>0, <1>2, <1>3, <1>7 DEF StoreRequest, Onward
<1>8. CASE InvokeEndpoint(c)
  <2>1. /\ \A d \in Call : d # c => call'[d] = call[d]
        /\ call[c].at = "invoke" /\ call'[c].at = "record"
    BY <1>0, <1>8 DEF InvokeEndpoint, ThenRecord, Calls
  <2>2. QED
    BY <2>1 DEF Onward
<1>9. CASE RecordSubmission(c)
  BY <1>0, <1>2, <1>3, <1>9 DEF RecordSubmission, Onward
<1>10. CASE FindOutput(c)
  BY <1>0, <1>3, <1>10 DEF FindOutput, Onward
<1>11. CASE PollAgain(c)
  <2>1. /\ \A d \in Call : d # c => call'[d] = call[d]
        /\ call[c].at = "poll" /\ call'[c].at = "poll" /\ call'[c].polls > call[c].polls
    BY <1>0, <1>11 DEF PollAgain, NextPolls, Calls
  <2>2. QED
    BY <2>1 DEF Onward
<1>12. CASE \/ FindReserved(c) \/ FindFailure(c) \/ WindowCloses(c)
            \/ Publish(c) \/ PublishUnanswered(c) \/ Fail(c)
  BY <1>2, <1>12 DEF FindReserved, FindFailure, WindowCloses, Publish, PublishUnanswered,
     Fail, Onward
<1>13. CASE ReserveUnanswered(c) \/ StoreUnanswered(c) \/ RecordUnanswered(c)
  BY <1>0, <1>4, <1>13 DEF ReserveUnanswered, StoreUnanswered, RecordUnanswered, Onward
<1>14. CASE InvokeUnanswered(c)
  <2>1. PICK taken \in BOOLEAN :
          call' = [call EXCEPT ![c] =
            IF TriesAgain(c)
            THEN [call[c] EXCEPT !.attempt = call[c].attempt + 1,
                                 !.started = call[c].started + (IF taken THEN 1 ELSE 0)]
            ELSE NoCall]
    BY <1>14 DEF InvokeUnanswered
  <2>2. call[c].at = "invoke"
    BY <1>14 DEF InvokeUnanswered
  <2>3. CASE TriesAgain(c)
    <3>1. /\ \A d \in Call : d # c => call'[d] = call[d]
          /\ call'[c].at = "invoke" /\ call'[c].attempt > call[c].attempt
      BY <1>0, <2>1, <2>2, <2>3 DEF Calls
    <3>2. QED
      BY <2>2, <3>1 DEF Onward
  <2>4. CASE ~TriesAgain(c)
    BY <1>0, <2>1, <2>2, <2>4 DEF Onward, NoCall
  <2>5. QED
    BY <2>3, <2>4
<1>15. QED
  BY <1>1, <1>5, <1>6, <1>7, <1>8, <1>9, <1>10, <1>11, <1>12, <1>13, <1>14
     DEF CallStep, CallUpset

\* Once begun, a call has at most MaxEffort steps of its own, however often answers
\* are lost and whatever the other calls and the endpoint do: neither retries nor
\* polling can keep the ingress waiting for ever.
THEOREM CallsBounded == Spec => CallsShorten
<1>1. ASSUME IInv, IInv', [Next]_vars, NEW c \in Call, call'[c] # call[c]
      PROVE  \/ call[c].at = "idle" /\ Effort(call'[c]) <= MaxEffort
             \/ Effort(call'[c]) < Effort(call[c])
  <2>1. call[c] \in Calls /\ call'[c] \in Calls
    BY <1>1 DEF IInv, TypeOK
  <2>2. BeginCall(c) \/ CallStep(c) \/ CallUpset(c)
    <3>1. ASSUME NEW d \in Call, d # c, BeginCall(d) \/ CallStep(d) \/ CallUpset(d)
          PROVE  FALSE
      BY <1>1, <3>1, StepsOnward
    <3>2. QED
      BY <1>1, <3>1 DEF Next, EndpointStep, JobSucceeds, JobFails, vars
  <2>3. QED
    BY <1>1, <2>1, <2>2, StepsOnward, OnwardShortens
<1>2. IInv /\ IInv' /\ [Next]_vars =>
        [\A c \in Call : call'[c] # call[c] =>
           \/ call[c].at = "idle" /\ Effort(call'[c]) <= MaxEffort
           \/ Effort(call'[c]) < Effort(call[c])]_vars
  BY <1>1
<1>3. QED
  BY <1>2, Invariance, PTL DEF Spec, CallsShorten


===============================================================================
