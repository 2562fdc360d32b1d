-------------------------- MODULE BedrockClient_proofs --------------------------
(***************************************************************************)
(* Proofs about BedrockClient, for every number of threads, lot, margin,   *)
(* number of attempts and bound.                                           *)
(*                                                                         *)
(* That credentials outlive the attempts they sign rests on Clocked, which *)
(* ties the clock to the step in progress, and on Covers, which spends one *)
(* tick of the margin per attempt.  The bound on what is paid rests on     *)
(* Budget, which counts the calls in flight as if they were paid.          *)
(***************************************************************************)
EXTENDS BedrockClient, FiniteSetTheorems, TLAPS

\* A step in progress began in this tick or in the one before.
Clocked ==
  \A t \in Thread : call[t].at \in {"assume", "attempt"} =>
    /\ call[t].since <= clock
    /\ clock <= call[t].since + 1

\* The credentials of an attempt outlive the attempts that may follow it.
Covers ==
  \A t \in Thread : call[t].at = "attempt" =>
    /\ call[t].tries >= 1
    /\ call[t].since + MaxAttempts < call[t].expires + call[t].tries

\* Calls that hold a reservation and have not ended.
InFlight == {t \in Thread : call[t].at # "idle"}

\* What is paid and what may still be was reserved, in a lot of this process or of an
\* earlier one, or repeats a call whose answer was lost.
Budget == paid + Cardinality(InFlight) <= Lot * (starts - 1) + reserved + lost

-------------------------------------------------------------------------------
(* Types.                                                                  *)

CallType == [at: Phases, since: 0..MaxClock, expires: 0..(MaxClock + Lifetime),
             tries: 0..MaxAttempts]

\* The numeric constants, one by one.
LEMMA Numbers ==
  /\ MaxClock \in Nat /\ MaxLost \in Nat
  /\ Lot \in Nat /\ Lot >= 1
  /\ MaxAttempts \in Nat /\ MaxAttempts >= 1
  /\ Margin \in Nat /\ Margin >= 1
  /\ Lifetime \in Nat /\ Lifetime >= 1
  /\ MaxStarts \in Nat /\ MaxStarts >= 1
<1>1. MaxClock \in Nat /\ MaxLost \in Nat
  BY TimesOK
<1>2. /\ Lot \in Nat \ {0} /\ MaxAttempts \in Nat \ {0} /\ Margin \in Nat \ {0}
      /\ Lifetime \in Nat \ {0} /\ MaxStarts \in Nat \ {0}
  BY TimesOK
<1>3. QED
  BY <1>1, <1>2

\* A thread that takes a step in the exchange of credentials holds the lock.
LEMMA HolderOf ==
  ASSUME TypeOK
  PROVE  /\ \A t \in Thread : call[t].at = "assume" => holder = t
         /\ holder # NoThread => holder \in Thread /\ call[holder].at = "assume"
BY DEF TypeOK

LEMMA TypeInit == Init => TypeOK
<1> SUFFICES ASSUME Init PROVE TypeOK
  OBVIOUS
<1>1. call \in [Thread -> CallType]
  BY Numbers DEF Init, Idle, CallType, Phases
<1>2. {t \in Thread : call[t].at = "assume"} = {holder} \ {NoThread}
  BY DEF Init, Idle
<1>3. QED
  BY <1>1, <1>2, Numbers DEF Init, TypeOK, CallType

\* What becomes of a failed attempt.
LEMMA RepeatedType ==
  ASSUME TypeOK, NEW t \in Thread, call[t].at = "attempt"
  PROVE  /\ Repeated(t) \in CallType
         /\ Repeated(t).at # "assume"
<1>1. call[t] \in CallType /\ clock \in 0..MaxClock
  BY DEF TypeOK, CallType
<1>2. CASE AttemptLeft(t)
  <2>1. call[t].tries + 1 \in 0..MaxAttempts
    BY <1>1, <1>2, Numbers DEF AttemptLeft, CallType
  <2>2. QED
    BY <1>1, <1>2, <2>1 DEF Repeated, CallType
<1>3. CASE ~AttemptLeft(t)
  BY <1>3, Numbers DEF Repeated, Idle, CallType, Phases
<1>4. QED
  BY <1>2, <1>3

\* Every step of a thread keeps the types.
LEMMA TypeStepOfThread ==
  ASSUME TypeOK, NEW t \in Thread, Reserve(t) \/ CallStep(t)
  PROVE  TypeOK'
<1> USE Numbers, HolderOf, TimesOK
<1>0. call \in [Thread -> CallType]
  BY DEF TypeOK, CallType
<1>1. CASE Reserve(t)
  BY <1>0, <1>1 DEF Reserve, TypeOK, LotLeft, CallType, Phases
<1>2. CASE UseCached(t)
  BY <1>0, <1>2 DEF UseCached, Attempt, TypeOK, CallType, Phases
<1>3. CASE AssumeRole(t)
  <2>1. call' = [call EXCEPT ![t] = [call[t] EXCEPT !.at = "assume", !.since = clock]]
    BY <1>0, <1>3 DEF AssumeRole
  <2>2. call' \in [Thread -> CallType]
    BY <1>0, <2>1 DEF TypeOK, CallType, Phases
  <2>3. {u \in Thread : call'[u].at = "assume"} = {holder'} \ {NoThread}
    BY <1>0, <1>3, <2>1 DEF AssumeRole, CallType
  <2>4. QED
    BY <1>3, <2>2, <2>3 DEF AssumeRole, TypeOK, CallType
<1>4. CASE Assumed(t)
  BY <1>0, <1>4 DEF Assumed, Attempt, TypeOK, CallType, Phases
<1>5. CASE AssumeFails(t)
  BY <1>0, <1>5 DEF AssumeFails, ReleaseLock, Idle, TypeOK, CallType, Phases
<1>6. CASE Answered(t)
  BY <1>0, <1>6 DEF Answered, Idle, TypeOK, CallType, Phases
<1>7. CASE AttemptRefused(t)
  BY <1>0, <1>7 DEF AttemptRefused, Idle, TypeOK, CallType, Phases
<1>8. CASE AttemptFails(t)
  BY <1>0, <1>8, RepeatedType DEF AttemptFails, TypeOK, CallType
<1>9. CASE AnswerLost(t)
  BY <1>0, <1>9, RepeatedType DEF AnswerLost, TypeOK, CallType
<1>10. QED
  BY <1>1, <1>2, <1>3, <1>4, <1>5, <1>6, <1>7, <1>8, <1>9 DEF CallStep

LEMMA TypeStep ==
  ASSUME TypeOK, [Next]_vars
  PROVE  TypeOK'
<1>1. CASE \E t \in Thread : Reserve(t) \/ CallStep(t)
  BY <1>1, TypeStepOfThread
<1>2. CASE Tick
  BY <1>2, Numbers DEF Tick, TypeOK
<1>3. CASE Restart
  <2>1. IsFiniteSet({t \in Thread : call[t].at = "attempt"})
    BY TimesOK, FS_Subset
  <2>2. Cardinality({t \in Thread : call[t].at = "attempt"}) \in Nat
    BY <2>1, FS_CardinalityType
  <2>3. paid' \in Nat
    BY <1>3, <2>2 DEF Restart, TypeOK
  <2>4. call' \in [Thread -> CallType]
    BY <1>3, Numbers DEF Restart, Idle, CallType, Phases
  <2>5. {t \in Thread : call'[t].at = "assume"} = {holder'} \ {NoThread}
    BY <1>3 DEF Restart, Idle
  <2>6. QED
    BY <1>3, <2>3, <2>4, <2>5, Numbers DEF Restart, TypeOK, CallType
<1>4. CASE UNCHANGED vars
  BY <1>4 DEF vars, TypeOK
<1>5. QED
  BY <1>1, <1>2, <1>3, <1>4 DEF Next

\* The client keeps its types, and only the thread that exchanges credentials holds
\* the lock of AzureFederatedBedrockClient.
THEOREM TypeCorrect == Spec => []TypeOK
<1>1. TypeOK /\ [Next]_vars => TypeOK'
  BY TypeStep
<1>2. QED
  BY TypeInit, <1>1, PTL DEF Spec

-------------------------------------------------------------------------------
(* Credentials outlive the attempts they sign.                             *)

LEMMA SignedInit == Init => Clocked /\ Covers
BY DEF Init, Idle, Clocked, Covers

\* A step of t leaves the calls of the others alone.
LEMMA OthersStay ==
  ASSUME TypeOK, NEW t \in Thread, Reserve(t) \/ CallStep(t), NEW u \in Thread, u # t
  PROVE  call'[u] = call[u]
BY DEF TypeOK, Reserve, CallStep, UseCached, AssumeRole, Assumed, AssumeFails, Answered,
       AttemptRefused, AttemptFails, AnswerLost

LEMMA SignedStepOfThread ==
  ASSUME TypeOK, Clocked, Covers, NEW t \in Thread, Reserve(t) \/ CallStep(t)
  PROVE  Clocked' /\ Covers'
<1>0. /\ call \in [Thread -> CallType]
      /\ clock \in Nat /\ cached \in Nat
      /\ clock' = clock
  BY Numbers DEF TypeOK, CallType, Reserve, CallStep, UseCached, AssumeRole, Assumed,
     AssumeFails, Answered, AttemptRefused, AttemptFails, AnswerLost
<1>1. SUFFICES
        /\ call'[t].at \in {"assume", "attempt"} =>
             call'[t].since <= clock /\ clock <= call'[t].since + 1
        /\ call'[t].at = "attempt" =>
             /\ call'[t].tries >= 1
             /\ call'[t].since + MaxAttempts < call'[t].expires + call'[t].tries
  BY <1>0, OthersStay DEF Clocked, Covers
<1>2. CASE call'[t].at \notin {"assume", "attempt"}
  BY <1>2
<1>3. CASE Reserve(t)
  BY <1>0, <1>3 DEF Reserve
<1>4. CASE UseCached(t)
  <2>1. call'[t] = Attempt(cached)
    BY <1>0, <1>4 DEF UseCached
  <2>2. cached > clock + Margin
    BY <1>4 DEF UseCached, Usable
  <2>3. QED
    BY <1>0, <2>1, <2>2, Numbers, TimesOK DEF Attempt
<1>5. CASE AssumeRole(t)
  <2>1. call'[t].at = "assume" /\ call'[t].since = clock
    BY <1>0, <1>5 DEF AssumeRole, CallType
  <2>2. QED
    BY <1>0, <2>1
<1>6. CASE Assumed(t)
  <2>1. PICK issued \in call[t].since..clock : call'[t] = Attempt(issued + Lifetime)
    BY <1>0, <1>6 DEF Assumed
  <2>2. call[t].since \in Nat /\ clock <= call[t].since + 1
    BY <1>0, <1>6 DEF Assumed, Clocked, CallType
  <2>3. QED
    BY <1>0, <2>1, <2>2, Numbers, TimesOK DEF Attempt
<1>7. CASE AttemptFails(t) \/ AnswerLost(t)
  <2>1. call[t].at = "attempt" /\ call'[t] = Repeated(t)
    BY <1>0, <1>7 DEF AttemptFails, AnswerLost
  <2>2. CASE AttemptLeft(t)
    <3>1. call'[t] = [call[t] EXCEPT !.since = clock, !.tries = @ + 1]
      BY <2>1, <2>2 DEF Repeated
    <3>2. /\ call'[t].since = clock /\ call'[t].expires = call[t].expires
          /\ call'[t].tries = call[t].tries + 1
      BY <1>0, <3>1 DEF CallType
    <3>3. /\ call[t].since \in Nat /\ call[t].tries \in Nat /\ call[t].expires \in Nat
          /\ clock <= call[t].since + 1
          /\ call[t].since + MaxAttempts < call[t].expires + call[t].tries
      BY <1>0, <2>1, Numbers DEF Clocked, Covers, CallType
    <3>4. QED
      BY <1>0, <3>2, <3>3, Numbers
  <2>3. CASE ~AttemptLeft(t)
    BY <2>1, <2>3 DEF Repeated, Idle
  <2>4. QED
    BY <2>2, <2>3
<1>8. CASE AssumeFails(t) \/ Answered(t) \/ AttemptRefused(t)
  BY <1>0, <1>8 DEF AssumeFails, Answered, AttemptRefused, Idle
<1>9. QED
  BY <1>3, <1>4, <1>5, <1>6, <1>7, <1>8 DEF CallStep

LEMMA SignedStep ==
  ASSUME TypeOK, Clocked, Covers, [Next]_vars
  PROVE  Clocked' /\ Covers'
<1>1. CASE \E t \in Thread : Reserve(t) \/ CallStep(t)
  BY <1>1, SignedStepOfThread
<1>2. CASE Tick
  <2>1. clock' = clock + 1 /\ call' = call
    BY <1>2 DEF Tick
  <2>2. Clocked'
    BY <1>2, <2>1, Numbers DEF Tick, TypeOK, Clocked
  <2>3. QED
    BY <2>1, <2>2 DEF Covers
<1>3. CASE Restart
  BY <1>3 DEF Restart, Idle, Clocked, Covers
<1>4. CASE UNCHANGED vars
  BY <1>4 DEF vars, Clocked, Covers
<1>5. QED
  BY <1>1, <1>2, <1>3, <1>4 DEF Next

\* Credentials that AzureFederatedBedrockClient checked once, before the first attempt,
\* are valid whenever an attempt of that call is signed.
THEOREM SignaturesValid == Spec => []SignedWithValid
<1>1. Init => TypeOK /\ Clocked /\ Covers
  BY TypeInit, SignedInit
<1>2. TypeOK /\ Clocked /\ Covers /\ [Next]_vars => (TypeOK /\ Clocked /\ Covers)'
  BY TypeStep, SignedStep
<1>3. TypeOK /\ Covers => SignedWithValid
  <2> SUFFICES ASSUME TypeOK, Covers, NEW t \in Thread, call[t].at = "attempt"
               PROVE  call[t].since < call[t].expires
    BY DEF SignedWithValid
  <2>1. /\ call[t].since \in Nat /\ call[t].tries \in Nat /\ call[t].expires \in Nat
        /\ call[t].tries <= MaxAttempts
    BY Numbers DEF TypeOK
  <2>2. QED
    BY <2>1, Numbers DEF Covers
<1>4. QED
  BY <1>1, <1>2, <1>3, PTL DEF Spec

-------------------------------------------------------------------------------
(* What is paid stays within the lots.                                     *)

LEMMA BudgetInit == Init => Budget
<1> SUFFICES ASSUME Init PROVE Budget
  OBVIOUS
<1>1. InFlight = {}
  BY DEF Init, Idle, InFlight
<1>2. Cardinality(InFlight) = 0
  BY <1>1, FS_EmptySet
<1>3. QED
  BY <1>2, Numbers DEF Init, Budget

\* The calls in flight are finitely many; one more or one less changes their number
\* by one.
LEMMA InFlightCount ==
  ASSUME TypeOK
  PROVE  /\ IsFiniteSet(InFlight)
         /\ Cardinality(InFlight) \in Nat
         /\ \A t \in Thread \ InFlight :
              Cardinality(InFlight \cup {t}) = Cardinality(InFlight) + 1
         /\ \A t \in InFlight :
              Cardinality(InFlight \ {t}) = Cardinality(InFlight) - 1
<1>1. IsFiniteSet(InFlight)
  BY TimesOK, FS_Subset DEF InFlight
<1>2. QED
  BY <1>1, FS_CardinalityType, FS_AddElement, FS_RemoveElement

\* How a step of t changes the calls in flight.
LEMMA InFlightAfter ==
  ASSUME TypeOK, NEW t \in Thread, Reserve(t) \/ CallStep(t)
  PROVE  InFlight' = IF call'[t].at = "idle" THEN InFlight \ {t} ELSE InFlight \cup {t}
BY OthersStay DEF InFlight

LEMMA BudgetStepOfThread ==
  ASSUME TypeOK, Budget, NEW t \in Thread, Reserve(t) \/ CallStep(t)
  PROVE  Budget'
<1> DEFINE spent == Lot * (starts - 1)
<1>0. /\ call \in [Thread -> CallType]
      /\ paid \in Nat /\ lost \in Nat /\ reserved \in Nat /\ spent \in Nat
      /\ starts' = starts
  BY Numbers DEF TypeOK, CallType, Reserve, CallStep, UseCached, AssumeRole, Assumed,
     AssumeFails, Answered, AttemptRefused, AttemptFails, AnswerLost
<1>1. paid + Cardinality(InFlight) <= spent + reserved + lost
  BY DEF Budget
<1>2. SUFFICES paid' + Cardinality(InFlight') <= spent + reserved' + lost'
  BY <1>0 DEF Budget
<1> HIDE DEF spent
<1>3. CASE Reserve(t)
  <2>1. t \in Thread \ InFlight /\ call'[t].at = "credentials"
    BY <1>0, <1>3 DEF Reserve, InFlight, CallType
  <2>2. Cardinality(InFlight') = Cardinality(InFlight) + 1
    BY <2>1, InFlightAfter, InFlightCount
  <2>3. QED
    BY <1>0, <1>1, <1>3, <2>2, InFlightCount DEF Reserve
<1>4. ASSUME CallStep(t) PROVE t \in InFlight
  BY <1>4 DEF InFlight, CallStep, UseCached, AssumeRole, Assumed, AssumeFails, Answered,
     AttemptRefused, AttemptFails, AnswerLost
<1>5. ASSUME CallStep(t)
      PROVE  /\ Cardinality(InFlight') <= Cardinality(InFlight)
             /\ Cardinality(InFlight') \in Nat
             /\ call'[t].at = "idle" => Cardinality(InFlight') = Cardinality(InFlight) - 1
  <2>1. CASE call'[t].at = "idle"
    <3>1. InFlight' = InFlight \ {t}
      BY <2>1, InFlightAfter
    <3>2. QED
      BY <1>4, <1>5, <3>1, InFlightCount, FS_RemoveElement, FS_CardinalityType
  <2>2. CASE call'[t].at # "idle"
    <3>1. InFlight' = InFlight
      BY <1>4, <1>5, <2>2, InFlightAfter
    <3>2. QED
      BY <2>2, <3>1, InFlightCount
  <2>3. QED
    BY <2>1, <2>2
<1>6. CASE UseCached(t) \/ AssumeRole(t) \/ Assumed(t) \/ AssumeFails(t)
           \/ AttemptRefused(t) \/ AttemptFails(t)
  <2>1. paid' = paid /\ lost' = lost /\ reserved' = reserved
    BY <1>6 DEF UseCached, AssumeRole, Assumed, AssumeFails, AttemptRefused, AttemptFails
  <2>2. QED
    BY <1>0, <1>1, <1>5, <1>6, <2>1, InFlightCount DEF CallStep
<1>7. CASE Answered(t)
  <2>1. paid' = paid + 1 /\ lost' = lost /\ reserved' = reserved /\ call'[t].at = "idle"
    BY <1>0, <1>7 DEF Answered, Idle
  <2>2. QED
    BY <1>0, <1>1, <1>5, <1>7, <2>1, InFlightCount DEF CallStep
<1>8. CASE AnswerLost(t)
  <2>1. paid' = paid + 1 /\ lost' = lost + 1 /\ reserved' = reserved
    BY <1>8 DEF AnswerLost
  <2>2. QED
    BY <1>0, <1>1, <1>5, <1>8, <2>1, InFlightCount DEF CallStep
<1>9. QED
  BY <1>3, <1>6, <1>7, <1>8 DEF CallStep

\* Lots are counted by the starts of the process.
LEMMA Lots ==
  ASSUME TypeOK
  PROVE  /\ Lot * starts \in Nat
         /\ Lot * (starts - 1) + Lot = Lot * starts
         /\ Lot * ((starts + 1) - 1) = Lot * starts
BY Numbers DEF TypeOK

LEMMA BudgetStep ==
  ASSUME TypeOK, Budget, [Next]_vars
  PROVE  Budget'
<1>1. CASE \E t \in Thread : Reserve(t) \/ CallStep(t)
  BY <1>1, BudgetStepOfThread
<1>2. CASE Tick \/ UNCHANGED vars
  <2>1. UNCHANGED <<reserved, call, paid, lost, starts>>
    BY <1>2 DEF Tick, vars
  <2>2. QED
    BY <2>1 DEF Budget, InFlight
<1>3. CASE Restart
  <2> DEFINE sending == {t \in Thread : call[t].at = "attempt"}
  <2>1. sending \subseteq InFlight
    BY DEF InFlight
  <2>2. Cardinality(sending) \in Nat /\ Cardinality(sending) <= Cardinality(InFlight)
    BY <2>1, InFlightCount, FS_Subset, FS_CardinalityType
  <2>3. paid' \in Nat /\ paid' <= paid + Cardinality(sending)
    BY <1>3, <2>2 DEF Restart, TypeOK
  <2>4. InFlight' = {}
    BY <1>3 DEF Restart, Idle, InFlight
  <2>5. Cardinality(InFlight') = 0
    BY <2>4, FS_EmptySet
  <2>6. lost' = lost /\ reserved' = 0 /\ starts' = starts + 1
    BY <1>3 DEF Restart
  <2> HIDE DEF sending
  <2>7. /\ paid \in Nat /\ lost \in Nat /\ reserved \in Nat /\ reserved <= Lot
        /\ Lot * (starts - 1) \in Nat
    BY Numbers DEF TypeOK
  <2>8. paid' <= Lot * starts + lost
    BY <2>2, <2>3, <2>7, Lots, InFlightCount, Numbers DEF Budget
  <2>9. QED
    BY <2>3, <2>5, <2>6, <2>7, <2>8, Lots DEF Budget
<1>4. QED
  BY <1>1, <1>2, <1>3 DEF Next

\* InvocationLimitedBedrockClient bounds what the processes ever pay by their lots, but
\* for the answers that were lost and asked for again.
THEOREM PaymentsBounded == Spec => []PaidWithinLots
<1>1. Init => TypeOK /\ Budget
  BY TypeInit, BudgetInit
<1>2. TypeOK /\ Budget /\ [Next]_vars => (TypeOK /\ Budget)'
  BY TypeStep, BudgetStep
<1>3. TypeOK /\ Budget => PaidWithinLots
  <2> SUFFICES ASSUME TypeOK, Budget PROVE PaidWithinLots
    OBVIOUS
  <2>1. /\ paid \in Nat /\ lost \in Nat /\ reserved \in Nat /\ reserved <= Lot
        /\ Lot * (starts - 1) \in Nat
    BY Numbers DEF TypeOK
  <2>2. QED
    BY <2>1, Lots, InFlightCount, Numbers DEF Budget, PaidWithinLots
<1>4. QED
  BY <1>1, <1>2, <1>3, PTL DEF Spec
===============================================================================
