----------------------------- MODULE BedrockClient -----------------------------
(***************************************************************************)
(* The paid multimodal provider of the source acquisition service: the     *)
(* request threads of a process share one client that reserves a call of a *)
(* fixed lot, takes short-lived AWS credentials from a cache it refills    *)
(* under a lock, and calls Bedrock, repeating a failed attempt.            *)
(*                                                                         *)
(* Time is a clock of ticks of 100 s.  An attempt (connection, answer and  *)
(* the pause before it) fits in a tick, so a tick passes at most once      *)
(* during an attempt.  The token service and Bedrock are external.         *)
(***************************************************************************)
EXTENDS Naturals, FiniteSets

CONSTANTS
  Thread,       \* request threads
  NoThread,     \* holder of a free lock
  Lot,          \* authorized_bedrock_invocations_per_run
  MaxAttempts,  \* total_max_attempts of the Bedrock client
  Margin,       \* cached credentials must outlive this many ticks
  Lifetime,     \* ticks for which credentials are issued
  MaxClock,     \* bound on the clock
  MaxLost,      \* bound on answers that are lost
  MaxStarts     \* bound on the starts of the process

\* The repetitions of a call begin within the margin, and credentials just issued
\* outlive it: 3 x 95 s and the pauses against 5 minutes and an hour.
ASSUME TimesOK ==
  /\ {MaxClock, MaxLost} \subseteq Nat
  /\ {Lot, MaxAttempts, Margin, Lifetime, MaxStarts} \subseteq Nat \ {0}
  /\ MaxAttempts <= Margin + 1
  /\ Margin + 1 < Lifetime
  /\ NoThread \notin Thread
  /\ IsFiniteSet(Thread)

VARIABLES
  clock,     \* ticks so far
  reserved,  \* calls of the lot this process has reserved
  holder,    \* who holds the lock of the credentials
  cached,    \* expiry of the cached credentials, 0 when there are none
  call,      \* the call of each thread
  paid,      \* invocations Bedrock has accepted, of all processes
  lost,      \* accepted invocations whose answer was lost
  starts     \* times the process was started

vars == <<clock, reserved, holder, cached, call, paid, lost, starts>>

\* since: when the step in progress began, which for an attempt is when it was
\* signed; expires: of the credentials the call signs with; tries: attempts so far.
Idle == [at |-> "idle", since |-> 0, expires |-> 0, tries |-> 0]

Init ==
  /\ clock = 0
  /\ reserved = 0
  /\ holder = NoThread
  /\ cached = 0
  /\ call = [t \in Thread |-> Idle]
  /\ paid = 0
  /\ lost = 0
  /\ starts = 1

-------------------------------------------------------------------------------
(* InvocationLimitedBedrockClient.                                         *)

\* Fault: a call past the lot.
LotPastLast == reserved <= Lot

LotLeft == reserved < Lot

\* The text and images are prepared and a call of the lot is reserved, for good;
\* without one left extract raises before it reaches the federated client.
Reserve(t) ==
  /\ call[t].at = "idle"
  /\ LotLeft
  /\ reserved' = reserved + 1
  /\ call' = [call EXCEPT ![t].at = "credentials"]
  /\ UNCHANGED <<clock, holder, cached, paid, lost, starts>>

-------------------------------------------------------------------------------
(* AzureFederatedBedrockClient.                                            *)

\* Fault: credentials are used until they expire.
UsableUntilExpiry == cached > clock

Usable == cached > clock + Margin

Attempt(expires) == [at |-> "attempt", since |-> clock, expires |-> expires, tries |-> 1]

\* The lock is taken and released at once: the cached client will do.
UseCached(t) ==
  /\ call[t].at = "credentials"
  /\ holder = NoThread
  /\ Usable
  /\ call' = [call EXCEPT ![t] = Attempt(cached)]
  /\ UNCHANGED <<clock, reserved, holder, cached, paid, lost, starts>>

\* The lock is kept while a web token is read and a role assumed.
AssumeRole(t) ==
  /\ call[t].at = "credentials"
  /\ holder = NoThread
  /\ ~Usable
  /\ holder' = t
  /\ call' = [call EXCEPT ![t].at = "assume", ![t].since = clock]
  /\ UNCHANGED <<clock, reserved, cached, paid, lost, starts>>

Assumed(t) ==
  /\ call[t].at = "assume"
  /\ \E issued \in call[t].since..clock :
       /\ cached' = issued + Lifetime
       /\ call' = [call EXCEPT ![t] = Attempt(cached')]
  /\ holder' = NoThread
  /\ UNCHANGED <<clock, reserved, paid, lost, starts>>

\* Fault: the lock is not released when the exchange fails.
KeepLock == holder

ReleaseLock == NoThread

\* No web token, or the role is refused: the reservation is not given back, and the
\* old client stays.
AssumeFails(t) ==
  /\ call[t].at = "assume"
  /\ holder' = ReleaseLock
  /\ call' = [call EXCEPT ![t] = Idle]
  /\ UNCHANGED <<clock, reserved, cached, paid, lost, starts>>

-------------------------------------------------------------------------------
(* The attempts of one converse.                                           *)

\* Fault: an attempt too many.
AttemptPastLast(t) == call[t].tries <= MaxAttempts

AttemptLeft(t) == call[t].tries < MaxAttempts

\* The next attempt is signed anew with the same credentials, or the call raises.
Repeated(t) ==
  IF AttemptLeft(t)
  THEN [call[t] EXCEPT !.since = clock, !.tries = @ + 1]
  ELSE Idle

\* Bedrock answers: extract returns claims, or raises for an invalid response.
Answered(t) ==
  /\ call[t].at = "attempt"
  /\ paid' = paid + 1
  /\ call' = [call EXCEPT ![t] = Idle]
  /\ UNCHANGED <<clock, reserved, holder, cached, lost, starts>>

\* An error that is not repeated, such as a validation or an expired token.
AttemptRefused(t) ==
  /\ call[t].at = "attempt"
  /\ call' = [call EXCEPT ![t] = Idle]
  /\ UNCHANGED <<clock, reserved, holder, cached, paid, lost, starts>>

\* A connection error, throttling or an internal error: the client repeats.
AttemptFails(t) ==
  /\ call[t].at = "attempt"
  /\ call' = [call EXCEPT ![t] = Repeated(t)]
  /\ UNCHANGED <<clock, reserved, holder, cached, paid, lost, starts>>

\* The read times out although Bedrock has accepted: the client repeats all the same.
AnswerLost(t) ==
  /\ call[t].at = "attempt"
  /\ lost < MaxLost
  /\ lost' = lost + 1
  /\ paid' = paid + 1
  /\ call' = [call EXCEPT ![t] = Repeated(t)]
  /\ UNCHANGED <<clock, reserved, holder, cached, starts>>

-------------------------------------------------------------------------------
(* Time and the process.                                                   *)

\* A step in progress since an earlier tick ends before the next.
Tick ==
  /\ clock < MaxClock
  /\ \A t \in Thread : call[t].at \in {"attempt", "assume"} => call[t].since = clock
  /\ clock' = clock + 1
  /\ UNCHANGED <<reserved, holder, cached, call, paid, lost, starts>>

\* A new process has a new lot; attempts in flight may have been accepted.
Restart ==
  /\ starts < MaxStarts
  /\ starts' = starts + 1
  /\ reserved' = 0
  /\ holder' = NoThread
  /\ cached' = 0
  /\ call' = [t \in Thread |-> Idle]
  /\ paid' \in paid..(paid + Cardinality({t \in Thread : call[t].at = "attempt"}))
  /\ UNCHANGED <<clock, lost>>

CallStep(t) ==
  \/ UseCached(t) \/ AssumeRole(t) \/ Assumed(t) \/ AssumeFails(t)
  \/ Answered(t) \/ AttemptRefused(t) \/ AttemptFails(t) \/ AnswerLost(t)

Next ==
  \/ \E t \in Thread : Reserve(t) \/ CallStep(t)
  \/ Tick
  \/ Restart

Spec == Init /\ [][Next]_vars

\* Threads run.  The lock need not be fair: the lot bounds the calls that compete.
FairSpec == Spec /\ \A t \in Thread : WF_vars(CallStep(t))

-------------------------------------------------------------------------------
(* Properties.                                                             *)

Phases == {"idle", "credentials", "assume", "attempt"}

\* Every variable keeps its type, and the lock is held only by the thread that
\* exchanges credentials.
TypeOK ==
  /\ clock \in 0..MaxClock
  /\ reserved \in 0..Lot
  /\ cached \in 0..(MaxClock + Lifetime)
  /\ call \in [Thread -> [at: Phases, since: 0..MaxClock,
                          expires: 0..(MaxClock + Lifetime), tries: 0..MaxAttempts]]
  /\ {paid, lost} \subseteq Nat
  /\ starts \in 1..MaxStarts
  /\ {t \in Thread : call[t].at = "assume"} = {holder} \ {NoThread}

\* The lot bounds what is paid, whatever fails and whoever competes: a process never
\* pays for more than its lot, but for the answers that were lost and asked for again.
PaidWithinLots == paid <= Lot * starts + lost

\* Credentials checked once, before the first attempt, are still valid when the last
\* attempt is signed, whoever replaces the cached ones meanwhile.
SignedWithValid ==
  \A t \in Thread : call[t].at = "attempt" => call[t].since < call[t].expires

\* A call that has its reservation ends, though it may wait for a lock held over a
\* network exchange by calls that fail one after the other.
CallsEnd == \A t \in Thread : call[t].at # "idle" ~> call[t].at = "idle"
===============================================================================
