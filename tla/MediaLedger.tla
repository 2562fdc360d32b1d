------------------------------ MODULE MediaLedger ------------------------------
(***************************************************************************)
(* What public-media analysis promises of one incident day, whoever runs   *)
(* it and however often it is asked for: the durable batches of a media    *)
(* are its attempts, numbered from one, each made of a media ticket of a   *)
(* closed collection, at most as many as are allowed, and none after a     *)
(* success.  Every durable change gives the day one new revision.          *)
(*                                                                         *)
(* PublicMediaAnalysis is shown to implement this module.                  *)
(***************************************************************************)
EXTENDS Naturals, Sequences

CONSTANTS
  Media,        \* media of the incident day
  MaxAttempts   \* maximum_attempts_per_media

VARIABLES
  rev,        \* source revision of the incident day
  collected,  \* the collection of sources is closed
  tickets,    \* media tickets it has found
  batches     \* durable batches of each media, in order

ledgerVars == <<rev, collected, tickets, batches>>

Outcome == {"success", "partial", "failed"}

Init ==
  /\ rev = 0
  /\ collected = TRUE
  /\ tickets \in SUBSET Media
  /\ batches = [m \in Media |-> <<>>]

\* The next attempt of a media, as the n-th batch of its name.
Attempt(n, outcome) == [attempt |-> n, outcome |-> outcome]

\* The media may be tried once more.
Open(m) ==
  /\ m \in tickets
  /\ Len(batches[m]) < MaxAttempts
  /\ \A i \in DOMAIN batches[m] : batches[m][i].outcome # "success"

AppendBatch(m, outcome) ==
  /\ collected
  /\ Open(m)
  /\ batches' = [batches EXCEPT ![m] = Append(@, Attempt(Len(@) + 1, outcome))]
  /\ rev' = rev + 1
  /\ UNCHANGED <<collected, tickets>>

\* A page of a further wave; tickets are never withdrawn, and are only found by the
\* time the wave is closed.
CollectMore ==
  /\ rev' = rev + 1
  /\ collected' \in BOOLEAN
  /\ tickets \subseteq tickets' /\ tickets' \subseteq Media
  /\ tickets' # tickets => collected'
  /\ UNCHANGED batches

Next ==
  \/ \E m \in Media, outcome \in Outcome : AppendBatch(m, outcome)
  \/ CollectMore

Spec == Init /\ [][Next]_ledgerVars
===============================================================================
