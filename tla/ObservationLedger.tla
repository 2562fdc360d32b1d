--------------------------- MODULE ObservationLedger ---------------------------
(***************************************************************************)
(* What satellite observation promises of one incident day, whoever runs   *)
(* it and however often it is asked for: the target gains one result at a  *)
(* time, and each is of an artifact it names now and that can be read,     *)
(* beside the one reference its tickets give it at that very revision, and *)
(* is the first with that reference.  A change without a single reference  *)
(* gains none.                                                             *)
(*                                                                         *)
(* SatelliteObservations is shown to implement this module.                *)
(***************************************************************************)
EXTENDS Naturals, Sequences

CONSTANTS
  Artifact,      \* satellite artifacts the target may have
  Processor,     \* satellite_observation_processor of each
  Reference,     \* the artifacts with temporal_role "pre_fire_reference"
  Foreign,       \* artifacts of a collection their processor is not for
  Malformed,     \* artifacts without the assets their processor reads
  FirstTickets   \* the artifacts the target has first

VARIABLES
  rev,      \* source revision of the target
  tickets,  \* satellite_artifact_tickets
  batches   \* satellite_observation_batches, in the order of their commits

ledgerVars == <<rev, tickets, batches>>

NoReference == "none"

Init ==
  /\ rev = 0
  /\ tickets = FirstTickets
  /\ batches = <<>>

\* What an artifact may be read beside: a change beside any reference of its
\* processor, anything else alone.
Contexts(a) ==
  IF Processor[a] \in {"s1", "s2"}
  THEN {b \in tickets \cap Reference : Processor[b] = Processor[a]}
  ELSE {NoReference}

\* What a result may say of an artifact: only a change of radar needs paid credits.
Status(a) ==
  {"completed", "no_observation"} \cup (IF Processor[a] = "s1" THEN {"unavailable"} ELSE {})

AppendResult(a, b, status) ==
  /\ a \in tickets \ Reference
  /\ Contexts(a) = {b}
  /\ {a, b} \cap (Foreign \cup Malformed) = {}
  /\ \A i \in DOMAIN batches : ~(batches[i].artifact = a /\ batches[i].reference = b)
  /\ status \in Status(a)
  /\ batches' = Append(batches, [artifact |-> a, reference |-> b, status |-> status])
  /\ rev' = rev + 1
  /\ UNCHANGED tickets

\* Tickets appear and are withdrawn.
ChangeTickets ==
  /\ tickets' \subseteq Artifact
  /\ rev' = rev + 1
  /\ UNCHANGED batches

Next ==
  \/ \E a \in Artifact, b \in Reference \cup {NoReference} :
       \E status \in Status(a) : AppendResult(a, b, status)
  \/ ChangeTickets

Spec == Init /\ [][Next]_ledgerVars
===============================================================================
