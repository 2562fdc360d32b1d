---------------------------- MODULE ResearchLedger ----------------------------
(***************************************************************************)
(* What source acquisition promises of one durable evidence target,        *)
(* whoever runs it and however often it is retried: the research pages     *)
(* form one chain.  A page continues the wave of the page before it, from  *)
(* the cursor that page left, or opens the next wave once that wave is     *)
(* completed; it never republishes a source, never exceeds the ticket      *)
(* limit, and carries the zero-yield streak its predecessors earned.       *)
(*                                                                         *)
(* Only the head of the chain is kept: the durable progress record is the  *)
(* last page's.  SourceAcquisition is shown to implement this module.      *)
(***************************************************************************)
EXTENDS Naturals

CONSTANTS
  Url,            \* articles (pages with their content) that may become sources
  Focus,          \* focus of a wave
  MaxWave,        \* waves of a target (16 in the plan and the contract)
  MediaLimit,     \* plan.media_ticket_limit
  ZeroYield       \* plan.convergence_zero_yield_waves

VARIABLES
  head,           \* progress record left by the last durable page
  sources,        \* durable public sources
  tickets         \* durable media tickets of public sources

ledgerVars == <<head, sources, tickets>>

\* A cursor is (query index, provider cursor); provider cursor 0 is None, and
\* Start is also what an absent cursor decodes to.
Cursor == [query: Nat, provider: Nat]
Start == [query |-> 0, provider |-> 0]

\* new and added: the sources and the number of media tickets the page brings.
\* outcome: the search yielded evidence, was quiet, or raised.
Page == [wave: 0..MaxWave, focus: Focus, inputs: Nat, number: Nat,
         cursor: Cursor, next: Cursor, completed: BOOLEAN, safety: BOOLEAN,
         converged: BOOLEAN, streak: Nat, new: SUBSET Url, added: Nat,
         outcome: {"none", "yield", "quiet", "failed"}]

\* No research yet: a completed wave zero with no page.
NoProgress(f) ==
  [wave |-> 0, focus |-> f, inputs |-> 0, number |-> 0, cursor |-> Start,
   next |-> Start, completed |-> TRUE, safety |-> FALSE, converged |-> FALSE,
   streak |-> 0, new |-> {}, added |-> 0, outcome |-> "none"]

\* The streak after a search: a failed one neither extends nor breaks it.
StreakAfter(streak, outcome) ==
  CASE outcome = "yield" -> 0
    [] outcome = "quiet" -> streak + 1
    [] OTHER             -> streak

\* A page that says where to go next or that the wave is over, never both.
WellFormed(p) ==
  /\ p.completed <=> p.next = Start
  /\ p.safety => p.completed
  /\ p.converged <=> (p.completed /\ ~p.safety /\ p.streak >= ZeroYield)

\* p resumes the unfinished wave of h at the cursor h left.
Continues(h, p) ==
  /\ ~h.completed
  /\ <<p.wave, p.focus, p.inputs>> = <<h.wave, h.focus, h.inputs>>
  /\ p.number > h.number
  /\ p.cursor = h.next
  /\ p.streak = StreakAfter(h.streak, p.outcome)

\* p is the first page of the wave after h's.
Opens(h, p) ==
  /\ h.completed
  /\ p.wave = h.wave + 1
  /\ p.number = 1
  /\ p.cursor = Start
  /\ p.streak = StreakAfter(0, p.outcome)

Follows(h, p) ==
  /\ WellFormed(p)
  /\ Continues(h, p) \/ Opens(h, p)

Init ==
  /\ \E f \in Focus : head = NoProgress(f)
  /\ sources = {}
  /\ tickets = 0

\* One page becomes durable, with the sources and tickets it brings.
AppendPage(p) ==
  /\ p \in Page
  /\ Follows(head, p)
  /\ p.new \cap sources = {}
  /\ p.new # {} <=> p.outcome = "yield"
  /\ p.added > 0 => p.new # {}
  /\ sources' = sources \cup p.new
  /\ tickets' = tickets + p.added
  /\ tickets' <= MediaLimit

Next == AppendPage(head')

Spec == Init /\ [][Next]_ledgerVars
===============================================================================
