---------------------- MODULE SatelliteObservations_proofs ----------------------
(***************************************************************************)
(* Proofs about SatelliteObservations, for any calls, artifacts, tickets   *)
(* and upsets, under one assumption on the data: a reference belongs to    *)
(* the collection its processor is for.                                    *)
(*                                                                         *)
(* A call that has started is stale or knows the target as it is; an upset *)
(* that makes it stale pays for the openEO requests it has spent.  So each *)
(* commit is a step of ObservationLedger.                                  *)
(***************************************************************************)
EXTENDS SatelliteObservations, SequenceTheorems, FiniteSetTheorems, TLAPS

OwnReferences == Reference \cap Foreign = {}

\* No two batches have one result id: an artifact is published once beside each
\* reference it ever had.  The backend's evidence cannot be read with a duplicate.
ResultIdsUnique ==
  \A i, j \in DOMAIN batches :
    /\ batches[i].artifact = batches[j].artifact
    /\ batches[i].reference = batches[j].reference
    => i = j

Live == {"pre", "post", "process", "publish"}

\* No result of artifact a beside reference b.
Fresh(a, b) == \A i \in DOMAIN batches : ~(batches[i].artifact = a /\ batches[i].reference = b)

\* What a call that is not stale knows.
Current(k) ==
  /\ k.artifact \in Eligible /\ HasContext(k.artifact)
  /\ k.reference = ReferenceOf(k.artifact)
  /\ Fresh(k.artifact, k.reference)
  /\ k.left = Cardinality(Left)

Working(k) ==
  k.at \in Live =>
    /\ k.base <= rev
    /\ k.base = rev => Current(k)
    /\ k.at \in {"pre", "post"} => k.reference \in Reference

\* The lock is held by the call that is not idle.
Alone == \A c \in Call : call[c].at # "idle" => lock = c

\* The requests a call has spent, of the two its artifact is due.
Step(k) == IF k.at = "pre" THEN 0 ELSE IF k.at = "post" THEN 1 ELSE 2
Stale(k) == IF k.base = rev THEN 0 ELSE 1

Spends(k) ==
  k.at \in Live /\ k.reference \in Reference =>
    paid[k.artifact][k.reference] <= 2 * (upsets - Stale(k)) + Step(k)

On(k, a, b) == k.at \in Live /\ k.artifact = a /\ k.reference = b

\* Outside a call, two requests for each upset and two for the result.
Settled(a, b) == paid[a][b] <= 2 * upsets + (IF Fresh(a, b) THEN 0 ELSE 2)

Budget ==
  /\ \A c \in Call : Spends(call[c])
  /\ \A a \in Artifact : \A b \in Reference : Settled(a, b) \/ \E c \in Call : On(call[c], a, b)

IInv ==
  /\ TypeOK
  /\ Alone
  /\ \A c \in Call : Working(call[c])
  /\ ResultIdsUnique
  /\ Budget

-------------------------------------------------------------------------------
(* Lemmas about the operators.                                             *)

LEMMA Constants ==
  /\ Processor \in [Artifact -> {"clms", "frp", "s1", "s2"}] /\ Reference \subseteq Artifact
  /\ IsFiniteSet(Artifact) /\ Artifact # {} /\ "none" \notin Artifact /\ "none" \notin Call
  /\ MaxUpsets \in Nat /\ FirstTickets \subseteq Artifact
BY ConstantsOK

\* What is left is finite, and no more than there is.
LEMMA LeftType ==
  ASSUME tickets \subseteq Artifact
  PROVE  IsFiniteSet(Left) /\ Cardinality(Left) \in 0..Cardinality(Artifact \ Reference)
<1>1. IsFiniteSet(Artifact \ Reference)
  BY Constants, FS_Subset
<1>2. Left \in SUBSET (Artifact \ Reference)
  BY DEF Left, Eligible
<1>3. IsFiniteSet(Left) /\ Cardinality(Left) <= Cardinality(Artifact \ Reference)
  BY <1>1, <1>2, FS_Subset
<1>4. QED
  BY <1>1, <1>3, FS_CardinalityType

LEMMA NoCallType ==
  /\ NoCall \in Calls /\ NoCall.at = "idle" /\ NoCall.reference = NoReference
  /\ NoReference \notin Reference
<1>1. IsFiniteSet(Artifact \ Reference)
  BY Constants, FS_Subset
<1>2. 0 \in 0..Cardinality(Artifact \ Reference)
  BY <1>1, FS_CardinalityType
<1>3. (CHOOSE a \in Artifact : TRUE) \in Artifact
  BY Constants
<1>4. QED
  BY <1>2, <1>3, Constants DEF NoCall, Calls, NoReference

\* The results of one artifact beside its reference make it done.
LEMMA DoneIsNotFresh ==
  ASSUME NEW a, HasContext(a)
  PROVE  Done(a) <=> ~Fresh(a, ReferenceOf(a))
BY DEF Done, Fresh, Results

\* Without foreign references, what a change is computed beside is what decides
\* whether it is done.
LEMMA SameReference ==
  ASSUME OwnReferences, NEW a \in Artifact, Processable(a)
  PROVE  /\ HasContext(a) /\ UsedReference(a) = ReferenceOf(a)
         /\ UsedReference(a) \in Reference \cup {NoReference}
         /\ Processor[a] = "s1" => UsedReference(a) \in Reference
<1>1. ReferencesOf(a) \ Foreign = ReferencesOf(a)
  BY DEF OwnReferences, ReferencesOf
<1>2. HasContext(a) /\ UsedReference(a) = ReferenceOf(a)
  BY <1>1 DEF Processable, HasContext, UsedReference, ReferenceOf
<1>3. ASSUME NeedsReference(a) PROVE UsedReference(a) \in Reference
  <2>1. Cardinality(ReferencesOf(a)) = 1
    BY <1>2, <1>3 DEF HasContext
  <2>2. ReferencesOf(a) # {}
    BY <2>1, FS_EmptySet
  <2>3. (CHOOSE b \in ReferencesOf(a) : TRUE) \in ReferencesOf(a)
    BY <2>2
  <2>4. UsedReference(a) \in ReferencesOf(a)
    BY <1>1, <1>3, <2>2, <2>3 DEF UsedReference, Among
  <2>5. QED
    BY <2>4 DEF ReferencesOf
<1>4. ~NeedsReference(a) => UsedReference(a) = NoReference
  BY DEF UsedReference
<1>5. QED
  BY <1>2, <1>3, <1>4 DEF NeedsReference

\* A target that has not changed is judged as before.
LEMMA SameTarget ==
  ASSUME UNCHANGED <<tickets, batches>>
  PROVE  /\ \A k : Current(k)' <=> Current(k)
         /\ \A a, b : Fresh(a, b)' <=> Fresh(a, b)
<1>1. \A a, b : Fresh(a, b)' <=> Fresh(a, b)
  BY DEF Fresh
<1>2. \A a : HasContext(a)' <=> HasContext(a)
  BY DEF HasContext, NeedsReference, ReferencesOf
<1>3. \A a : ReferenceOf(a)' = ReferenceOf(a)
  BY DEF ReferenceOf, NeedsReference, ReferencesOf, Among
<1>4. Eligible' = Eligible
  BY DEF Eligible
<1>5. \A a : Done(a)' <=> Done(a)
  BY <1>2, <1>3 DEF Done, Results
<1>6. Left' = Left
  BY <1>4, <1>5 DEF Left
<1>7. QED
  BY <1>1, <1>2, <1>3, <1>4, <1>6 DEF Current

\* The types, one by one.
LEMMA Types ==
  ASSUME IInv
  PROVE  /\ rev \in Nat /\ tickets \subseteq Artifact /\ batches \in Seq(Batch)
         /\ call \in [Call -> Calls] /\ upsets \in 0..MaxUpsets /\ upsets \in Nat
         /\ lock \in Call \cup {"none"} /\ authorised \in BOOLEAN
         /\ paid \in [Artifact -> [Reference -> Nat]]
         /\ \A a \in Artifact : \A b \in Reference : paid[a][b] \in Nat
         /\ Len(batches) \in Nat /\ DOMAIN batches = 1..Len(batches)
<1>1. TypeOK
  BY DEF IInv
<1>2. Len(batches) \in Nat /\ DOMAIN batches = 1..Len(batches)
  BY <1>1, LenProperties DEF TypeOK
<1>3. QED
  BY <1>1, <1>2, Constants DEF TypeOK

\* One more result.
LEMMA OneMore ==
  ASSUME IInv, NEW e \in Batch, batches' = Append(batches, e)
  PROVE  /\ batches' \in Seq(Batch)
         /\ DOMAIN batches' = 1..(Len(batches) + 1)
         /\ \A i \in DOMAIN batches : batches'[i] = batches[i]
         /\ batches'[Len(batches) + 1] = e
         /\ \A a, b : Fresh(a, b)' <=> Fresh(a, b) /\ ~(e.artifact = a /\ e.reference = b)
         /\ Fresh(e.artifact, e.reference) => ResultIdsUnique'
<1>1. /\ batches \in Seq(Batch) /\ Len(batches) \in Nat /\ DOMAIN batches = 1..Len(batches)
  BY Types
<1>2. /\ batches' \in Seq(Batch) /\ Len(batches') = Len(batches) + 1
      /\ \A i \in 1..Len(batches) : batches'[i] = batches[i]
      /\ batches'[Len(batches) + 1] = e
  BY <1>1, AppendProperties
<1>3. DOMAIN batches' = 1..(Len(batches) + 1)
  BY <1>2, LenProperties
<1>4. \A i \in DOMAIN batches' : i \in DOMAIN batches \/ i = Len(batches) + 1
  BY <1>1, <1>3
<1>5. \A a, b : Fresh(a, b)' <=> Fresh(a, b) /\ ~(e.artifact = a /\ e.reference = b)
  <2> SUFFICES ASSUME NEW a, NEW b
               PROVE  Fresh(a, b)' <=> Fresh(a, b) /\ ~(e.artifact = a /\ e.reference = b)
    OBVIOUS
  <2>1. DOMAIN batches \subseteq DOMAIN batches' /\ Len(batches) + 1 \in DOMAIN batches'
    BY <1>1, <1>3
  <2>2. QED
    BY <1>1, <1>2, <1>4, <2>1 DEF Fresh
<1>6. ASSUME Fresh(e.artifact, e.reference) PROVE ResultIdsUnique'
  BY <1>1, <1>2, <1>4, <1>6 DEF IInv, ResultIdsUnique, Fresh
<1>7. QED
  BY <1>1, <1>2, <1>3, <1>5, <1>6
-------------------------------------------------------------------------------
(* The steps.                                                              *)

\* Who holds the lock is alone, and nothing else is being spent.
LEMMA OnlyCall ==
  ASSUME IInv, NEW c \in Call, call[c].at # "idle"
  PROVE  /\ \A d \in Call : d # c => call[d].at = "idle"
         /\ \A a \in Artifact : \A b \in Reference : Settled(a, b) \/ On(call[c], a, b)
<1>1. \A d \in Call : d # c => call[d].at = "idle"
  BY DEF IInv, Alone
<1>2. \A d \in Call : d # c => call[d].at \notin Live
  BY <1>1 DEF Live
<1>3. QED
  BY <1>1, <1>2 DEF IInv, Budget, On

\* Spent numbers are numbers.
LEMMA Numbers ==
  ASSUME IInv, NEW c \in Call
  PROVE  /\ call[c] \in Calls /\ call[c].base \in Nat /\ call[c].artifact \in Artifact
         /\ call[c].reference \in Reference \cup {NoReference}
         /\ Stale(call[c]) \in {0, 1} /\ Step(call[c]) \in {0, 1, 2}
         /\ call[c].left \in 0..Cardinality(Artifact \ Reference)
BY Types DEF Calls, Stale, Step

\* The end of a run, once its requests are settled.
LEMMA Ends ==
  ASSUME IInv, NEW c \in Call, call[c].at # "idle", End(c),
         rev' \in Nat, tickets' \subseteq Artifact, batches' \in Seq(Batch),
         authorised' \in BOOLEAN, upsets' \in 0..MaxUpsets,
         paid' \in [Artifact -> [Reference -> Nat]],
         ResultIdsUnique',
         \A a \in Artifact : \A b \in Reference : Settled(a, b)'
  PROVE  IInv'
<1>1. call' \in [Call -> Calls] /\ \A d \in Call : call'[d].at = "idle"
  BY OnlyCall, Types, NoCallType DEF End
<1>2. \A d \in Call : call'[d].at \notin Live
  BY <1>1 DEF Live
<1>3. TypeOK'
  BY <1>1 DEF TypeOK, End
<1>4. (\A d \in Call : Working(call[d]))' /\ Alone'
  BY <1>1, <1>2 DEF Working, Alone
<1>5. Budget'
  BY <1>2 DEF Budget, Spends
<1>6. QED
  BY <1>3, <1>4, <1>5 DEF IInv

\* A run that goes on.
LEMMA GoesOn ==
  ASSUME IInv, NEW c \in Call, call[c].at # "idle", NEW n \in Calls,
         call' = [call EXCEPT ![c] = n], n.at # "idle",
         UNCHANGED <<backend, authorised, lock, upsets>>,
         paid' \in [Artifact -> [Reference -> Nat]],
         Working(n)', Spends(n)',
         \A a \in Artifact : \A b \in Reference : Settled(a, b)' \/ On(n, a, b)
  PROVE  IInv'
<1>1. call' \in [Call -> Calls] /\ call'[c] = n
  BY Types
<1>2. \A d \in Call : d # c => call'[d] = call[d] /\ call[d].at \notin Live
  BY OnlyCall, Types DEF Live
<1>3. TypeOK'
  BY <1>1, Types DEF TypeOK, backend
<1>4. (\A d \in Call : Working(call[d]))'
  BY <1>1, <1>2 DEF Working
<1>5. Alone'
  BY <1>1, <1>2, OnlyCall DEF IInv, Alone
<1>6. Budget'
  BY <1>1, <1>2 DEF Budget, Spends, On
<1>7. ResultIdsUnique'
  BY DEF IInv, ResultIdsUnique, backend
<1>8. QED
  BY <1>3, <1>4, <1>5, <1>6, <1>7 DEF IInv

LEMMA InitIInv ==
  ASSUME Init
  PROVE  IInv
<1>1. TypeOK
  <2>1. batches \in Seq(Batch)
    BY DEF Init
  <2>2. call \in [Call -> Calls]
    BY NoCallType DEF Init
  <2>3. paid \in [Artifact -> [Reference -> Nat]]
    BY DEF Init
  <2>4. upsets \in 0..MaxUpsets /\ rev \in Nat /\ tickets \subseteq Artifact
    BY Constants DEF Init
  <2>5. authorised \in BOOLEAN /\ lock \in Call \cup {"none"}
    BY DEF Init
  <2>6. QED
    BY <2>1, <2>2, <2>3, <2>4, <2>5 DEF TypeOK
<1>2. \A c \in Call : call[c].at = "idle" /\ call[c].at \notin Live
  BY NoCallType DEF Init, Live
<1>3. DOMAIN batches = {}
  BY DEF Init
<1>4. ResultIdsUnique
  BY <1>3 DEF ResultIdsUnique
<1>5. Budget
  <2>1. \A a \in Artifact : \A b \in Reference : Settled(a, b)
    BY <1>3 DEF Settled, Fresh, Init
  <2>2. QED
    BY <1>2, <2>1 DEF Budget, Spends
<1>6. QED
  BY <1>1, <1>2, <1>4, <1>5 DEF IInv, Alone, Working

LEMMA AcquireStep ==
  ASSUME IInv, NEW c \in Call, NEW a \in Artifact, Acquire(c, a)
  PROVE  IInv'
<1> DEFINE n == [NoCall EXCEPT !.at = "read", !.artifact = a]
<1>1. n \in Calls /\ n.at = "read"
  BY NoCallType DEF Calls
<1>2. \A d \in Call : call[d].at = "idle"
  BY Constants DEF IInv, Alone, Acquire, LockFree
<1>3. call' \in [Call -> Calls] /\ call'[c] = n /\ \A d \in Call : d # c => call'[d] = call[d]
  BY <1>1, Types DEF Acquire
<1>4. \A d \in Call : call'[d].at \notin Live /\ call[d].at \notin Live
  BY <1>1, <1>2, <1>3 DEF Live
<1>5. TypeOK'
  BY <1>3, Types DEF TypeOK, Acquire, backend
<1>6. Alone'
  BY <1>2, <1>3 DEF Alone, Acquire
<1>7. Budget'
  BY <1>4 DEF IInv, Budget, Settled, Fresh, Spends, On, Acquire, backend
<1>8. ResultIdsUnique'
  BY DEF IInv, ResultIdsUnique, Acquire, backend
<1>9. QED
  BY <1>4, <1>5, <1>6, <1>7, <1>8 DEF IInv, Working

LEMMA NotStarted ==
  ASSUME IInv, NEW c \in Call, call[c].at = "read"
  PROVE  \A a \in Artifact : \A b \in Reference : Settled(a, b)
BY OnlyCall DEF On, Live

LEMMA GivesUpStep ==
  ASSUME IInv, NEW c \in Call, Refuse(c) \/ Replay(c)
  PROVE  IInv'
<1>1. /\ call[c].at = "read" /\ End(c) /\ UNCHANGED <<backend, authorised, paid, upsets>>
  BY DEF Refuse, Replay
<1>2. \A a \in Artifact : \A b \in Reference : Settled(a, b)'
  BY <1>1, NotStarted DEF Settled, Fresh, backend
<1>3. ResultIdsUnique'
  BY <1>1 DEF IInv, ResultIdsUnique, backend
<1>4. QED
  BY <1>1, <1>2, <1>3, Types, Ends DEF backend

\* What is about to be read or published is not done, beside its own reference.
LEMMA StartStep ==
  ASSUME OwnReferences, IInv, NEW c \in Call, Start(c)
  PROVE  IInv'
<1>p. PICK a : a = call[c].artifact
  OBVIOUS
<1>q. PICK n : n = call'[c]
  OBVIOUS
<1>1. /\ call[c].at = "read" /\ Processable(a) /\ ~Done(a) /\ a \in Artifact
      /\ UNCHANGED <<backend, authorised, lock, paid, upsets>>
  BY <1>p, Numbers DEF Start
<1>2. /\ HasContext(a) /\ UsedReference(a) = ReferenceOf(a) /\ a \in Eligible
      /\ UsedReference(a) \in Reference \cup {NoReference}
      /\ Processor[a] = "s1" => UsedReference(a) \in Reference
  BY <1>1, SameReference DEF Processable
<1>3. Fresh(a, ReferenceOf(a))
  BY <1>1, <1>2, DoneIsNotFresh
<1>4. Cardinality(Left) \in 0..Cardinality(Artifact \ Reference)
  BY Types, LeftType
<1>5. /\ call' = [call EXCEPT ![c] = n] /\ n.at \in Live
      /\ n.artifact = a /\ n.reference = UsedReference(a) /\ n.base = rev
      /\ n.left = Cardinality(Left) /\ n.status \in {"completed", "unavailable"}
      /\ n.at \in {"pre", "post"} => Processor[a] = "s1"
      /\ n = [at |-> n.at, artifact |-> n.artifact, reference |-> n.reference,
              base |-> n.base, left |-> n.left, status |-> n.status]
  BY <1>p, <1>q, Types DEF Start, Live
<1>6. n \in Calls /\ n.at # "idle"
  BY <1>1, <1>2, <1>4, <1>5, Types DEF Calls, Live
<1>7. Working(n)'
  <2>1. Current(n)
    BY <1>2, <1>3, <1>5 DEF Current
  <2>2. Current(n)'
    BY <1>1, <2>1, SameTarget DEF backend
  <2>3. QED
    BY <1>1, <1>2, <1>5, <2>2, Types DEF Working, backend
<1>8. \A x \in Artifact : \A y \in Reference : Settled(x, y) /\ Settled(x, y)'
  BY <1>1, NotStarted DEF Settled, Fresh, backend
<1>9. Spends(n)'
  <2>1. Step(n) \in {0, 1, 2} /\ Stale(n)' = 0
    BY <1>1, <1>5 DEF Step, Stale, backend
  <2>2. n.reference \in Reference => paid'[a][n.reference] <= 2 * upsets'
    BY <1>1, <1>2, <1>3, <1>5, <1>8, Types DEF Settled, backend
  <2>3. Spends(n)' <=> (n.at \in Live /\ n.reference \in Reference =>
          paid'[n.artifact][n.reference] <= 2 * (upsets' - Stale(n)') + Step(n))
    BY DEF Spends, Step
  <2>4. QED
    BY <1>1, <1>5, <2>1, <2>2, <2>3, Types
<1>10. paid' \in [Artifact -> [Reference -> Nat]]
  BY <1>1, Types
<1>11. QED
  BY <1>1, <1>5, <1>6, <1>7, <1>8, <1>9, <1>10, GoesOn

\* What a live call knows of its own pair.
LEMMA Running ==
  ASSUME IInv, NEW c \in Call, call[c].at \in Live
  PROVE  /\ Working(call[c]) /\ Spends(call[c])
         /\ call[c].base \in Nat /\ call[c].base <= rev
         /\ call[c].base = rev => Current(call[c])
         /\ call[c].at # "idle" /\ call[c].at # "read"
         /\ \A a \in Artifact : \A b \in Reference :
              Settled(a, b) \/ (a = call[c].artifact /\ b = call[c].reference)
BY OnlyCall, Numbers DEF IInv, Budget, Working, Live, On

\* A request of a run is one more spent on its pair.
LEMMA OneRequest ==
  ASSUME IInv, NEW a \in Artifact, NEW b \in Reference,
         paid' = [paid EXCEPT ![a][b] = @ + 1]
  PROVE  /\ paid' \in [Artifact -> [Reference -> Nat]]
         /\ paid'[a][b] = paid[a][b] + 1
         /\ \A x \in Artifact : \A y \in Reference :
              ~(x = a /\ y = b) => paid'[x][y] = paid[x][y]
<1>1. paid \in [Artifact -> [Reference -> Nat]]
  BY Types
<1>2. QED
  BY <1>1

LEMMA OpenEoStep ==
  ASSUME IInv, NEW c \in Call, OpenEo(c)
  PROVE  IInv'
<1>p. PICK k : k = call[c]
  OBVIOUS
<1>q. PICK n : n = [k EXCEPT !.at = IF k.at = "pre" THEN "post" ELSE "process"]
  OBVIOUS
<1>1. /\ k.at \in {"pre", "post"} /\ k.at \in Live
      /\ paid' = [paid EXCEPT ![k.artifact][k.reference] = @ + 1]
      /\ UNCHANGED <<backend, authorised, lock, upsets>>
  BY <1>p DEF OpenEo, Live
<1>2. call' = [call EXCEPT ![c] = n]
  BY <1>p, <1>q, Types DEF OpenEo, Goto
<1>3. k \in Calls /\ k.artifact \in Artifact /\ k.reference \in Reference
  BY <1>1, <1>p, Running, Numbers DEF Working
<1>4. /\ n \in Calls /\ n.at \in Live /\ n.at # "idle" /\ n.artifact = k.artifact
      /\ n.reference = k.reference /\ n.base = k.base /\ n.left = k.left
      /\ n.at = IF k.at = "pre" THEN "post" ELSE "process"
  BY <1>1, <1>3, <1>q DEF Calls, Live
<1>5. /\ paid' \in [Artifact -> [Reference -> Nat]]
      /\ paid'[k.artifact][k.reference] = paid[k.artifact][k.reference] + 1
      /\ \A x \in Artifact : \A y \in Reference :
           ~(x = k.artifact /\ y = k.reference) => paid'[x][y] = paid[x][y]
  BY <1>1, <1>3, OneRequest
<1>6. Working(n)'
  <2>1. Current(k) <=> Current(n)
    BY <1>4 DEF Current
  <2>2. Current(n)' <=> Current(n)
    BY <1>1, SameTarget DEF backend
  <2>3. QED
    BY <1>1, <1>3, <1>4, <2>1, <2>2, <1>p, Running DEF Working, backend
<1>7. Spends(n)'
  <2>1. Stale(n)' = Stale(k) /\ Stale(k) \in {0, 1}
    BY <1>1, <1>4 DEF Stale, backend
  <2>2. Step(n) = Step(k) + 1 /\ Step(k) \in {0, 1}
    BY <1>1, <1>4 DEF Step
  <2>3. paid[k.artifact][k.reference] <= 2 * (upsets - Stale(k)) + Step(k)
    BY <1>1, <1>3, <1>p, Running DEF Spends
  <2>4. paid'[k.artifact][k.reference] <= 2 * (upsets' - Stale(n)') + Step(n)
    BY <1>1, <1>3, <1>5, <2>1, <2>2, <2>3, Types
  <2>5. QED
    BY <1>4, <2>4 DEF Spends, Step
<1>8. \A x \in Artifact : \A y \in Reference : Settled(x, y)' \/ On(n, x, y)
  <2> SUFFICES ASSUME NEW x \in Artifact, NEW y \in Reference, ~On(n, x, y)
               PROVE  Settled(x, y)'
    OBVIOUS
  <2>1. ~(x = k.artifact /\ y = k.reference)
    BY <1>4 DEF On
  <2>2. Settled(x, y) /\ paid'[x][y] = paid[x][y]
    BY <1>1, <1>5, <1>p, <2>1, Running
  <2>3. QED
    BY <1>1, <2>2 DEF Settled, Fresh, backend
<1>9. QED
  BY <1>1, <1>2, <1>4, <1>5, <1>6, <1>7, <1>8, <1>p, GoesOn

LEMMA ProcessStep ==
  ASSUME IInv, NEW c \in Call, Process(c)
  PROVE  IInv'
<1>p. PICK k : k = call[c]
  OBVIOUS
<1>1. PICK status \in {"completed", "no_observation"} :
        call' = [call EXCEPT ![c].at = "publish", ![c].status = status]
  BY DEF Process
<1>q. PICK n : n = [k EXCEPT !.at = "publish", !.status = status]
  OBVIOUS
<1>2. k.at = "process" /\ k.at \in Live /\ UNCHANGED <<backend, authorised, lock, paid, upsets>>
  BY <1>p DEF Process, Live
<1>3. k \in Calls
  BY <1>p, Numbers
<1>4. call' = [call EXCEPT ![c] = n]
  BY <1>1, <1>p, <1>q, Types
<1>5. /\ n \in Calls /\ n.at = "publish" /\ n.at \in Live /\ n.at # "idle"
      /\ n.artifact = k.artifact /\ n.reference = k.reference /\ n.base = k.base /\ n.left = k.left
  BY <1>3, <1>q DEF Calls, Live
<1>6. Working(n)'
  <2>1. Current(k) <=> Current(n)
    BY <1>5 DEF Current
  <2>2. Current(n)' <=> Current(n)
    BY <1>2, SameTarget DEF backend
  <2>3. QED
    BY <1>2, <1>5, <2>1, <2>2, <1>p, Running DEF Working, backend
<1>7. Spends(n)'
  <2>1. Stale(n)' = Stale(k) /\ Step(n) = Step(k)
    BY <1>2, <1>5 DEF Stale, Step, backend
  <2>2. QED
    BY <1>2, <1>5, <2>1, <1>p, Running DEF Spends, Step
<1>8. \A x \in Artifact : \A y \in Reference : Settled(x, y)' \/ On(n, x, y)
  BY <1>2, <1>5, <1>p, Running DEF Settled, Fresh, On, backend
<1>9. paid' \in [Artifact -> [Reference -> Nat]]
  BY <1>2, Types
<1>10. QED
  BY <1>2, <1>4, <1>5, <1>6, <1>7, <1>8, <1>9, <1>p, GoesOn

\* An end with an upset settles the requests spent, a third one included.
LEMMA UpsetSettles ==
  ASSUME IInv, NEW c \in Call, call[c].at # "idle", upsets' = upsets + 1,
         \A a, b : Fresh(a, b)' => Fresh(a, b),
         \/ paid' = paid
         \/ /\ call[c].at \in {"pre", "post"}
            /\ paid' = [paid EXCEPT ![call[c].artifact][call[c].reference] = @ + 1]
  PROVE  /\ paid' \in [Artifact -> [Reference -> Nat]]
         /\ \A a \in Artifact : \A b \in Reference : Settled(a, b)'
<1> DEFINE k == call[c]
<1>1. upsets \in Nat /\ \A a \in Artifact : \A b \in Reference : paid[a][b] \in Nat
  BY Types
<1>2. ASSUME NEW a \in Artifact, NEW b \in Reference, Settled(a, b), paid'[a][b] = paid[a][b]
      PROVE  Settled(a, b)'
  <2>1. paid[a][b] <= 2 * upsets + (IF Fresh(a, b) THEN 0 ELSE 2)
    BY <1>2 DEF Settled
  <2>2. paid'[a][b] <= 2 * upsets' + (IF Fresh(a, b)' THEN 0 ELSE 2)
    BY <1>1, <1>2, <2>1
  <2>3. QED
    BY <2>2 DEF Settled
<1>3. ASSUME NEW a \in Artifact, NEW b \in Reference, paid'[a][b] <= 2 * upsets + 2
      PROVE  Settled(a, b)'
  <2>1. paid'[a][b] <= 2 * upsets'
    BY <1>1, <1>3
  <2>2. paid'[a][b] <= 2 * upsets' + (IF Fresh(a, b)' THEN 0 ELSE 2)
    <3>1. paid'[a][b] \in Nat
      <4>1. k.artifact \in Artifact
        BY Numbers
      <4>2. k.at \in {"pre", "post"} => k.reference \in Reference
        BY Running DEF Working, Live
      <4>3. QED
        BY <1>1, <4>1, <4>2, OneRequest
    <3>2. QED
      BY <1>1, <2>1, <3>1
  <2>3. QED
    BY <2>2 DEF Settled
<1>4. CASE k.at \notin Live
  <2>1. \A a \in Artifact : \A b \in Reference : Settled(a, b)
    BY <1>4, OnlyCall DEF On
  <2>2. paid' = paid
    BY <1>4 DEF Live
  <2>3. QED
    BY <1>2, <2>1, <2>2, Types
<1>5. CASE k.at \in Live
  <2>1. k.reference \in Reference => paid[k.artifact][k.reference] <= 2 * upsets + Step(k)
    <3>1. Stale(k) \in {0, 1} /\ Step(k) \in {0, 1, 2} /\ k.artifact \in Artifact
      BY Numbers
    <3>2. k.reference \in Reference =>
            paid[k.artifact][k.reference] <= 2 * (upsets - Stale(k)) + Step(k)
      BY <1>5, Running DEF Spends
    <3>3. QED
      BY <1>1, <3>1, <3>2
  <2>2. \A a \in Artifact : \A b \in Reference :
          Settled(a, b) \/ (a = k.artifact /\ b = k.reference)
    BY <1>5, Running
  <2>3. CASE paid' = paid
    <3>1. ASSUME NEW a \in Artifact, NEW b \in Reference PROVE Settled(a, b)'
      <4>1. CASE Settled(a, b)
        BY <1>2, <2>3, <4>1
      <4>2. CASE a = k.artifact /\ b = k.reference
        <5>1. paid'[a][b] <= 2 * upsets + 2
          BY <1>1, <2>1, <2>3, <4>2, Numbers
        <5>2. QED
          BY <1>3, <5>1
      <4>3. QED
        BY <2>2, <4>1, <4>2
    <3>2. QED
      BY <2>3, <3>1, Types
  <2>4. CASE /\ k.at \in {"pre", "post"}
             /\ paid' = [paid EXCEPT ![k.artifact][k.reference] = @ + 1]
    <3>1. k.artifact \in Artifact /\ k.reference \in Reference
      BY <1>5, <2>4, Running, Numbers DEF Working
    <3>2. /\ paid' \in [Artifact -> [Reference -> Nat]]
          /\ paid'[k.artifact][k.reference] = paid[k.artifact][k.reference] + 1
          /\ \A x \in Artifact : \A y \in Reference :
               ~(x = k.artifact /\ y = k.reference) => paid'[x][y] = paid[x][y]
      BY <2>4, <3>1, OneRequest
    <3>3. Step(k) \in {0, 1}
      BY <2>4 DEF Step
    <3>4. paid'[k.artifact][k.reference] <= 2 * upsets + 2
      BY <1>1, <2>1, <3>1, <3>2, <3>3
    <3>5. ASSUME NEW a \in Artifact, NEW b \in Reference PROVE Settled(a, b)'
      <4>1. CASE a = k.artifact /\ b = k.reference
        BY <1>3, <3>4, <4>1
      <4>2. CASE ~(a = k.artifact /\ b = k.reference)
        BY <1>2, <2>2, <3>2, <4>2
      <4>3. QED
        BY <4>1, <4>2
    <3>6. QED
      BY <3>2, <3>5
  <2>5. QED
    BY <2>3, <2>4
<1>6. QED
  BY <1>4, <1>5

LEMMA ProcessRaisesStep ==
  ASSUME IInv, NEW c \in Call, ProcessRaises(c)
  PROVE  IInv'
<1>1. /\ call[c].at \in {"pre", "post", "process"} /\ call[c].at # "idle"
      /\ upsets < MaxUpsets /\ upsets' = upsets + 1 /\ End(c) /\ UNCHANGED <<backend, authorised>>
      /\ \/ paid' = paid
         \/ /\ call[c].at \in {"pre", "post"}
            /\ paid' = [paid EXCEPT ![call[c].artifact][call[c].reference] = @ + 1]
  BY DEF ProcessRaises, Upset
<1>2. \A a, b : Fresh(a, b)' => Fresh(a, b)
  BY <1>1 DEF Fresh, backend
<1>3. /\ paid' \in [Artifact -> [Reference -> Nat]]
      /\ \A a \in Artifact : \A b \in Reference : Settled(a, b)'
  BY <1>1, <1>2, UpsetSettles
<1>4. ResultIdsUnique'
  BY <1>1 DEF IInv, ResultIdsUnique, backend
<1>5. upsets' \in 0..MaxUpsets
  BY <1>1, Types, Constants
<1>6. QED
  BY <1>1, <1>3, <1>4, <1>5, Types, Ends DEF backend

\* A result is committed only for a pair that has none.
LEMMA Committed ==
  ASSUME IInv, NEW c \in Call, call[c].at = "publish", Commit(c)
  PROVE  /\ Current(call[c]) /\ Stale(call[c]) = 0
         /\ rev' \in Nat /\ tickets' \subseteq Artifact /\ batches' \in Seq(Batch)
         /\ ResultIdsUnique'
         /\ \A a, b : Fresh(a, b)' <=>
              Fresh(a, b) /\ ~(call[c].artifact = a /\ call[c].reference = b)
<1>1. PICK e : e = [artifact |-> call[c].artifact, reference |-> call[c].reference,
                    status |-> call[c].status]
  OBVIOUS
<1>2. e \in Batch
  <2>1. call[c] \in Calls
    BY Numbers
  <2>2. QED
    BY <1>1, <2>1 DEF Batch, Calls
<1>3. e.artifact = call[c].artifact /\ e.reference = call[c].reference /\ batches' = Append(batches, e)
  BY <1>1 DEF Commit
<1>4. Current(call[c]) /\ Stale(call[c]) = 0
  BY Running DEF Commit, Stale, Live
<1>5. Fresh(e.artifact, e.reference)
  BY <1>3, <1>4 DEF Current
<1>6. rev' \in Nat /\ tickets' \subseteq Artifact
  BY Types DEF Commit
<1>7. QED
  BY <1>2, <1>3, <1>4, <1>5, <1>6, OneMore

LEMMA PublishStep ==
  ASSUME IInv, NEW c \in Call, Publish(c)
  PROVE  IInv'
<1> DEFINE k == call[c]
<1>1. k.at = "publish" /\ k.at # "idle" /\ Commit(c) /\ End(c) /\ UNCHANGED <<authorised, paid, upsets>>
  BY DEF Publish
<1>2. /\ Stale(k) = 0
      /\ \A a, b : Fresh(a, b)' <=> Fresh(a, b) /\ ~(k.artifact = a /\ k.reference = b)
  BY <1>1, Committed
<1>3. ASSUME NEW a \in Artifact, NEW b \in Reference PROVE Settled(a, b)'
  <2>1. CASE a = k.artifact /\ b = k.reference
    <3>1. paid[a][b] <= 2 * upsets + 2
      <4>1. Step(k) = 2 /\ k.at \in Live
        BY <1>1 DEF Step, Live
      <4>2. paid[a][b] <= 2 * (upsets - 0) + 2
        BY <1>2, <2>1, <4>1, Running DEF Spends
      <4>3. QED
        BY <4>2, Types
    <3>2. ~Fresh(a, b)'
      BY <1>2, <2>1
    <3>3. QED
      BY <1>1, <3>1, <3>2 DEF Settled
  <2>2. CASE ~(a = k.artifact /\ b = k.reference)
    BY <1>1, <1>2, <2>2, Running DEF Settled, Live
  <2>3. QED
    BY <2>1, <2>2
<1>4. QED
  BY <1>1, <1>3, Committed, Types, Ends

LEMMA PublishUnansweredStep ==
  ASSUME IInv, NEW c \in Call, PublishUnanswered(c)
  PROVE  IInv'
<1>1. /\ call[c].at = "publish" /\ call[c].at # "idle" /\ End(c)
      /\ upsets < MaxUpsets /\ upsets' = upsets + 1 /\ UNCHANGED <<authorised, paid>>
      /\ Commit(c) \/ UNCHANGED backend
  BY DEF PublishUnanswered, Upset
<1>2. /\ rev' \in Nat /\ tickets' \subseteq Artifact /\ batches' \in Seq(Batch)
      /\ ResultIdsUnique' /\ \A a, b : Fresh(a, b)' => Fresh(a, b)
  <2>1. CASE Commit(c)
    BY <1>1, <2>1, Committed
  <2>2. CASE UNCHANGED backend
    BY <2>2, Types DEF IInv, ResultIdsUnique, Fresh, backend
  <2>3. QED
    BY <1>1, <2>1, <2>2
<1>3. \A a \in Artifact : \A b \in Reference : Settled(a, b)'
  BY <1>1, <1>2, UpsetSettles
<1>4. upsets' \in 0..MaxUpsets
  BY <1>1, Types, Constants
<1>5. QED
  BY <1>1, <1>2, <1>3, <1>4, Types, Ends

\* What a stale call has spent, its upset has paid for.
LEMMA PublishRefusedStep ==
  ASSUME IInv, NEW c \in Call, PublishRefused(c)
  PROVE  IInv'
<1> DEFINE k == call[c]
<1>1. /\ k.at = "publish" /\ k.at # "idle" /\ k.base # rev /\ End(c)
      /\ UNCHANGED <<backend, authorised, paid, upsets>>
  BY DEF PublishRefused
<1>2. ASSUME NEW a \in Artifact, NEW b \in Reference PROVE Settled(a, b)
  <2>1. CASE a = k.artifact /\ b = k.reference
    <3>1. Step(k) = 2 /\ Stale(k) = 1 /\ k.at \in Live
      BY <1>1 DEF Step, Stale, Live
    <3>2. paid[a][b] <= 2 * (upsets - 1) + 2
      BY <2>1, <3>1, Running DEF Spends
    <3>3. paid[a][b] <= 2 * upsets + (IF Fresh(a, b) THEN 0 ELSE 2)
      BY <3>2, Types
    <3>4. QED
      BY <3>3 DEF Settled
  <2>2. CASE ~(a = k.artifact /\ b = k.reference)
    BY <1>1, <2>2, Running DEF Live
  <2>3. QED
    BY <2>1, <2>2
<1>3. \A a \in Artifact : \A b \in Reference : Settled(a, b)'
  BY <1>1, <1>2 DEF Settled, Fresh, backend
<1>4. ResultIdsUnique'
  BY <1>1 DEF IInv, ResultIdsUnique, backend
<1>5. QED
  BY <1>1, <1>3, <1>4, Types, Ends DEF backend

\* A change of the target makes every call stale.
LEMMA Elsewhere ==
  ASSUME IInv, rev' = rev + 1, upsets < MaxUpsets, upsets' = upsets + 1,
         UNCHANGED <<authorised, lock, call, paid>>,
         tickets' \subseteq Artifact, batches' \in Seq(Batch), ResultIdsUnique',
         \A a, b : Fresh(a, b)' => Fresh(a, b)
  PROVE  IInv'
<1>1. TypeOK'
  BY Types, Constants DEF TypeOK
<1>2. Alone'
  BY DEF IInv, Alone
<1>3. (\A c \in Call : Working(call[c]))'
  <2> SUFFICES ASSUME NEW c \in Call PROVE Working(call[c])'
    OBVIOUS
  <2>1. call[c].base \in Nat /\ Working(call[c])
    BY Numbers DEF IInv
  <2>2. QED
    BY <2>1, Types DEF Working
<1>4. Budget'
  <2>1. ASSUME NEW c \in Call PROVE Spends(call[c])'
    <3>1. SUFFICES ASSUME call[c].at \in Live, call[c].reference \in Reference
                   PROVE  paid[call[c].artifact][call[c].reference]
                            <= 2 * (upsets' - Stale(call[c])') + Step(call[c])
      BY DEF Spends, Step
    <3>2. Stale(call[c])' = 1
      BY <3>1, Running, Types DEF Stale
    <3>3. /\ Stale(call[c]) \in {0, 1} /\ Step(call[c]) \in {0, 1, 2}
          /\ paid[call[c].artifact][call[c].reference] \in Nat
      BY <3>1, Numbers, Types
    <3>4. paid[call[c].artifact][call[c].reference] <= 2 * (upsets - Stale(call[c])) + Step(call[c])
      BY <3>1, Running DEF Spends
    <3>5. QED
      BY <3>2, <3>3, <3>4, Types
  <2>2. ASSUME NEW a \in Artifact, NEW b \in Reference, Settled(a, b) PROVE Settled(a, b)'
    <3>1. paid[a][b] <= 2 * upsets + (IF Fresh(a, b) THEN 0 ELSE 2) /\ paid[a][b] \in Nat
      BY <2>2, Types DEF Settled
    <3>2. paid[a][b] <= 2 * upsets' + (IF Fresh(a, b)' THEN 0 ELSE 2)
      BY <3>1, Types
    <3>3. QED
      BY <3>2 DEF Settled
  <2>3. \A a \in Artifact : \A b \in Reference :
          Settled(a, b) \/ \E c \in Call : On(call[c], a, b)
    BY DEF IInv, Budget
  <2>4. QED
    BY <2>1, <2>2, <2>3 DEF Budget, On
<1>5. QED
  BY <1>1, <1>2, <1>3, <1>4 DEF IInv

LEMMA TicketsChangeStep ==
  ASSUME IInv, NEW a \in Artifact, TicketsChange(a)
  PROVE  IInv'
<1>1. tickets' \subseteq Artifact /\ batches' = batches
  BY Types DEF TicketsChange
<1>2. ResultIdsUnique' /\ \A x, y : Fresh(x, y)' => Fresh(x, y)
  BY <1>1 DEF IInv, ResultIdsUnique, Fresh
<1>3. QED
  BY <1>1, <1>2, Types, Elsewhere DEF TicketsChange, Upset

LEMMA OtherPublishesStep ==
  ASSUME OwnReferences, IInv, NEW a \in Artifact, OtherPublishes(a)
  PROVE  IInv'
<1>1. PICK status \in {"completed", "unavailable"} :
        batches' = Append(batches, [artifact |-> a, reference |-> UsedReference(a),
                                    status |-> status])
  BY DEF OtherPublishes
<1>2. PICK e : e = [artifact |-> a, reference |-> UsedReference(a), status |-> status]
  OBVIOUS
<1>3. /\ HasContext(a) /\ UsedReference(a) = ReferenceOf(a)
      /\ UsedReference(a) \in Reference \cup {NoReference}
  BY SameReference DEF OtherPublishes
<1>4. e \in Batch /\ e.artifact = a /\ e.reference = ReferenceOf(a) /\ batches' = Append(batches, e)
  BY <1>1, <1>2, <1>3 DEF Batch
<1>5. Fresh(e.artifact, e.reference)
  BY <1>3, <1>4, DoneIsNotFresh DEF OtherPublishes
<1>6. batches' \in Seq(Batch) /\ ResultIdsUnique' /\ \A x, y : Fresh(x, y)' => Fresh(x, y)
  BY <1>4, <1>5, OneMore
<1>7. QED
  BY <1>6, Types, Elsewhere DEF OtherPublishes, Upset

LEMMA RedeployStep ==
  ASSUME IInv, Redeploy
  PROVE  IInv'
<1>1. /\ upsets < MaxUpsets /\ upsets' = upsets + 1 /\ authorised' = ~authorised /\ lock' = "none"
      /\ call' = [c \in Call |-> NoCall] /\ UNCHANGED <<backend, paid>>
  BY DEF Redeploy, Upset
<1>2. call' \in [Call -> Calls] /\ \A c \in Call : call'[c].at = "idle" /\ call'[c].at \notin Live
  BY <1>1, NoCallType DEF Live
<1>3. TypeOK'
  BY <1>1, <1>2, Types, Constants DEF TypeOK, backend
<1>4. Alone' /\ (\A c \in Call : Working(call[c]))'
  BY <1>2 DEF Alone, Working
<1>5. ResultIdsUnique' /\ \A x, y : Fresh(x, y)' => Fresh(x, y)
  BY <1>1 DEF IInv, ResultIdsUnique, Fresh, backend
<1>6. Budget'
  <2>1. ASSUME NEW a \in Artifact, NEW b \in Reference PROVE Settled(a, b)'
    <3>1. CASE \E c \in Call : On(call[c], a, b)
      <4>1. PICK c \in Call : On(call[c], a, b)
        BY <3>1
      <4>2. call[c].at # "idle" /\ paid' = paid
        BY <1>1, <4>1 DEF On, Live
      <4>3. QED
        BY <1>1, <1>5, <4>2, UpsetSettles
    <3>2. CASE Settled(a, b)
      <4>1. paid[a][b] <= 2 * upsets + (IF Fresh(a, b) THEN 0 ELSE 2) /\ paid[a][b] \in Nat
        BY <3>2, Types DEF Settled
      <4>2. paid'[a][b] <= 2 * upsets' + (IF Fresh(a, b)' THEN 0 ELSE 2)
        BY <1>1, <4>1, Types
      <4>3. QED
        BY <4>2 DEF Settled
    <3>3. QED
      BY <3>1, <3>2 DEF IInv, Budget
  <2>2. QED
    BY <1>2, <2>1 DEF Budget, Spends
<1>7. QED
  BY <1>3, <1>4, <1>5, <1>6 DEF IInv

-------------------------------------------------------------------------------
(* The invariant, and what follows from it.                                *)

LEMMA NextIInv ==
  ASSUME OwnReferences, IInv, [Next]_vars
  PROVE  IInv'
<1>1. ASSUME NEW c \in Call, NEW a \in Artifact, Acquire(c, a) PROVE IInv'
  BY <1>1, AcquireStep
<1>2. ASSUME NEW c \in Call, CallStep(c) \/ ProcessRaises(c) \/ PublishUnanswered(c)
      PROVE  IInv'
  BY <1>2, GivesUpStep, StartStep, OpenEoStep, ProcessStep, PublishStep, PublishRefusedStep,
     ProcessRaisesStep, PublishUnansweredStep DEF CallStep
<1>3. ASSUME NEW a \in Artifact, TicketsChange(a) \/ OtherPublishes(a) PROVE IInv'
  BY <1>3, TicketsChangeStep, OtherPublishesStep
<1>4. CASE UNCHANGED vars
  <2>1. \A k : Current(k)' <=> Current(k)
    BY <1>4, SameTarget DEF vars
  <2>2. TypeOK' /\ Alone' /\ ResultIdsUnique' /\ Budget'
    BY <1>4 DEF vars, IInv, TypeOK, Alone, ResultIdsUnique, Budget, Spends, Settled, Fresh,
                Stale, Step, On
  <2>3. (\A c \in Call : Working(call[c]))'
    BY <1>4, <2>1 DEF vars, IInv, Working
  <2>4. QED
    BY <2>2, <2>3 DEF IInv
<1>5. QED
  BY <1>1, <1>2, <1>3, <1>4, RedeployStep DEF Next

LEMMA Invariance ==
  ASSUME OwnReferences
  PROVE  Spec => []IInv
<1>1. Init => IInv
  BY InitIInv
<1>2. IInv /\ [Next]_vars => IInv'
  BY NextIInv
<1>3. QED
  BY <1>1, <1>2, PTL DEF Spec

\* The durable results name artifacts and references of the target's, and what a call
\* counts as left is never more than there is.
THEOREM TypeCorrect ==
  ASSUME OwnReferences
  PROVE  Spec => []TypeOK
<1>1. IInv => TypeOK
  BY DEF IInv
<1>2. QED
  BY <1>1, Invariance, PTL

\* An artifact is published once beside each reference it ever had: what decides that
\* it is not done is still so when the revision it was read on is the current one.
THEOREM ResultsUnique ==
  ASSUME OwnReferences
  PROVE  Spec => []ResultIdsUnique
<1>1. IInv => ResultIdsUnique
  BY DEF IInv
<1>2. QED
  BY <1>1, Invariance, PTL

\* Two openEO requests are spent on an artifact beside its reference, and two more at
\* most for each failure, lost answer, foreign write or restart: competing calls of a
\* process, and calls for what is done, cost nothing.
THEOREM CreditsBounded ==
  ASSUME OwnReferences
  PROVE  Spec => []PaidOnce
<1>1. ASSUME IInv PROVE PaidOnce
  <2> SUFFICES ASSUME NEW a \in Artifact, NEW b \in Reference
               PROVE  paid[a][b] <= 2 * (1 + upsets)
    BY DEF PaidOnce
  <2>1. CASE Settled(a, b)
    <3>1. paid[a][b] <= 2 * upsets + (IF Fresh(a, b) THEN 0 ELSE 2) /\ paid[a][b] \in Nat
      BY <1>1, <2>1, Types DEF Settled
    <3>2. QED
      BY <1>1, <3>1, Types
  <2>2. CASE \E c \in Call : On(call[c], a, b)
    <3>1. PICK c \in Call : On(call[c], a, b)
      BY <2>2
    <3>2. paid[a][b] <= 2 * (upsets - Stale(call[c])) + Step(call[c])
      BY <1>1, <3>1, Running DEF On, Spends
    <3>3. Stale(call[c]) \in {0, 1} /\ Step(call[c]) \in {0, 1, 2} /\ paid[a][b] \in Nat
      BY <1>1, Numbers, Types
    <3>4. QED
      BY <1>1, <3>2, <3>3, Types
  <2>3. QED
    BY <1>1, <2>1, <2>2 DEF IInv, Budget
<1>2. QED
  BY <1>1, Invariance, PTL

\* What a commit leaves to do is what was left, without the artifact.
LEMMA LeftAfterCommit ==
  ASSUME IInv, NEW c \in Call, Publish(c)
  PROVE  Left' = Left \ {call[c].artifact} /\ call[c].artifact \in Left
<1> DEFINE k == call[c]
<1>1. /\ Current(k) /\ UNCHANGED tickets
      /\ \A a, b : Fresh(a, b)' <=> Fresh(a, b) /\ ~(k.artifact = a /\ k.reference = b)
  BY Committed DEF Publish, Commit
<1>2. \A a : HasContext(a)' <=> HasContext(a)
  BY <1>1 DEF HasContext, NeedsReference, ReferencesOf
<1>3. \A a : ReferenceOf(a)' = ReferenceOf(a)
  BY <1>1 DEF ReferenceOf, NeedsReference, ReferencesOf, Among
<1>4. \A a : Done(a) <=> HasContext(a) /\ ~Fresh(a, ReferenceOf(a))
  BY DEF Done, Fresh, Results
<1>5. \A a : Done(a)' <=> HasContext(a)' /\ ~Fresh(a, ReferenceOf(a))'
  BY DEF Done, Fresh, Results
<1>6. \A a : Done(a)' <=> Done(a) \/ a = k.artifact
  BY <1>1, <1>2, <1>3, <1>4, <1>5 DEF Current, Fresh
<1>7. Eligible' = Eligible /\ k.artifact \in Eligible /\ ~Done(k.artifact)
  BY <1>1, <1>4 DEF Current, Eligible
<1>8. Left = {a \in Eligible : ~Done(a)} /\ Left' = {a \in Eligible' : ~Done(a)'}
  BY DEF Left
<1>9. QED
  BY <1>6, <1>7, <1>8

\* The remaining count a receipt tells its caller is what is left once it has been
\* committed, whoever wrote to the target while the product was read.
THEOREM ReceiptsHonest ==
  ASSUME OwnReferences
  PROVE  Spec => RemainingHonest
<1>1. ASSUME IInv, NEW c \in Call, Publish(c)
      PROVE  Remaining(c) = Cardinality(Left')
  <2>1. Left' = Left \ {call[c].artifact} /\ call[c].artifact \in Left
    BY <1>1, LeftAfterCommit
  <2>2. IsFiniteSet(Left) /\ Cardinality(Left) \in Nat
    BY <1>1, Types, LeftType
  <2>3. Cardinality(Left') = Cardinality(Left) - 1
    BY <2>1, <2>2, FS_RemoveElement
  <2>4. Left # {} /\ Cardinality(Left) # 0
    BY <2>1, <2>2, FS_EmptySet
  <2>5. call[c].left = Cardinality(Left)
    BY <1>1, Committed DEF Publish, Current
  <2>6. QED
    BY <2>2, <2>3, <2>4, <2>5 DEF Remaining
<1>2. IInv /\ [Next]_vars => [\A c \in Call : Publish(c) => Remaining(c) = Cardinality(Left')]_vars
  BY <1>1
<1>3. QED
  BY <1>2, Invariance, PTL DEF Spec, RemainingHonest

-------------------------------------------------------------------------------
(* The refinement of ObservationLedger.                                    *)

\* What a call that is not stale was let through for is so still.
Admitted(k) ==
  k.at \in Live /\ k.base = rev =>
    /\ Processable(k.artifact)
    /\ k.reference = UsedReference(k.artifact)
    /\ k.status = "unavailable" => Processor[k.artifact] = "s1"

AllAdmitted == \A c \in Call : Admitted(call[c])

\* A result of the ledger, from what the code checks of it.
LEMMA ResultOfLedger ==
  ASSUME OwnReferences, IInv, NEW a \in Artifact, NEW status, Processable(a),
         Fresh(a, UsedReference(a)),
         status \in {"completed", "no_observation", "unavailable"},
         status = "unavailable" => Processor[a] = "s1",
         rev' = rev + 1, tickets' = tickets,
         batches' = Append(batches, [artifact |-> a, reference |-> UsedReference(a),
                                     status |-> status])
  PROVE  L!Next
<1> DEFINE b == UsedReference(a)
<1>1. b \in Reference \cup {NoReference} /\ a \in Eligible \ (Foreign \cup Malformed)
  BY SameReference DEF Processable
<1>2. L!Contexts(a) = {b} /\ b \notin Foreign \cup Malformed
  <2>1. CASE NeedsReference(a)
    <3>1. ReferencesOf(a) \ Foreign = ReferencesOf(a)
      BY DEF OwnReferences, ReferencesOf
    <3>2. IsFiniteSet(ReferencesOf(a)) /\ Cardinality(ReferencesOf(a)) = 1
      <4>1. ReferencesOf(a) \subseteq Artifact
        BY Constants DEF ReferencesOf
      <4>2. QED
        BY <2>1, <3>1, <4>1, Constants, FS_Subset DEF Processable
    <3>3. PICK x : ReferencesOf(a) = {x}
      BY <3>2, FS_Singleton
    <3>4. b = x
      <4>1. ReferencesOf(a) # {} /\ \A y \in ReferencesOf(a) : y = x
        BY <3>3
      <4>2. (CHOOSE y \in ReferencesOf(a) : TRUE) = x
        BY <4>1
      <4>3. QED
        BY <2>1, <3>1, <4>1, <4>2 DEF UsedReference, Among
    <3>5. L!Contexts(a) = ReferencesOf(a)
      BY <2>1 DEF L!Contexts, ReferencesOf, NeedsReference
    <3>6. b \in Reference /\ b \notin Malformed
      BY <2>1, <3>3, <3>4 DEF Processable, ReferencesOf
    <3>7. QED
      BY <3>3, <3>4, <3>5, <3>6 DEF OwnReferences
  <2>2. CASE ~NeedsReference(a)
    BY <2>2, ConstantsOK DEF L!Contexts, NeedsReference, UsedReference, NoReference, L!NoReference
  <2>3. QED
    BY <2>1, <2>2
<1>3. status \in L!Status(a)
  BY DEF L!Status
<1>4. L!AppendResult(a, b, status)
  BY <1>1, <1>2, <1>3 DEF L!AppendResult, Fresh, Eligible
<1>5. QED
  BY <1>1, <1>3, <1>4 DEF L!Next, NoReference, L!NoReference

\* Nothing that a call was let through for changes while the revision stays.
LEMMA SameRevision ==
  ASSUME UNCHANGED <<rev, tickets>>
  PROVE  \A k : Admitted(k)' <=> Admitted(k)
<1>1. \A a : ReferencesOf(a)' = ReferencesOf(a)
  BY DEF ReferencesOf
<1>2. \A a : UsedReference(a)' = UsedReference(a)
  BY DEF UsedReference, NeedsReference, ReferencesOf, Among
<1>3. Eligible' = Eligible
  BY DEF Eligible
<1>4. \A a : Processable(a)' <=> Processable(a)
  BY <1>1, <1>2, <1>3 DEF Processable, NeedsReference
<1>5. QED
  BY <1>2, <1>4 DEF Admitted

\* Whoever read an earlier revision is stale.
LEMMA NewRevision ==
  ASSUME IInv, rev' = rev + 1,
         \A d \in Call : call'[d] = call[d] \/ call'[d].at = "idle"
  PROVE  AllAdmitted'
<1> SUFFICES ASSUME NEW d \in Call, call'[d] = call[d], call[d].at \in Live
             PROVE  call[d].base # rev'
  BY DEF AllAdmitted, Admitted, Live
<1>1. call[d].base <= rev /\ call[d].base \in Nat /\ rev \in Nat
  BY Numbers, Types DEF IInv, Working
<1>2. QED
  BY <1>1

LEMMA NextAdmitted ==
  ASSUME IInv, AllAdmitted, [Next]_vars
  PROVE  AllAdmitted'
<1> USE Types
<1>1. ASSUME NEW c \in Call, NEW a \in Artifact, Acquire(c, a) PROVE AllAdmitted'
  BY <1>1, SameRevision, NoCallType DEF Acquire, backend, AllAdmitted, Admitted, Live
<1>2. ASSUME NEW c \in Call, End(c) PROVE \A d \in Call : call'[d] = call[d] \/ call'[d].at = "idle"
  BY <1>2, NoCallType DEF End
<1>3. ASSUME NEW c \in Call, End(c), UNCHANGED backend PROVE AllAdmitted'
  BY <1>2, <1>3, SameRevision DEF backend, AllAdmitted, Admitted, Live
<1>4. ASSUME NEW c \in Call, End(c), Commit(c) PROVE AllAdmitted'
  BY <1>2, <1>4, NewRevision DEF Commit
<1>5. ASSUME NEW c \in Call, Start(c) PROVE AllAdmitted'
  <2>1. \A d \in Call : d # c => call'[d] = call[d]
    BY <1>5 DEF Start
  <2>2. Admitted(call'[c])
    BY <1>5 DEF Start, Admitted
  <2>3. UNCHANGED <<rev, tickets>>
    BY <1>5 DEF Start, backend
  <2>4. QED
    BY <2>1, <2>2, <2>3, SameRevision DEF AllAdmitted
<1>6. ASSUME NEW c \in Call, OpenEo(c) \/ Process(c) PROVE AllAdmitted'
  <2>1. \A d \in Call : d # c => call'[d] = call[d]
    BY <1>6 DEF OpenEo, Process, Goto
  <2>2. /\ call'[c].artifact = call[c].artifact /\ call'[c].reference = call[c].reference
        /\ call'[c].base = call[c].base /\ call[c].at \in Live
        /\ call'[c].status \in {call[c].status, "completed", "no_observation"}
    BY <1>6 DEF OpenEo, Process, Goto, Calls, Live
  <2>3. Admitted(call[c]) => Admitted(call'[c])
    BY <2>2 DEF Admitted
  <2>4. UNCHANGED <<rev, tickets>>
    BY <1>6 DEF OpenEo, Process, backend
  <2>5. QED
    BY <2>1, <2>3, <2>4, SameRevision DEF AllAdmitted
<1>7. ASSUME NEW c \in Call, CallStep(c) \/ ProcessRaises(c) \/ PublishUnanswered(c)
      PROVE  AllAdmitted'
  <2>1. CASE Refuse(c) \/ Replay(c) \/ PublishRefused(c) \/ ProcessRaises(c)
    BY <1>3, <2>1 DEF Refuse, Replay, PublishRefused, ProcessRaises
  <2>2. CASE Publish(c) \/ PublishUnanswered(c)
    BY <1>3, <1>4, <2>2 DEF Publish, PublishUnanswered
  <2>3. QED
    BY <1>5, <1>6, <1>7, <2>1, <2>2 DEF CallStep
<1>8. ASSUME NEW a \in Artifact, TicketsChange(a) \/ OtherPublishes(a) PROVE AllAdmitted'
  BY <1>8, NewRevision DEF TicketsChange, OtherPublishes
<1>9. ASSUME Redeploy PROVE AllAdmitted'
  BY <1>9, NoCallType DEF Redeploy, AllAdmitted, Admitted, Live
<1>10. ASSUME UNCHANGED vars PROVE AllAdmitted'
  BY <1>10, SameRevision DEF vars, AllAdmitted
<1>11. QED
  BY <1>1, <1>7, <1>8, <1>9, <1>10 DEF Next

\* A commit onto the revision a call read is a result of the ledger.
LEMMA CommitIsResult ==
  ASSUME OwnReferences, IInv, AllAdmitted, NEW c \in Call, call[c].at = "publish", Commit(c)
  PROVE  L!Next
<1> DEFINE k == call[c]
<1>1. k \in Calls /\ k.artifact \in Artifact
      /\ k.status \in {"completed", "no_observation", "unavailable"}
  BY Numbers DEF Calls
<1>2. /\ Processable(k.artifact) /\ k.reference = UsedReference(k.artifact)
      /\ k.status = "unavailable" => Processor[k.artifact] = "s1"
  BY DEF AllAdmitted, Admitted, Commit, Live
<1>3. Fresh(k.artifact, UsedReference(k.artifact))
  BY <1>2, Committed DEF Current
<1>4. QED
  BY <1>1, <1>2, <1>3, ResultOfLedger DEF Commit

LEMMA StepOfLedger ==
  ASSUME OwnReferences, IInv, AllAdmitted, [Next]_vars
  PROVE  [L!Next]_L!ledgerVars
<1> USE DEF L!ledgerVars
<1>1. ASSUME NEW c \in Call, NEW a \in Artifact, Acquire(c, a) PROVE UNCHANGED L!ledgerVars
  BY <1>1 DEF Acquire, backend
<1>2. ASSUME NEW c \in Call, CallStep(c) \/ ProcessRaises(c) \/ PublishUnanswered(c)
      PROVE  [L!Next]_L!ledgerVars
  <2>1. CASE \/ Refuse(c) \/ Replay(c) \/ Start(c) \/ OpenEo(c) \/ Process(c)
             \/ PublishRefused(c) \/ ProcessRaises(c)
    BY <2>1 DEF Refuse, Replay, Start, OpenEo, Process, PublishRefused, ProcessRaises, backend
  <2>2. CASE Publish(c) \/ PublishUnanswered(c)
    BY <2>2, CommitIsResult DEF Publish, PublishUnanswered, backend
  <2>3. QED
    BY <1>2, <2>1, <2>2 DEF CallStep
<1>3. ASSUME NEW a \in Artifact, TicketsChange(a) PROVE L!Next
  <2>1. tickets' \subseteq Artifact
    BY <1>3, Types DEF TicketsChange
  <2>2. QED
    BY <1>3, <2>1 DEF TicketsChange, L!Next, L!ChangeTickets
<1>4. ASSUME NEW a \in Artifact, OtherPublishes(a) PROVE L!Next
  <2>1. Processable(a) /\ ~Done(a) /\ rev' = rev + 1 /\ UNCHANGED tickets
    BY <1>4 DEF OtherPublishes
  <2>2. Fresh(a, UsedReference(a))
    BY <2>1, SameReference, DoneIsNotFresh
  <2>3. PICK status \in {"completed", "unavailable"} :
          /\ status = "unavailable" => Processor[a] = "s1"
          /\ batches' = Append(batches, [artifact |-> a, reference |-> UsedReference(a),
                                         status |-> status])
    BY <1>4 DEF OtherPublishes
  <2>4. QED
    BY <2>1, <2>2, <2>3, ResultOfLedger
<1>5. ASSUME Redeploy \/ UNCHANGED vars PROVE UNCHANGED L!ledgerVars
  BY <1>5 DEF Redeploy, vars, backend
<1>6. QED
  BY <1>1, <1>2, <1>3, <1>4, <1>5 DEF Next

\* The worker implements the abstract ledger of results: what it publishes was computed
\* beside the reference the tickets give at that very revision, however long the
\* computation took and whoever else wrote meanwhile.
THEOREM Refinement ==
  ASSUME OwnReferences
  PROVE  Spec => LedgerSpec
<1>1. Init => L!Init
  BY DEF Init, L!Init
<1>2. Init => AllAdmitted
  BY NoCallType DEF Init, AllAdmitted, Admitted, Live
<1>3. IInv /\ AllAdmitted /\ [Next]_vars => AllAdmitted'
  BY NextAdmitted
<1>4. IInv /\ AllAdmitted /\ [Next]_vars => [L!Next]_L!ledgerVars
  BY StepOfLedger
<1>5. QED
  BY <1>1, <1>2, <1>3, <1>4, Invariance, PTL DEF Spec, LedgerSpec, L!Spec

===============================================================================
