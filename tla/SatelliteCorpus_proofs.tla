------------------------- MODULE SatelliteCorpus_proofs -------------------------
(***************************************************************************)
(* Proofs about SatelliteCorpus, for any catalogue, tracks, footprints,    *)
(* standings and budgets: its types, the honesty of its report, what it    *)
(* selects, and that it ends.                                              *)
(*                                                                         *)
(* The pairs chosen are of different tracks, so they share no product:     *)
(* whatever is paid, written or listed for one pair says nothing of the    *)
(* others.                                                                 *)
(***************************************************************************)
EXTENDS SatelliteCorpus, SequenceTheorems, FiniteSetTheorems, WellFoundedInduction, TLAPS

Sources == {"sentinel1", "sentinel2", "thermal", "clms"}

\* A pair lies within one track, on both sides of the event.
IsPair(c) ==
  /\ c.post \in Item
  /\ IF Pairing
     THEN /\ c.pre \in Item /\ c.pre < FirstPost /\ FirstPost <= c.post
          /\ Track[c.pre] = Track[c.post]
     ELSE c.pre = 0

\* No track twice.
Distinct(s) == \A m, n \in DOMAIN s : Track[s[m].post] = Track[s[n].post] => m = n

Selected ==
  /\ source \in Sources
  /\ \A n \in DOMAIN candidates : IsPair(candidates[n])
  /\ Distinct(candidates)
  /\ \A n \in DOMAIN chosen : IsPair(chosen[n])
  /\ Distinct(chosen)
  /\ Chosen(chosen) \subseteq Chosen(candidates)
  /\ source = "sentinel1" =>
       /\ Len(candidates) <= MaxPairs
       /\ pc = "select" => left = {} \/ Len(candidates) < MaxPairs
  /\ Pairing => \A i \in left : FirstPost <= i
  /\ pc = "catalogue" => candidates = <<>> /\ pages < MaxPages
  /\ pc \in {"catalogue", "select"} => chosen = <<>>
  /\ pc \in {"catalogue", "select", "complement"} => at = 0 /\ raster = "none"

Of(n) == {chosen[n].pre, chosen[n].post}

\* What a product was paid for: a pair dealt with, or the one being read.
PaidFor(x) ==
  \/ \E n \in 1..at : x \in Of(n)
  \/ x = Current.pre /\ raster \in {"post", "both"}
  \/ x = Current.post /\ raster = "both"

Paid ==
  /\ raster # "none" => source = "sentinel1" /\ at < Len(chosen)
  /\ raster = "pre" => requests + 2 <= MaxCredits
  /\ raster = "post" => requests + 1 <= MaxCredits
  /\ requests = Cardinality(paid)
  /\ \A x \in paid : PaidFor(x)
  /\ paid # {} => source = "sentinel1"
  /\ \A f \in failures : f.reason = "credits" =>
       \A n \in DOMAIN chosen : chosen[n].post = f.post => Of(n) \cap paid = {}

Failed == {f.post : f \in failures}
Dealt == {chosen[n].post : n \in 1..at}
Undecoded == {f \in failures : f.reason = "decode"}

Booked ==
  /\ products \cup Failed = Dealt
  /\ products \cap Failed = {}
  /\ IsFiniteSet(failures)
  /\ written = Cardinality(products)
  /\ pc # "raised" => disk = written + Cardinality(Undecoded)
  /\ pc = "done" => at = Len(chosen)

IInv == TypeOK /\ Selected /\ Paid /\ Booked

-------------------------------------------------------------------------------
(* Lemmas about the operators.                                             *)

LEMMA Numbers ==
  /\ Len(Track) \in Nat /\ Item = 1..Len(Track) /\ FirstPost \in Item
  /\ MaxPages \in Nat /\ MaxPages >= 1 /\ MaxPairs \in Nat /\ MaxPairs >= 1
  /\ MaxCredits \in Nat /\ MaxOutput \in Nat
<1>1. MaxPages \in Nat \ {0} /\ MaxPairs \in Nat \ {0} /\ MaxCredits \in Nat /\ MaxOutput \in Nat
  BY CorpusOK
<1>2. Len(Track) \in Nat /\ Item = 1..Len(Track)
  BY CorpusOK, LenProperties DEF Item
<1>3. QED
  BY <1>1, <1>2, CorpusOK

LEMMA ItemsFinite == IsFiniteSet(Item) /\ \A S \in SUBSET Item : IsFiniteSet(S) /\ Cardinality(S) \in Nat
<1>1. IsFiniteSet(Item)
  BY Numbers, FS_Interval
<1>2. QED
  BY <1>1, FS_Subset, FS_CardinalityType

\* A set of numbers that is not empty has a least member.
LEMMA LeastElement ==
  ASSUME NEW S, S \subseteq Nat, S # {}
  PROVE  \E a \in S : \A b \in S : a <= b
<1>1. PICK a \in S : \A b \in S : ~ (<<b, a>> \in OpToRel(<, Nat))
  BY NatLessThanWellFounded, WFMin
<1>2. \A b \in S : ~ (b < a)
  BY <1>1 DEF OpToRel
<1>3. QED
  BY <1>2

LEMMA EarliestIn == ASSUME NEW S \in SUBSET Item, S # {} PROVE Earliest(S) \in S
<1>1. S \subseteq Nat
  BY Numbers
<1>2. \E a \in S : \A b \in S : a <= b
  BY <1>1, LeastElement
<1>3. QED
  BY <1>2 DEF Earliest

\* The latest of some products is one of them.
LEMMA LatestIn == ASSUME NEW S \in SUBSET Item, S # {} PROVE Latest(S) \in S
<1>1. PICK T : T = {Len(Track) - i : i \in S}
  OBVIOUS
<1>2. T \subseteq Nat /\ T # {}
  <2>1. \A i \in S : i \in 1..Len(Track)
    BY Numbers
  <2>2. \A i \in S : Len(Track) - i \in Nat
    BY <2>1, Numbers
  <2>3. QED
    BY <1>1, <2>2
<1>3. PICK t \in T : \A u \in T : t <= u
  BY <1>2, LeastElement
<1>4. PICK i \in S : t = Len(Track) - i
  BY <1>1, <1>3
<1>5. \A j \in S : Len(Track) - j \in T
  BY <1>1
<1>6. \A j \in S : Len(Track) - i <= Len(Track) - j
  BY <1>3, <1>4, <1>5
<1>7. \A j \in S : j <= i
  <2>1. \A j \in S : j \in 1..Len(Track)
    BY Numbers
  <2>2. QED
    BY <1>6, <2>1, Numbers
<1>8. QED
  BY <1>7 DEF Latest

LEMMA Sequences ==
  ASSUME IInv
  PROVE  /\ candidates \in Seq(Pairs) /\ chosen \in Seq(Pairs)
         /\ Len(candidates) \in Nat /\ DOMAIN candidates = 1..Len(candidates)
         /\ Len(chosen) \in Nat /\ DOMAIN chosen = 1..Len(chosen)
         /\ at \in 0..Len(chosen) /\ at \in Nat
<1>1. candidates \in Seq(Pairs) /\ chosen \in Seq(Pairs) /\ at \in 0..Len(chosen)
  BY DEF IInv, TypeOK
<1>2. QED
  BY <1>1, LenProperties

LEMMA Appended ==
  ASSUME NEW s \in Seq(Pairs), NEW c \in Pairs, NEW t, t = Append(s, c)
  PROVE  /\ t \in Seq(Pairs) /\ Len(t) = Len(s) + 1 /\ Len(s) \in Nat
         /\ DOMAIN s = 1..Len(s) /\ DOMAIN t = 1..(Len(s) + 1)
         /\ \A i \in DOMAIN s : t[i] = s[i]
         /\ t[Len(s) + 1] = c
<1>1. Len(s) \in Nat /\ DOMAIN s = 1..Len(s)
  BY LenProperties
<1>2. t \in Seq(Pairs) /\ Len(t) = Len(s) + 1 /\ (\A i \in 1..Len(s) : t[i] = s[i]) /\ t[Len(s) + 1] = c
  BY <1>1, AppendProperties
<1>3. DOMAIN t = 1..(Len(s) + 1)
  BY <1>2, LenProperties
<1>4. QED
  BY <1>1, <1>2, <1>3

LEMMA ChosenAppended ==
  ASSUME NEW s \in Seq(Pairs), NEW c \in Pairs
  PROVE  Chosen(Append(s, c)) = Chosen(s) \cup {c}
<1>1. PICK t : t = Append(s, c)
  OBVIOUS
<1>2. /\ Len(s) \in Nat /\ DOMAIN s = 1..Len(s) /\ DOMAIN t = 1..(Len(s) + 1)
      /\ \A i \in DOMAIN s : t[i] = s[i]
      /\ t[Len(s) + 1] = c
  BY <1>1, Appended
<1>3. DOMAIN t = DOMAIN s \cup {Len(s) + 1}
  BY <1>2
<1>4. Chosen(t) = Chosen(s) \cup {c}
  BY <1>2, <1>3 DEF Chosen
<1>5. QED
  BY <1>1, <1>4

\* One more pair, of a track that has none.
LEMMA DistinctAppend ==
  ASSUME NEW s \in Seq(Pairs), NEW c \in Pairs, Distinct(s), NEW t, t = Append(s, c),
         \A d \in Chosen(s) : Track[d.post] # Track[c.post]
  PROVE  Distinct(t)
<1>1. \A n \in DOMAIN s : Track[s[n].post] # Track[c.post]
  BY DEF Chosen
<1>2. /\ Len(s) \in Nat /\ DOMAIN s = 1..Len(s) /\ DOMAIN t = 1..(Len(s) + 1)
      /\ \A i \in DOMAIN s : t[i] = s[i]
      /\ t[Len(s) + 1] = c
  BY Appended
<1>3. \A n \in DOMAIN t : n \in DOMAIN s \/ n = Len(s) + 1
  BY <1>2
<1>4. SUFFICES ASSUME NEW m \in DOMAIN t, NEW n \in DOMAIN t, Track[t[m].post] = Track[t[n].post]
               PROVE  m = n
  BY DEF Distinct
<1>5. CASE m \in DOMAIN s /\ n \in DOMAIN s
  BY <1>2, <1>4, <1>5 DEF Distinct
<1>6. CASE ~(m \in DOMAIN s /\ n \in DOMAIN s)
  BY <1>1, <1>2, <1>3, <1>4, <1>6
<1>7. QED
  BY <1>5, <1>6

\* Pairs of different tracks share no product.
LEMMA NothingShared ==
  ASSUME IInv, Pairing, NEW m \in DOMAIN chosen, NEW n \in DOMAIN chosen, m # n
  PROVE  Of(m) \cap Of(n) = {}
<1>1. \A x \in Of(m) : Track[x] = Track[chosen[m].post]
  BY DEF IInv, Selected, IsPair, Of
<1>2. \A x \in Of(n) : Track[x] = Track[chosen[n].post]
  BY DEF IInv, Selected, IsPair, Of
<1>3. Track[chosen[m].post] # Track[chosen[n].post]
  BY DEF IInv, Selected, Distinct
<1>4. QED
  BY <1>1, <1>2, <1>3

LEMMA InitIInv == ASSUME Init PROVE IInv
<1>1. candidates \in Seq(Pairs) /\ chosen \in Seq(Pairs) /\ Len(chosen) = 0 /\ Len(candidates) = 0
      /\ DOMAIN candidates = {} /\ DOMAIN chosen = {}
  BY DEF Init
<1>2. footprint \in [Item -> SUBSET Cell] /\ standing \in [Item -> Standing]
  BY CorpusOK DEF Init
<1>3. TypeOK
  BY <1>1, <1>2, Numbers DEF Init, TypeOK
<1>4. Selected
  BY <1>1, Numbers DEF Init, Selected, Sources, Distinct, Chosen
<1>5. Paid
  BY FS_EmptySet DEF Init, Paid
<1>6. Booked
  <2>1. Undecoded = {} /\ Failed = {} /\ Dealt = {}
    BY DEF Init, Undecoded, Failed, Dealt
  <2>2. QED
    BY <2>1, FS_EmptySet DEF Init, Booked
<1>7. QED
  BY <1>3, <1>4, <1>5, <1>6 DEF IInv
-------------------------------------------------------------------------------
(* The steps of the selection.                                             *)

Selecting == pc \in {"catalogue", "select", "complement"}

\* Before the reading begins there is nothing to report.
LEMMA NothingYet ==
  ASSUME IInv, Selecting
  PROVE  /\ at = 0 /\ raster = "none" /\ paid = {} /\ products = {} /\ failures = {}
         /\ Dealt = {} /\ requests = 0 /\ written = 0 /\ disk = 0
<1>1. at = 0 /\ raster = "none"
  BY DEF IInv, Selected, Selecting
<1>2. paid = {}
  BY <1>1 DEF IInv, Paid, PaidFor
<1>3. Dealt = {}
  BY <1>1 DEF Dealt
<1>4. products = {} /\ failures = {}
  BY <1>3 DEF IInv, Booked, Failed
<1>5. requests = 0 /\ written = 0
  BY <1>2, <1>4, FS_EmptySet DEF IInv, Booked, Paid
<1>6. disk = 0
  <2>1. Undecoded = {}
    BY <1>4 DEF Undecoded
  <2>2. QED
    BY <1>5, <2>1, FS_EmptySet DEF IInv, Booked, Selecting
<1>7. QED
  BY <1>1, <1>2, <1>3, <1>4, <1>5, <1>6

LEMMA SelectionStep ==
  ASSUME IInv, Selecting, UNCHANGED <<source, at, raster, report>>, TypeOK', Selected', pc' # "done"
  PROVE  IInv'
<1>1. /\ at' = 0 /\ raster' = "none" /\ paid' = {} /\ products' = {} /\ failures' = {}
      /\ requests' = 0 /\ written' = 0 /\ disk' = 0
  BY NothingYet DEF report
<1>2. Dealt' = {} /\ Failed' = {} /\ Undecoded' = {}
  BY <1>1 DEF Dealt, Failed, Undecoded
<1>3. Paid'
  BY <1>1, FS_EmptySet DEF Paid
<1>4. Booked'
  BY <1>1, <1>2, FS_EmptySet DEF Booked
<1>5. QED
  BY <1>3, <1>4 DEF IInv

LEMMA ReadPageStep ==
  ASSUME IInv, ReadPage
  PROVE  IInv'
<1>1. /\ pc = "catalogue" /\ candidates = <<>> /\ chosen = <<>> /\ at = 0 /\ raster = "none"
      /\ UNCHANGED <<source, footprint, standing, candidates, chosen, at, raster, report>>
      /\ pages < MaxPages /\ pages \in 0..MaxPages /\ listed \in 0..Len(Track)
  BY DEF IInv, TypeOK, Selected, ReadPage
<1>2. /\ pc' \in {"select", "raised", "catalogue"}
      /\ pc' = "catalogue" => pages' # MaxPages
      /\ pages' = pages + 1
  BY DEF ReadPage
<1>3. pages' \in 0..MaxPages /\ (pc' = "catalogue" => pages' < MaxPages)
  BY <1>1, <1>2, Numbers
<1>4. listed' \in 0..Len(Track)
  <2>1. listed' \in listed..Len(Track)
    BY DEF ReadPage
  <2>2. QED
    BY <1>1, <2>1, Numbers
<1>5. left' \subseteq Item /\ (Pairing => \A i \in left' : FirstPost <= i)
  BY DEF ReadPage
<1>6. verdict' \in [Item -> {"no", "unknown", "yes"}]
  <2>1. verdict' = [i \in Item |-> IF i \in (listed + 1)..listed' THEN Admitted(i) ELSE verdict[i]]
    BY DEF ReadPage
  <2>2. \A i \in Item : verdict[i] \in {"no", "unknown", "yes"}
    BY DEF IInv, TypeOK
  <2>3. \A i : Admitted(i) \in {"no", "unknown", "yes"}
    BY DEF Admitted
  <2>4. QED
    BY <2>1, <2>2, <2>3
<1>7. TypeOK'
  BY <1>1, <1>2, <1>3, <1>4, <1>5, <1>6 DEF IInv, TypeOK, report, Pairing
<1>8. Selected'
  <2>1. Len(candidates') = 0 /\ DOMAIN candidates' = {} /\ DOMAIN chosen' = {}
    BY <1>1
  <2>2. Chosen(chosen)' = {}
    BY <2>1 DEF Chosen
  <2>3. QED
    BY <1>1, <1>2, <1>3, <1>5, <2>1, <2>2, Numbers DEF IInv, Selected, Distinct, Pairing
<1>9. QED
  BY <1>1, <1>2, <1>7, <1>8, SelectionStep DEF Selecting

LEMMA CatalogueRaisesStep ==
  ASSUME IInv, CatalogueRaises
  PROVE  IInv'
<1>1. /\ Selecting /\ pc' = "raised"
      /\ UNCHANGED <<catalogue, selection, at, raster, report>>
  BY DEF CatalogueRaises, Selecting
<1>2. TypeOK'
  BY <1>1 DEF IInv, TypeOK, catalogue, selection, report, Pairing
<1>3. Selected'
  BY <1>1 DEF IInv, Selected, catalogue, selection, IsPair, Pairing, Distinct, Chosen
<1>4. QED
  BY <1>1, <1>2, <1>3, SelectionStep DEF catalogue

\* A step of the loop that finds no pair.
LEMMA NoPairFound ==
  ASSUME IInv, pc = "select", pc' = pc,
         UNCHANGED <<catalogue, candidates, chosen, at, raster, report>>,
         verdict' \in [Item -> {"no", "unknown", "yes"}], left' \subseteq left
  PROVE  IInv'
<1>1. TypeOK'
  BY DEF IInv, TypeOK, catalogue, report, Pairing
<1>2. Selected'
  BY DEF IInv, Selected, catalogue, IsPair, Pairing, Distinct, Chosen
<1>3. QED
  BY <1>1, <1>2, SelectionStep DEF Selecting, catalogue

\* One pair more.
LEMMA PairFound ==
  ASSUME IInv, pc = "select", pc' = pc, NEW c \in Pairs, IsPair(c),
         UNCHANGED <<catalogue, verdict, chosen, at, raster, report>>,
         Track[c.post] \notin Used(candidates),
         candidates' = Append(candidates, c), left # {}, left' \subseteq left,
         source = "sentinel1" /\ Len(candidates') = MaxPairs => left' = {}
  PROVE  IInv'
<1>1. /\ candidates' \in Seq(Pairs) /\ Len(candidates') = Len(candidates) + 1
      /\ Len(candidates) \in Nat /\ DOMAIN candidates = 1..Len(candidates)
      /\ DOMAIN candidates' = 1..(Len(candidates) + 1)
      /\ \A i \in DOMAIN candidates : candidates'[i] = candidates[i]
      /\ candidates'[Len(candidates) + 1] = c
      /\ Chosen(candidates') = Chosen(candidates) \cup {c}
  <2>1. PICK s, t : s = candidates /\ t = candidates'
    OBVIOUS
  <2>2. s \in Seq(Pairs) /\ t = Append(s, c)
    BY <2>1, Sequences
  <2>3. /\ t \in Seq(Pairs) /\ Len(t) = Len(s) + 1 /\ Len(s) \in Nat
        /\ DOMAIN s = 1..Len(s) /\ DOMAIN t = 1..(Len(s) + 1)
        /\ \A i \in DOMAIN s : t[i] = s[i]
        /\ t[Len(s) + 1] = c
    BY <2>2, Appended
  <2>4. Chosen(t) = Chosen(s) \cup {c}
    BY <2>2, ChosenAppended
  <2>5. QED
    BY <2>1, <2>3, <2>4
<1>2. Distinct(candidates')
  <2>1. \A d \in Chosen(candidates) : Track[d.post] # Track[c.post]
    BY DEF Used
  <2>2. QED
    BY <2>1, Sequences, DistinctAppend DEF IInv, Selected
<1>3. \A n \in DOMAIN candidates' : IsPair(candidates'[n])
  <2>1. \A n \in DOMAIN candidates' : n \in DOMAIN candidates \/ n = Len(candidates) + 1
    BY <1>1
  <2>2. QED
    BY <1>1, <2>1 DEF IInv, Selected
<1>4. source = "sentinel1" => Len(candidates) < MaxPairs
  BY DEF IInv, Selected
<1>5. source = "sentinel1" =>
        Len(candidates') <= MaxPairs /\ (left' = {} \/ Len(candidates') < MaxPairs)
  BY <1>1, <1>4, Numbers
<1>6. TypeOK'
  BY <1>1 DEF IInv, TypeOK, catalogue, report, Pairing
<1>7. Selected'
  <2>1. (\A n \in DOMAIN candidates : IsPair(candidates[n]))'
    BY <1>3 DEF IsPair, Pairing, catalogue
  <2>2. chosen = <<>> /\ Chosen(chosen') = {} /\ DOMAIN chosen' = {}
    BY DEF IInv, Selected, Chosen
  <2>3. source' \in Sources /\ at' = 0 /\ raster' = "none"
    BY DEF IInv, Selected, catalogue
  <2>4. Distinct(candidates)' /\ Distinct(chosen)'
    BY <1>2, <2>2 DEF Distinct
  <2>5. source' = source
    BY DEF catalogue
  <2>6. (Pairing => \A i \in left : FirstPost <= i)'
    BY <2>5 DEF IInv, Selected, Pairing
  <2>7. QED
    BY <1>5, <2>1, <2>2, <2>3, <2>4, <2>5, <2>6 DEF Selected, Chosen
<1>8. QED
  BY <1>6, <1>7, SelectionStep DEF Selecting, catalogue

LEMMA VisitingIn ==
  ASSUME IInv, NEW p \in Item, Visiting(p)
  PROVE  pc = "select" /\ Pairing /\ left # {} /\ p \in left
BY LatestIn DEF Visiting, IInv, TypeOK

LEMMA CheckHeadersStep ==
  ASSUME IInv, NEW p \in Item, CheckHeaders(p)
  PROVE  IInv'
<1>1. PICK answer \in {"yes", "no"} : verdict' = [verdict EXCEPT ![Wanted(p)] = answer]
  BY DEF CheckHeaders
<1>2. verdict' \in [Item -> {"no", "unknown", "yes"}]
  BY <1>1 DEF IInv, TypeOK
<1>3. QED
  BY <1>2, VisitingIn, NoPairFound DEF CheckHeaders

LEMMA SkipPostStep ==
  ASSUME IInv, NEW p \in Item, SkipPost(p)
  PROVE  IInv'
<1>1. verdict' \in [Item -> {"no", "unknown", "yes"}]
  BY DEF SkipPost, IInv, TypeOK
<1>2. QED
  BY <1>1, VisitingIn, NoPairFound DEF SkipPost

LEMMA PairPostStep ==
  ASSUME IInv, NEW p \in Item, PairPost(p)
  PROVE  IInv'
<1>1. /\ pc = "select" /\ Pairing /\ left # {} /\ p \in left /\ pc' = pc
      /\ UNCHANGED <<catalogue, verdict, chosen, at, raster, report>>
      /\ Track[p] \notin Used(candidates) /\ Open(p) # {} /\ left' \subseteq left
  BY VisitingIn DEF PairPost
<1>2. PICK q : q = Latest(Open(p))
  OBVIOUS
<1>3. q \in Open(p)
  <2>1. Open(p) \subseteq Item
    BY Numbers DEF Open, Comparable
  <2>2. QED
    BY <1>1, <1>2, <2>1, LatestIn
<1>4. q \in 1..(FirstPost - 1) /\ Track[q] = Track[p]
  BY <1>3 DEF Open, Comparable
<1>5. q \in Item /\ q < FirstPost
  BY <1>4, Numbers
<1>6. FirstPost <= p
  BY <1>1 DEF IInv, Selected
<1>7. PICK c : c = [pre |-> q, post |-> p]
  OBVIOUS
<1>8. c \in Pairs /\ c.pre = q /\ c.post = p
  BY <1>5, <1>7 DEF Pairs
<1>9. IsPair(c)
  BY <1>1, <1>4, <1>5, <1>6, <1>8 DEF IsPair
<1>10. candidates' = Append(candidates, c)
  BY <1>2, <1>7 DEF PairPost
<1>11. source = "sentinel1" /\ Len(candidates') = MaxPairs => left' = {}
  BY DEF PairPost
<1>12. QED
  BY <1>1, <1>8, <1>9, <1>10, <1>11, PairFound

LEMMA KeepFirstStep ==
  ASSUME IInv, KeepFirst
  PROVE  IInv'
<1>1. PICK i : i = Earliest(left)
  OBVIOUS
<1>2. /\ pc = "select" /\ ~Pairing /\ left # {} /\ pc' = pc /\ left' = left \ {i}
      /\ UNCHANGED <<catalogue, verdict, chosen, at, raster, report>>
      /\ source # "sentinel1"
  BY <1>1 DEF KeepFirst, Pairing
<1>3. i \in Item
  BY <1>1, <1>2, EarliestIn DEF IInv, TypeOK
<1>4. CASE Track[i] \in Used(candidates)
  <2>1. candidates' = candidates /\ verdict' \in [Item -> {"no", "unknown", "yes"}]
    BY <1>1, <1>2, <1>4 DEF KeepFirst, IInv, TypeOK
  <2>2. QED
    BY <1>2, <2>1, NoPairFound
<1>5. CASE Track[i] \notin Used(candidates)
  <2>1. PICK c : c = [pre |-> 0, post |-> i]
    OBVIOUS
  <2>2. c \in Pairs /\ c.post = i /\ IsPair(c)
    BY <1>2, <1>3, <2>1 DEF Pairs, IsPair
  <2>3. candidates' = Append(candidates, c)
    BY <1>1, <1>5, <2>1 DEF KeepFirst
  <2>4. QED
    BY <1>2, <1>5, <2>2, <2>3, PairFound
<1>6. QED
  BY <1>4, <1>5

LEMMA EndSelectionStep ==
  ASSUME IInv, EndSelection
  PROVE  IInv'
<1>1. /\ pc = "select" /\ left = {} /\ pc' = IF source = "sentinel2" THEN "complement" ELSE "read"
      /\ chosen' = IF source = "sentinel2" THEN <<>> ELSE candidates
      /\ UNCHANGED <<catalogue, verdict, left, candidates, at, raster, report>>
      /\ at = 0 /\ raster = "none" /\ chosen = <<>>
  BY DEF EndSelection, IInv, Selected
<1>2. candidates \in Seq(Pairs) /\ Len(candidates) \in Nat
  BY Sequences
<1>3. chosen' \in Seq(Pairs) /\ Len(chosen') \in Nat
  BY <1>1, <1>2, LenProperties
<1>4. Pairing => Len(chosen') <= MaxPairs
  <2>1. CASE source = "sentinel2"
    BY <1>1, <2>1, Numbers
  <2>2. CASE source # "sentinel2"
    BY <1>1, <2>2 DEF Pairing, IInv, Selected
  <2>3. QED
    BY <2>1, <2>2
<1>5. TypeOK'
  BY <1>1, <1>3, <1>4 DEF IInv, TypeOK, catalogue, report, Pairing
<1>6. Selected'
  <2>1. source' = source
    BY <1>1 DEF catalogue
  <2>2. /\ \A n \in DOMAIN chosen' : IsPair(chosen'[n])
        /\ Distinct(chosen') /\ Chosen(chosen') \subseteq Chosen(candidates)
    BY <1>1 DEF IInv, Selected, Distinct, Chosen
  <2>3. QED
    BY <1>1, <2>1, <2>2 DEF IInv, Selected, IsPair, Pairing, Distinct, Chosen
<1>7. QED
  BY <1>1, <1>5, <1>6, SelectionStep DEF Selecting, catalogue

LEMMA ComplementStep ==
  ASSUME IInv, Complement
  PROVE  IInv'
<1>1. PICK c \in Remaining : chosen' = Append(chosen, c)
  BY DEF Complement
<1>2. /\ pc = "complement" /\ pc' = pc /\ Len(chosen) < MaxPairs
      /\ UNCHANGED <<catalogue, verdict, left, candidates, at, raster, report>>
      /\ at = 0 /\ raster = "none"
  BY DEF Complement, IInv, Selected
<1>3. PICK k \in DOMAIN candidates : c = candidates[k]
  BY <1>1 DEF Remaining, Chosen
<1>4. c \in Pairs /\ IsPair(c) /\ c \in Chosen(candidates) /\ c \notin Chosen(chosen)
  BY <1>1, <1>3, Sequences DEF IInv, Selected, Remaining
<1>5. \A d \in Chosen(chosen) : Track[d.post] # Track[c.post]
  <2> SUFFICES ASSUME NEW d \in Chosen(chosen), Track[d.post] = Track[c.post] PROVE FALSE
    OBVIOUS
  <2>1. PICK h \in DOMAIN candidates : d = candidates[h]
    BY DEF IInv, Selected, Chosen
  <2>2. h = k
    BY <1>3, <2>1 DEF IInv, Selected, Distinct
  <2>3. QED
    BY <1>3, <1>4, <2>1, <2>2
<1>6. /\ chosen' \in Seq(Pairs) /\ Len(chosen') = Len(chosen) + 1 /\ Len(chosen) \in Nat
      /\ DOMAIN chosen = 1..Len(chosen) /\ DOMAIN chosen' = 1..(Len(chosen) + 1)
      /\ \A i \in DOMAIN chosen : chosen'[i] = chosen[i]
      /\ chosen'[Len(chosen) + 1] = c
      /\ Chosen(chosen') = Chosen(chosen) \cup {c}
  <2>1. PICK s, t : s = chosen /\ t = chosen'
    OBVIOUS
  <2>2. s \in Seq(Pairs) /\ t = Append(s, c)
    BY <1>1, <2>1, Sequences
  <2>3. /\ t \in Seq(Pairs) /\ Len(t) = Len(s) + 1 /\ Len(s) \in Nat
        /\ DOMAIN s = 1..Len(s) /\ DOMAIN t = 1..(Len(s) + 1)
        /\ \A i \in DOMAIN s : t[i] = s[i]
        /\ t[Len(s) + 1] = c
    BY <1>4, <2>2, Appended
  <2>4. Chosen(t) = Chosen(s) \cup {c}
    BY <1>4, <2>2, ChosenAppended
  <2>5. QED
    BY <2>1, <2>3, <2>4
<1>7. Len(chosen') <= MaxPairs /\ at \in 0..Len(chosen')
  BY <1>2, <1>6, Numbers
<1>8. TypeOK'
  BY <1>2, <1>6, <1>7 DEF IInv, TypeOK, catalogue, report, Pairing
<1>9. Selected'
  <2>1. source' = source
    BY <1>2 DEF catalogue
  <2>2. \A n \in DOMAIN chosen' : n \in DOMAIN chosen \/ n = Len(chosen) + 1
    BY <1>6
  <2>3. \A n \in DOMAIN chosen' : IsPair(chosen'[n])
    BY <1>4, <1>6, <2>2 DEF IInv, Selected
  <2>4. (\A n \in DOMAIN chosen : IsPair(chosen[n]))'
    BY <2>1, <2>3 DEF IsPair, Pairing
  <2>5. Distinct(chosen')
    BY <1>1, <1>4, <1>5, Sequences, DistinctAppend DEF IInv, Selected
  <2>6. Distinct(chosen)' /\ Distinct(candidates)'
    BY <1>2, <2>5 DEF IInv, Selected, Distinct
  <2>7. Chosen(chosen)' \subseteq Chosen(candidates)'
    BY <1>2, <1>4, <1>6 DEF IInv, Selected, Chosen
  <2>8. (\A n \in DOMAIN candidates : IsPair(candidates[n]))'
    BY <1>2, <2>1 DEF IInv, Selected, IsPair, Pairing
  <2>9. QED
    BY <1>2, <2>1, <2>4, <2>6, <2>7, <2>8 DEF IInv, Selected, Pairing
<1>10. QED
  BY <1>2, <1>8, <1>9, SelectionStep DEF Selecting, catalogue

LEMMA EndComplementStep ==
  ASSUME IInv, EndComplement
  PROVE  IInv'
<1>1. /\ pc = "complement" /\ pc' = "read" /\ UNCHANGED <<catalogue, selection, at, raster, report>>
  BY DEF EndComplement
<1>2. TypeOK'
  BY <1>1 DEF IInv, TypeOK, catalogue, selection, report, Pairing
<1>3. Selected'
  BY <1>1 DEF IInv, Selected, catalogue, selection, IsPair, Pairing, Distinct, Chosen
<1>4. QED
  BY <1>1, <1>2, <1>3, SelectionStep DEF Selecting, catalogue

-------------------------------------------------------------------------------
(* The steps of the reading.                                               *)

\* The pair being read shares nothing with those dealt with.
LEMMA PairInHand ==
  ASSUME IInv, Reading
  PROVE  /\ at + 1 \in DOMAIN chosen /\ 1..at \subseteq DOMAIN chosen /\ at + 1 \notin 1..at
         /\ at + 1 \in 0..Len(chosen) /\ 1..(at + 1) = 1..at \cup {at + 1}
         /\ Current = chosen[at + 1] /\ IsPair(Current) /\ Current.post \in Item
         /\ Current.post \notin Dealt /\ Current.post \notin products /\ Current.post \notin Failed
<1>1. /\ at + 1 \in DOMAIN chosen /\ 1..at \subseteq DOMAIN chosen /\ at + 1 \notin 1..at
      /\ at + 1 \in 0..Len(chosen) /\ 1..(at + 1) = 1..at \cup {at + 1}
  BY Sequences DEF Reading
<1>2. Current = chosen[at + 1] /\ IsPair(Current) /\ Current.post \in Item
  BY <1>1 DEF IInv, Selected, Current, IsPair
<1>3. Current.post \notin Dealt
  BY <1>1, <1>2 DEF IInv, Selected, Distinct, Dealt
<1>4. QED
  BY <1>1, <1>2, <1>3 DEF IInv, Booked

LEMMA SelectionKept ==
  ASSUME IInv, pc = "read", pc' \notin {"catalogue", "select", "complement"},
         UNCHANGED <<catalogue, selection>>
  PROVE  /\ Selected' /\ Pairing' = Pairing
         /\ (pc' \in {"read", "done", "unavailable", "raised"} /\ at' \in 0..Len(chosen)
              /\ raster' \in {"none", "pre", "post", "both"}
              /\ paid' \subseteq Item /\ products' \subseteq Item
              /\ requests' \in 0..MaxCredits
              /\ failures' \subseteq [post: Item, reason: Reasons]
              /\ written' \in 0..MaxOutput /\ disk' \in Nat) => TypeOK'
<1>1. Selected'
  BY DEF IInv, Selected, catalogue, selection, IsPair, Pairing, Distinct, Chosen
<1>2. QED
  BY <1>1 DEF IInv, TypeOK, catalogue, selection, Pairing

\* A pair that is given up, whatever was paid for it.
LEMMA FailStep ==
  ASSUME IInv, Reading, NEW reason \in Reasons, Fail(reason),
         UNCHANGED <<catalogue, selection, pc, products, written>>,
         paid' \subseteq Item, requests' \in 0..MaxCredits, requests' = Cardinality(paid'),
         paid' \subseteq paid \cup Of(at + 1),
         paid' # paid => source = "sentinel1",
         reason = "credits" => raster = "none" /\ paid' = paid,
         disk' = disk + (IF reason = "decode" THEN 1 ELSE 0)
  PROVE  IInv'
<1>1. PICK e : e = [post |-> Current.post, reason |-> reason]
  OBVIOUS
<1>2. /\ pc = "read" /\ at' = at + 1 /\ raster' = "none" /\ failures' = failures \cup {e}
      /\ chosen' = chosen /\ source' = source
  BY <1>1 DEF Reading, Fail, selection, catalogue
<1>3. e.post = Current.post /\ e.reason = reason /\ e \in [post: Item, reason: Reasons] /\ e \notin failures
  BY <1>1, PairInHand DEF Failed
<1>4. TypeOK' /\ Selected'
  <2>1. at' \in 0..Len(chosen)
    BY <1>2, PairInHand
  <2>2. failures' \subseteq [post: Item, reason: Reasons]
    BY <1>2, <1>3 DEF IInv, TypeOK
  <2>3. disk' \in Nat /\ written' \in 0..MaxOutput /\ products' \subseteq Item
    BY DEF IInv, TypeOK
  <2>4. QED
    BY <1>2, <2>1, <2>2, <2>3, SelectionKept
<1>5. Paid'
  <2>1. \A n : (Of(n))' = Of(n)
    BY <1>2 DEF Of
  <2>2. ASSUME NEW x \in paid' PROVE PaidFor(x)'
    <3>1. \E n \in 1..(at + 1) : x \in Of(n)
      <4>1. CASE x \in Of(at + 1)
        BY <4>1, PairInHand
      <4>2. CASE x \in paid
        BY <4>2, PairInHand DEF IInv, Paid, PaidFor, Of
      <4>3. QED
        BY <2>2, <4>1, <4>2
    <3>2. QED
      BY <1>2, <2>1, <3>1 DEF PaidFor
  <2>3. paid' # {} => source' = "sentinel1"
    BY <1>2 DEF IInv, Paid
  <2>4. ASSUME NEW f \in failures', f.reason = "credits", NEW n \in DOMAIN chosen,
               chosen[n].post = f.post, NEW x \in Of(n), x \in paid'
        PROVE  FALSE
    <3>1. Pairing
      BY <2>3, <2>4, <1>2 DEF Pairing
    <3>2. CASE f \in failures
      <4>1. PICK m \in 1..at : f.post = chosen[m].post
        BY <3>2 DEF IInv, Booked, Failed, Dealt
      <4>2. n = m
        BY <2>4, <4>1, PairInHand DEF IInv, Selected, Distinct
      <4>3. Of(n) \cap paid = {}
        BY <2>4, <3>2 DEF IInv, Paid
      <4>4. x \in Of(at + 1) /\ n # at + 1
        BY <2>4, <4>2, <4>3, PairInHand
      <4>5. QED
        BY <2>4, <3>1, <4>4, PairInHand, NothingShared
    <3>3. CASE f = e
      <4>1. raster = "none" /\ x \in paid
        BY <1>3, <2>4, <3>3
      <4>2. PICK m \in 1..at : x \in Of(m)
        BY <4>1 DEF IInv, Paid, PaidFor
      <4>3. n = at + 1
        BY <1>3, <2>4, <3>3, PairInHand DEF IInv, Selected, Distinct
      <4>4. QED
        BY <2>4, <3>1, <4>2, <4>3, PairInHand, NothingShared
    <3>4. QED
      BY <1>2, <2>4, <3>2, <3>3
  <2>5. \A f \in failures' : f.reason = "credits" =>
          \A n \in DOMAIN chosen' : chosen'[n].post = f.post => (Of(n))' \cap paid' = {}
    BY <1>2, <2>1, <2>4
  <2>6. QED
    BY <1>2, <2>2, <2>3, <2>5 DEF Paid
<1>6. Booked'
  <2>1. Failed' = Failed \cup {Current.post}
    BY <1>2, <1>3 DEF Failed
  <2>2. Dealt' = Dealt \cup {Current.post}
    <3>1. Dealt' = {chosen[n].post : n \in 1..(at + 1)}
      BY <1>2 DEF Dealt
    <3>2. QED
      BY <3>1, PairInHand DEF Dealt
  <2>3. products' \cup Failed' = Dealt' /\ products' \cap Failed' = {}
    BY <2>1, <2>2, PairInHand DEF IInv, Booked
  <2>4. IsFiniteSet(failures')
    BY <1>2, FS_AddElement DEF IInv, Booked
  <2>5. disk' = written' + Cardinality(Undecoded')
    <3>1. /\ IsFiniteSet(Undecoded) /\ Cardinality(Undecoded) \in Nat /\ e \notin Undecoded
          /\ disk = written + Cardinality(Undecoded) /\ written \in Nat
      <4>1. Undecoded \in SUBSET failures
        BY DEF Undecoded
      <4>2. IsFiniteSet(Undecoded) /\ Cardinality(Undecoded) \in Nat
        BY <4>1, FS_Subset, FS_CardinalityType DEF IInv, Booked
      <4>3. QED
        BY <1>2, <1>3, <4>2, Numbers DEF IInv, Booked, Undecoded, TypeOK
    <3>2. CASE reason = "decode"
      <4>1. Undecoded' = Undecoded \cup {e}
        BY <1>2, <1>3, <3>2 DEF Undecoded
      <4>2. Cardinality(Undecoded') = Cardinality(Undecoded) + 1
        BY <3>1, <4>1, FS_AddElement
      <4>3. QED
        BY <3>1, <3>2, <4>2
    <3>3. CASE reason # "decode"
      <4>1. Undecoded' = Undecoded
        BY <1>2, <1>3, <3>3 DEF Undecoded
      <4>2. QED
        BY <3>1, <3>3, <4>1
    <3>4. QED
      BY <3>2, <3>3
  <2>6. written' = Cardinality(products')
    BY DEF IInv, Booked
  <2>7. QED
    BY <1>2, <2>3, <2>4, <2>5, <2>6 DEF Booked
<1>7. QED
  BY <1>4, <1>5, <1>6 DEF IInv

\* The raster asked for is one more: its product is of no other pair.
LEMMA NewRaster ==
  ASSUME IInv, Reading, raster \in {"pre", "post"},
         NEW x, x = IF raster = "pre" THEN Current.pre ELSE Current.post
  PROVE  /\ x \in Item /\ x \in Of(at + 1) /\ x \notin paid
         /\ Cardinality(paid \cup {x}) = requests + 1 /\ source = "sentinel1"
<1>1. source = "sentinel1" /\ Pairing
  BY DEF IInv, Paid, Pairing
<1>2. /\ Current.pre \in Item /\ Current.post \in Item /\ Current.pre # Current.post
      /\ Of(at + 1) = {Current.pre, Current.post}
  <2>1. Current.pre \in Item /\ Current.post \in Item /\ Current.pre < FirstPost /\ FirstPost <= Current.post
    BY <1>1, PairInHand DEF IsPair
  <2>2. Current.pre # Current.post
    BY <2>1, Numbers
  <2>3. QED
    BY <2>1, <2>2 DEF Of, Current
<1>3. \A n \in 1..at : x \notin Of(n)
  BY <1>1, <1>2, PairInHand, NothingShared
<1>4. x \notin paid
  <2>1. ~PaidFor(x)
    BY <1>2, <1>3 DEF PaidFor
  <2>2. QED
    BY <2>1 DEF IInv, Paid
<1>5. Cardinality(paid \cup {x}) = requests + 1
  <2>1. paid \in SUBSET Item
    BY DEF IInv, TypeOK
  <2>2. QED
    BY <1>4, <2>1, ItemsFinite, FS_AddElement DEF IInv, Paid
<1>6. QED
  BY <1>1, <1>2, <1>4, <1>5

\* A run that ends, or goes on to the next raster, and reports nothing new.
LEMMA NothingReported ==
  ASSUME IInv, pc = "read", pc' \in {"read", "done", "unavailable", "raised"},
         UNCHANGED <<catalogue, selection, at, products, failures, written>>,
         pc' = "done" => at = Len(chosen),
         IF pc' = "raised" THEN disk' \in Nat ELSE disk' = disk,
         paid' \subseteq Item, requests' \in 0..MaxCredits, raster' \in {"none", "pre", "post", "both"},
         Paid'
  PROVE  IInv'
<1>1. Booked'
  BY DEF IInv, Booked, Failed, Dealt, Undecoded, selection
<1>2. disk' \in Nat /\ at' \in 0..Len(chosen)
  BY DEF IInv, TypeOK
<1>3. products' \subseteq Item /\ failures' \subseteq [post: Item, reason: Reasons] /\ written' \in 0..MaxOutput
  BY DEF IInv, TypeOK
<1>4. QED
  BY <1>1, <1>2, <1>3, SelectionKept DEF IInv

\* What was paid for, when nothing more is.
LEMMA NothingPaid ==
  ASSUME IInv, UNCHANGED <<catalogue, selection, at, paid, requests, failures>>,
         raster' = raster
  PROVE  Paid'
<1>1. \A x : PaidFor(x)' <=> PaidFor(x)
  BY DEF PaidFor, Of, Current, selection
<1>2. QED
  BY <1>1 DEF IInv, Paid, Of, catalogue, selection

LEMMA EndStep ==
  ASSUME IInv, ReadRaises \/ AccessMissing \/ Return
  PROVE  IInv'
<1>1. /\ pc = "read" /\ pc' \in {"done", "unavailable", "raised"}
      /\ UNCHANGED <<catalogue, selection, at, raster, paid, requests, products, failures, written>>
      /\ pc' = "done" => at = Len(chosen)
      /\ IF pc' = "raised" THEN disk' \in {disk, disk + 1} ELSE disk' = disk
  BY DEF ReadRaises, AccessMissing, Return, Reading, report
<1>2. /\ disk \in Nat /\ paid' \subseteq Item /\ requests' \in 0..MaxCredits
      /\ raster' \in {"none", "pre", "post", "both"}
  BY <1>1 DEF IInv, TypeOK
<1>3. Paid'
  BY <1>1, NothingPaid
<1>4. QED
  BY <1>1, <1>2, <1>3, NothingReported

LEMMA BeginPairStep ==
  ASSUME IInv, BeginPair
  PROVE  IInv'
<1>1. /\ Reading /\ source = "sentinel1" /\ raster = "none"
      /\ UNCHANGED <<catalogue, selection, pc, paid, requests, products, written, disk>>
      /\ paid \subseteq Item /\ requests \in 0..MaxCredits /\ disk \in Nat
  BY DEF BeginPair, IInv, TypeOK
<1>2. CASE PairRoom
  <2>1. raster' = "pre" /\ UNCHANGED <<at, failures>> /\ requests + 2 <= MaxCredits
    BY <1>2 DEF BeginPair, PairRoom
  <2>2. Paid'
    <3>1. \A x : PaidFor(x)' <=> PaidFor(x)
      BY <1>1, <2>1 DEF PaidFor, Of, Current, selection
    <3>2. QED
      BY <1>1, <2>1, <3>1 DEF IInv, Paid, Of, catalogue, selection, Reading
  <2>3. QED
    BY <1>1, <2>1, <2>2, NothingReported DEF Reading
<1>3. CASE ~PairRoom
  <2>1. Fail("credits") /\ "credits" \in Reasons
    BY <1>3 DEF BeginPair, Reasons
  <2>2. requests = Cardinality(paid)
    BY DEF IInv, Paid
  <2>3. disk' = disk + (IF "credits" = "decode" THEN 1 ELSE 0)
    BY <1>1
  <2>4. QED
    BY <1>1, <2>1, <2>2, <2>3, FailStep
<1>4. QED
  BY <1>2, <1>3

\* Both rasters of a pair were affordable when it was begun, so credits never end it.
LEMMA RasterRefusedStep ==
  ASSUME IInv, RasterRefused
  PROVE  IInv'
<1>1. /\ Reading /\ raster \in {"pre", "post"}
      /\ UNCHANGED <<catalogue, selection, pc, paid, requests, products, written, disk>>
      /\ paid \subseteq Item /\ requests \in 0..MaxCredits /\ disk \in Nat
  BY DEF RasterRefused, IInv, TypeOK
<1>2. RasterRoom
  BY <1>1, Numbers DEF IInv, Paid, RasterRoom
<1>3. Fail("graph") /\ "graph" \in Reasons
  BY <1>2 DEF RasterRefused, Reasons
<1>4. requests = Cardinality(paid)
  BY DEF IInv, Paid
<1>5. disk' = disk + (IF "graph" = "decode" THEN 1 ELSE 0)
  BY <1>1
<1>6. QED
  BY <1>1, <1>3, <1>4, <1>5, FailStep

LEMMA RequestRasterStep ==
  ASSUME IInv, RequestRaster
  PROVE  IInv'
<1>1. PICK x : x = IF raster = "pre" THEN Current.pre ELSE Current.post
  OBVIOUS
<1>2. /\ Reading /\ raster \in {"pre", "post"} /\ requests + 1 <= MaxCredits
      /\ requests' = requests + 1 /\ paid' = paid \cup {x}
      /\ UNCHANGED <<catalogue, selection, pc, products, written, disk>>
      /\ paid \subseteq Item /\ requests \in 0..MaxCredits /\ disk \in Nat
  BY <1>1 DEF RequestRaster, RasterRoom, IInv, TypeOK
<1>3. /\ x \in Item /\ x \in Of(at + 1) /\ x \notin paid
      /\ Cardinality(paid \cup {x}) = requests + 1 /\ source = "sentinel1"
  BY <1>1, <1>2, NewRaster
<1>4. paid' \subseteq Item /\ requests' \in 0..MaxCredits /\ requests' = Cardinality(paid')
  BY <1>2, <1>3, Numbers
<1>5. CASE Fail("request")
  <2>1. "request" \in Reasons /\ disk' = disk + (IF "request" = "decode" THEN 1 ELSE 0)
    BY <1>2 DEF Reasons
  <2>2. paid' \subseteq paid \cup Of(at + 1)
    BY <1>2, <1>3
  <2>3. QED
    BY <1>2, <1>3, <1>4, <1>5, <2>1, <2>2, FailStep
<1>6. CASE /\ raster' = IF raster = "pre" THEN "post" ELSE "both"
           /\ UNCHANGED <<at, failures>>
  <2>1. \A n : (Of(n))' = Of(n) /\ Current' = Current
    BY <1>2, <1>6 DEF Of, Current, selection
  <2>2. ASSUME NEW y \in paid' PROVE PaidFor(y)'
    <3>1. CASE y = x
      BY <1>1, <1>2, <1>6, <2>1, <3>1 DEF PaidFor
    <3>2. CASE y \in paid
      BY <1>2, <1>6, <2>1, <3>2 DEF IInv, Paid, PaidFor
    <3>3. QED
      BY <1>2, <2>2, <3>1, <3>2
  <2>3. raster' = "post" => requests' + 1 <= MaxCredits
    BY <1>2, <1>6, Numbers DEF IInv, Paid
  <2>4. ASSUME NEW f \in failures, f.reason = "credits", NEW n \in DOMAIN chosen,
               chosen[n].post = f.post
        PROVE  Of(n) \cap paid' = {}
    <3>1. PICK m \in 1..at : f.post = chosen[m].post
      BY DEF IInv, Booked, Failed, Dealt
    <3>2. n = m
      BY <1>2, <2>4, <3>1, PairInHand DEF IInv, Selected, Distinct
    <3>3. Of(n) \cap Of(at + 1) = {}
      <4>1. Pairing
        BY <1>3 DEF Pairing
      <4>2. n # at + 1 /\ at + 1 \in DOMAIN chosen
        BY <1>2, <3>2, PairInHand
      <4>3. QED
        BY <4>1, <4>2, NothingShared
    <3>4. Of(n) \cap paid = {}
      BY <2>4 DEF IInv, Paid
    <3>5. QED
      BY <1>2, <1>3, <3>3, <3>4
  <2>5. \A f \in failures' : f.reason = "credits" =>
          \A n \in DOMAIN chosen' : chosen'[n].post = f.post => (Of(n))' \cap paid' = {}
    BY <1>2, <1>6, <2>1, <2>4 DEF selection
  <2>6. source' = "sentinel1" /\ at' < Len(chosen') /\ raster' # "pre"
    BY <1>2, <1>3, <1>6 DEF Reading, catalogue, selection
  <2>7. Paid'
    BY <1>4, <2>2, <2>3, <2>5, <2>6 DEF Paid
  <2>8. raster' \in {"none", "pre", "post", "both"}
    BY <1>6
  <2>9. QED
    BY <1>2, <1>4, <1>6, <2>7, <2>8, NothingReported DEF Reading
<1>7. QED
  BY <1>5, <1>6 DEF RequestRaster

LEMMA MaterialiseStep ==
  ASSUME IInv, Materialise
  PROVE  IInv'
<1>1. /\ Reading /\ pc = "read" /\ (source = "sentinel1" => raster = "both")
      /\ UNCHANGED <<catalogue, selection, paid, requests, failures>>
      /\ paid \subseteq Item /\ requests \in 0..MaxCredits /\ disk \in Nat /\ written \in 0..MaxOutput
      /\ raster \in {"none", "pre", "post", "both"}
      /\ products \in SUBSET Item /\ failures \subseteq [post: Item, reason: Reasons]
  BY DEF Materialise, Reading, IInv, TypeOK
<1>2. CASE ~OutputLeft
  <2>1. pc' = "raised" /\ UNCHANGED <<written, disk, products, at, raster>>
    BY <1>2 DEF Materialise
  <2>2. Paid'
    BY <1>1, <2>1, NothingPaid
  <2>3. QED
    BY <1>1, <2>1, <2>2, NothingReported
<1>3. CASE OutputLeft
  <2>1. /\ written' = written + 1 /\ disk' = disk + 1 /\ products' = products \cup {Current.post}
        /\ at' = at + 1 /\ raster' = "none" /\ pc' = pc /\ written < MaxOutput
    BY <1>3 DEF Materialise, OutputLeft
  <2>2. \A n : (Of(n))' = Of(n)
    BY <1>1 DEF Of, selection
  <2>3. Paid'
    <3>1. ASSUME NEW x \in paid PROVE PaidFor(x)'
      <4>1. \E n \in 1..(at + 1) : x \in Of(n)
        BY <1>1, PairInHand DEF IInv, Paid, PaidFor, Of
      <4>2. QED
        BY <2>1, <2>2, <4>1 DEF PaidFor
    <3>2. \A f \in failures' : f.reason = "credits" =>
            \A n \in DOMAIN chosen' : chosen'[n].post = f.post => (Of(n))' \cap paid' = {}
      BY <1>1, <2>2 DEF IInv, Paid, selection
    <3>3. QED
      BY <1>1, <2>1, <3>1, <3>2 DEF IInv, Paid, catalogue
  <2>4. Booked'
    <3>1. Dealt' = Dealt \cup {Current.post}
      <4>1. Dealt' = {chosen[n].post : n \in 1..(at + 1)}
        BY <1>1, <2>1 DEF Dealt, selection
      <4>2. QED
        BY <1>1, <4>1, PairInHand DEF Dealt
    <3>2. Failed' = Failed /\ Undecoded' = Undecoded
      BY <1>1 DEF Failed, Undecoded
    <3>3. products' \cup Failed' = Dealt' /\ products' \cap Failed' = {}
      BY <1>1, <2>1, <3>1, <3>2, PairInHand DEF IInv, Booked
    <3>4. Cardinality(products') = Cardinality(products) + 1
      BY <1>1, <2>1, PairInHand, ItemsFinite, FS_AddElement
    <3>5. written' = Cardinality(products')
      BY <2>1, <3>4 DEF IInv, Booked
    <3>6. disk' = written' + Cardinality(Undecoded')
      <4>1. Undecoded \in SUBSET failures
        BY DEF Undecoded
      <4>2. Cardinality(Undecoded) \in Nat
        BY <4>1, FS_Subset, FS_CardinalityType DEF IInv, Booked
      <4>3. disk = written + Cardinality(Undecoded)
        BY <1>1 DEF IInv, Booked
      <4>4. QED
        BY <1>1, <2>1, <3>2, <4>2, <4>3, Numbers
    <3>7. QED
      BY <1>1, <2>1, <3>3, <3>5, <3>6 DEF IInv, Booked
  <2>5. at' \in 0..Len(chosen) /\ written' \in 0..MaxOutput /\ products' \subseteq Item /\ disk' \in Nat
    BY <1>1, <2>1, PairInHand, Numbers
  <2>6. QED
    BY <1>1, <2>1, <2>3, <2>4, <2>5, SelectionKept DEF IInv
<1>4. QED
  BY <1>2, <1>3

LEMMA ProductFailsStep ==
  ASSUME IInv, ProductFails
  PROVE  IInv'
<1>1. /\ Reading /\ source # "sentinel1"
      /\ UNCHANGED <<catalogue, selection, pc, paid, requests, products, written>>
      /\ paid \subseteq Item /\ requests \in 0..MaxCredits /\ disk \in Nat
      /\ requests = Cardinality(paid)
  BY DEF ProductFails, IInv, TypeOK, Paid
<1>2. PICK reason \in {"read", "decode"} :
        Fail(reason) /\ disk' = disk + (IF reason = "decode" THEN 1 ELSE 0)
  BY <1>1 DEF ProductFails
<1>3. reason \in Reasons /\ reason # "credits"
  BY DEF Reasons
<1>4. QED
  BY <1>1, <1>2, <1>3, FailStep

-------------------------------------------------------------------------------
(* The invariant, and what follows from it.                                *)

LEMMA NextIInv ==
  ASSUME IInv, [Next]_vars
  PROVE  IInv'
<1>1. CASE Next
  BY <1>1, ReadPageStep, CatalogueRaisesStep, CheckHeadersStep, SkipPostStep, PairPostStep,
     KeepFirstStep, EndSelectionStep, ComplementStep, EndComplementStep, BeginPairStep,
     RasterRefusedStep, RequestRasterStep, MaterialiseStep, ProductFailsStep, EndStep DEF Next
<1>2. CASE UNCHANGED vars
  <2>1. TypeOK' /\ Selected'
    <3>1. TypeOK'
      BY <1>2 DEF vars, catalogue, selection, report, IInv, TypeOK, Pairing
    <3>2. Selected'
      BY <1>2 DEF vars, catalogue, selection, IInv, Selected, IsPair, Pairing, Distinct, Chosen
    <3>3. QED
      BY <3>1, <3>2
  <2>2. Paid'
    BY <1>2, NothingPaid DEF vars, report
  <2>3. Booked'
    BY <1>2 DEF vars, selection, report, IInv, Booked, Failed, Dealt, Undecoded
  <2>4. QED
    BY <2>1, <2>2, <2>3 DEF IInv
<1>3. QED
  BY <1>1, <1>2

LEMMA Invariance == Spec => []IInv
<1>1. Init => IInv
  BY InitIInv
<1>2. IInv /\ [Next]_vars => IInv'
  BY NextIInv
<1>3. QED
  BY <1>1, <1>2, PTL DEF Spec

\* A run never asks for more credits, writes more output or reads more catalogue
\* pages than it may, and never takes more pairs.
THEOREM TypeCorrect == Spec => []TypeOK
<1>1. IInv => TypeOK
  BY DEF IInv
<1>2. QED
  BY <1>1, Invariance, PTL

\* What a run reports is what it did, whatever fails: one credit for each raster and no
\* raster twice, no pair begun that credits cannot finish, and each pair of a run that
\* returns is a product or a failure, with its output counted.
THEOREM ReportsHonest == Spec => []ReportHonest
<1>1. ASSUME IInv PROVE ReportHonest
  <2>1. requests = Cardinality(paid)
    BY <1>1 DEF IInv, Paid
  <2>2. \A f \in failures : f.reason = "credits" =>
          \A c \in Chosen(chosen) : c.post = f.post => {c.pre, c.post} \cap paid = {}
    BY <1>1 DEF IInv, Paid, Of, Chosen
  <2>3. ASSUME pc = "done"
        PROVE  /\ products \cup Failed = {c.post : c \in Chosen(chosen)}
               /\ products \cap Failed = {}
               /\ written = Cardinality(products)
               /\ disk = written + Cardinality(Undecoded)
    <3>1. DOMAIN chosen = 1..at
      BY <1>1, <2>3, Sequences DEF IInv, Booked
    <3>2. Dealt = {c.post : c \in Chosen(chosen)}
      BY <3>1 DEF Dealt, Chosen
    <3>3. QED
      BY <1>1, <2>3, <3>2 DEF IInv, Booked
  <2>4. QED
    BY <2>1, <2>2, <2>3 DEF ReportHonest, Failed, Undecoded
<1>2. QED
  BY <1>1, Invariance, PTL

-------------------------------------------------------------------------------
(* What the selection selects.  The loops visit products one by one; what  *)
(* they ought to find is defined over the whole catalogue.                 *)

\* The loop is past a product the catalogue does not rule out.
Visited(i) == i \in Item /\ i \notin left /\ Admitted(i) # "no" /\ (Pairing => FirstPost <= i)

\* What is known of the products: their dates, or the answer their headers gave.
Judged ==
  IF pc = "catalogue"
  THEN \A i \in Item : verdict[i] = IF i <= listed THEN Admitted(i) ELSE "no"
  ELSE pc # "raised" =>
         \A i \in Item : \/ verdict[i] = Admitted(i)
                         \/ standing[i] = "headers" /\ verdict[i] \in {"yes", "no"}

\* No pair can be made of p any more.
Unpaired(p) == verdict[p] = "no" \/ Open(p) = {}

\* The pair of its track: of the latest product that has one, and the latest open to it.
Best(c) ==
  /\ verdict[c.post] = "yes" /\ verdict[c.pre] = "yes"
  /\ c.pre \in Open(c.post) /\ \A q \in Open(c.post) : q <= c.pre
  /\ \A p \in Item : c.post < p /\ Track[p] = Track[c.post] /\ Admitted(p) # "no" => Unpaired(p)

\* Sentinel-1 has given up the rest of the catalogue for a full list.
Full == source = "sentinel1" /\ Len(candidates) = MaxPairs /\ left = {}

\* The loop over pairs is between two products.
Pairwise ==
  /\ \A i \in left : Admitted(i) # "no" /\ \A p \in Item : Visited(p) => i < p
  /\ \A c \in Chosen(candidates) : c.post \notin left /\ Best(c)
  /\ \A p \in Item : Visited(p) =>
       \/ Track[p] \in Used(candidates) \/ Unpaired(p)
       \/ Full /\ \A d \in Chosen(candidates) : p < d.post

\* The first of its granule.
Oldest(c) ==
  /\ Admitted(c.post) # "no"
  /\ \A h \in Item : Admitted(h) # "no" /\ Track[h] = Track[c.post] => c.post <= h

\* The loop over versions is between two products.
Versionwise ==
  /\ \A i \in left : Admitted(i) # "no" /\ \A j \in Item : Visited(j) => j < i
  /\ \A c \in Chosen(candidates) : c.post \notin left /\ Oldest(c)
  /\ \A j \in Item : Visited(j) => Track[j] \in Used(candidates)

\* Each pair of s adds coverage to those before it.
Adds(s) == \A n \in DOMAIN s : ~(PairFootprint(s[n]) \subseteq Covered(SubSeq(s, 1, n - 1)))

\* PairsAsDefined, of any list.
Defined(s) ==
  /\ source = "sentinel1" =>
       /\ Chosen(s) \subseteq TrackPairs
       /\ \A c \in TrackPairs \ Chosen(s) : Len(s) = MaxPairs /\ \A d \in Chosen(s) : c.post < d.post
  /\ source = "sentinel2" =>
       /\ Chosen(s) \subseteq TrackPairs
       /\ Adds(s)
       /\ Len(s) = MaxPairs \/ Covered(s) = UNION {PairFootprint(c) : c \in TrackPairs}
  /\ ~Pairing => Chosen(s) = FirstVersions

Progress ==
  /\ source # "sentinel2" => \A i \in Item : standing[i] # "headers"
  /\ Judged
  /\ pc = "select" => IF Pairing THEN Pairwise ELSE Versionwise
  /\ pc = "complement" =>
       source = "sentinel2" /\ Chosen(candidates) = TrackPairs /\ Adds(chosen)
  /\ pc \in {"read", "done"} => Defined(chosen)

-------------------------------------------------------------------------------
(* Lemmas about the definitions.                                           *)

LEMMA LatestLast ==
  ASSUME NEW S \in SUBSET Item, S # {}
  PROVE  Latest(S) \in S /\ \A j \in S : j <= Latest(S)
<1>1. PICK T : T = {Len(Track) - i : i \in S}
  OBVIOUS
<1>2. \A i \in S : i \in 1..Len(Track) /\ Len(Track) - i \in Nat
  <2>1. \A i \in S : i \in 1..Len(Track)
    BY Numbers
  <2>2. QED
    BY <2>1, Numbers
<1>3. T \subseteq Nat /\ T # {}
  BY <1>1, <1>2
<1>4. PICK t \in T : \A u \in T : t <= u
  BY <1>3, LeastElement
<1>5. PICK i \in S : t = Len(Track) - i
  BY <1>1, <1>4
<1>6. \A j \in S : Len(Track) - i <= Len(Track) - j
  BY <1>1, <1>4, <1>5
<1>7. \A j \in S : j <= i
  BY <1>2, <1>6, Numbers
<1>8. QED
  BY <1>7 DEF Latest

LEMMA EarliestFirst ==
  ASSUME NEW S \in SUBSET Item, S # {}
  PROVE  Earliest(S) \in S /\ \A j \in S : Earliest(S) <= j
<1>1. S \subseteq Nat
  BY Numbers
<1>2. PICK a \in S : \A b \in S : a <= b
  BY <1>1, LeastElement
<1>3. QED
  BY <1>2 DEF Earliest

LEMMA Verdicts ==
  ASSUME IInv
  PROVE  /\ verdict \in [Item -> {"no", "unknown", "yes"}]
         /\ standing \in [Item -> Standing] /\ footprint \in [Item -> SUBSET Cell]
         /\ \A i \in Item : i \in Nat /\ 1 <= i /\ i <= Len(Track)
         /\ FirstPost \in Nat
BY Numbers DEF IInv, TypeOK

\* Once the catalogue is read, what was available is what the loop found available.
LEMMA AvailableIs ==
  ASSUME IInv, Progress, pc \notin {"catalogue", "raised"}
  PROVE  /\ Available = {i \in Item : verdict[i] = "yes"}
         /\ \A i \in Item : verdict[i] = "yes" => Admitted(i) # "no"
<1>1. \A i \in Item : \/ verdict[i] = Admitted(i)
                      \/ standing[i] = "headers" /\ verdict[i] \in {"yes", "no"}
  BY DEF Progress, Judged
<1>2. \A i \in Item : standing[i] \in {"open", "headers", "late"}
  BY Verdicts DEF Standing
<1>3. QED
  BY <1>1, <1>2 DEF Available, Admitted

\* A pair of a track, as PairsOf makes it of a product.
IsTrackPair(c) ==
  /\ c.post \in Item /\ FirstPost <= c.post /\ c.post \in Available
  /\ c.pre \in Comparable(c.post) \cap Available
  /\ c = [pre |-> c.pre, post |-> c.post]

LEMMA PairsOfTrack ==
  ASSUME NEW k, NEW c
  PROVE  c \in UNION {PairsOf(p) : p \in {i \in Available : i >= FirstPost /\ Track[i] = k}}
           <=> IsTrackPair(c) /\ Track[c.post] = k
<1>1. Available \subseteq Item
  BY DEF Available
<1>2. \A i \in Item : i \in Nat
  BY Numbers
<1>3. FirstPost \in Nat
  BY Numbers
<1>4. ASSUME c \in UNION {PairsOf(p) : p \in {i \in Available : i >= FirstPost /\ Track[i] = k}}
      PROVE  IsTrackPair(c) /\ Track[c.post] = k
  <2>1. PICK p \in Available : p >= FirstPost /\ Track[p] = k /\ c \in PairsOf(p)
    BY <1>4
  <2>2. PICK q \in Comparable(p) \cap Available : c = [pre |-> q, post |-> p]
    BY <2>1 DEF PairsOf
  <2>3. QED
    BY <1>1, <1>2, <1>3, <2>1, <2>2 DEF IsTrackPair
<1>5. ASSUME IsTrackPair(c), Track[c.post] = k
      PROVE  c \in UNION {PairsOf(p) : p \in {i \in Available : i >= FirstPost /\ Track[i] = k}}
  <2>1. c \in PairsOf(c.post)
    BY <1>5 DEF PairsOf, IsTrackPair
  <2>2. c.post \in {i \in Available : i >= FirstPost /\ Track[i] = k}
    BY <1>2, <1>3, <1>5 DEF IsTrackPair
  <2>3. QED
    BY <2>1, <2>2
<1>6. QED
  BY <1>4, <1>5

\* What the definition says of a pair, without the sets it is made of.
LEMMA TrackPairsAre ==
  ASSUME NEW c
  PROVE  c \in TrackPairs <=>
           /\ IsTrackPair(c)
           /\ \A d : IsTrackPair(d) /\ Track[d.post] = Track[c.post] =>
                d.post < c.post \/ (d.post = c.post /\ d.pre <= c.pre)
<1> DEFINE All(k) == UNION {PairsOf(p) : p \in {i \in Available : i >= FirstPost /\ Track[i] = k}}
<1>1. \A k, d : d \in All(k) <=> IsTrackPair(d) /\ Track[d.post] = k
  BY PairsOfTrack
<1>2. \A k : TrackPair(k) =
        {d \in All(k) : \A e \in All(k) : e.post < d.post \/ (e.post = d.post /\ e.pre <= d.pre)}
  BY DEF TrackPair
<1> HIDE DEF All
<1>3. c \in TrackPairs <=> \E i \in Item : c \in TrackPair(Track[i])
  BY DEF TrackPairs
<1>4. IsTrackPair(c) => c.post \in Item
  BY DEF IsTrackPair
<1>5. QED
  BY <1>1, <1>2, <1>3, <1>4

\* A pair the loop keeps is the one its track has by definition.
LEMMA BestIsDefined ==
  ASSUME IInv, Progress, pc \notin {"catalogue", "raised"}, Pairing,
         NEW c \in Pairs, IsPair(c), Best(c)
  PROVE  c \in TrackPairs
<1>1. /\ Available = {i \in Item : verdict[i] = "yes"}
      /\ \A i \in Item : verdict[i] = "yes" => Admitted(i) # "no"
  BY AvailableIs
<1>2. IsTrackPair(c)
  BY <1>1, Numbers DEF IsTrackPair, Best, IsPair, Open, Pairs
<1>3. ASSUME NEW d, IsTrackPair(d), Track[d.post] = Track[c.post]
      PROVE  d.post < c.post \/ (d.post = c.post /\ d.pre <= c.pre)
  <2>1. d.post \in Item /\ d.pre \in Open(d.post) /\ verdict[d.post] = "yes"
    BY <1>1, <1>3 DEF IsTrackPair, Open
  <2>2. ~ (c.post < d.post)
    BY <1>1, <1>3, <2>1 DEF Best, Unpaired
  <2>3. CASE d.post = c.post
    BY <2>1, <2>3 DEF Best
  <2>4. CASE d.post # c.post
    BY <2>1, <2>2, <2>4, Numbers, Verdicts DEF IsPair
  <2>5. QED
    BY <2>3, <2>4
<1>4. QED
  BY <1>2, <1>3, TrackPairsAre

\* No track has two pairs by definition.
LEMMA OnePairOfTrack ==
  ASSUME NEW c \in TrackPairs, NEW d \in TrackPairs, Track[c.post] = Track[d.post]
  PROVE  c = d
<1>1. IsTrackPair(c) /\ IsTrackPair(d)
  BY TrackPairsAre
<1>2. /\ d.post < c.post \/ (d.post = c.post /\ d.pre <= c.pre)
      /\ c.post < d.post \/ (c.post = d.post /\ c.pre <= d.pre)
  BY <1>1, TrackPairsAre
<1>3. /\ c.post \in Nat /\ d.post \in Nat /\ c.pre \in Nat /\ d.pre \in Nat
  <2>1. \A i \in Item : i \in Nat
    BY Numbers
  <2>2. \A i \in 1..(FirstPost - 1) : i \in Nat
    OBVIOUS
  <2>3. QED
    BY <1>1, <2>1, <2>2 DEF IsTrackPair, Comparable
<1>4. c.post = d.post /\ c.pre = d.pre
  BY <1>2, <1>3
<1>5. QED
  BY <1>1, <1>4 DEF IsTrackPair

-------------------------------------------------------------------------------
(* What the loops have found when nothing is left to visit.                *)

LEMMA CandidatesArePairs ==
  ASSUME IInv
  PROVE  \A c \in Chosen(candidates) : c \in Pairs /\ IsPair(c)
<1>1. \A n \in DOMAIN candidates : candidates[n] \in Pairs
  BY Sequences, ElementOfSeq
<1>2. QED
  BY <1>1 DEF IInv, Selected, Chosen

\* All pairs there are, but for Sentinel-1 those before a full list.
LEMMA PairsFound ==
  ASSUME IInv, Progress, pc = "select", Pairing, left = {}
  PROVE  /\ Chosen(candidates) \subseteq TrackPairs
         /\ \A c \in TrackPairs \ Chosen(candidates) :
              /\ source = "sentinel1" /\ Len(candidates) = MaxPairs
              /\ \A d \in Chosen(candidates) : c.post < d.post
<1>1. Pairwise
  BY DEF Progress
<1>2. Chosen(candidates) \subseteq TrackPairs
  BY <1>1, CandidatesArePairs, BestIsDefined DEF Pairwise
<1>3. ASSUME NEW c \in TrackPairs, c \notin Chosen(candidates)
      PROVE  /\ source = "sentinel1" /\ Len(candidates) = MaxPairs
             /\ \A d \in Chosen(candidates) : c.post < d.post
  <2>1. IsTrackPair(c)
    BY TrackPairsAre
  <2>2. verdict[c.post] = "yes" /\ c.pre \in Open(c.post) /\ Visited(c.post)
    BY <2>1, AvailableIs DEF IsTrackPair, Open, Visited
  <2>3. ~ Unpaired(c.post)
    BY <2>2 DEF Unpaired
  <2>4. Track[c.post] \notin Used(candidates)
    <3>1. \A d \in Chosen(candidates) : Track[d.post] # Track[c.post]
      BY <1>2, <1>3, OnePairOfTrack
    <3>2. QED
      BY <3>1 DEF Used
  <2>5. Full /\ \A d \in Chosen(candidates) : c.post < d.post
    BY <1>1, <2>1, <2>2, <2>3, <2>4 DEF Pairwise, IsTrackPair
  <2>6. QED
    BY <2>5 DEF Full
<1>4. QED
  BY <1>2, <1>3

\* The first version of every granule.
LEMMA VersionsFound ==
  ASSUME IInv, Progress, pc = "select", ~Pairing, left = {}
  PROVE  Chosen(candidates) = FirstVersions
<1>1. Versionwise
  BY DEF Progress
<1>2. \A i \in Item : i \in Available <=> Admitted(i) # "no"
  <2>1. \A i \in Item : standing[i] \in {"open", "late"}
    BY Verdicts DEF Progress, Standing, Pairing
  <2>2. QED
    BY <2>1 DEF Available, Admitted
<1>3. Available \subseteq Item /\ \A i \in Item : i \in Nat
  BY Numbers DEF Available
<1>4. ASSUME NEW c \in Chosen(candidates) PROVE c \in FirstVersions
  <2>1. c \in Pairs /\ c.post \in Item /\ c.pre = 0 /\ Oldest(c)
    BY <1>1, CandidatesArePairs DEF Versionwise, IsPair
  <2>2. c = [pre |-> 0, post |-> c.post]
    BY <2>1 DEF Pairs
  <2>3. c.post \in {j \in Available : \A h \in Available : Track[h] = Track[j] => j <= h}
    BY <1>2, <1>3, <2>1 DEF Oldest
  <2>4. QED
    BY <2>2, <2>3 DEF FirstVersions
<1>5. ASSUME NEW c \in FirstVersions PROVE c \in Chosen(candidates)
  <2>1. PICK j \in Available : /\ c = [pre |-> 0, post |-> j]
                               /\ \A h \in Available : Track[h] = Track[j] => j <= h
    BY DEF FirstVersions
  <2>2. Visited(j) /\ j \in Item
    BY <1>2, <1>3 DEF Visited
  <2>3. PICK d \in Chosen(candidates) : Track[d.post] = Track[j]
    BY <1>1, <2>2 DEF Versionwise, Used
  <2>4. d \in Pairs /\ d.post \in Item /\ d.pre = 0 /\ Oldest(d)
    BY <1>1, CandidatesArePairs DEF Versionwise, IsPair
  <2>5. d.post \in Available /\ d.post <= j
    BY <1>2, <2>2, <2>3, <2>4 DEF Oldest
  <2>6. d.post = j
    BY <1>3, <2>1, <2>3, <2>5
  <2>7. d = c
    BY <2>1, <2>4, <2>6 DEF Pairs
  <2>8. QED
    BY <2>7
<1>6. QED
  BY <1>4, <1>5

-------------------------------------------------------------------------------
(* The steps of the loops.                                                 *)

\* While verdicts only become known, what is settled stays so.
LEMMA Narrowing ==
  ASSUME UNCHANGED <<source, footprint, standing>>,
         \A i \in Item : verdict[i] \in {"yes", "no"} => verdict'[i] = verdict[i]
  PROVE  /\ \A p : Comparable(p)' = Comparable(p)
         /\ \A p : Open(p)' \subseteq Open(p)
         /\ \A p \in Item : Unpaired(p) => Unpaired(p)'
         /\ \A c \in Pairs : c.pre \in Item /\ Best(c) => Best(c)'
         /\ \A i : Admitted(i)' = Admitted(i)
         /\ \A c : Oldest(c)' <=> Oldest(c)
<1>1. \A p : Comparable(p)' = Comparable(p)
  BY DEF Comparable
<1>2. ASSUME NEW p PROVE Open(p)' \subseteq Open(p)
  <2>1. ASSUME NEW q \in Comparable(p), verdict'[q] # "no" PROVE verdict[q] # "no"
    <3>1. q \in Item
      <4>1. q \in 1..(FirstPost - 1)
        BY DEF Comparable
      <4>2. QED
        BY <4>1, Numbers
    <3>2. QED
      BY <2>1, <3>1
  <2>2. QED
    BY <1>1, <2>1 DEF Open
<1>3. \A p \in Item : Unpaired(p) => Unpaired(p)'
  BY <1>2 DEF Unpaired
<1>4. \A i : Admitted(i)' = Admitted(i)
  BY DEF Admitted
<1>5. ASSUME NEW c \in Pairs, c.pre \in Item, Best(c) PROVE Best(c)'
  <2>1. verdict'[c.post] = "yes" /\ verdict'[c.pre] = "yes"
    BY <1>5 DEF Best, Pairs
  <2>2. c.pre \in Open(c.post)'
    BY <1>1, <1>5, <2>1 DEF Best, Open
  <2>3. \A q \in Open(c.post)' : q <= c.pre
    BY <1>2, <1>5 DEF Best
  <2>4. \A p \in Item : c.post < p /\ Track[p] = Track[c.post] /\ Admitted(p)' # "no" => Unpaired(p)'
    BY <1>3, <1>4, <1>5 DEF Best
  <2>5. QED
    BY <2>1, <2>2, <2>3, <2>4 DEF Best
<1>6. \A c : Oldest(c)' <=> Oldest(c)
  BY <1>4 DEF Oldest
<1>7. QED
  BY <1>1, <1>2, <1>3, <1>4, <1>5, <1>6

LEMMA InitProgress == ASSUME Init PROVE Progress
<1>1. \A i \in Item : 0 < i
  BY Numbers
<1>2. Judged
  <2>1. \A i \in Item : ~ (i <= 0)
    BY Numbers
  <2>2. QED
    BY <2>1 DEF Init, Judged
<1>3. QED
  BY <1>2 DEF Init, Progress

LEMMA ReadPageProgress ==
  ASSUME IInv, Progress, ReadPage
  PROVE  Progress'
<1>1. /\ pc = "catalogue" /\ candidates = <<>>
      /\ UNCHANGED <<source, footprint, standing, candidates, chosen>>
      /\ listed \in 0..Len(Track) /\ listed' \in listed..Len(Track)
      /\ verdict' = [i \in Item |-> IF i \in (listed + 1)..listed' THEN Admitted(i) ELSE verdict[i]]
  BY DEF ReadPage, IInv, TypeOK, Selected
<1>2. /\ pc' \in {"catalogue", "select", "raised"}
      /\ pc' = "select" => listed' = Len(Track)
      /\ left' = IF pc' # "select" THEN {}
                 ELSE {i \in Item : verdict'[i] # "no" /\ (Pairing => i >= FirstPost)}
  BY DEF ReadPage, LastPage
<1>3. \A i : Admitted(i)' = Admitted(i)
  BY <1>1 DEF Admitted
<1>4. ASSUME NEW i \in Item PROVE verdict'[i] = IF i <= listed' THEN Admitted(i) ELSE "no"
  <2>1. verdict[i] = IF i <= listed THEN Admitted(i) ELSE "no"
    BY <1>1 DEF Progress, Judged
  <2>2. i \in Nat /\ 1 <= i /\ i <= Len(Track) /\ listed \in Nat /\ listed' \in Nat /\ listed <= listed'
    BY <1>1, Numbers
  <2>3. i \in (listed + 1)..listed' <=> listed < i /\ i <= listed'
    BY <2>2
  <2>4. QED
    BY <1>1, <2>1, <2>2, <2>3
<1>5. Judged'
  <2>1. CASE pc' = "catalogue"
    BY <1>3, <1>4, <2>1 DEF Judged
  <2>2. CASE pc' = "select"
    <3>1. \A i \in Item : i <= listed'
      BY <1>2, <2>2, Numbers
    <3>2. \A i \in Item : verdict'[i] = Admitted(i)'
      BY <1>3, <1>4, <3>1
    <3>3. QED
      BY <2>2, <3>2 DEF Judged
  <2>3. CASE pc' = "raised"
    BY <2>3 DEF Judged
  <2>4. QED
    BY <1>2, <2>1, <2>2, <2>3
<1>6. ASSUME pc' = "select" PROVE IF Pairing' THEN Pairwise' ELSE Versionwise'
  <2>1. \A i \in Item : verdict'[i] = Admitted(i)'
    <3>1. \A i \in Item : i <= listed'
      BY <1>2, <1>6, Numbers
    <3>2. QED
      BY <1>3, <1>4, <3>1
  <2>2. left' = {i \in Item : verdict'[i] # "no" /\ (Pairing => i >= FirstPost)} /\ (Pairing' <=> Pairing)
    BY <1>1, <1>2, <1>6 DEF Pairing
  <2>3. \A i : ~ Visited(i)'
    BY <2>1, <2>2, Verdicts DEF Visited
  <2>4. Chosen(candidates)' = {}
    BY <1>1 DEF Chosen
  <2>5. \A i \in left' : Admitted(i)' # "no"
    BY <2>1, <2>2
  <2>6. QED
    BY <2>3, <2>4, <2>5 DEF Pairwise, Versionwise
<1>7. QED
  BY <1>1, <1>2, <1>5, <1>6 DEF Progress

LEMMA CatalogueRaisesProgress ==
  ASSUME Progress, CatalogueRaises
  PROVE  Progress'
BY DEF CatalogueRaises, Progress, Judged, catalogue

LEMMA CheckHeadersProgress ==
  ASSUME IInv, Progress, NEW p \in Item, CheckHeaders(p)
  PROVE  Progress'
<1>1. /\ pc = "select" /\ pc' = pc /\ Pairing /\ left # {} /\ p \in left
      /\ verdict[Wanted(p)] = "unknown"
      /\ UNCHANGED <<source, footprint, standing, left, candidates, chosen>>
  BY VisitingIn DEF CheckHeaders, catalogue
<1>2. PICK answer \in {"yes", "no"} : verdict' = [verdict EXCEPT ![Wanted(p)] = answer]
  BY DEF CheckHeaders
<1>3. \A i \in Item : verdict'[i] = IF i = Wanted(p) THEN answer ELSE verdict[i]
  BY <1>2, Verdicts
<1>4. \A i \in Item : verdict[i] \in {"yes", "no"} => verdict'[i] = verdict[i]
  BY <1>1, <1>3
<1>5. Judged'
  <2>1. \A i \in Item : \/ verdict[i] = Admitted(i)
                        \/ standing[i] = "headers" /\ verdict[i] \in {"yes", "no"}
    BY <1>1 DEF Progress, Judged
  <2>2. \A i \in Item : Admitted(i) = "unknown" => standing[i] = "headers"
    BY DEF Admitted
  <2>3. \A i \in Item : \/ verdict'[i] = Admitted(i)
                        \/ standing[i] = "headers" /\ verdict'[i] \in {"yes", "no"}
    BY <1>1, <1>3, <2>1, <2>2
  <2>4. \A i : Admitted(i)' = Admitted(i)
    BY <1>1 DEF Admitted
  <2>5. QED
    BY <1>1, <2>3, <2>4 DEF Judged
<1>6. Pairwise'
  <2>1. Pairwise
    BY <1>1 DEF Progress
  <2>2. \A i : Visited(i)' <=> Visited(i)
    BY <1>1 DEF Visited, Admitted, Pairing
  <2>3. \A i \in left' : Admitted(i)' # "no" /\ \A q \in Item : Visited(q)' => i < q
    BY <1>1, <1>4, <2>1, <2>2, Narrowing DEF Pairwise
  <2>4. Chosen(candidates)' = Chosen(candidates) /\ Used(candidates)' = Used(candidates)
    BY <1>1 DEF Chosen, Used
  <2>5. \A c \in Chosen(candidates) : c.post \notin left' /\ Best(c)'
    <3>1. \A c \in Chosen(candidates) : c \in Pairs /\ c.pre \in Item
      BY <1>1, CandidatesArePairs DEF IsPair
    <3>2. QED
      BY <1>1, <1>4, <2>1, <3>1, Narrowing DEF Pairwise
  <2>6. \A q \in Item : Visited(q)' => Track[q] \in Used(candidates) \/ Unpaired(q)'
    BY <1>1, <1>4, <2>1, <2>2, Narrowing DEF Pairwise, Full
  <2>7. QED
    BY <2>3, <2>4, <2>5, <2>6 DEF Pairwise
<1>7. QED
  BY <1>1, <1>5, <1>6 DEF Progress, Pairing

LEMMA SkipPostProgress ==
  ASSUME IInv, Progress, NEW p \in Item, SkipPost(p)
  PROVE  Progress'
<1>1. /\ pc = "select" /\ pc' = pc /\ Pairing /\ left # {} /\ p \in left /\ p = Latest(left)
      /\ Track[p] \in Used(candidates) \/ Unpaired(p)
      /\ left' = left \ {p}
      /\ UNCHANGED <<source, footprint, standing, listed, verdict, candidates, chosen>>
  BY VisitingIn DEF SkipPost, Visiting, catalogue, Unpaired
<1>2. \A i \in left : i <= p /\ i \in Nat
  BY <1>1, LatestLast, Verdicts DEF IInv, TypeOK
<1>3. Pairwise
  BY <1>1 DEF Progress
<1>4. \A i : Visited(i)' => Visited(i) \/ i = p
  BY <1>1 DEF Visited, Admitted, Pairing
<1>5. /\ \A q : Admitted(q)' = Admitted(q)
      /\ \A q \in Item : Unpaired(q) => Unpaired(q)'
      /\ \A c \in Pairs : c.pre \in Item /\ Best(c) => Best(c)'
  BY <1>1, Narrowing
<1>6. \A i \in left' : Admitted(i)' # "no" /\ \A q \in Item : Visited(q)' => i < q
  <2>1. \A i \in left' : i < p
    BY <1>1, <1>2, Verdicts
  <2>2. QED
    BY <1>1, <1>3, <1>4, <1>5, <2>1 DEF Pairwise
<1>7. Chosen(candidates)' = Chosen(candidates) /\ Used(candidates)' = Used(candidates)
  BY <1>1 DEF Chosen, Used
<1>8. \A c \in Chosen(candidates) : c.post \notin left' /\ Best(c)'
  <2>1. \A c \in Chosen(candidates) : c \in Pairs /\ c.pre \in Item
    BY <1>1, CandidatesArePairs DEF IsPair
  <2>2. QED
    BY <1>1, <1>3, <1>5, <2>1 DEF Pairwise
<1>9. \A q \in Item : Visited(q)' => Track[q] \in Used(candidates) \/ Unpaired(q)'
  BY <1>1, <1>3, <1>4, <1>5 DEF Pairwise, Full
<1>10. Pairwise'
  BY <1>6, <1>7, <1>8, <1>9 DEF Pairwise
<1>11. QED
  BY <1>1, <1>5, <1>10 DEF Progress, Judged, Pairing

\* A new pair is the best of its track: later products of the track were passed over.
LEMMA PairPostProgress ==
  ASSUME IInv, Progress, NEW p \in Item, PairPost(p)
  PROVE  Progress'
<1>1. PICK c : c = [pre |-> Latest(Open(p)), post |-> p]
  OBVIOUS
<1>2. /\ pc = "select" /\ pc' = pc /\ Pairing /\ left # {} /\ p \in left /\ p = Latest(left)
      /\ Track[p] \notin Used(candidates)
      /\ verdict[p] = "yes" /\ Open(p) # {} /\ verdict[Latest(Open(p))] = "yes"
      /\ candidates' = Append(candidates, c)
      /\ left' = IF source = "sentinel1" /\ Len(candidates') = MaxPairs THEN {} ELSE left \ {p}
      /\ UNCHANGED <<source, footprint, standing, listed, verdict, chosen>>
  BY <1>1, VisitingIn DEF PairPost, Visiting, catalogue
<1>3. \A i \in left : i <= p /\ i \in Nat
  BY <1>2, LatestLast, Verdicts DEF IInv, TypeOK
<1>4. Pairwise
  BY <1>2 DEF Progress
<1>5. Open(p) \subseteq Item
  <2>1. \A q \in 1..(FirstPost - 1) : q \in Item
    BY Numbers
  <2>2. QED
    BY <2>1 DEF Open, Comparable
<1>6. c.post = p /\ c.pre \in Open(p) /\ (\A q \in Open(p) : q <= c.pre) /\ c.pre \in Item /\ c \in Pairs
  BY <1>1, <1>2, <1>5, LatestLast DEF Pairs
<1>7. Best(c)
  <2>1. ASSUME NEW q \in Item, p < q, Track[q] = Track[p], Admitted(q) # "no" PROVE Unpaired(q)
    <3>1. q \notin left
      BY <1>3, <2>1, Verdicts
    <3>2. FirstPost <= q
      <4>1. FirstPost <= p
        BY <1>2 DEF IInv, Selected
      <4>2. QED
        BY <2>1, <4>1, Verdicts
    <3>3. Visited(q)
      BY <2>1, <3>1, <3>2 DEF Visited
    <3>4. QED
      BY <1>2, <1>4, <2>1, <3>3 DEF Pairwise, Full
  <2>2. QED
    BY <1>1, <1>2, <1>6, <2>1 DEF Best
<1>8. Chosen(candidates)' = Chosen(candidates) \cup {c}
  <2>1. Chosen(Append(candidates, c)) = Chosen(candidates) \cup {c}
    BY <1>6, ChosenAppended, Sequences
  <2>2. Chosen(candidates)' = Chosen(Append(candidates, c))
    BY <1>2 DEF Chosen
  <2>3. QED
    BY <2>1, <2>2
<1>9. Used(candidates)' = Used(candidates) \cup {Track[p]}
  <2>1. Used(candidates)' = {Track[d.post] : d \in Chosen(candidates) \cup {c}}
    BY <1>8 DEF Used
  <2>2. QED
    BY <1>6, <2>1 DEF Used
<1>10. /\ \A q : Admitted(q)' = Admitted(q)
       /\ \A q \in Item : Unpaired(q) => Unpaired(q)'
       /\ \A d \in Pairs : d.pre \in Item /\ Best(d) => Best(d)'
  BY <1>2, Narrowing
<1>11. \A i : Visited(i)' => Visited(i) \/ i = p \/ (left' = {} /\ i \in left /\ i # p)
  BY <1>2 DEF Visited, Admitted, Pairing
<1>12. \A i \in left' : Admitted(i)' # "no" /\ \A q \in Item : Visited(q)' => i < q
  <2>1. \A i \in left' : i \in left /\ i < p
    BY <1>2, <1>3, Verdicts
  <2>2. QED
    BY <1>4, <1>10, <1>11, <2>1 DEF Pairwise
<1>13. \A d \in Chosen(candidates) \cup {c} : d.post \notin left' /\ Best(d)'
  <2>1. \A d \in Chosen(candidates) : d \in Pairs /\ d.pre \in Item
    BY <1>2, CandidatesArePairs DEF IsPair
  <2>2. QED
    BY <1>2, <1>4, <1>6, <1>7, <1>10, <2>1 DEF Pairwise
<1>14. ASSUME NEW q \in Item, Visited(q)'
       PROVE  \/ Track[q] \in Used(candidates)' \/ Unpaired(q)'
              \/ Full' /\ \A d \in Chosen(candidates)' : q < d.post
  <2>1. CASE Visited(q)
    <3>1. Track[q] \in Used(candidates) \/ Unpaired(q)
      BY <1>2, <1>4, <2>1 DEF Pairwise, Full
    <3>2. QED
      BY <1>9, <1>10, <3>1
  <2>2. CASE q = p
    BY <1>9, <2>2
  <2>3. CASE left' = {} /\ q \in left /\ q # p
    <3>1. q < p
      BY <1>3, <2>3, Verdicts
    <3>2. ASSUME NEW d \in Chosen(candidates) PROVE q < d.post
      <4>1. d.post \in Item /\ d.post \notin left /\ verdict[d.post] = "yes" /\ FirstPost <= d.post
        BY <1>2, <1>4, CandidatesArePairs DEF Pairwise, Best, IsPair
      <4>2. Visited(d.post)
        BY <1>2, <4>1, AvailableIs DEF Visited
      <4>3. QED
        BY <1>4, <2>3, <4>1, <4>2 DEF Pairwise
    <3>3. CASE source = "sentinel1" /\ Len(candidates') = MaxPairs
      BY <1>2, <1>6, <1>8, <2>3, <3>1, <3>2, <3>3 DEF Full
    <3>4. CASE ~(source = "sentinel1" /\ Len(candidates') = MaxPairs)
      BY <1>2, <2>3, <3>4
    <3>5. QED
      BY <3>3, <3>4
  <2>4. QED
    BY <1>11, <1>14, <2>1, <2>2, <2>3
<1>15. Pairwise'
  BY <1>8, <1>12, <1>13, <1>14 DEF Pairwise
<1>16. QED
  BY <1>2, <1>10, <1>15 DEF Progress, Judged, Pairing

LEMMA KeepFirstProgress ==
  ASSUME IInv, Progress, KeepFirst
  PROVE  Progress'
<1>1. PICK i : i = Earliest(left)
  OBVIOUS
<1>2. /\ pc = "select" /\ pc' = pc /\ ~Pairing /\ left # {} /\ left' = left \ {i}
      /\ candidates' = IF Track[i] \in Used(candidates) THEN candidates
                       ELSE Append(candidates, [pre |-> 0, post |-> i])
      /\ UNCHANGED <<source, footprint, standing, listed, verdict, chosen>>
  BY <1>1 DEF KeepFirst, catalogue
<1>3. i \in left /\ i \in Item /\ \A j \in left : i <= j /\ j \in Item
  BY <1>1, <1>2, EarliestFirst DEF IInv, TypeOK
<1>4. Versionwise
  BY <1>2 DEF Progress
<1>5. PICK c : c = [pre |-> 0, post |-> i]
  OBVIOUS
<1>6. c \in Pairs /\ c.post = i
  BY <1>3, <1>5 DEF Pairs
<1>7. (\A q : Admitted(q)' = Admitted(q)) /\ \A d : Oldest(d)' <=> Oldest(d)
  BY <1>2 DEF Admitted, Oldest
<1>8. \A q : Visited(q)' => Visited(q) \/ q = i
  BY <1>2 DEF Visited, Admitted, Pairing
<1>9. \A k \in left' : Admitted(k)' # "no" /\ \A q \in Item : Visited(q)' => q < k
  <2>1. \A k \in left' : k \in left /\ i < k
    BY <1>2, <1>3, Verdicts
  <2>2. QED
    BY <1>4, <1>7, <1>8, <2>1 DEF Versionwise
<1>10. CASE Track[i] \in Used(candidates)
  <2>1. Chosen(candidates)' = Chosen(candidates) /\ Used(candidates)' = Used(candidates)
    BY <1>2, <1>10 DEF Chosen, Used
  <2>2. Versionwise'
    BY <1>2, <1>4, <1>7, <1>8, <1>9, <1>10, <2>1 DEF Versionwise
  <2>3. QED
    BY <1>2, <1>7, <2>2 DEF Progress, Judged, Pairing
<1>11. CASE Track[i] \notin Used(candidates)
  <2>1. Chosen(candidates)' = Chosen(candidates) \cup {c}
    <3>1. Chosen(Append(candidates, c)) = Chosen(candidates) \cup {c}
      BY <1>6, ChosenAppended, Sequences
    <3>2. Chosen(candidates)' = Chosen(Append(candidates, c))
      BY <1>2, <1>5, <1>11 DEF Chosen
    <3>3. QED
      BY <3>1, <3>2
  <2>2. Used(candidates)' = Used(candidates) \cup {Track[i]}
    <3>1. Used(candidates)' = {Track[d.post] : d \in Chosen(candidates) \cup {c}}
      BY <2>1 DEF Used
    <3>2. QED
      BY <1>6, <3>1 DEF Used
  <2>3. Oldest(c)
    <3>1. ASSUME NEW h \in Item, Admitted(h) # "no", Track[h] = Track[i] PROVE i <= h
      <4>1. CASE h \in left
        BY <1>3, <4>1
      <4>2. CASE h \notin left
        <5>1. Visited(h)
          BY <1>2, <3>1, <4>2 DEF Visited
        <5>2. QED
          BY <1>4, <1>11, <3>1, <5>1 DEF Versionwise
      <4>3. QED
        BY <4>1, <4>2
    <3>2. Admitted(i) # "no"
      BY <1>3, <1>4 DEF Versionwise
    <3>3. QED
      BY <1>6, <3>1, <3>2 DEF Oldest
  <2>4. Versionwise'
    BY <1>2, <1>4, <1>6, <1>7, <1>8, <1>9, <2>1, <2>2, <2>3 DEF Versionwise
  <2>5. QED
    BY <1>2, <1>7, <2>4 DEF Progress, Judged, Pairing
<1>12. QED
  BY <1>10, <1>11

-------------------------------------------------------------------------------
(* The end of the selection, and the reading.                              *)

\* What the definition says depends on the catalogue and the verdicts only.
LEMMA DefinedKept ==
  ASSUME UNCHANGED <<source, footprint, standing, verdict>>
  PROVE  /\ TrackPairs' = TrackPairs
         /\ FirstVersions' = FirstVersions
         /\ \A s : Chosen(s)' = Chosen(s)
         /\ \A c : PairFootprint(c)' = PairFootprint(c)
         /\ \A s : Covered(s)' = Covered(s)
         /\ \A s : Adds(s)' <=> Adds(s)
         /\ \A s : Defined(s)' <=> Defined(s)
<1>1. Available' = Available /\ \A p : Comparable(p)' = Comparable(p)
  BY DEF Available, Comparable
<1>2. \A p : PairsOf(p)' = PairsOf(p)
  BY <1>1 DEF PairsOf
<1>3. \A k : TrackPair(k)' = TrackPair(k)
  BY <1>1, <1>2 DEF TrackPair
<1>4. TrackPairs' = TrackPairs
  BY <1>3 DEF TrackPairs
<1>5. FirstVersions' = FirstVersions
  BY <1>1 DEF FirstVersions
<1>6. (\A s : Chosen(s)' = Chosen(s)) /\ \A c : PairFootprint(c)' = PairFootprint(c)
  BY DEF Chosen, PairFootprint
<1>7. \A s : Covered(s)' = Covered(s)
  BY <1>6 DEF Covered
<1>8. \A s : Adds(s)' <=> Adds(s)
  BY <1>6, <1>7 DEF Adds
<1>9. \A s : Defined(s)' <=> Defined(s)
  BY <1>4, <1>5, <1>6, <1>7, <1>8 DEF Defined, Pairing
<1>10. QED
  BY <1>4, <1>5, <1>6, <1>7, <1>8, <1>9

LEMMA EndSelectionProgress ==
  ASSUME IInv, Progress, EndSelection
  PROVE  Progress'
<1>1. /\ pc = "select" /\ left = {} /\ pc' = IF source = "sentinel2" THEN "complement" ELSE "read"
      /\ chosen' = IF source = "sentinel2" THEN <<>> ELSE candidates
      /\ UNCHANGED <<source, footprint, standing, listed, verdict, left, candidates>>
      /\ source \in Sources
  BY DEF EndSelection, catalogue, IInv, Selected
<1>2. /\ \A i \in Item : \/ verdict[i] = Admitted(i)
                         \/ standing[i] = "headers" /\ verdict[i] \in {"yes", "no"}
      /\ \A i : Admitted(i)' = Admitted(i)
  BY <1>1 DEF Progress, Judged, Admitted
<1>3. Judged'
  BY <1>1, <1>2 DEF Judged
<1>4. CASE source = "sentinel2"
  <2>1. Chosen(candidates) = TrackPairs
    BY <1>1, <1>4, PairsFound DEF Pairing
  <2>2. Chosen(candidates)' = TrackPairs'
    <3>1. Chosen(candidates)' = Chosen(candidates)
      BY <1>1 DEF Chosen
    <3>2. QED
      BY <1>1, <2>1, <3>1, DefinedKept
  <2>3. Adds(chosen)'
    <3>1. DOMAIN chosen' = {}
      BY <1>1, <1>4
    <3>2. QED
      BY <3>1 DEF Adds
  <2>4. QED
    BY <1>1, <1>3, <1>4, <2>2, <2>3 DEF Progress
<1>5. CASE source # "sentinel2"
  <2>1. Defined(candidates)
    BY <1>1, <1>5, PairsFound, VersionsFound DEF Defined, Pairing
  <2>2. PICK s : s = candidates
    OBVIOUS
  <2>3. Defined(s)'
    BY <1>1, <2>1, <2>2, DefinedKept
  <2>4. Defined(chosen)'
    BY <1>1, <1>5, <2>2, <2>3
  <2>5. \A i \in Item : standing[i] # "headers"
    BY <1>5 DEF Progress
  <2>6. QED
    BY <1>1, <1>3, <1>5, <2>4, <2>5 DEF Progress
<1>6. QED
  BY <1>4, <1>5

\* What the pairs of a list but its last have covered is what its front has.
LEMMA CoveredBefore ==
  ASSUME NEW s \in Seq(Pairs), NEW c \in Pairs, NEW t \in Seq(Pairs), Len(t) = Len(s) + 1,
         \A i \in DOMAIN s : t[i] = s[i], t[Len(s) + 1] = c
  PROVE  /\ \A n \in DOMAIN s : Covered(SubSeq(t, 1, n - 1)) = Covered(SubSeq(s, 1, n - 1))
         /\ \A n \in DOMAIN t \ DOMAIN s : Covered(SubSeq(t, 1, n - 1)) = Covered(s) /\ t[n] = c
<1>1. /\ t \in Seq(Pairs) /\ Len(t) = Len(s) + 1 /\ Len(s) \in Nat
      /\ DOMAIN s = 1..Len(s) /\ DOMAIN t = 1..(Len(s) + 1)
      /\ \A i \in DOMAIN s : t[i] = s[i]
      /\ t[Len(s) + 1] = c
  BY LenProperties
<1>2. ASSUME NEW n \in DOMAIN t
      PROVE  /\ n \in DOMAIN s => Covered(SubSeq(t, 1, n - 1)) = Covered(SubSeq(s, 1, n - 1))
             /\ n \notin DOMAIN s => Covered(SubSeq(t, 1, n - 1)) = Covered(s) /\ t[n] = c
  <2>1. n \in Nat /\ n - 1 \in 0..Len(s)
    BY <1>1
  <2>2. ASSUME NEW u \in Seq(Pairs), n - 1 <= Len(u), DOMAIN u = 1..Len(u)
        PROVE  Chosen(SubSeq(u, 1, n - 1)) = {u[i] : i \in 1..(n - 1)}
    <3>1. /\ Len(SubSeq(u, 1, n - 1)) = n - 1 /\ DOMAIN SubSeq(u, 1, n - 1) = 1..(n - 1)
          /\ \A i \in 1..(n - 1) : SubSeq(u, 1, n - 1)[i] = u[i]
      BY <2>1, <2>2
    <3>2. QED
      BY <3>1 DEF Chosen
  <2>3. Chosen(SubSeq(t, 1, n - 1)) = {s[i] : i \in 1..(n - 1)}
    <3>1. Chosen(SubSeq(t, 1, n - 1)) = {t[i] : i \in 1..(n - 1)}
      <4>1. t \in Seq(Pairs) /\ n - 1 <= Len(t) /\ DOMAIN t = 1..Len(t)
        BY <1>1, <2>1
      <4>2. QED
        BY <2>2, <4>1
    <3>2. \A i \in 1..(n - 1) : t[i] = s[i]
      BY <1>1, <2>1
    <3>3. QED
      BY <3>1, <3>2
  <2>4. CASE n \in DOMAIN s
    <3>1. Chosen(SubSeq(s, 1, n - 1)) = {s[i] : i \in 1..(n - 1)}
      BY <1>1, <2>1, <2>2
    <3>2. QED
      BY <2>3, <2>4, <3>1 DEF Covered
  <2>5. CASE n \notin DOMAIN s
    <3>1. n - 1 = Len(s) /\ n = Len(s) + 1
      BY <1>1, <2>5
    <3>2. Chosen(SubSeq(t, 1, n - 1)) = Chosen(s)
      BY <1>1, <2>3, <3>1 DEF Chosen
    <3>3. QED
      BY <1>1, <2>5, <3>1, <3>2 DEF Covered
  <2>6. QED
    BY <2>4, <2>5
<1>3. \A n \in DOMAIN s : n \in DOMAIN t
  BY <1>1
<1>4. QED
  BY <1>2, <1>3

\* A pair with a gain adds coverage, one without adds none.
LEMMA GainAdds ==
  ASSUME IInv, NEW c \in Pairs
  PROVE  Gain(c) = 0 <=> PairFootprint(c) \subseteq Covered(chosen)
<1>1. PairFootprint(c) \ Covered(chosen) \subseteq Cell
  BY Verdicts DEF PairFootprint, Pairs
<1>2. IsFiniteSet(PairFootprint(c) \ Covered(chosen))
  BY <1>1, FS_Subset, CorpusOK
<1>3. Gain(c) = 0 <=> PairFootprint(c) \ Covered(chosen) = {}
  BY <1>2, FS_EmptySet DEF Gain
<1>4. QED
  BY <1>3

LEMMA ComplementProgress ==
  ASSUME IInv, Progress, Complement
  PROVE  Progress'
<1>1. PICK c \in Remaining : Gain(c) > 0 /\ chosen' = Append(chosen, c)
  BY DEF Complement
<1>2. /\ pc = "complement" /\ pc' = pc
      /\ UNCHANGED <<source, footprint, standing, listed, verdict, left, candidates>>
  BY DEF Complement, catalogue
<1>3. c \in Pairs
  BY CandidatesArePairs DEF Remaining
<1>4. PICK s, t : s = chosen /\ t = Append(chosen, c)
  OBVIOUS
<1>5. /\ s \in Seq(Pairs) /\ t \in Seq(Pairs) /\ Len(t) = Len(s) + 1
      /\ \A i \in DOMAIN s : t[i] = s[i]
      /\ t[Len(s) + 1] = c
  <2>1. s \in Seq(Pairs) /\ t = Append(s, c)
    BY <1>4, Sequences
  <2>2. QED
    BY <1>3, <2>1, Appended
<1>6. Adds(s)
  BY <1>2, <1>4 DEF Progress
<1>7. ~ (PairFootprint(c) \subseteq Covered(s))
  <2>1. Gain(c) # 0
    BY <1>1
  <2>2. QED
    BY <1>3, <1>4, <2>1, GainAdds
<1>8. Adds(t)
  <2>1. ASSUME NEW n \in DOMAIN t PROVE ~ (PairFootprint(t[n]) \subseteq Covered(SubSeq(t, 1, n - 1)))
    <3>1. /\ \A m \in DOMAIN s : Covered(SubSeq(t, 1, m - 1)) = Covered(SubSeq(s, 1, m - 1))
          /\ \A m \in DOMAIN t \ DOMAIN s : Covered(SubSeq(t, 1, m - 1)) = Covered(s) /\ t[m] = c
      BY <1>3, <1>5, CoveredBefore
    <3>2. QED
      BY <1>5, <1>6, <1>7, <3>1 DEF Adds
  <2>2. QED
    BY <2>1 DEF Adds
<1>9. Adds(chosen)'
  <2>1. Adds(t)'
    BY <1>2, <1>8, DefinedKept
  <2>2. QED
    BY <1>1, <1>4, <2>1
<1>10. Chosen(candidates)' = TrackPairs'
  <2>1. Chosen(candidates)' = Chosen(candidates)
    BY <1>2 DEF Chosen
  <2>2. Chosen(candidates) = TrackPairs
    BY <1>2 DEF Progress
  <2>3. QED
    BY <1>2, <2>1, <2>2, DefinedKept
<1>11. QED
  BY <1>2, <1>9, <1>10 DEF Progress, Judged, Admitted

LEMMA EndComplementProgress ==
  ASSUME IInv, Progress, EndComplement
  PROVE  Progress'
<1>1. /\ pc = "complement" /\ pc' = "read"
      /\ Len(chosen) = MaxPairs \/ \A c \in Remaining : Gain(c) = 0
      /\ UNCHANGED <<source, footprint, standing, listed, verdict, left, candidates, chosen>>
  BY DEF EndComplement, catalogue, selection
<1>2. source = "sentinel2" /\ Chosen(candidates) = TrackPairs /\ Adds(chosen)
  BY <1>1 DEF Progress
<1>3. Chosen(chosen) \subseteq TrackPairs
  BY <1>2 DEF IInv, Selected
<1>4. ASSUME \A c \in Remaining : Gain(c) = 0
      PROVE  Covered(chosen) = UNION {PairFootprint(c) : c \in TrackPairs}
  <2>1. \A c \in TrackPairs : PairFootprint(c) \subseteq Covered(chosen)
    <3>1. ASSUME NEW c \in TrackPairs PROVE PairFootprint(c) \subseteq Covered(chosen)
      <4>1. CASE c \in Chosen(chosen)
        BY <4>1 DEF Covered
      <4>2. CASE c \notin Chosen(chosen)
        <5>1. c \in Remaining /\ c \in Pairs
          BY <1>2, <4>2, CandidatesArePairs DEF Remaining
        <5>2. QED
          BY <1>4, <5>1, GainAdds
      <4>3. QED
        BY <4>1, <4>2
    <3>2. QED
      BY <3>1
  <2>2. QED
    BY <1>3, <2>1 DEF Covered
<1>5. Defined(chosen)
  BY <1>1, <1>2, <1>3, <1>4 DEF Defined, Pairing
<1>6. Defined(chosen)'
  <2>1. PICK s : s = chosen
    OBVIOUS
  <2>2. Defined(s)'
    BY <1>1, <1>5, <2>1, DefinedKept
  <2>3. QED
    BY <1>1, <2>1, <2>2
<1>7. QED
  BY <1>1, <1>2, <1>6 DEF Progress, Judged, Admitted

\* The reading leaves the selection alone.
LEMMA ReadingProgress ==
  ASSUME Progress, pc = "read", pc' \in {"read", "done", "unavailable", "raised"},
         UNCHANGED <<catalogue, selection>>
  PROVE  Progress'
<1>1. UNCHANGED <<source, footprint, standing, listed, verdict, chosen>>
  BY DEF catalogue, selection
<1>2. Defined(chosen)'
  <2>1. PICK s : s = chosen /\ Defined(s)
    BY DEF Progress
  <2>2. Defined(s)'
    BY <1>1, <2>1, DefinedKept
  <2>3. QED
    BY <1>1, <2>1, <2>2
<1>3. QED
  BY <1>1, <1>2 DEF Progress, Judged, Admitted

LEMMA NextProgress ==
  ASSUME IInv, Progress, [Next]_vars
  PROVE  Progress'
<1>1. CASE BeginPair \/ RasterRefused \/ RequestRaster \/ Materialise \/ ProductFails
           \/ AccessMissing \/ ReadRaises \/ Return
  <2>1. pc = "read" /\ UNCHANGED <<catalogue, selection>>
    BY <1>1 DEF BeginPair, RasterRefused, RequestRaster, Materialise, ProductFails,
       AccessMissing, ReadRaises, Return, Reading
  <2>2. pc' \in {"read", "done", "unavailable", "raised"}
    BY <1>1, <2>1 DEF BeginPair, RasterRefused, RequestRaster, Materialise, ProductFails,
       AccessMissing, ReadRaises, Return
  <2>3. QED
    BY <2>1, <2>2, ReadingProgress
<1>2. CASE UNCHANGED vars
  <2>1. /\ UNCHANGED <<source, footprint, standing, listed, verdict, left, candidates, chosen, pc>>
    BY <1>2 DEF vars, catalogue, selection
  <2>2. Judged'
    BY <2>1 DEF Progress, Judged, Admitted
  <2>3. pc = "select" => IF Pairing' THEN Pairwise' ELSE Versionwise'
    <3>1. (Pairwise' <=> Pairwise) /\ (Versionwise' <=> Versionwise) /\ (Pairing' <=> Pairing)
      <4>1. /\ Chosen(candidates)' = Chosen(candidates) /\ Used(candidates)' = Used(candidates)
            /\ \A i : Visited(i)' <=> Visited(i)
            /\ \A i : Admitted(i)' = Admitted(i)
            /\ \A p : Open(p)' = Open(p)
        BY <2>1 DEF Chosen, Used, Visited, Admitted, Open, Comparable, Pairing
      <4>2. \A p : Unpaired(p)' <=> Unpaired(p)
        BY <2>1, <4>1 DEF Unpaired
      <4>3. \A c : (Best(c)' <=> Best(c)) /\ (Oldest(c)' <=> Oldest(c))
        BY <2>1, <4>1, <4>2 DEF Best, Oldest
      <4>4. QED
        BY <2>1, <4>1, <4>2, <4>3 DEF Pairwise, Versionwise, Full, Pairing
    <3>2. QED
      BY <3>1 DEF Progress
  <2>4. pc = "complement" => Chosen(candidates)' = TrackPairs' /\ Adds(chosen)'
    <3>1. PICK s, u : s = chosen /\ u = candidates
      OBVIOUS
    <3>2. Adds(s)' <=> Adds(s)
      BY <2>1, DefinedKept
    <3>3. Chosen(candidates)' = Chosen(candidates) /\ TrackPairs' = TrackPairs
      BY <2>1, DefinedKept DEF Chosen
    <3>4. QED
      BY <2>1, <3>1, <3>2, <3>3 DEF Progress
  <2>5. pc \in {"read", "done"} => Defined(chosen)'
    <3>1. PICK s : s = chosen
      OBVIOUS
    <3>2. Defined(s)' <=> Defined(s)
      BY <2>1, DefinedKept
    <3>3. QED
      BY <2>1, <3>1, <3>2 DEF Progress
  <2>6. QED
    BY <2>1, <2>2, <2>3, <2>4, <2>5 DEF Progress
<1>3. QED
  BY <1>1, <1>2, ReadPageProgress, CatalogueRaisesProgress, CheckHeadersProgress,
     SkipPostProgress, PairPostProgress, KeepFirstProgress, EndSelectionProgress,
     ComplementProgress, EndComplementProgress DEF Next

LEMMA ProgressInvariance == Spec => [](IInv /\ Progress)
<1>1. Init => IInv /\ Progress
  BY InitIInv, InitProgress
<1>2. IInv /\ Progress /\ [Next]_vars => (IInv /\ Progress)'
  BY NextIInv, NextProgress
<1>3. QED
  BY <1>1, <1>2, PTL DEF Spec

\* Whatever the catalogue is and in whatever order its headers are asked for, the loops
\* select what the definitions over the whole catalogue say, and nothing that was not
\* public before the cutoff.
THEOREM SelectionCorrect == Spec => []PairsAsDefined
<1>1. ASSUME IInv, Progress PROVE PairsAsDefined
  <2>1. source \in Sources
    BY <1>1 DEF IInv, Selected
  <2>2. QED
    BY <1>1, <2>1 DEF Progress, Defined, PairsAsDefined, Pairing, Sources, Adds
<1>2. QED
  BY <1>1, ProgressInvariance, PTL

-------------------------------------------------------------------------------
(* How long a run can take.                                                *)

\* The phases still before a run, its own included.
Phases ==
  CASE pc = "catalogue"  -> 4
    [] pc = "select"     -> 3
    [] pc = "complement" -> 2
    [] pc = "read"       -> 1
    [] OTHER             -> 0

Unasked == {i \in Item : verdict[i] = "unknown"}

RastersDone ==
  CASE raster = "none" -> 0
    [] raster = "pre"  -> 1
    [] raster = "post" -> 2
    [] OTHER           -> 3

\* The steps its phase may still have.
Steps ==
  CASE pc = "catalogue"  -> MaxPages - pages
    [] pc = "select"     -> Cardinality(left) + Cardinality(Unasked)
    [] pc = "complement" -> MaxPairs - Len(chosen)
    [] pc = "read"       -> 4 * (Len(chosen) - at) - RastersDone
    [] OTHER             -> 0

\* A run goes through its phases in order, and no loop of one goes round in circles:
\* each step ends the phase or leaves fewer steps to do in it.
Ends ==
  [][\/ Phases' < Phases
     \/ Phases' = Phases /\ Steps' < Steps]_vars

LEMMA Smaller ==
  ASSUME NEW S \in SUBSET Item, NEW x \in S
  PROVE  Cardinality(S \ {x}) < Cardinality(S) /\ Cardinality(S) > 0
<1>1. IsFiniteSet(S) /\ Cardinality(S) \in Nat
  BY ItemsFinite
<1>2. Cardinality(S \ {x}) = Cardinality(S) - 1
  BY <1>1, FS_RemoveElement
<1>3. Cardinality(S) # 0
  BY <1>1, FS_EmptySet
<1>4. QED
  BY <1>1, <1>2, <1>3

\* The numbers the steps are counted with.
LEMMA Counts ==
  ASSUME IInv
  PROVE  /\ MaxPages \in Nat /\ MaxPairs \in Nat /\ pages \in 0..MaxPages
         /\ Len(chosen) \in Nat /\ at \in 0..Len(chosen)
         /\ left \in SUBSET Item /\ Unasked \in SUBSET Item
         /\ Cardinality(left) \in Nat /\ Cardinality(Unasked) \in Nat
         /\ verdict \in [Item -> {"no", "unknown", "yes"}]
         /\ raster \in {"none", "pre", "post", "both"}
<1>1. TypeOK
  BY DEF IInv
<1>2. left \in SUBSET Item /\ Unasked \in SUBSET Item
  BY <1>1 DEF TypeOK, Unasked
<1>3. Cardinality(left) \in Nat /\ Cardinality(Unasked) \in Nat
  BY <1>2, ItemsFinite
<1>4. Len(chosen) \in Nat
  BY <1>1 DEF TypeOK
<1>5. QED
  BY <1>1, <1>2, <1>3, <1>4, Numbers DEF TypeOK

\* A step of the selection visits a product for good or asks for one more answer.
LEMMA SelectShortens ==
  ASSUME IInv, pc = "select", pc' = "select",
         \/ \E x \in left : left' = left \ {x} /\ Unasked' = Unasked
         \/ left # {} /\ left' = {} /\ Unasked' = Unasked
         \/ \E x \in Unasked : Unasked' = Unasked \ {x} /\ left' = left
  PROVE  Phases' = Phases /\ Steps' < Steps
<1>1. Phases' = Phases
  BY DEF Phases
<1>2. /\ Steps = Cardinality(left) + Cardinality(Unasked)
      /\ Steps' = Cardinality(left') + Cardinality(Unasked')
  BY DEF Steps
<1>3. /\ Cardinality(left) \in Nat /\ Cardinality(Unasked) \in Nat
      /\ left \in SUBSET Item /\ Unasked \in SUBSET Item
  BY Counts
<1>4. CASE \E x \in left : left' = left \ {x} /\ Unasked' = Unasked
  <2>1. PICK x \in left : left' = left \ {x} /\ Unasked' = Unasked
    BY <1>4
  <2>2. Cardinality(left') < Cardinality(left) /\ Cardinality(left') \in Nat
    BY <1>3, <2>1, Smaller, ItemsFinite
  <2>3. QED
    BY <1>1, <1>2, <1>3, <2>1, <2>2
<1>5. CASE left # {} /\ left' = {} /\ Unasked' = Unasked
  <2>1. Cardinality(left') = 0
    BY <1>5, FS_EmptySet
  <2>2. Cardinality(left) > 0
    BY <1>3, <1>5, Smaller
  <2>3. QED
    BY <1>1, <1>2, <1>3, <1>5, <2>1, <2>2
<1>6. CASE \E x \in Unasked : Unasked' = Unasked \ {x} /\ left' = left
  <2>1. PICK x \in Unasked : Unasked' = Unasked \ {x} /\ left' = left
    BY <1>6
  <2>2. Cardinality(Unasked') < Cardinality(Unasked) /\ Cardinality(Unasked') \in Nat
    BY <1>3, <2>1, Smaller, ItemsFinite
  <2>3. QED
    BY <1>1, <1>2, <1>3, <2>1, <2>2
<1>7. QED
  BY <1>4, <1>5, <1>6

LEMMA VisitShortens ==
  ASSUME IInv, NEW p \in Item, CheckHeaders(p) \/ SkipPost(p) \/ PairPost(p)
  PROVE  Phases' = Phases /\ Steps' < Steps
<1>1. pc = "select" /\ pc' = "select" /\ left # {} /\ p \in left
  BY VisitingIn, LatestIn, Counts DEF CheckHeaders, SkipPost, PairPost, Visiting
<1>2. ASSUME NEW w \in Item, NEW answer \in {"yes", "no"}, verdict[w] = "unknown",
             verdict' = [verdict EXCEPT ![w] = answer]
      PROVE  w \in Unasked /\ Unasked' = Unasked \ {w}
  BY <1>2, Counts DEF Unasked
<1>3. CASE CheckHeaders(p)
  <2>1. Wanted(p) \in Item
    <3>1. CASE verdict[p] = "unknown" \/ Open(p) = {}
      BY <3>1 DEF Wanted
    <3>2. CASE ~(verdict[p] = "unknown" \/ Open(p) = {})
      <4>1. Open(p) \in SUBSET Item /\ Open(p) # {}
        BY <3>2, Numbers DEF Open, Comparable
      <4>2. Latest(Open(p)) \in Open(p)
        BY <4>1, LatestIn
      <4>3. QED
        BY <3>2, <4>1, <4>2 DEF Wanted
    <3>3. QED
      BY <3>1, <3>2
  <2>2. PICK w \in Item : w = Wanted(p)
    BY <2>1
  <2>3. PICK answer \in {"yes", "no"} : verdict' = [verdict EXCEPT ![w] = answer]
    BY <1>3, <2>2 DEF CheckHeaders
  <2>4. verdict[w] = "unknown" /\ left' = left
    BY <1>3, <2>2 DEF CheckHeaders
  <2>5. w \in Unasked /\ Unasked' = Unasked \ {w}
    BY <1>2, <2>3, <2>4
  <2>6. QED
    BY <1>1, <2>4, <2>5, SelectShortens
<1>4. CASE SkipPost(p)
  <2>1. left' = left \ {p} /\ Unasked' = Unasked
    BY <1>4 DEF SkipPost, Unasked
  <2>2. QED
    BY <1>1, <2>1, SelectShortens
<1>5. CASE PairPost(p)
  <2>1. (left' = {} \/ left' = left \ {p}) /\ Unasked' = Unasked
    BY <1>5 DEF PairPost, Unasked
  <2>2. QED
    BY <1>1, <2>1, SelectShortens
<1>6. QED
  BY <1>3, <1>4, <1>5

LEMMA KeepShortens ==
  ASSUME IInv, KeepFirst
  PROVE  Phases' = Phases /\ Steps' < Steps
<1>1. pc = "select" /\ pc' = "select" /\ left # {} /\ Unasked' = Unasked
  BY DEF KeepFirst, Unasked
<1>2. PICK i \in left : left' = left \ {i}
  BY EarliestIn, Counts DEF KeepFirst
<1>3. QED
  BY <1>1, <1>2, SelectShortens

\* A step of the reading loop deals with a raster or with the pair.
LEMMA ReadShortens ==
  ASSUME IInv, pc = "read", pc' = "read", chosen' = chosen, at < Len(chosen),
         \/ at' = at + 1 /\ raster' = "none"
         \/ at' = at /\ raster = "none" /\ raster' = "pre"
         \/ at' = at /\ raster = "pre" /\ raster' = "post"
         \/ at' = at /\ raster = "post" /\ raster' = "both"
  PROVE  Phases' = Phases /\ Steps' < Steps
<1> DEFINE n == Len(chosen)
<1>1. Phases' = Phases
  BY DEF Phases
<1>2. n \in Nat /\ at \in Nat
  BY Counts
<1>3. /\ Steps = 4 * (n - at) - RastersDone
      /\ Steps' = 4 * (n - at') - RastersDone'
  BY DEF Steps
<1>4. RastersDone \in 0..3
  BY DEF RastersDone
<1> HIDE DEF n
<1>5. CASE at' = at + 1 /\ raster' = "none"
  <2>1. RastersDone' = 0
    BY <1>5 DEF RastersDone
  <2>2. QED
    BY <1>1, <1>2, <1>3, <1>4, <1>5, <2>1
<1>6. CASE \/ at' = at /\ raster = "none" /\ raster' = "pre"
           \/ at' = at /\ raster = "pre" /\ raster' = "post"
           \/ at' = at /\ raster = "post" /\ raster' = "both"
  <2>1. RastersDone' = RastersDone + 1 /\ at' = at
    BY <1>6 DEF RastersDone
  <2>2. QED
    BY <1>1, <1>2, <1>3, <1>4, <2>1
<1>7. QED
  BY <1>5, <1>6

LEMMA ReadingShortens ==
  ASSUME IInv, BeginPair \/ RasterRefused \/ RequestRaster \/ Materialise \/ ProductFails
  PROVE  Phases' < Phases \/ (Phases' = Phases /\ Steps' < Steps)
<1>1. pc = "read" /\ at < Len(chosen) /\ chosen' = chosen
  BY DEF BeginPair, RasterRefused, RequestRaster, Materialise, ProductFails, Reading, selection
<1>2. CASE pc' = "raised"
  BY <1>1, <1>2 DEF Phases
<1>3. CASE pc' = "read"
  <2>1. \/ at' = at + 1 /\ raster' = "none"
        \/ at' = at /\ raster = "none" /\ raster' = "pre"
        \/ at' = at /\ raster = "pre" /\ raster' = "post"
        \/ at' = at /\ raster = "post" /\ raster' = "both"
    <3>1. CASE BeginPair
      BY <3>1 DEF BeginPair, Fail
    <3>2. CASE RasterRefused
      BY <3>2 DEF RasterRefused, Fail
    <3>3. CASE RequestRaster
      BY <3>3 DEF RequestRaster, Fail
    <3>4. CASE Materialise
      BY <1>3, <3>4 DEF Materialise
    <3>5. CASE ProductFails
      BY <3>5 DEF ProductFails, Fail
    <3>6. QED
      BY <3>1, <3>2, <3>3, <3>4, <3>5
  <2>2. QED
    BY <1>1, <1>3, <2>1, ReadShortens
<1>4. pc' \in {"read", "raised"}
  BY <1>1 DEF BeginPair, RasterRefused, RequestRaster, Materialise, ProductFails
<1>5. QED
  BY <1>2, <1>3, <1>4

LEMMA StepShortens ==
  ASSUME IInv, Next
  PROVE  Phases' < Phases \/ (Phases' = Phases /\ Steps' < Steps)
<1>1. CASE ReadPage
  <2>1. pc = "catalogue" /\ pages' = pages + 1 /\ pc' \in {"catalogue", "select", "raised"}
    BY <1>1 DEF ReadPage
  <2>2. CASE pc' = "catalogue"
    <3>1. Steps = MaxPages - pages /\ Steps' = MaxPages - pages' /\ Phases' = Phases
      BY <2>1, <2>2 DEF Steps, Phases
    <3>2. QED
      BY <2>1, <3>1, Counts
  <2>3. CASE pc' # "catalogue"
    BY <2>1, <2>3 DEF Phases
  <2>4. QED
    BY <2>2, <2>3
<1>2. CASE CatalogueRaises \/ EndSelection \/ EndComplement \/ AccessMissing \/ ReadRaises \/ Return
  BY <1>2 DEF CatalogueRaises, EndSelection, EndComplement, AccessMissing, ReadRaises, Return,
     Reading, Phases
<1>3. CASE Complement
  <2>1. /\ pc = "complement" /\ pc' = "complement" /\ Len(chosen) < MaxPairs
    BY <1>3 DEF Complement
  <2>2. PICK c \in Remaining : chosen' = Append(chosen, c)
    BY <1>3 DEF Complement
  <2>3. Len(chosen') = Len(chosen) + 1
    BY <2>2
  <2>4. Steps = MaxPairs - Len(chosen) /\ Steps' = MaxPairs - Len(chosen') /\ Phases' = Phases
    BY <2>1 DEF Steps, Phases
  <2>5. QED
    BY <2>3, <2>4, Counts
<1>4. QED
  BY <1>1, <1>2, <1>3, VisitShortens, KeepShortens, ReadingShortens DEF Next

\* The steps left are never fewer than none.
LEMMA StepsCount ==
  ASSUME IInv, Progress
  PROVE  Steps \in Nat
<1>1. CASE pc = "catalogue"
  BY <1>1, Counts DEF Steps
<1>2. CASE pc = "select"
  BY <1>2, Counts DEF Steps
<1>3. CASE pc = "complement"
  <2>1. Len(chosen) <= MaxPairs
    BY <1>3 DEF IInv, TypeOK, Progress, Pairing
  <2>2. QED
    BY <1>3, <2>1, Counts DEF Steps
<1>4. CASE pc = "read"
  <2>1. RastersDone \in 0..3 /\ (raster = "none" => RastersDone = 0)
    BY DEF RastersDone
  <2>2. raster = "none" \/ at < Len(chosen)
    BY DEF IInv, Paid
  <2>3. PICK n, m, d \in Nat : n = Len(chosen) /\ m = at /\ d = RastersDone
    BY <2>1, Counts
  <2>4. m <= n /\ d <= 3 /\ (d = 0 \/ m < n)
    BY <2>1, <2>2, <2>3, Counts
  <2>5. Steps = 4 * (n - m) - d
    BY <1>4, <2>3 DEF Steps
  <2>6. QED
    BY <2>3, <2>4, <2>5
<1>5. CASE pc \notin {"catalogue", "select", "complement", "read"}
  BY <1>5 DEF Steps
<1>6. QED
  BY <1>1, <1>2, <1>3, <1>4, <1>5

\* Every command ends, whatever the catalogue holds, its headers say and fails while it
\* is read: at most MaxPages pages, an answer and a visit for each product, MaxPairs
\* complements, and four steps for each pair it reads.
THEOREM RunsEnd == Spec => Ends /\ [](Steps \in Nat /\ Phases \in Nat)
<1>1. IInv /\ [Next]_vars =>
        [\/ Phases' < Phases
         \/ Phases' = Phases /\ Steps' < Steps]_vars
  BY StepShortens
<1>2. Phases \in Nat
  BY DEF Phases
<1>3. QED
  BY <1>1, <1>2, StepsCount, ProgressInvariance, PTL DEF Spec, Ends

===============================================================================
