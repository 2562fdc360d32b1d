----------------------------- MODULE SatelliteCorpus -----------------------------
(***************************************************************************)
(* The corpus commands: one run walks a catalogue, selects the products of *)
(* one source that were public before the cutoff, and reads them within    *)
(* budgets of output and of openEO credits.                                *)
(*                                                                         *)
(*   sentinel1  a pair of radar products per orbit track, read by paid     *)
(*              openEO requests, one for each product of a pair            *)
(*   sentinel2  a pair of optical products per grid cell, then the pairs   *)
(*              whose footprints complement each other                     *)
(*   thermal    the first published version of each granule, as a file     *)
(*   clms       the same, read as a raster window                          *)
(*                                                                         *)
(* Products are numbered in the order the code sorts them: by acquisition, *)
(* for thermal and clms by publication.  Footprints are sets of cells of   *)
(* the area of interest.  A raster costs one credit and writes one unit.   *)
(***************************************************************************)
EXTENDS Naturals, Sequences, FiniteSets

CONSTANTS
  Track,       \* orbit track, grid cell or granule of each product
  FirstPost,   \* first product acquired after the event has started
  Cell,        \* cells of the area of interest
  Footprints,  \* the footprints the products may have
  Standings,   \* the standings the products may have
  MaxPages,    \* pages a catalogue may have
  MaxPairs,    \* request.maximum_pairs
  MaxCredits,  \* maximum_total_credits over maximum_request_credits, rounded down
  MaxOutput    \* request.maximum_output_bytes

Item == DOMAIN Track

\* What the metadata of a product says of the cutoff: open, public before it; headers,
\* generated before it but for Sentinel-2 to be shown by the headers of its objects;
\* late, published after it, without dates, or forbidden as an evaluation reference.
Standing == {"open", "headers", "late"}

ASSUME CorpusOK ==
  /\ Track \in Seq(STRING)
  /\ FirstPost \in Item
  /\ Footprints \subseteq [Item -> SUBSET Cell]
  /\ Standings \subseteq [Item -> Standing]
  /\ {MaxPages, MaxPairs} \subseteq Nat \ {0}
  /\ {MaxCredits, MaxOutput} \subseteq Nat
  /\ IsFiniteSet(Cell)

VARIABLES
  source,      \* what the command was asked for
  footprint,   \* of each product, within the area of interest
  standing,    \* of each product
  pc,          \* "catalogue", "select", "complement", "read", "done",
               \* "unavailable" or "raised"
  pages,       \* catalogue pages read
  listed,      \* products on those pages
  verdict,     \* whether a product was available: "no", "unknown" or "yes"
  left,        \* products the selection has yet to visit
  candidates,  \* pairs found, in order
  chosen,      \* pairs to read, in order; pre is 0 for thermal and clms
  at,          \* how many of them are dealt with
  raster,      \* which raster of the current pair is next: "pre", "post", "both" read, "none"
  paid,        \* products whose raster was requested
  requests,    \* requests made, each of them one credit
  products,    \* results, by the later product
  failures,    \* failures the result lists: the later product and the reason
  written,     \* output counted
  disk         \* output really on disk

catalogue == <<source, footprint, standing, pages, listed>>
selection == <<verdict, left, candidates, chosen>>
report == <<paid, requests, products, failures, written, disk>>
vars == <<catalogue, selection, pc, at, raster, report>>

Pairing == source \in {"sentinel1", "sentinel2"}

Init ==
  /\ source \in {"sentinel1", "sentinel2", "thermal", "clms"}
  /\ footprint \in IF Pairing THEN Footprints ELSE {[i \in Item |-> Cell]}
  /\ standing \in Standings
  /\ source # "sentinel2" => \A i \in Item : standing[i] # "headers"
  /\ pc = "catalogue"
  /\ pages = 0
  /\ listed = 0
  /\ verdict = [i \in Item |-> "no"]
  /\ left = {}
  /\ candidates = <<>>
  /\ chosen = <<>>
  /\ at = 0
  /\ raster = "none"
  /\ paid = {}
  /\ requests = 0
  /\ products = {}
  /\ failures = {}
  /\ written = 0
  /\ disk = 0

Latest(S) == CHOOSE i \in S : \A j \in S : j <= i
Earliest(S) == CHOOSE i \in S : \A j \in S : i <= j

-------------------------------------------------------------------------------
(* discover_items and the catalogue walk of discover_pairs.                *)

\* The filters of the walk: a product passes, fails, or is left to its headers.
Admitted(i) ==
  IF standing[i] = "open" THEN "yes"
  ELSE IF standing[i] = "headers" THEN "unknown" ELSE "no"

\* Fault: a catalogue longer than its limit is cut short.
EndsHere(last, n) == last \/ n = MaxPages

LastPage(last, n) == last

\* A page lists some products and links to a next one, or is the last.  A page too
\* many raises.
ReadPage ==
  /\ pc = "catalogue"
  /\ pages' = pages + 1
  /\ listed' \in listed..Len(Track)
  /\ verdict' = [i \in Item |-> IF i \in (listed + 1)..listed' THEN Admitted(i) ELSE verdict[i]]
  /\ \E last \in BOOLEAN :
       /\ last => listed' = Len(Track)
       /\ pc' = IF LastPage(last, pages') THEN "select"
                ELSE IF pages' = MaxPages THEN "raised" ELSE "catalogue"
  /\ left' = IF pc' # "select" THEN {}
             ELSE {i \in Item : verdict'[i] # "no" /\ (Pairing => i >= FirstPost)}
  /\ UNCHANGED <<source, footprint, standing, candidates, chosen, at, raster, report>>

\* The catalogue fails, repeats a page, leaves its host, or lists too much; for
\* Sentinel-2 a request for headers may fail too.
CatalogueRaises ==
  /\ pc = "catalogue" \/ (pc = "select" /\ source = "sentinel2")
  /\ pc' = "raised"
  /\ UNCHANGED <<catalogue, selection, at, raster, report>>

-------------------------------------------------------------------------------
(* select_pairs, the pair loop of discover_pairs, and the choice of one    *)
(* version of a granule.                                                   *)

Chosen(s) == {s[n] : n \in DOMAIN s}
Used(s) == {Track[c.post] : c \in Chosen(s)}
PairFootprint(c) == footprint[c.post] \cap footprint[c.pre]

\* Earlier products of the track whose footprints meet that of p in the area.
Comparable(p) ==
  {q \in 1..(FirstPost - 1) : Track[q] = Track[p] /\ footprint[q] \cap footprint[p] # {}}

\* The earlier products that are not ruled out.
Open(p) == {q \in Comparable(p) : verdict[q] # "no"}

\* The product the loop looks at: the later one, then the best earlier one.
Wanted(p) == IF verdict[p] = "unknown" \/ Open(p) = {} THEN p ELSE Latest(Open(p))

Visiting(p) ==
  /\ pc = "select" /\ Pairing
  /\ left # {} /\ p = Latest(left)

\* Sentinel-2: a product no date rules out is asked for its headers, once.
CheckHeaders(p) ==
  /\ Visiting(p)
  /\ Track[p] \notin Used(candidates)
  /\ verdict[Wanted(p)] = "unknown"
  /\ \E answer \in {"yes", "no"} : verdict' = [verdict EXCEPT ![Wanted(p)] = answer]
  /\ UNCHANGED <<catalogue, left, candidates, chosen, pc, at, raster, report>>

\* The track has its pair, or p is not available or cannot be paired.
SkipPost(p) ==
  /\ Visiting(p)
  /\ \/ Track[p] \in Used(candidates)
     \/ verdict[p] = "no"
     \/ verdict[p] = "yes" /\ Open(p) = {}
  /\ left' = left \ {p}
  /\ UNCHANGED <<catalogue, verdict, candidates, chosen, pc, at, raster, report>>

\* Sentinel-1 stops at the limit; Sentinel-2 gathers the pairs of every grid cell.
PairPost(p) ==
  /\ Visiting(p)
  /\ Track[p] \notin Used(candidates)
  /\ verdict[p] = "yes" /\ Open(p) # {}
  /\ verdict[Latest(Open(p))] = "yes"
  /\ candidates' = Append(candidates, [pre |-> Latest(Open(p)), post |-> p])
  /\ left' = IF source = "sentinel1" /\ Len(candidates') = MaxPairs THEN {} ELSE left \ {p}
  /\ UNCHANGED <<catalogue, verdict, chosen, pc, at, raster, report>>

\* The first published version of a granule is kept.
KeepFirst ==
  /\ pc = "select" /\ ~Pairing
  /\ left # {}
  /\ LET i == Earliest(left)
     IN /\ left' = left \ {i}
        /\ candidates' = IF Track[i] \in Used(candidates) THEN candidates
                         ELSE Append(candidates, [pre |-> 0, post |-> i])
  /\ UNCHANGED <<catalogue, verdict, chosen, pc, at, raster, report>>

EndSelection ==
  /\ pc = "select"
  /\ left = {}
  /\ pc' = IF source = "sentinel2" THEN "complement" ELSE "read"
  /\ chosen' = IF source = "sentinel2" THEN <<>> ELSE candidates
  /\ UNCHANGED <<catalogue, verdict, left, candidates, at, raster, report>>

Covered(s) == UNION {PairFootprint(c) : c \in Chosen(s)}
Gain(c) == Cardinality(PairFootprint(c) \ Covered(chosen))

\* The pair that adds most to the coverage; among equals the latest.
Better(c, d) == Gain(c) > Gain(d) \/ (Gain(c) = Gain(d) /\ c.post >= d.post)

Remaining == Chosen(candidates) \ Chosen(chosen)

Complement ==
  /\ pc = "complement"
  /\ Len(chosen) < MaxPairs
  /\ \E c \in Remaining :
       /\ \A d \in Remaining : Better(c, d)
       /\ Gain(c) > 0
       /\ chosen' = Append(chosen, c)
  /\ UNCHANGED <<catalogue, verdict, left, candidates, pc, at, raster, report>>

EndComplement ==
  /\ pc = "complement"
  /\ Len(chosen) = MaxPairs \/ \A c \in Remaining : Gain(c) = 0
  /\ pc' = "read"
  /\ UNCHANGED <<catalogue, selection, at, raster, report>>

-------------------------------------------------------------------------------
(* collect, collect_sentinel1 and collect_cdse.                            *)

Current == chosen[at + 1]
Reading == pc = "read" /\ at < Len(chosen)

\* The current pair is given up and listed with its failure.
Fail(reason) ==
  /\ failures' = failures \cup {[post |-> Current.post, reason |-> reason]}
  /\ at' = at + 1
  /\ raster' = "none"

\* Anything the loop does not catch leaves it: what was done is lost to the result,
\* a file just written included.
ReadRaises ==
  /\ Reading
  /\ pc' = "raised"
  /\ disk' \in {disk, disk + 1}
  /\ UNCHANGED <<catalogue, selection, at, raster, paid, requests, products, failures, written>>

\* No credits are authorised, or the object store has no keys: the result says so.
AccessMissing ==
  /\ Reading /\ at = 0 /\ raster = "none"
  /\ source # "sentinel2"
  /\ pc' = "unavailable"
  /\ UNCHANGED <<catalogue, selection, at, raster, report>>

RasterRoom == requests + 1 <= MaxCredits

\* Fault: room for its first request is enough to begin a pair.
PairRoomForOne == requests + 1 <= MaxCredits

PairRoom == requests + 2 <= MaxCredits

\* read_pair: both rasters must be affordable before the first is asked for.
BeginPair ==
  /\ Reading /\ source = "sentinel1" /\ raster = "none"
  /\ IF PairRoom
     THEN /\ raster' = "pre"
          /\ UNCHANGED <<at, failures>>
     ELSE Fail("credits")
  /\ UNCHANGED <<catalogue, selection, pc, paid, requests, products, written, disk>>

\* _raster before its request: no credit left, or the graph is rejected.
RasterRefused ==
  /\ Reading /\ raster \in {"pre", "post"}
  /\ Fail(IF RasterRoom THEN "graph" ELSE "credits")
  /\ UNCHANGED <<catalogue, selection, pc, paid, requests, products, written, disk>>

\* The request is counted before it is sent, whatever becomes of it.
RequestRaster ==
  /\ Reading /\ raster \in {"pre", "post"}
  /\ RasterRoom
  /\ requests' = requests + 1
  /\ paid' = paid \cup {IF raster = "pre" THEN Current.pre ELSE Current.post}
  /\ \/ /\ raster' = IF raster = "pre" THEN "post" ELSE "both"
        /\ UNCHANGED <<at, failures>>
     \/ Fail("request")
  /\ UNCHANGED <<catalogue, selection, pc, products, written, disk>>

\* Fault: the last unit of output is not checked.
OutputPastLast == written <= MaxOutput

OutputLeft == written < MaxOutput

\* A pair or window is at hand: it is written within the budget and listed.
Materialise ==
  /\ Reading
  /\ source = "sentinel1" => raster = "both"
  /\ IF OutputLeft
     THEN /\ written' = written + 1 /\ disk' = disk + 1
          /\ products' = products \cup {Current.post}
          /\ at' = at + 1 /\ raster' = "none" /\ pc' = pc
     ELSE /\ pc' = "raised"
          /\ UNCHANGED <<written, disk, products, at, raster>>
  /\ UNCHANGED <<catalogue, selection, paid, requests, failures>>

\* The window of a clms product cannot be read; a thermal file cannot be fetched,
\* and is removed, or cannot be decoded, and stays.
ProductFails ==
  /\ Reading
  /\ \/ source = "clms" /\ Fail("read") /\ disk' = disk
     \/ source = "thermal" /\ OutputLeft /\ Fail("read") /\ disk' = disk
     \/ source = "thermal" /\ OutputLeft /\ Fail("decode") /\ disk' = disk + 1
  /\ UNCHANGED <<catalogue, selection, pc, paid, requests, products, written>>

Return ==
  /\ pc = "read"
  /\ at = Len(chosen)
  /\ pc' = "done"
  /\ UNCHANGED <<catalogue, selection, at, raster, report>>

Next ==
  \/ ReadPage \/ CatalogueRaises
  \/ \E p \in Item : CheckHeaders(p) \/ SkipPost(p) \/ PairPost(p)
  \/ KeepFirst \/ EndSelection \/ Complement \/ EndComplement
  \/ BeginPair \/ RasterRefused \/ RequestRaster \/ Materialise \/ ProductFails
  \/ AccessMissing \/ ReadRaises \/ Return

Spec == Init /\ [][Next]_vars

-------------------------------------------------------------------------------
(* Properties.                                                             *)

Pairs == [pre: {0} \cup Item, post: Item]
Reasons == {"credits", "graph", "request", "read", "decode"}

\* Every variable keeps its type.
TypeOK ==
  /\ footprint \in [Item -> SUBSET Cell]
  /\ standing \in [Item -> Standing]
  /\ pc \in {"catalogue", "select", "complement", "read", "done", "unavailable", "raised"}
  /\ pages \in 0..MaxPages /\ listed \in 0..Len(Track)
  /\ verdict \in [Item -> {"no", "unknown", "yes"}]
  /\ left \subseteq Item
  /\ candidates \in Seq(Pairs) /\ chosen \in Seq(Pairs)
  /\ Pairing => Len(chosen) <= MaxPairs
  /\ at \in 0..Len(chosen)
  /\ raster \in {"none", "pre", "post", "both"}
  /\ paid \subseteq Item /\ products \subseteq Item
  /\ requests \in 0..MaxCredits
  /\ failures \subseteq [post: Item, reason: Reasons]
  /\ written \in 0..MaxOutput /\ disk \in Nat

\* Products of the whole catalogue that were available: by their dates or, for
\* Sentinel-2, by the answer their headers gave.
Available == {i \in Item : standing[i] = "open" \/ (standing[i] = "headers" /\ verdict[i] = "yes")}

\* The pair of a track: the latest available product after the event that any
\* available earlier one can be compared with, and the latest of those.
PairsOf(p) == {[pre |-> q, post |-> p] : q \in Comparable(p) \cap Available}
TrackPair(k) ==
  LET all == UNION {PairsOf(p) : p \in {i \in Available : i >= FirstPost /\ Track[i] = k}}
  IN {c \in all : \A d \in all : d.post < c.post \/ (d.post = c.post /\ d.pre <= c.pre)}
TrackPairs == UNION {TrackPair(Track[i]) : i \in Item}

\* The versions of granules that were published first.
FirstVersions ==
  {[pre |-> 0, post |-> i] : i \in
     {j \in Available : \A h \in Available : Track[h] = Track[j] => j <= h}}

\* What the loops leave to read is what their comments describe, from the whole
\* catalogue and nothing the cutoff forbids: for Sentinel-1 the latest pairs of all
\* tracks, for Sentinel-2 pairs of grid cells that each add coverage, all of it unless
\* their number is exhausted, for the others the first versions.
PairsAsDefined ==
  pc \in {"read", "done"} =>
    CASE source = "sentinel1" ->
           /\ Chosen(chosen) \subseteq TrackPairs
           /\ \A c \in TrackPairs \ Chosen(chosen) :
                /\ Len(chosen) = MaxPairs
                /\ \A d \in Chosen(chosen) : c.post < d.post
      [] source = "sentinel2" ->
           /\ Chosen(chosen) \subseteq TrackPairs
           /\ \A n \in DOMAIN chosen :
                ~(PairFootprint(chosen[n]) \subseteq Covered(SubSeq(chosen, 1, n - 1)))
           /\ \/ Len(chosen) = MaxPairs
              \/ Covered(chosen) = UNION {PairFootprint(c) : c \in TrackPairs}
      [] OTHER -> Chosen(chosen) = FirstVersions

\* What a run reports is what it did.  No raster is asked for twice, and none of a
\* pair is paid for when the other is refused for want of credits; a run that returns
\* has each of its pairs as a product or a failure and has counted all that is on
\* disk, but for the thermal files it could not decode.
ReportHonest ==
  /\ requests = Cardinality(paid)
  /\ \A f \in failures : f.reason = "credits" =>
       \A c \in Chosen(chosen) : c.post = f.post => {c.pre, c.post} \cap paid = {}
  /\ pc = "done" =>
       /\ products \cup {f.post : f \in failures} = {c.post : c \in Chosen(chosen)}
       /\ products \cap {f.post : f \in failures} = {}
       /\ written = Cardinality(products)
       /\ disk = written + Cardinality({f \in failures : f.reason = "decode"})
===============================================================================
