-------------------------- MODULE PageCollection_proofs --------------------------
(***************************************************************************)
(* Proofs about PageCollection, for any urls, contents and limits.         *)
(*                                                                         *)
(* A run trusts three things it read or counted itself: the known sets,    *)
(* the ticket counts and the analyses counted.  The invariant says in      *)
(* which direction each may be wrong after a page that raised: the known   *)
(* sets and the counts are never too small, the analyses may be.  The      *)
(* known urls cover only published urls with one spelling; what is said    *)
(* of the others rests on the known contents and digests.                  *)
(***************************************************************************)
EXTENDS PageCollection, FiniteSetTheorems, TLAPS

-------------------------------------------------------------------------------
(* The inductive invariant, part by part.                                  *)

Sources == durable.sources \cup page.sources
Tickets == durable.media \cup page.media
OfUrl(u, media) == {m \in media : m.url = u}
Urls(sources) == {s.url : s \in sources}
Bodies(sources) == {s.body : s \in sources}

Active == pc # "idle"
Collecting == pc \in {"search", "links", "media", "analyse"}

Finite ==
  /\ IsFiniteSet(durable.media) /\ IsFiniteSet(page.media) /\ IsFiniteSet(page.sources)

\* The limits, of a set of tickets; that of a source, if its url has one spelling.
Within(media) ==
  /\ Cardinality(media) <= MediaLimit
  /\ Cardinality(Videos(media)) <= VideoLimit
  /\ \A u \in Url : Plain(u) => Cardinality(OfUrl(u, media)) <= MediaPerSource

\* The counts are never too small: of what is durable, and once the page has ended,
\* of what will be.
Counted ==
  LET there == IF Collecting THEN durable.media ELSE Tickets
  IN  Active => /\ Cardinality(there) <= counts.media
                /\ Cardinality(Videos(there)) <= counts.video

\* The article whose media are being taken.
InArticle ==
  pc = "media" =>
    /\ current.url \in Urls(page.sources)
    /\ Plain(current.url) => Cardinality(OfUrl(current.url, Tickets)) <= current.media
    /\ current.media <= MediaPerSource
    /\ Cardinality(page.media) <= MediaPerSource * (Cardinality(page.sources) - 1) + current.media

\* The tickets of a page are those of its articles.
PerPage == Cardinality(page.media) <= MediaPerSource * Cardinality(page.sources)

\* The known sets are never too small.
Covered ==
  Active =>
    /\ \A u \in Urls(Sources) : Plain(u) => u \in known.urls
    /\ Bodies(Sources) \subseteq known.bodies
    /\ {m.digest : m \in Tickets} \subseteq known.digests

Owned ==
  /\ {m.url : m \in durable.media} \subseteq Urls(durable.sources)
  /\ {m.url : m \in page.media} \subseteq Urls(page.sources)
  /\ page.sources \cap durable.sources = {}

Empty == pc \in {"idle", "search"} => page = EmptyPage

\* Without a page that raised: the analyses counted are those made, and the known
\* bodies those of the sources, and of those that were merged.
Spent == counts.analyses + (IF Collecting THEN page.analyses ELSE 0)

Budget ==
  failures = 0 => /\ calls <= MaxAnalyses
                  /\ Active => calls <= Spent /\ Spent <= MaxAnalyses

Rejections ==
  failures = 0 => /\ page.republished \subseteq Bodies(Sources) \cup merged
                  /\ Active => known.bodies \subseteq Bodies(Sources) \cup merged

IInv ==
  /\ TypeOK
  /\ Finite /\ Within(Tickets) /\ Counted /\ InArticle /\ PerPage
  /\ Covered /\ Owned /\ NothingTwice /\ Empty
  /\ Budget /\ Rejections

-------------------------------------------------------------------------------
(* Lemmas about the operators.                                             *)

LEMMA Numbers ==
  /\ MediaLimit \in Nat /\ VideoLimit \in Nat /\ MediaPerSource \in Nat
  /\ MaxAnalyses \in Nat /\ MaxPagesPerRun \in Nat
  /\ MediaLimit >= 1 /\ MediaPerSource >= 1 /\ MaxAnalyses >= 1
<1>1. {MediaLimit, MediaPerSource, MaxAnalyses, MaxPagesPerRun} \subseteq Nat \ {0} /\ VideoLimit \in 0..MediaLimit
  BY LimitsOK
<1>2. QED
  BY <1>1

LEMMA Spellings ==
  /\ \A u \in Url : Published[u] \in Url /\ Restored[u] \in Url
  /\ \A u \in Url : Plain(u) => Restored[u] = u
  /\ \A l \in Url : Plain(Published[l]) => Published[l] = l
<1>1. Published \in [Url -> Url] /\ Restored \in [Url -> Url]
  BY LimitsOK
<1>2. QED
  BY <1>1 DEF Plain

\* Tickets, their videos and those of one url are finite, and have no more members
\* than the tickets they are among.
LEMMA Fewer ==
  ASSUME NEW S, IsFiniteSet(S), NEW T \in SUBSET S
  PROVE  /\ IsFiniteSet(T) /\ Cardinality(T) \in Nat /\ Cardinality(S) \in Nat
         /\ Cardinality(T) <= Cardinality(S)
         /\ IsFiniteSet(Videos(S)) /\ Cardinality(Videos(S)) \in Nat
         /\ Videos(T) \subseteq Videos(S)
         /\ Cardinality(Videos(T)) \in Nat
         /\ Cardinality(Videos(T)) <= Cardinality(Videos(S))
         /\ \A u : /\ IsFiniteSet(OfUrl(u, S)) /\ Cardinality(OfUrl(u, S)) \in Nat
                   /\ Cardinality(OfUrl(u, T)) \in Nat
                   /\ Cardinality(OfUrl(u, T)) <= Cardinality(OfUrl(u, S))
<1>1. IsFiniteSet(T) /\ Cardinality(T) <= Cardinality(S)
  BY FS_Subset
<1>2. Videos(S) \in SUBSET S /\ Videos(T) \in SUBSET Videos(S)
  BY DEF Videos
<1>3. IsFiniteSet(Videos(S))
  BY <1>2, FS_Subset
<1>4. IsFiniteSet(Videos(T)) /\ Cardinality(Videos(T)) <= Cardinality(Videos(S))
  BY <1>2, <1>3, FS_Subset
<1>5. ASSUME NEW u
      PROVE  /\ IsFiniteSet(OfUrl(u, S)) /\ IsFiniteSet(OfUrl(u, T))
             /\ Cardinality(OfUrl(u, T)) <= Cardinality(OfUrl(u, S))
  <2>1. OfUrl(u, S) \in SUBSET S /\ OfUrl(u, T) \in SUBSET OfUrl(u, S)
    BY DEF OfUrl
  <2>2. IsFiniteSet(OfUrl(u, S))
    BY <2>1, FS_Subset
  <2>3. QED
    BY <2>1, <2>2, FS_Subset
<1>6. QED
  BY <1>1, <1>2, <1>3, <1>4, <1>5, FS_CardinalityType

\* A set within the limits stays within them when it loses tickets.
LEMMA WithinFewer ==
  ASSUME NEW S, IsFiniteSet(S), NEW T \in SUBSET S, Within(S)
  PROVE  Within(T)
BY Fewer, Numbers DEF Within

\* A ticket more.
LEMMA OneMore ==
  ASSUME NEW S, IsFiniteSet(S), NEW m
  PROVE  /\ IsFiniteSet(S \cup {m})
         /\ Cardinality(S) \in Nat /\ Cardinality(S \cup {m}) \in Nat
         /\ Cardinality(S \cup {m}) <= Cardinality(S) + 1
         /\ m \notin S => Cardinality(S \cup {m}) = Cardinality(S) + 1
<1>1. IsFiniteSet(S \cup {m})
  BY FS_AddElement
<1>2. QED
  BY <1>1, FS_AddElement, FS_CardinalityType

\* No more tickets together than one by one.
LEMMA Together ==
  ASSUME NEW S, IsFiniteSet(S), NEW T, IsFiniteSet(T)
  PROVE  /\ IsFiniteSet(S \cup T)
         /\ Cardinality(S \cup T) <= Cardinality(S) + Cardinality(T)
<1>1. IsFiniteSet(S \cap T)
  BY FS_Subset
<1>2. Cardinality(S) \in Nat /\ Cardinality(T) \in Nat /\ Cardinality(S \cap T) \in Nat
  BY <1>1, FS_CardinalityType
<1>3. /\ IsFiniteSet(S \cup T)
      /\ Cardinality(S \cup T) = Cardinality(S) + Cardinality(T) - Cardinality(S \cap T)
  BY FS_Union
<1>4. QED
  BY <1>2, <1>3

LEMMA VideosTogether == \A S, T : Videos(S \cup T) = Videos(S) \cup Videos(T)
BY DEF Videos

LEMMA EmptySets ==
  /\ IsFiniteSet({}) /\ Cardinality({}) = 0
  /\ Videos({}) = {} /\ \A u : OfUrl(u, {}) = {}
BY FS_EmptySet DEF Videos, OfUrl

\* The type of each variable.
LEMMA Types ==
  ASSUME IInv
  PROVE  /\ durable \in [sources: SUBSET Source, media: SUBSET Media]
         /\ durable.sources \subseteq Source /\ durable.media \subseteq Media
         /\ known \in [urls: SUBSET Url, bodies: SUBSET Body, digests: SUBSET Digest]
         /\ counts.media \in Nat /\ counts.video \in Nat /\ counts.analyses \in Nat
         /\ page \in [sources: SUBSET Source, media: SUBSET Media, analyses: Nat,
                      republished: SUBSET Body]
         /\ page.sources \subseteq Source /\ page.media \subseteq Media /\ page.analyses \in Nat
         /\ current.url \in Url \cup {NoUrl} /\ current.media \in Nat
         /\ pages \in Nat /\ calls \in Nat /\ failures \in Nat /\ merged \subseteq Body
         /\ Finite
         /\ IsFiniteSet(Tickets)
         /\ Cardinality(durable.media) \in Nat /\ Cardinality(page.media) \in Nat
         /\ Cardinality(page.sources) \in Nat /\ Cardinality(Tickets) \in Nat
<1>1. Finite
  BY DEF IInv
<1>2. IsFiniteSet(Tickets)
  BY <1>1, Together DEF Finite, Tickets
<1>3. QED
  BY <1>1, <1>2, FS_CardinalityType DEF IInv, TypeOK, Finite

LEMMA EmptyPageFacts ==
  /\ EmptyPage.sources = {} /\ EmptyPage.media = {} /\ EmptyPage.analyses = 0
  /\ EmptyPage.republished = {}
  /\ EmptyPage \in [sources: SUBSET Source, media: SUBSET Media, analyses: Nat,
                    republished: SUBSET Body]
BY DEF EmptyPage

-------------------------------------------------------------------------------
(* The steps.                                                              *)

LEMMA InitIInv == Init => IInv
<1> SUFFICES ASSUME Init PROVE IInv
  OBVIOUS
<1>1. /\ durable = [sources |-> {}, media |-> {}] /\ pc = "idle" /\ page = EmptyPage
      /\ failures = 0 /\ calls = 0
  BY DEF Init
<1>2. TypeOK
  BY <1>1, EmptyPageFacts DEF Init, TypeOK, NoArticle
<1>3. Sources = {} /\ Tickets = {}
  BY <1>1, EmptyPageFacts DEF Sources, Tickets
<1>4. Finite /\ Within(Tickets)
  BY <1>1, <1>3, EmptySets, EmptyPageFacts, Numbers DEF Finite, Within
<1>5. Counted /\ InArticle /\ Covered /\ Owned /\ NothingTwice /\ Empty
  BY <1>1, EmptyPageFacts DEF Counted, InArticle, Covered, Owned, NothingTwice, Empty, Active, Urls
<1>6. PerPage
  BY <1>1, EmptyPageFacts, EmptySets, Numbers DEF PerPage
<1>7. Budget /\ Rejections
  BY <1>1, EmptyPageFacts, Numbers DEF Budget, Rejections, Active
<1>8. QED
  BY <1>2, <1>4, <1>5, <1>6, <1>7 DEF IInv

\* Parts that only look at what is durable and at the page.
LEMMA SamePage ==
  ASSUME IInv, UNCHANGED <<durable, page>>
  PROVE  /\ (Finite /\ Within(Tickets) /\ PerPage /\ Owned /\ NothingTwice)'
         /\ Sources' = Sources /\ Tickets' = Tickets
BY DEF IInv, Finite, Within, PerPage, Owned, NothingTwice, Sources, Tickets, OfUrl, Videos, Urls

\* The run reads what is durable, with an empty page.
LEMMA BeginStep ==
  ASSUME IInv, BeginRun
  PROVE  IInv'
<1>1. /\ page = EmptyPage /\ UNCHANGED <<durable, page, current, left>>
      /\ pc' = "search" /\ pages' = 0 /\ calls' = 0 /\ failures' = 0 /\ merged' = {}
      /\ known' = [urls |-> {Restored[s.url] : s \in durable.sources}, bodies |-> Bodies(durable.sources),
                   digests |-> {m.digest : m \in durable.media}]
      /\ counts' = [media |-> Cardinality(durable.media),
                    video |-> Cardinality(Videos(durable.media)), analyses |-> 0]
  BY DEF BeginRun, IInv, Empty, Urls, Bodies
<1>2. /\ Cardinality(durable.media) \in Nat /\ Cardinality(Videos(durable.media)) \in Nat
  BY Types, Fewer DEF Finite
<1>3. TypeOK'
  <2>1. known' \in [urls: SUBSET Url, bodies: SUBSET Body, digests: SUBSET Digest]
    <3>1. {Restored[s.url] : s \in durable.sources} \subseteq Url
      BY Types, Spellings DEF Source
    <3>2. Bodies(durable.sources) \subseteq Body /\ {m.digest : m \in durable.media} \subseteq Digest
      BY Types DEF Bodies, Source, Media
    <3>3. QED
      BY <1>1, <3>1, <3>2
  <2>2. QED
    BY <1>1, <1>2, <2>1 DEF IInv, TypeOK
<1>4. Sources = durable.sources /\ Tickets = durable.media
  BY <1>1, EmptyPageFacts DEF Sources, Tickets
<1>5. /\ (Finite /\ Within(Tickets) /\ PerPage /\ Owned /\ NothingTwice)'
      /\ Sources' = Sources /\ Tickets' = Tickets
  BY <1>1, SamePage
<1>6. Counted'
  BY <1>1, <1>2 DEF Counted, Collecting
<1>7. (InArticle /\ Empty)'
  BY <1>1 DEF InArticle, Empty
<1>8. Covered'
  <2>1. \A u \in Urls(Sources) : Plain(u) => u \in known'.urls
    BY <1>1, <1>4, Types, Spellings DEF Urls, Source
  <2>2. QED
    BY <1>1, <1>4, <1>5, <2>1 DEF Covered, Bodies
<1>9. Budget'
  BY <1>1, EmptyPageFacts, Numbers DEF Budget, Spent, Collecting
<1>10. Rejections'
  BY <1>1, <1>4, <1>5, EmptyPageFacts DEF Rejections, Bodies
<1>11. QED
  BY <1>3, <1>5, <1>6, <1>7, <1>8, <1>9, <1>10 DEF IInv

\* The steps that only move the run on: what it knows and counted stays.
LEMMA QuietStep ==
  ASSUME IInv, Search \/ (\E u \in Url : SkipLink(u)) \/ EndMedia \/ SkipAnalysis
  PROVE  IInv'
<1>1. /\ UNCHANGED <<durable, known, counts, page, calls, failures, pages, merged>>
      /\ Collecting /\ Collecting' /\ Active /\ Active'
      /\ pc' \notin {"idle", "search", "media"}
  BY DEF Search, SkipLink, EndMedia, SkipAnalysis, Collecting, Active
<1>2. TypeOK'
  <2>1. left' \subseteq Url
    BY DEF Search, SkipLink, EndMedia, SkipAnalysis, IInv, TypeOK
  <2>2. pc' \in {"idle", "search", "links", "media", "analyse", "publish"}
    BY DEF Search, SkipLink, EndMedia, SkipAnalysis, IInv, TypeOK
  <2>3. current' \in [url: Url \cup {NoUrl}, media: Nat]
    BY DEF Search, SkipLink, EndMedia, SkipAnalysis, NoArticle, IInv, TypeOK
  <2>4. QED
    BY <1>1, <2>1, <2>2, <2>3 DEF IInv, TypeOK
<1>3. /\ (Finite /\ Within(Tickets) /\ PerPage /\ Owned /\ NothingTwice)'
      /\ Sources' = Sources /\ Tickets' = Tickets
  BY <1>1, SamePage
<1>4. Counted'
  BY <1>1 DEF IInv, Counted
<1>5. (InArticle /\ Empty)'
  BY <1>1 DEF InArticle, Empty
<1>6. Covered'
  BY <1>1, <1>3 DEF IInv, Covered
<1>7. Budget'
  BY <1>1 DEF IInv, Budget, Spent
<1>8. Rejections'
  BY <1>1, <1>3 DEF IInv, Rejections
<1>9. QED
  BY <1>2, <1>3, <1>4, <1>5, <1>6, <1>7, <1>8 DEF IInv

\* The rejected body is known: without a failure, it is a source's.
LEMMA RejectStep ==
  ASSUME IInv, NEW u \in Url, NEW b \in Body, RejectSyndicated(u, b)
  PROVE  IInv'
<1>1. /\ UNCHANGED <<durable, pc, known, counts, current, pages, calls, failures, merged>>
      /\ pc = "links" /\ b \in known.bodies /\ left' = left \ {u}
      /\ page' = [page EXCEPT !.republished = page.republished \cup {b}]
  BY DEF RejectSyndicated
<1>2. /\ page' \in [sources: SUBSET Source, media: SUBSET Media, analyses: Nat,
                    republished: SUBSET Body]
      /\ page'.sources = page.sources /\ page'.media = page.media
      /\ page'.analyses = page.analyses
      /\ page'.republished = page.republished \cup {b}
  BY <1>1, Types
<1>3. TypeOK'
  BY <1>1, <1>2 DEF IInv, TypeOK
<1>4. Sources' = Sources /\ Tickets' = Tickets
  BY <1>1, <1>2 DEF Sources, Tickets
<1>5. (Finite /\ Within(Tickets) /\ PerPage /\ Owned)'
  BY <1>1, <1>2, <1>4 DEF IInv, Finite, Within, PerPage, Owned, OfUrl, Videos, Urls
<1>6. NothingTwice'
  BY <1>1, <1>2 DEF IInv, NothingTwice
<1>7. (Counted /\ Covered)'
  BY <1>1, <1>2, <1>4 DEF IInv, Counted, Covered, Active, Collecting, Urls, Bodies, Videos
<1>8. (InArticle /\ Empty)'
  BY <1>1 DEF InArticle, Empty
<1>9. Budget'
  BY <1>1, <1>2 DEF IInv, Budget, Spent, Active, Collecting
<1>10. Rejections'
  BY <1>1, <1>2, <1>4 DEF IInv, Rejections, Active, Bodies
<1>11. QED
  BY <1>3, <1>5, <1>6, <1>7, <1>8, <1>9, <1>10 DEF IInv

\* A new source is known by its published url and its body.  If that url has one
\* spelling, it is the link, which was not known, and has no ticket yet.
LEMMA AcceptStep ==
  ASSUME IInv, NEW u \in Url, NEW b \in Body, AcceptArticle(u, b)
  PROVE  IInv'
<1> DEFINE at == Published[u]
           new == [url |-> at, body |-> b]
<1>1. /\ UNCHANGED <<durable, counts, pages, calls, failures, merged>>
      /\ pc = "links" /\ pc' = "media" /\ left' = left \ {u}
      /\ u \notin known.urls /\ b \notin known.bodies
      /\ page' = [page EXCEPT !.sources = page.sources \cup {new}]
      /\ known' = [known EXCEPT !.urls = known.urls \cup {at}, !.bodies = known.bodies \cup {b}]
      /\ current' = [url |-> at, media |-> 0]
  BY DEF AcceptArticle, Remember
<1>2. /\ at \in Url /\ new \in Source /\ new.url = at /\ new.body = b
      /\ Plain(at) => at \notin known.urls
  BY <1>1, Spellings DEF Source
<1> HIDE DEF new, at
<1>3. /\ page' \in [sources: SUBSET Source, media: SUBSET Media, analyses: Nat,
                    republished: SUBSET Body]
      /\ page'.sources = page.sources \cup {new} /\ page'.media = page.media
      /\ page'.analyses = page.analyses /\ page'.republished = page.republished
  BY <1>1, <1>2, Types
<1>4. /\ known' \in [urls: SUBSET Url, bodies: SUBSET Body, digests: SUBSET Digest]
      /\ known'.urls = known.urls \cup {at} /\ known'.bodies = known.bodies \cup {b}
      /\ known'.digests = known.digests
  BY <1>1, <1>2, Types
<1>5. TypeOK'
  BY <1>1, <1>2, <1>3, <1>4 DEF IInv, TypeOK
<1>6. Sources' = Sources \cup {new} /\ Tickets' = Tickets
  BY <1>1, <1>3 DEF Sources, Tickets
<1>7. /\ \A v \in Urls(Sources) : Plain(v) => v \in known.urls
      /\ Bodies(Sources) \subseteq known.bodies
      /\ {m.digest : m \in Tickets} \subseteq known.digests
  BY <1>1 DEF IInv, Covered, Active
<1>8. new \notin Sources
  BY <1>1, <1>2, <1>7 DEF Bodies
<1>9. /\ IsFiniteSet(page'.sources)
      /\ Cardinality(page'.sources) = Cardinality(page.sources) + 1
  BY <1>3, <1>8, Types, OneMore DEF Finite, Sources
<1>10. (Finite /\ Within(Tickets))'
  BY <1>1, <1>3, <1>6, <1>9 DEF IInv, Finite, Within, OfUrl, Videos
<1>11. Counted'
  BY <1>1, <1>3, <1>6 DEF IInv, Counted, Collecting, Active, Videos
<1>12. Plain(at) => OfUrl(at, Tickets) = {}
  <2>1. {m.url : m \in Tickets} \subseteq Urls(Sources)
    BY DEF IInv, Owned, Tickets, Sources, Urls
  <2>2. QED
    BY <1>2, <1>7, <2>1 DEF OfUrl
<1>13. Cardinality(page.media) <= MediaPerSource * Cardinality(page.sources)
  BY DEF IInv, PerPage
<1>14. InArticle'
  <2>1. current'.url \in Urls(page'.sources)
    BY <1>1, <1>2, <1>3 DEF Urls
  <2>2. Plain(at) => Cardinality(OfUrl(at, Tickets')) = 0
    BY <1>6, <1>12, EmptySets
  <2>3. Cardinality(page'.sources) - 1 = Cardinality(page.sources)
    BY <1>9, Types
  <2>4. MediaPerSource * Cardinality(page.sources) + 0 = MediaPerSource * Cardinality(page.sources)
    BY Types, Numbers
  <2>5. QED
    BY <1>1, <1>3, <1>13, <2>1, <2>2, <2>3, <2>4, Numbers DEF InArticle
<1>15. PerPage'
  <2>1. MediaPerSource * (Cardinality(page.sources) + 1)
          = MediaPerSource * Cardinality(page.sources) + MediaPerSource
    BY Types, Numbers
  <2>2. MediaPerSource * Cardinality(page.sources) \in Nat
    BY Types, Numbers
  <2>3. QED
    BY <1>3, <1>9, <1>13, <2>1, <2>2, Types, Numbers DEF PerPage
<1>16. Covered'
  <2>1. \A v \in Urls(Sources') : Plain(v) => v \in known'.urls
    BY <1>2, <1>4, <1>6, <1>7 DEF Urls
  <2>2. Bodies(Sources') \subseteq known'.bodies
    BY <1>2, <1>4, <1>6, <1>7 DEF Bodies
  <2>3. QED
    BY <1>4, <1>6, <1>7, <2>1, <2>2 DEF Covered
<1>17. Owned'
  <2>1. new \notin durable.sources
    BY <1>8 DEF Sources
  <2>2. QED
    BY <1>1, <1>3, <2>1 DEF IInv, Owned, Urls
<1>18. NothingTwice'
  <2>1. \A s \in Sources : s.body # new.body /\ (Plain(new.url) => s.url # new.url)
    BY <1>1, <1>2, <1>7 DEF Urls, Bodies
  <2>2. \A s, t \in Sources : s # t => s.body # t.body /\ (Plain(s.url) => s.url # t.url)
    BY DEF IInv, NothingTwice, Sources
  <2>3. \A s, t \in Sources' : s # t => s.body # t.body /\ (Plain(s.url) => s.url # t.url)
    BY <1>6, <2>1, <2>2
  <2>4. \A m, n \in Tickets' : m # n => m.digest # n.digest
    BY <1>6 DEF IInv, NothingTwice, Tickets
  <2>5. QED
    BY <2>3, <2>4 DEF NothingTwice, Sources, Tickets
<1>19. Empty'
  BY <1>1 DEF Empty
<1>20. Budget'
  BY <1>1, <1>3 DEF IInv, Budget, Spent, Active, Collecting
<1>21. Rejections'
  <2>1. Bodies(Sources') = Bodies(Sources) \cup {b}
    BY <1>2, <1>6 DEF Bodies
  <2>2. QED
    BY <1>1, <1>3, <1>4, <2>1 DEF IInv, Rejections, Active
<1>22. QED
  BY <1>5, <1>10, <1>11, <1>14, <1>15, <1>16, <1>17, <1>18, <1>19, <1>20, <1>21 DEF IInv

\* A ticket more, of the article at hand, within the room that is left.
LEMMA TakeStep ==
  ASSUME IInv, NEW k \in Kind, NEW d \in Digest, TakeMedia(k, d)
  PROVE  IInv'
<1> DEFINE new == [digest |-> d, kind |-> k, url |-> current.url]
<1>1. /\ UNCHANGED <<durable, pc, counts, left, pages, calls, failures, merged>>
      /\ pc = "media" /\ d \notin known.digests
      /\ page' = [page EXCEPT !.media = page.media \cup {new}]
      /\ known' = [known EXCEPT !.digests = known.digests \cup {d}]
      /\ current' = [current EXCEPT !.media = current.media + 1]
      /\ counts.media + Cardinality(page.media) < MediaLimit
      /\ current.media < MediaPerSource
      /\ k = "video" => counts.video + Cardinality(Videos(page.media)) < VideoLimit
  BY DEF TakeMedia, Room
<1>2. /\ current.url \in Urls(page.sources)
      /\ Plain(current.url) => Cardinality(OfUrl(current.url, Tickets)) <= current.media
      /\ Cardinality(page.media)
           <= MediaPerSource * (Cardinality(page.sources) - 1) + current.media
  BY <1>1 DEF IInv, InArticle
<1>3. new \in Media /\ new.digest = d /\ new.kind = k /\ new.url = current.url
  BY <1>2, Types DEF Media, Urls, Source
<1> HIDE DEF new
<1>4. /\ page' \in [sources: SUBSET Source, media: SUBSET Media, analyses: Nat,
                    republished: SUBSET Body]
      /\ page'.sources = page.sources /\ page'.media = page.media \cup {new}
      /\ page'.analyses = page.analyses /\ page'.republished = page.republished
  BY <1>1, <1>3, Types
<1>5. /\ known' \in [urls: SUBSET Url, bodies: SUBSET Body, digests: SUBSET Digest]
      /\ known'.urls = known.urls /\ known'.bodies = known.bodies
      /\ known'.digests = known.digests \cup {d}
  BY <1>1, Types
<1>6. /\ current' \in [url: Url \cup {NoUrl}, media: Nat]
      /\ current'.url = current.url /\ current'.media = current.media + 1
  BY <1>1 DEF IInv, TypeOK
<1>7. TypeOK'
  BY <1>1, <1>4, <1>5, <1>6 DEF IInv, TypeOK
<1>8. Sources' = Sources /\ Tickets' = Tickets \cup {new}
  BY <1>1, <1>4 DEF Sources, Tickets
<1>9. \A m \in Tickets : m.digest # d
  BY <1>1 DEF IInv, Covered, Active
<1>10. /\ IsFiniteSet(page'.media)
       /\ Cardinality(page'.media) <= Cardinality(page.media) + 1
       /\ Cardinality(page'.media) \in Nat
  <2>1. IsFiniteSet(page.media)
    BY Types DEF Finite
  <2>2. /\ IsFiniteSet(page.media \cup {new})
        /\ Cardinality(page.media \cup {new}) <= Cardinality(page.media) + 1
        /\ Cardinality(page.media \cup {new}) \in Nat
    BY <2>1, OneMore
  <2>3. QED
    BY <1>4, <2>2
<1>11. Finite'
  BY <1>1, <1>4, <1>10, Types DEF Finite
<1>12. Within(Tickets')
  <2>1. /\ Cardinality(Tickets) <= counts.media + Cardinality(page.media)
        /\ Cardinality(durable.media) <= counts.media
    <3>1. Cardinality(durable.media) <= counts.media
      BY <1>1 DEF IInv, Counted, Collecting, Active
    <3>2. Cardinality(Tickets) <= Cardinality(durable.media) + Cardinality(page.media)
      BY Types, Together DEF Finite, Tickets
    <3>3. QED
      BY <3>1, <3>2, Types
  <2>2. Cardinality(Tickets') <= MediaLimit
    <3>1. Cardinality(Tickets') <= Cardinality(Tickets) + 1 /\ Cardinality(Tickets') \in Nat
      BY <1>8, Types, OneMore
    <3>2. QED
      BY <1>1, <2>1, <3>1, Types, Numbers
  <2>3. Cardinality(Videos(Tickets')) <= VideoLimit
    <3>1. CASE k = "video"
      <4>1. Videos(Tickets') = Videos(Tickets) \cup {new}
        BY <1>3, <1>8, <3>1 DEF Videos
      <4>2. /\ IsFiniteSet(Videos(Tickets)) /\ IsFiniteSet(Videos(durable.media))
            /\ IsFiniteSet(Videos(page.media))
            /\ Cardinality(Videos(Tickets)) \in Nat /\ Cardinality(Videos(durable.media)) \in Nat
            /\ Cardinality(Videos(page.media)) \in Nat
        BY Types, Fewer DEF Finite
      <4>3. Cardinality(Videos(Tickets))
              <= Cardinality(Videos(durable.media)) + Cardinality(Videos(page.media))
        BY <4>2, Together, VideosTogether DEF Tickets
      <4>4. Cardinality(Videos(durable.media)) <= counts.video
        BY <1>1 DEF IInv, Counted, Collecting, Active
      <4>5. Cardinality(Videos(Tickets')) <= Cardinality(Videos(Tickets)) + 1
            /\ Cardinality(Videos(Tickets')) \in Nat
        BY <4>1, <4>2, OneMore
      <4>6. counts.video + Cardinality(Videos(page.media)) < VideoLimit
        BY <1>1, <3>1
      <4>7. QED
        BY <4>2, <4>3, <4>4, <4>5, <4>6, Types, Numbers
    <3>2. CASE k # "video"
      <4>1. Videos(Tickets') = Videos(Tickets)
        BY <1>3, <1>8, <3>2 DEF Videos
      <4>2. QED
        BY <4>1 DEF IInv, Within
    <3>3. QED
      BY <3>1, <3>2
  <2>4. ASSUME NEW u \in Url, Plain(u) PROVE Cardinality(OfUrl(u, Tickets')) <= MediaPerSource
    <3>1. CASE u = current.url
      <4>1. OfUrl(u, Tickets') = OfUrl(u, Tickets) \cup {new}
        BY <1>3, <1>8, <3>1 DEF OfUrl
      <4>2. IsFiniteSet(OfUrl(u, Tickets)) /\ Cardinality(OfUrl(u, Tickets)) \in Nat
        BY Types, Fewer
      <4>3. /\ Cardinality(OfUrl(u, Tickets')) <= Cardinality(OfUrl(u, Tickets)) + 1
            /\ Cardinality(OfUrl(u, Tickets')) \in Nat
        BY <4>1, <4>2, OneMore
      <4>4. QED
        BY <1>1, <1>2, <2>4, <3>1, <4>2, <4>3, Types, Numbers
    <3>2. CASE u # current.url
      <4>1. OfUrl(u, Tickets') = OfUrl(u, Tickets)
        BY <1>3, <1>8, <3>2 DEF OfUrl
      <4>2. QED
        BY <2>4, <4>1 DEF IInv, Within
    <3>3. QED
      BY <3>1, <3>2
  <2>5. QED
    BY <2>2, <2>3, <2>4 DEF Within
<1>13. Counted'
  BY <1>1, <1>8 DEF IInv, Counted, Collecting, Active, Videos
<1>14. InArticle'
  <2>1. current'.url \in Urls(page'.sources)
    BY <1>2, <1>4, <1>6 DEF Urls
  <2>2. Plain(current'.url) => Cardinality(OfUrl(current'.url, Tickets')) <= current'.media
    <3>1. OfUrl(current.url, Tickets') = OfUrl(current.url, Tickets) \cup {new}
      BY <1>3, <1>8 DEF OfUrl
    <3>2. IsFiniteSet(OfUrl(current.url, Tickets)) /\ Cardinality(OfUrl(current.url, Tickets)) \in Nat
      BY Types, Fewer
    <3>3. /\ Cardinality(OfUrl(current.url, Tickets'))
                <= Cardinality(OfUrl(current.url, Tickets)) + 1
          /\ Cardinality(OfUrl(current.url, Tickets')) \in Nat
      BY <3>1, <3>2, OneMore
    <3>4. QED
      BY <1>2, <1>6, <3>2, <3>3, Types
  <2>3. current'.media <= MediaPerSource
    BY <1>1, <1>6, Types, Numbers
  <2>4. MediaPerSource * (Cardinality(page.sources) - 1) \in Int
    BY Types, Numbers
  <2>5. Cardinality(page'.media)
          <= MediaPerSource * (Cardinality(page'.sources) - 1) + current'.media
    BY <1>2, <1>4, <1>6, <1>10, <2>4, Types
  <2>6. QED
    BY <2>1, <2>2, <2>3, <2>5 DEF InArticle
<1>15. PerPage'
  <2>1. MediaPerSource * (Cardinality(page.sources) - 1)
          = MediaPerSource * Cardinality(page.sources) - MediaPerSource
    BY Types, Numbers
  <2>2. MediaPerSource * Cardinality(page.sources) \in Int
    BY Types, Numbers
  <2>3. Cardinality(page'.media)
          <= MediaPerSource * Cardinality(page.sources) - MediaPerSource + current'.media
    BY <1>1, <1>4, <1>14, <2>1 DEF InArticle
  <2>4. current'.media <= MediaPerSource
    BY <1>1, <1>6, Types, Numbers
  <2>5. QED
    BY <1>4, <1>6, <1>10, <2>2, <2>3, <2>4, Types, Numbers DEF PerPage
<1>16. Covered'
  BY <1>1, <1>3, <1>5, <1>8 DEF IInv, Covered, Active
<1>17. Owned'
  BY <1>1, <1>2, <1>3, <1>4 DEF IInv, Owned
<1>18. NothingTwice'
  <2>1. \A m, n \in Tickets : m # n => m.digest # n.digest
    BY DEF IInv, NothingTwice, Tickets
  <2>2. \A m, n \in Tickets' : m # n => m.digest # n.digest
    BY <1>3, <1>8, <1>9, <2>1
  <2>3. \A s, t \in Sources' : s # t => s.body # t.body /\ (Plain(s.url) => s.url # t.url)
    BY <1>8 DEF IInv, NothingTwice, Sources
  <2>4. QED
    BY <2>2, <2>3 DEF NothingTwice, Sources, Tickets
<1>19. Empty'
  BY <1>1 DEF Empty
<1>20. (Budget /\ Rejections)'
  BY <1>1, <1>4, <1>5, <1>8 DEF IInv, Budget, Spent, Rejections, Active, Collecting
<1>21. QED
  BY <1>7, <1>11, <1>12, <1>13, <1>14, <1>15, <1>16, <1>17, <1>18, <1>19, <1>20 DEF IInv

\* The provider is called, or not, within what is left of the budget.
LEMMA AnalyseStep ==
  ASSUME IInv, Analyse
  PROVE  IInv'
<1>1. /\ UNCHANGED <<durable, known, counts, left, pages, failures, merged>>
      /\ pc = "analyse" /\ pc' = "links" /\ current' = NoArticle
      /\ page' = [page EXCEPT !.analyses = page.analyses + 1]
      /\ calls' \in {calls, calls + 1}
      /\ counts.analyses + page.analyses < MaxAnalyses
  BY DEF Analyse, InBudget
<1>2. /\ page' \in [sources: SUBSET Source, media: SUBSET Media, analyses: Nat,
                    republished: SUBSET Body]
      /\ page'.sources = page.sources /\ page'.media = page.media
      /\ page'.analyses = page.analyses + 1 /\ page'.republished = page.republished
  BY <1>1, Types
<1>3. TypeOK'
  BY <1>1, <1>2 DEF IInv, TypeOK, NoArticle
<1>4. Sources' = Sources /\ Tickets' = Tickets
  BY <1>1, <1>2 DEF Sources, Tickets
<1>5. (Finite /\ Within(Tickets) /\ PerPage /\ Owned)'
  BY <1>1, <1>2, <1>4 DEF IInv, Finite, Within, PerPage, Owned, OfUrl, Videos, Urls
<1>6. NothingTwice'
  BY <1>1, <1>2 DEF IInv, NothingTwice
<1>7. (Counted /\ Covered)'
  BY <1>1, <1>2, <1>4 DEF IInv, Counted, Covered, Active, Collecting, Urls, Bodies, Videos
<1>8. (InArticle /\ Empty)'
  BY <1>1 DEF InArticle, Empty
<1>9. Budget'
  <2>1. Spent' = Spent + 1 /\ Spent \in Nat /\ Spent < MaxAnalyses
    BY <1>1, <1>2, Types, Numbers DEF Spent, Collecting
  <2>2. failures = 0 => calls <= Spent
    BY <1>1 DEF IInv, Budget, Active
  <2>3. QED
    BY <1>1, <2>1, <2>2, Types, Numbers DEF Budget
<1>10. Rejections'
  BY <1>1, <1>2, <1>4 DEF IInv, Rejections, Active, Bodies
<1>11. QED
  BY <1>3, <1>5, <1>6, <1>7, <1>8, <1>9, <1>10 DEF IInv

\* An empty page in the place of what was collected.
LEMMA Emptied ==
  ASSUME IInv, durable' = durable, page' = EmptyPage
  PROVE  /\ page'.sources = {} /\ page'.media = {} /\ page'.analyses = 0 /\ page'.republished = {}
         /\ page' \in [sources: SUBSET Source, media: SUBSET Media, analyses: Nat,
                       republished: SUBSET Body]
         /\ Sources' = durable.sources /\ Tickets' = durable.media
         /\ (Finite /\ Within(Tickets) /\ PerPage /\ Owned /\ NothingTwice)'
         /\ durable.sources \subseteq Sources /\ durable.media \subseteq Tickets
<1>1. /\ page'.sources = {} /\ page'.media = {} /\ page'.analyses = 0 /\ page'.republished = {}
      /\ page' \in [sources: SUBSET Source, media: SUBSET Media, analyses: Nat,
                    republished: SUBSET Body]
  BY EmptyPageFacts
<1>2. /\ Sources' = durable.sources /\ Tickets' = durable.media
      /\ durable.sources \subseteq Sources /\ durable.media \subseteq Tickets
  BY <1>1 DEF Sources, Tickets
<1>3. Finite'
  BY <1>1, Types, EmptySets DEF Finite
<1>4. Within(Tickets)'
  <2>1. Within(durable.media)
    BY <1>2, Types, WithinFewer DEF IInv
  <2>2. QED
    BY <1>2, <2>1 DEF Within, OfUrl, Videos
<1>5. PerPage'
  BY <1>1, EmptySets, Numbers DEF PerPage
<1>6. Owned'
  BY <1>1 DEF IInv, Owned, Urls
<1>7. NothingTwice'
  BY <1>1 DEF IInv, NothingTwice
<1>8. QED
  BY <1>1, <1>2, <1>3, <1>4, <1>5, <1>6, <1>7

\* A page that raises leaves the known sets too large, which is the safe side, and
\* the analyses too small, which is not.
LEMMA RaiseStep ==
  ASSUME IInv, SearchRaises \/ ArticleRaises \/ AnalysisRaises
  PROVE  IInv'
<1>1. /\ UNCHANGED <<durable, known, counts, pages, merged>>
      /\ page' = EmptyPage /\ current' = NoArticle /\ left' = {} /\ pc' = "publish"
      /\ failures' = failures + 1 /\ calls' \in {calls, calls + 1}
      /\ Collecting /\ Active
  BY DEF SearchRaises, ArticleRaises, AnalysisRaises, Raise, Dropped, Collecting, Active
<1>2. /\ page'.sources = {} /\ page'.media = {} /\ page'.analyses = 0 /\ page'.republished = {}
      /\ page' \in [sources: SUBSET Source, media: SUBSET Media, analyses: Nat,
                    republished: SUBSET Body]
      /\ Sources' = durable.sources /\ Tickets' = durable.media
      /\ (Finite /\ Within(Tickets) /\ PerPage /\ Owned /\ NothingTwice)'
      /\ durable.sources \subseteq Sources /\ durable.media \subseteq Tickets
  BY <1>1, Emptied
<1>3. failures' \in Nat /\ failures' # 0 /\ calls' \in Nat
  BY <1>1, Types
<1>4. TypeOK'
  BY <1>1, <1>2, <1>3 DEF IInv, TypeOK, NoArticle
<1>5. Counted'
  BY <1>1, <1>2 DEF IInv, Counted, Collecting, Active, Videos
<1>6. Covered'
  BY <1>1, <1>2 DEF IInv, Covered, Active, Urls, Bodies
<1>7. (InArticle /\ Empty)'
  BY <1>1 DEF InArticle, Empty
<1>8. (Budget /\ Rejections)'
  BY <1>3 DEF Budget, Rejections
<1>9. QED
  BY <1>2, <1>4, <1>5, <1>6, <1>7, <1>8 DEF IInv

\* The page ends: what it collected counts from now on.
LEMMA EndPageStep ==
  ASSUME IInv, EndPage
  PROVE  IInv'
<1>1. /\ UNCHANGED <<durable, known, page, current, left, pages, calls, failures, merged>>
      /\ pc = "links" /\ pc' = "publish"
      /\ counts' = [media |-> counts.media + Cardinality(page.media),
                    video |-> counts.video + Cardinality(Videos(page.media)),
                    analyses |-> counts.analyses + page.analyses]
  BY DEF EndPage, Count
<1>2. Cardinality(Videos(page.media)) \in Nat
  BY Types, Fewer DEF Finite
<1>3. TypeOK'
  BY <1>1, <1>2, Types DEF IInv, TypeOK
<1>4. /\ (Finite /\ Within(Tickets) /\ PerPage /\ Owned /\ NothingTwice)'
      /\ Sources' = Sources /\ Tickets' = Tickets
  BY <1>1, SamePage
<1>5. Counted'
  <2>1. /\ Cardinality(durable.media) <= counts.media
        /\ Cardinality(Videos(durable.media)) <= counts.video
    BY <1>1 DEF IInv, Counted, Collecting, Active
  <2>2. /\ IsFiniteSet(Videos(durable.media)) /\ IsFiniteSet(Videos(page.media))
        /\ Cardinality(Videos(durable.media)) \in Nat
        /\ Cardinality(Videos(Tickets)) \in Nat
    BY Types, Fewer DEF Finite
  <2>3. Cardinality(Tickets) <= Cardinality(durable.media) + Cardinality(page.media)
    BY Types, Together DEF Finite, Tickets
  <2>4. Cardinality(Videos(Tickets))
          <= Cardinality(Videos(durable.media)) + Cardinality(Videos(page.media))
    BY <2>2, Together, VideosTogether DEF Tickets
  <2>5. /\ Cardinality(Tickets) <= counts.media + Cardinality(page.media)
        /\ Cardinality(Videos(Tickets)) <= counts.video + Cardinality(Videos(page.media))
    BY <1>2, <2>1, <2>2, <2>3, <2>4, Types
  <2>6. QED
    BY <1>1, <1>4, <2>5 DEF Counted, Collecting, Videos
<1>6. (InArticle /\ Empty)'
  BY <1>1 DEF InArticle, Empty
<1>7. Covered'
  BY <1>1, <1>4 DEF IInv, Covered, Active
<1>8. Budget'
  <2>1. Spent' = Spent
    BY <1>1, Types DEF Spent, Collecting
  <2>2. QED
    BY <1>1, <2>1 DEF IInv, Budget, Active
<1>9. Rejections'
  BY <1>1, <1>4 DEF IInv, Rejections, Active
<1>10. QED
  BY <1>3, <1>4, <1>5, <1>6, <1>7, <1>8, <1>9 DEF IInv

\* The page becomes durable; sources of one url may be merged.
LEMMA PublishStep ==
  ASSUME IInv, Publish
  PROVE  IInv'
<1>1. PICK kept \in Merges(Sources) :
        /\ durable' = [sources |-> kept, media |-> Tickets]
        /\ merged' = merged \cup Bodies(Sources \ kept)
  BY DEF Publish, Sources, Tickets, Bodies
<1>2. /\ UNCHANGED <<known, counts, current, left, calls, failures>>
      /\ pc = "publish" /\ pc' \in {"search", "idle"} /\ page' = EmptyPage /\ pages' = pages + 1
  BY DEF Publish
<1>3. /\ page'.sources = {} /\ page'.media = {} /\ page'.analyses = 0 /\ page'.republished = {}
      /\ page' \in [sources: SUBSET Source, media: SUBSET Media, analyses: Nat,
                    republished: SUBSET Body]
  BY <1>2, EmptyPageFacts
<1>4. /\ Sources' = kept /\ Tickets' = Tickets
      /\ durable'.sources = kept /\ durable'.media = Tickets
      /\ kept \subseteq Sources /\ Urls(kept) = Urls(Sources)
      /\ Bodies(Sources) = Bodies(kept) \cup Bodies(Sources \ kept)
  <2>1. kept \subseteq Sources /\ Urls(kept) = Urls(Sources)
    BY DEF Merges, Urls
  <2>2. Bodies(Sources) = Bodies(kept) \cup Bodies(Sources \ kept)
    BY <2>1 DEF Bodies
  <2>3. QED
    BY <1>1, <1>3, <2>1, <2>2 DEF Sources, Tickets
<1>5. Sources \subseteq Source /\ Tickets \subseteq Media
  BY Types DEF Sources, Tickets
<1>6. TypeOK'
  <2>1. durable' \in [sources: SUBSET Source, media: SUBSET Media]
    BY <1>1, <1>4, <1>5
  <2>2. merged' \subseteq Body
    BY <1>1, <1>5, Types DEF Bodies, Source
  <2>3. QED
    BY <1>2, <1>3, <2>1, <2>2 DEF IInv, TypeOK
<1>7. Finite'
  BY <1>3, <1>4, Types, EmptySets DEF Finite
<1>8. Within(Tickets)'
  BY <1>4 DEF IInv, Within, OfUrl, Videos
<1>9. Counted'
  BY <1>2, <1>4 DEF IInv, Counted, Collecting, Active, Videos
<1>10. PerPage'
  BY <1>3, EmptySets, Numbers DEF PerPage
<1>11. (InArticle /\ Empty)'
  BY <1>2 DEF InArticle, Empty
<1>12. Covered'
  BY <1>2, <1>4 DEF IInv, Covered, Active
<1>13. Owned'
  <2>1. {m.url : m \in Tickets} \subseteq Urls(Sources)
    BY DEF IInv, Owned, Tickets, Sources, Urls
  <2>2. QED
    BY <1>3, <1>4, <2>1 DEF Owned, Urls
<1>14. NothingTwice'
  BY <1>3, <1>4 DEF IInv, NothingTwice, Sources, Tickets
<1>15. Budget'
  BY <1>2, <1>3, Types DEF IInv, Budget, Spent, Active, Collecting
<1>16. Rejections'
  <2>1. Active
    BY <1>2 DEF Active
  <2>2. failures = 0 => known.bodies \subseteq Bodies(Sources) \cup merged
    BY <2>1 DEF IInv, Rejections
  <2>3. Bodies(Sources) \cup merged \subseteq Bodies(kept) \cup merged'
    BY <1>1, <1>4
  <2>4. QED
    BY <1>2, <1>3, <1>4, <2>2, <2>3 DEF Rejections
<1>17. QED
  BY <1>6, <1>7, <1>8, <1>9, <1>10, <1>11, <1>12, <1>13, <1>14, <1>15, <1>16 DEF IInv

LEMMA RefusedStep ==
  ASSUME IInv, PublishRefused
  PROVE  IInv'
<1>1. /\ UNCHANGED <<durable, known, counts, current, left, pages, calls, failures, merged>>
      /\ page' = EmptyPage /\ pc' = "idle"
  BY DEF PublishRefused
<1>2. /\ page' \in [sources: SUBSET Source, media: SUBSET Media, analyses: Nat,
                    republished: SUBSET Body]
      /\ page'.republished = {}
      /\ (Finite /\ Within(Tickets) /\ PerPage /\ Owned /\ NothingTwice)'
  BY <1>1, Emptied
<1>3. TypeOK'
  BY <1>1, <1>2 DEF IInv, TypeOK
<1>4. (Counted /\ InArticle /\ Covered /\ Empty /\ Budget /\ Rejections)'
  BY <1>1, <1>2 DEF IInv, Counted, InArticle, Covered, Empty, Budget, Rejections, Active
<1>5. QED
  BY <1>2, <1>3, <1>4 DEF IInv

-------------------------------------------------------------------------------
(* The theorems.                                                           *)

LEMMA NextIInv == IInv /\ [Next]_vars => IInv'
<1> SUFFICES ASSUME IInv, [Next]_vars PROVE IInv'
  OBVIOUS
<1>1. CASE UNCHANGED vars
  <2>1. /\ (Finite /\ Within(Tickets) /\ PerPage /\ Owned /\ NothingTwice)'
        /\ Sources' = Sources /\ Tickets' = Tickets
    BY <1>1, SamePage DEF vars
  <2>2. TypeOK'
    BY <1>1 DEF vars, IInv, TypeOK
  <2>3. (Counted /\ InArticle /\ Covered /\ Empty)'
    BY <1>1, <2>1 DEF vars, IInv, Counted, InArticle, Covered, Empty, Active, Collecting
  <2>4. (Budget /\ Rejections)'
    BY <1>1, <2>1 DEF vars, IInv, Budget, Rejections, Active, Spent, Collecting
  <2>5. QED
    BY <2>1, <2>2, <2>3, <2>4 DEF IInv
<1>2. CASE VisitLink
  BY <1>2, QuietStep, RejectStep, AcceptStep DEF VisitLink
<1>3. ASSUME NEW k \in Kind, NEW d \in Digest, TakeMedia(k, d) PROVE IInv'
  BY <1>3, TakeStep
<1>4. CASE BeginRun \/ Search \/ SearchRaises \/ ArticleRaises \/ EndPage
  BY <1>4, BeginStep, QuietStep, RaiseStep, EndPageStep
<1>5. CASE EndMedia \/ Analyse \/ SkipAnalysis \/ AnalysisRaises
  BY <1>5, QuietStep, AnalyseStep, RaiseStep
<1>6. CASE Publish \/ PublishRefused
  BY <1>6, PublishStep, RefusedStep
<1>7. QED
  BY <1>1, <1>2, <1>3, <1>4, <1>5, <1>6 DEF Next

LEMMA Invariance == Spec => []IInv
BY InitIInv, NextIInv, PTL DEF Spec

\* Every variable keeps its type.
THEOREM TypeCorrect == Spec => []TypeOK
<1>1. IInv => TypeOK
  BY DEF IInv
<1>2. QED
  BY <1>1, Invariance, PTL

\* The durable tickets never exceed the limits of the target and of its videos,
\* nor that of a source whose url has one spelling, though every run counts on its
\* own, pages raise, and the same page may be visited again under another link.
THEOREM LimitsKept == Spec => []TicketsWithinLimits
<1>1. IInv => TicketsWithinLimits
  <2> SUFFICES ASSUME IInv PROVE TicketsWithinLimits
    OBVIOUS
  <2>1. Within(durable.media)
    BY Types, WithinFewer DEF IInv, Tickets
  <2>2. QED
    BY <2>1 DEF Within, TicketsWithinLimits, OfUrl
<1>2. QED
  BY <1>1, Invariance, PTL

\* No content and no media file is taken twice, in a page or across pages and runs;
\* nor is a url, as long as one link alone leads to it and it reads back as it is.
THEOREM TakenOnce == Spec => []NothingTwice
<1>1. IInv => NothingTwice
  BY DEF IInv
<1>2. QED
  BY <1>1, Invariance, PTL

\* Every page posted is one SourceAcquisition may assume: sources of new content
\* and, with one spelling, of a new url; tickets of those sources only, within the
\* limits.
THEOREM PostsWhatIsAssumed == Spec => []PageAsPosted
<1>1. IInv => PageAsPosted
  <2> SUFFICES ASSUME IInv PROVE PageAsPosted
    OBVIOUS
  <2>1. \A s \in page.sources, t \in durable.sources :
          s.body # t.body /\ (Plain(s.url) => s.url # t.url)
    BY DEF IInv, Owned, NothingTwice
  <2>2. {m.url : m \in page.media} \subseteq {s.url : s \in page.sources}
    BY DEF IInv, Owned, Urls
  <2>3. /\ Cardinality(page.media) <= MediaPerSource * Cardinality(page.sources)
        /\ Cardinality(durable.media \cup page.media) <= MediaLimit
    BY DEF IInv, PerPage, Within, Tickets
  <2>4. QED
    BY <2>1, <2>2, <2>3 DEF PageAsPosted
<1>2. QED
  BY <1>1, Invariance, PTL

\* A run whose pages all ended keeps its budget and rejects only true duplicates.
THEOREM HonestRuns == Spec => []HonestWithoutFailure
<1>1. IInv => HonestWithoutFailure
  BY DEF IInv, Budget, Rejections, HonestWithoutFailure, Bodies, Sources
<1>2. QED
  BY <1>1, Invariance, PTL

===============================================================================
