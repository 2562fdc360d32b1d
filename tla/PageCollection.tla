----------------------------- MODULE PageCollection -----------------------------
(***************************************************************************)
(* How one run of the CPU worker collects its search pages: the loop over  *)
(* the links of a search page, the loop over the media of an article, the  *)
(* optional multimodal extraction, and what is left of all that when a     *)
(* page raises.  SourceAcquisition takes only the result of this loop;     *)
(* PageAsPosted is what it assumes of it.                                  *)
(*                                                                         *)
(* The public web is external: a search returns any links, and fetching a  *)
(* page or a media file returns any content, which may change from one     *)
(* fetch to the next.                                                      *)
(*                                                                         *)
(* A page has more than one url.  A link is skipped by the spelling the    *)
(* search gave it; its page is published, remembered and counted under     *)
(* Published[link], which is how httpx writes the url it fetched; and a    *)
(* later run remembers Restored[url], which is how a published url reads   *)
(* back.  Where these differ, a page whose content changed is taken again. *)
(***************************************************************************)
EXTENDS Naturals, FiniteSets

CONSTANTS
  NoUrl,           \* no article is being collected
  Url,             \* spellings of the article urls of the allowed domains
  Published,       \* str(response.url) of the page fetched at each link
  Restored,        \* str(item.source_url) of each published url, read back
  Body,            \* content hashes of articles
  Digest,          \* content hashes of media files
  MediaLimit,      \* plan.media_ticket_limit
  VideoLimit,      \* plan.video_ticket_limit
  MediaPerSource,  \* plan.media_per_source
  MaxAnalyses,     \* plan.max_multimodal_analyses_per_run
  MaxPagesPerRun,  \* plan.max_pages_per_run
  HasProvider      \* a multimodal provider is configured

ASSUME LimitsOK ==
  /\ {MediaLimit, MediaPerSource, MaxAnalyses, MaxPagesPerRun} \subseteq Nat \ {0}
  /\ VideoLimit \in 0..MediaLimit
  /\ NoUrl \notin Url
  /\ {Published, Restored} \subseteq [Url -> Url]
  /\ HasProvider \in BOOLEAN

VARIABLES
  durable,   \* sources and media tickets of the target, kept by the backend
  pc,        \* where the run is in its loop
  known,     \* urls, bodies and digests the run skips
  counts,    \* media and video tickets, and the analyses counted, across pages
  page,      \* what the current page has collected
  current,   \* the article being collected, and its media tickets
  left,      \* links of the search page not yet visited
  pages,     \* pages the run has published
  calls,     \* calls the run really made to the multimodal provider
  failures,  \* pages of the run that raised
  merged     \* contents whose source the backend merged with another, in this run

vars == <<durable, pc, known, counts, page, current, left, pages, calls, failures, merged>>

Kind == {"photo", "video", "audio"}

\* The source_id is a hash of the published url, so the url stands for it.
Source == [url: Url, body: Body]
Media == [digest: Digest, kind: Kind, url: Url]

\* republished: bodies the page's journal rejects as belonging to the evidence set.
EmptyPage == [sources |-> {}, media |-> {}, analyses |-> 0, republished |-> {}]
Videos(media) == {m \in media : m.kind = "video"}
NoArticle == [url |-> NoUrl, media |-> 0]

Init ==
  /\ durable = [sources |-> {}, media |-> {}]
  /\ pc = "idle"
  /\ known = [urls |-> {}, bodies |-> {}, digests |-> {}]
  /\ counts = [media |-> 0, video |-> 0, analyses |-> 0]
  /\ page = EmptyPage
  /\ current = NoArticle
  /\ left = {}
  /\ pages = 0
  /\ calls = 0
  /\ failures = 0
  /\ merged = {}

-------------------------------------------------------------------------------
\* worker.run reads what the target already holds.
BeginRun ==
  /\ pc = "idle"
  /\ pc' = "search"
  /\ known' = [urls |-> {Restored[s.url] : s \in durable.sources},
               bodies |-> {s.body : s \in durable.sources},
               digests |-> {m.digest : m \in durable.media}]
  /\ counts' = [media |-> Cardinality(durable.media),
                video |-> Cardinality(Videos(durable.media)),
                analyses |-> 0]
  /\ pages' = 0 /\ calls' = 0 /\ failures' = 0 /\ merged' = {}
  /\ UNCHANGED <<durable, page, current, left>>

\* The search provider answers with some links, perhaps none.
Search ==
  /\ pc = "search"
  /\ \E links \in SUBSET Url : left' = links
  /\ pc' = "links"
  /\ UNCHANGED <<durable, known, counts, page, current, pages, calls, failures, merged>>

\* Fault: the media tickets of a page that raised stay.
DroppedSources == [page EXCEPT !.sources = {}]

Dropped == EmptyPage

\* A page raises: the sources, claims and media it collected are dropped and its
\* analyses are not counted, but the known sets keep what it had accepted.
Raise ==
  /\ page' = Dropped
  /\ current' = NoArticle
  /\ left' = {}
  /\ pc' = "publish"
  /\ failures' = failures + 1
  /\ UNCHANGED <<durable, known, counts, pages, merged>>

SearchRaises ==
  /\ pc = "search"
  /\ Raise
  /\ UNCHANGED calls

\* A link spelled like a known url is skipped; a page that cannot be fetched or is no article with a
\* content hash is journaled and skipped.
SkipLink(u) ==
  /\ pc = "links"
  /\ u \in left
  /\ left' = left \ {u}
  /\ UNCHANGED <<durable, pc, known, counts, page, current, pages, calls, failures, merged>>

\* An identical body is journaled as belonging to the evidence set already.
RejectSyndicated(u, b) ==
  /\ pc = "links"
  /\ u \in left \ known.urls
  /\ b \in known.bodies
  /\ left' = left \ {u}
  /\ page' = [page EXCEPT !.republished = @ \cup {b}]
  /\ UNCHANGED <<durable, pc, known, counts, current, pages, calls, failures, merged>>

\* The published url has no policy in the plan, or an image fetched for the
\* provider is none it can be given.
ArticleRaises ==
  /\ \/ pc = "links" /\ left \ known.urls # {}
     \/ pc = "media" /\ current.media > 0
  /\ Raise
  /\ UNCHANGED calls

\* Fault: the body of an accepted article is not remembered.
RememberUrl(u, b) == [known EXCEPT !.urls = @ \cup {Published[u]}]

\* The published url is remembered, not the link it was found at.
Remember(u, b) == [known EXCEPT !.urls = @ \cup {Published[u]}, !.bodies = @ \cup {b}]

\* A new article becomes a source under the url it is published at.
AcceptArticle(u, b) ==
  /\ pc = "links"
  /\ u \in left \ known.urls
  /\ b \notin known.bodies
  /\ left' = left \ {u}
  /\ page' = [page EXCEPT !.sources = @ \cup {[url |-> Published[u], body |-> b]}]
  /\ known' = Remember(u, b)
  /\ current' = [url |-> Published[u], media |-> 0]
  /\ pc' = "media"
  /\ UNCHANGED <<durable, counts, pages, calls, failures, merged>>

\* Fault: the tickets of this page are forgotten in the run's limit.
RoomForgetsPage(k) ==
  /\ counts.media < MediaLimit
  /\ current.media < MediaPerSource

\* The limits of the target, of the article and, for a video, of videos.
Room(k) ==
  /\ counts.media + Cardinality(page.media) < MediaLimit
  /\ current.media < MediaPerSource
  /\ k = "video" => counts.video + Cardinality(Videos(page.media)) < VideoLimit

\* A media file of the article is fetched and becomes a ticket of its source.  The
\* tickets are counted for this visit of the source, not for the source.
TakeMedia(k, d) ==
  /\ pc = "media"
  /\ Room(k)
  /\ d \notin known.digests
  /\ page' = [page EXCEPT !.media = @ \cup {[digest |-> d, kind |-> k, url |-> current.url]}]
  /\ known' = [known EXCEPT !.digests = @ \cup {d}]
  /\ current' = [current EXCEPT !.media = @ + 1]
  /\ UNCHANGED <<durable, pc, counts, left, pages, calls, failures, merged>>

\* The article has no further media file, or a limit is reached.
EndMedia ==
  /\ pc = "media"
  /\ pc' = "analyse"
  /\ UNCHANGED <<durable, known, counts, page, current, left, pages, calls, failures, merged>>

InBudget == counts.analyses + page.analyses < MaxAnalyses

\* The provider extracts claims from the article, fails, or is not called because
\* the page has no text; each uses the budget.
Analyse ==
  /\ pc = "analyse"
  /\ InBudget /\ HasProvider
  /\ page' = [page EXCEPT !.analyses = @ + 1]
  /\ calls' \in {calls, calls + 1}
  /\ current' = NoArticle
  /\ pc' = "links"
  /\ UNCHANGED <<durable, known, counts, left, pages, failures, merged>>

\* No provider, or the budget of the run is spent.
SkipAnalysis ==
  /\ pc = "analyse"
  /\ ~InBudget \/ ~HasProvider
  /\ current' = NoArticle
  /\ pc' = "links"
  /\ UNCHANGED <<durable, known, counts, page, left, pages, calls, failures, merged>>

\* Preparing or calling the provider raises something that is no provider error.
AnalysisRaises ==
  /\ pc = "analyse"
  /\ InBudget /\ HasProvider
  /\ calls' \in {calls, calls + 1}
  /\ Raise

\* Fault: the analyses are counted the wrong way.
CountDown ==
  [media |-> counts.media + Cardinality(page.media),
   video |-> counts.video + Cardinality(Videos(page.media)),
   analyses |-> counts.analyses - page.analyses]

\* Fault: the run forgets to count the page's analyses.
CountTickets ==
  [counts EXCEPT !.media = @ + Cardinality(page.media),
                 !.video = @ + Cardinality(Videos(page.media))]

Count ==
  [media |-> counts.media + Cardinality(page.media),
   video |-> counts.video + Cardinality(Videos(page.media)),
   analyses |-> counts.analyses + page.analyses]

\* Every link is visited: the page's tickets and analyses count from now on.
EndPage ==
  /\ pc = "links"
  /\ left = {}
  /\ counts' = Count
  /\ pc' = "publish"
  /\ UNCHANGED <<durable, known, page, current, left, pages, calls, failures, merged>>

\* Sources with one source_id the backend may keep or merge; no source_id is lost.
Merges(sources) ==
  {kept \in SUBSET sources : {s.url : s \in kept} = {s.url : s \in sources}}

\* The backend makes the page durable; the run goes on or returns.
Publish ==
  /\ pc = "publish"
  /\ LET sources == durable.sources \cup page.sources
     IN  \E kept \in Merges(sources) :
           /\ durable' = [sources |-> kept, media |-> durable.media \cup page.media]
           /\ merged' = merged \cup {s.body : s \in sources \ kept}
  /\ page' = EmptyPage
  /\ pages' = pages + 1
  /\ pc' \in IF pages' = MaxPagesPerRun THEN {"idle"} ELSE {"search", "idle"}
  /\ UNCHANGED <<known, counts, current, left, calls, failures>>

\* The backend refuses the page: the run ends.
PublishRefused ==
  /\ pc = "publish"
  /\ page' = EmptyPage
  /\ pc' = "idle"
  /\ UNCHANGED <<durable, known, counts, current, left, pages, calls, failures, merged>>

VisitLink ==
  \E u \in Url : SkipLink(u) \/ \E b \in Body : RejectSyndicated(u, b) \/ AcceptArticle(u, b)

Next ==
  \/ BeginRun \/ Search \/ SearchRaises
  \/ VisitLink \/ ArticleRaises \/ EndPage
  \/ \E k \in Kind, d \in Digest : TakeMedia(k, d)
  \/ EndMedia \/ Analyse \/ SkipAnalysis \/ AnalysisRaises
  \/ Publish \/ PublishRefused

Spec == Init /\ [][Next]_vars

-------------------------------------------------------------------------------
(* Properties.                                                             *)

\* Every variable keeps its type.
TypeOK ==
  /\ durable \in [sources: SUBSET Source, media: SUBSET Media]
  /\ pc \in {"idle", "search", "links", "media", "analyse", "publish"}
  /\ known \in [urls: SUBSET Url, bodies: SUBSET Body, digests: SUBSET Digest]
  /\ counts \in [media: Nat, video: Nat, analyses: Nat]
  /\ page \in [sources: SUBSET Source, media: SUBSET Media, analyses: Nat,
              republished: SUBSET Body]
  /\ current \in [url: Url \cup {NoUrl}, media: Nat]
  /\ left \subseteq Url
  /\ {pages, calls, failures} \subseteq Nat
  /\ merged \subseteq Body

\* A published url with one spelling: only one link leads to it, and it reads back
\* as it is.
Plain(u) == Restored[u] = u /\ \A l \in Url : Published[l] = u => l = u

\* Whatever pages raised and whatever runs followed each other, the durable
\* tickets stay within the limits of the target and of its videos, and the tickets
\* of a source within media_per_source if its url has one spelling.
TicketsWithinLimits ==
  /\ Cardinality(durable.media) <= MediaLimit
  /\ Cardinality(Videos(durable.media)) <= VideoLimit
  /\ \A u \in Url : Plain(u) => Cardinality({m \in durable.media : m.url = u}) <= MediaPerSource

\* No content is a source twice, a url with one spelling is no source twice even if
\* its content changes, and no media file has two tickets: neither in the evidence
\* nor in the page about to join it.
NothingTwice ==
  LET sources == durable.sources \cup page.sources
      media == durable.media \cup page.media
  IN /\ \A s, t \in sources : s # t => s.body # t.body /\ (Plain(s.url) => s.url # t.url)
     /\ \A m, n \in media : m # n => m.digest # n.digest

\* What SourceAcquisition assumes of the page it posts: only sources whose content
\* is new, and whose url is new if it has one spelling, tickets of those sources,
\* and nothing at all from a page that raised.
PageAsPosted ==
  pc = "publish" =>
    /\ \A s \in page.sources, t \in durable.sources :
         s.body # t.body /\ (Plain(s.url) => s.url # t.url)
    /\ {m.url : m \in page.media} \subseteq {s.url : s \in page.sources}
    /\ Cardinality(page.media) <= MediaPerSource * Cardinality(page.sources)
    /\ Cardinality(durable.media \cup page.media) <= MediaLimit

\* A run none of whose pages raised keeps its budget of provider calls, and rejects
\* an article as belonging to the evidence set only when the evidence, or the page
\* itself, has a source with its content, or had one that the backend merged.  A
\* page that raised spoils both.
HonestWithoutFailure ==
  failures = 0 =>
    /\ calls <= MaxAnalyses
    /\ pc = "publish" =>
         page.republished \subseteq {s.body : s \in durable.sources \cup page.sources} \cup merged
===============================================================================
