------------------------------ MODULE RssFeeds ------------------------------
(***************************************************************************)
(* The RSS plugin: feeds are refreshed and keep their articles in a file   *)
(* each (rssfeed.cpp); new articles are scanned with filters, which        *)
(* remember what they matched (rssfilter.cpp, rssfeedmanager.cpp); a match *)
(* is downloaded through the pages its link leads to                       *)
(* (rsslinkdownloader.cpp).  The lists of feeds and filters are saved when *)
(* they change.                                                            *)
(*                                                                         *)
(* Feeds and filters are objects; those of a plugin that was unloaded are  *)
(* not deleted.  Downloads hold the address of their filter, which may be  *)
(* gone, or that of another filter, when they end.  An article stands for  *)
(* its link; which articles are marked as downloaded is left out, and so   *)
(* is what the widgets show.                                               *)
(***************************************************************************)
EXTENDS Naturals, FiniteSets, Sequences, SequencesExt, FiniteSetsExt

CONSTANTS
    Articles,       \* 1 .. n, in the order of their publication
    Day,            \* Day[a]: when a is published
    At,             \* At[a]: the URLs of the feeds that have a
    Episode,        \* Episode[a]: <<season, episode>>, or NoEpisode
    Broken,         \* the articles whose link is no valid URL
    Urls, Ages,
    Patterns,       \* Patterns[p]: the articles that the expressions p match
    Configs,        \* what the user sets filters to
    NewConfig,      \* what a new filter is set to: it matches nothing
    SavedFeeds, SavedAccept, SavedReject,   \* what is on the disk at first
    FeedIds, Addr,  \* bounds: objects alive at a time
    MaxDownloads,   \* bound: downloads at a time
    MaxSub,         \* bound: links of a page
    LastDay, MaxEvents, MaxFailures         \* bounds

NotLoading == "none"
NoEpisode == <<0, 0>>
NoUrl == ""      \* of a new feed; nothing is found there

ASSUME RssConstants ==
    /\ Articles \in SUBSET Nat /\ IsFiniteSet(Articles)
    /\ Day \in [Articles -> Nat] /\ At \in [Articles -> SUBSET Urls]
    /\ Episode \in [Articles -> Nat \X Nat] /\ Broken \subseteq Articles
    /\ {NotLoading, NoUrl} \cap Urls = {} /\ Ages \subseteq Nat
    /\ IsFiniteSet(FeedIds) /\ IsFiniteSet(Addr)
    /\ FeedIds \subseteq Nat /\ Addr \subseteq Nat \ {0}
    /\ {MaxDownloads, MaxSub, LastDay, MaxEvents, MaxFailures} \subseteq Nat

VARIABLES
    m,          \* the plugin, its files, and history
    today, events, failures

rssVars == <<m, today, events, failures>>

Matches == [ep: Range(Episode) \cup {NoEpisode}, link: Articles]

\* old: the matches it was loaded with; name: history, which filter it is, on the disk too
Filter == [cfg: Configs \cup {NewConfig}, matches: SUBSET Matches, old: SUBSET Matches, name: Nat]
Feed == [url: Urls \cup {NoUrl}, active: BOOLEAN, age: Ages, articles: SUBSET Articles,
         loading: Urls \cup {NoUrl, NotLoading}]
Download == [id: Nat, link: Articles, curFilter: Addr \cup {0}, name: Nat,
             firstLink: BOOLEAN, subLinks: 0 .. MaxSub, feeds: SUBSET FeedIds]

Gone == [gone |-> TRUE]     \* no object with this number

\* names: history, filters so far; done: history, what was loaded for which filter; lax: filters that did not
\* insist on one download of an episode all the time
Manager == [on: BOOLEAN, feed: [FeedIds -> Feed \cup {Gone}], feeds: Seq(FeedIds),
            filter: [Addr -> Filter \cup {Gone}], accept: Seq(Addr), reject: Seq(Addr),
            downloads: SUBSET Download,
            file: [Urls \cup {NoUrl} -> {<<>>} \cup {<<a>> : a \in SUBSET Articles}],
            saved: [feeds: Seq([url: Urls \cup {NoUrl}, active: BOOLEAN, age: Ages]),
                    accept: Seq(Filter), reject: Seq(Filter)],
            names: Nat, done: SUBSET (Nat \X Articles), lax: SUBSET Nat]

---------------------------------------------------------------------------
(***************************************************************************)
(* Files                                                                   *)
(***************************************************************************)
saveFeedList(v) ==
    [v EXCEPT !.saved.feeds =
        [i \in DOMAIN v.feeds |-> LET f == v.feed[v.feeds[i]]
                                  IN  [url |-> f.url, active |-> f.active, age |-> f.age]]]

\* mutant: the settings of accept filters are saved, not their matches
saveFilterSettings(v) ==
    [v EXCEPT !.saved.accept = [i \in DOMAIN v.accept |->
                                   [v.filter[v.accept[i]] EXCEPT !.matches = {}, !.old = {}]],
              !.saved.reject = [i \in DOMAIN v.reject |->
                                   [v.filter[v.reject[i]] EXCEPT !.old = {}]]]

saveFilterList(v) ==
    [v EXCEPT !.saved.accept = [i \in DOMAIN v.accept |->
                                   [v.filter[v.accept[i]] EXCEPT !.old = {}]],
              !.saved.reject = [i \in DOMAIN v.reject |->
                                   [v.filter[v.reject[i]] EXCEPT !.old = {}]]]

\* A file is <<>> if it does not exist; a feed without a URL has one too
saveArticles(v, i) == [v EXCEPT !.file[v.feed[i].url] = <<v.feed[i].articles>>]

loadArticles(v, i) ==
    LET file == v.file[v.feed[i].url]
    IN  IF file = <<>> THEN v ELSE [v EXCEPT !.feed[i].articles = file[1]]

---------------------------------------------------------------------------
(***************************************************************************)
(* RssFilter                                                               *)
(***************************************************************************)
AlreadyDownloaded(f, a) ==
    f.cfg.series /\ Episode[a] # NoEpisode /\ \E x \in f.matches : x.ep = Episode[a]

\* A minimum or maximum of 0 is none; that of the episode is one of its season
InRange(cfg, e) ==
    /\ cfg.minSeason > 0 =>
          /\ e[1] >= cfg.minSeason
          /\ e[1] = cfg.minSeason /\ cfg.minEpisode > 0 => e[2] >= cfg.minEpisode
    /\ cfg.maxSeason > 0 =>
          /\ e[1] <= cfg.maxSeason
          /\ e[1] = cfg.maxSeason /\ cfg.maxEpisode > 0 => e[2] <= cfg.maxEpisode

episodeInRange(f, a, ignoreMatches) ==
    InRange(f.cfg, Episode[a]) /\ (AlreadyDownloaded(f, a) => ~ignoreMatches)

ScanArticle(f, a, ignoreMatches) ==
    /\ f.cfg.active /\ a \in Patterns[f.cfg.pattern]
    /\ f.cfg.series => IF Episode[a] # NoEpisode THEN episodeInRange(f, a, ignoreMatches)
                       ELSE f.cfg.sansEpisode

\* The end of scanArticle: a new match is kept, and saved
keepMatch(v, q, a) ==
    LET f == v.filter[q]
        ep == IF f.cfg.series THEN Episode[a] ELSE NoEpisode
    IN  IF AlreadyDownloaded(f, a) THEN v
        ELSE saveFilterList([v EXCEPT !.filter[q].matches = @ \cup {[ep |-> ep, link |-> a]}])

\* Not saved
deleteMatch(v, q, a) ==
    [v EXCEPT !.filter[q].matches = {x \in @ : x.link # a}]

---------------------------------------------------------------------------
(***************************************************************************)
(* RssFeedManager::scanArticle                                             *)
(***************************************************************************)
FirstUnused(used) == Min((1 .. Cardinality(used) + 1) \ used)

\* RssLinkDownloader; q = 0: asked for by the user.  It tells the feeds if it succeeds.
\* With a link that is no URL it only shows an error and goes, and the match stays.
newDownload(v, a, q, feeds) ==
    IF a \in Broken THEN v
    ELSE [v EXCEPT !.downloads = @ \cup
        {[id |-> FirstUnused({d.id : d \in @}), link |-> a, curFilter |-> q,
          name |-> IF q = 0 THEN 0 ELSE v.filter[q].name,
          firstLink |-> TRUE, subLinks |-> 0, feeds |-> feeds]}]

scanArticle(v, a, filters) ==
    LET rejecting == {i \in DOMAIN v.reject : ScanArticle(v.filter[v.reject[i]], a, FALSE)}
        scan(x, q) == IF ScanArticle(x.filter[q], a, TRUE)
                      THEN newDownload(keepMatch(x, q, a), a, q, Range(v.feeds)) ELSE x
    IN  IF rejecting # {} THEN keepMatch(v, v.reject[Min(rejecting)], a)
        ELSE FoldLeft(scan, v, filters)

---------------------------------------------------------------------------
(***************************************************************************)
(* RssFeed                                                                 *)
(***************************************************************************)
Age(a) == today - Day[a]

cleanArticles(v, i) ==
    LET young == {a \in v.feed[i].articles : Age(a) <= v.feed[i].age}
    IN  IF young = v.feed[i].articles THEN v
        ELSE saveArticles([v EXCEPT !.feed[i].articles = young], i)

refreshFeed(v, i) ==
    IF v.feed[i].loading # NotLoading THEN v
    ELSE cleanArticles([v EXCEPT !.feed[i].loading = v.feed[i].url], i)

startFeed(v, i) == IF v.feed[i].active THEN refreshFeed(v, i) ELSE v

\* clearArticles of the manager runs after the articles of the new URL were loaded
setFeedUrl(v, i, url) ==
    LET x == startFeed(loadArticles([v EXCEPT !.feed[i].url = url], i), i)
    IN  saveFeedList([x EXCEPT !.feed[i].articles = {}])

setActive(v, i, active) ==
    saveFeedList(startFeed([v EXCEPT !.feed[i].active = active], i))

\* Cleaned before the new age is set
setArticleAge(v, i, age) ==
    LET x == IF age < v.feed[i].age THEN cleanArticles(v, i) ELSE v
    IN  saveFeedList([x EXCEPT !.feed[i].age = age])

Document(url) == {a \in Articles : url \in At[a] /\ Day[a] <= today}

\* The title or the time to live of a document changes and is saved, unless the plugin of
\* the feed was unloaded
setTitle(v, i) == IF Contains(v.feeds, i) THEN saveFeedList(v) ELSE v

\* The articles come with the oldest first.  A feed whose plugin was unloaded scans nothing.
feedLoaded(v, i) ==
    LET f == v.feed[i]
        new == {a \in Document(f.loading) : Age(a) < f.age /\ a \notin f.articles}
        add(x, a) == LET y == [x EXCEPT !.feed[i].articles = @ \cup {a}]
                     IN  IF Contains(v.feeds, i) THEN scanArticle(y, a, y.accept) ELSE y
        w == FoldLeft(add, [v EXCEPT !.feed[i].loading = NotLoading], SetToSortSeq(new, <))
    IN  IF new = {} THEN w ELSE saveArticles(w, i)

---------------------------------------------------------------------------
(***************************************************************************)
(* RssLinkDownloader                                                       *)
(***************************************************************************)
WithoutDownload(v, d) == [v EXCEPT !.downloads = @ \ {d}]

\* Everything in memory is lost
Exited(v) ==
    [v EXCEPT !.on = FALSE, !.downloads = {}, !.feeds = <<>>, !.accept = <<>>, !.reject = <<>>,
              !.feed = [i \in FeedIds |-> Gone], !.filter = [q \in Addr |-> Gone]]

\* A torrent: the core loads it, and setDownloaded of the feeds saves their articles
torrentFound(v, d) ==
    LET having == {i \in d.feeds : d.link \in v.feed[i].articles}
        w == FoldSet(LAMBDA i, x : saveArticles(x, i), WithoutDownload(v, d), having)
    IN  IF d.name = 0 THEN w ELSE [w EXCEPT !.done = @ \cup {<<d.name, d.link>>}]

\* mutant: the match of a download that failed is kept
failedKept(v, d) == {WithoutDownload(v, d)}

\* No link is left.  If the filter is gone its address is free, or that of another one
failed(v, d) ==
    IF d.curFilter = 0 THEN {WithoutDownload(v, d)}
    ELSE IF v.filter[d.curFilter] = Gone THEN {WithoutDownload(v, d), Exited(v)}
    ELSE LET w == deleteMatch(WithoutDownload(v, d), d.curFilter, d.link)
             n == w.filter[d.curFilter].name
         IN  {IF n = d.name THEN w ELSE [w EXCEPT !.lax = @ \cup {n}]}

\* What the job brought was no torrent: the next link is tried
nextLink(v, d) ==
    IF d.subLinks = 0 THEN failed(v, d)
    ELSE {[v EXCEPT !.downloads = (@ \ {d}) \cup {[d EXCEPT !.subLinks = @ - 1]}]}

\* A page: links are taken from the first one only
pageFound(v, d, n) ==
    LET e == [d EXCEPT !.firstLink = FALSE, !.subLinks = IF d.firstLink THEN n ELSE @]
    IN  nextLink([v EXCEPT !.downloads = (@ \ {d}) \cup {e}], e)

---------------------------------------------------------------------------
(***************************************************************************)
(* The manager, its lists, and the user                                    *)
(***************************************************************************)
Becomes(v) == m' = v /\ Cardinality(v.downloads) <= MaxDownloads

Quiet == UNCHANGED <<today, events, failures>>
Event == events < MaxEvents /\ events' = events + 1 /\ UNCHANGED <<today, failures>>
Failure == failures < MaxFailures /\ failures' = failures + 1 /\ UNCHANGED <<today, events>>

FreeFeeds(v) == {i \in FeedIds : v.feed[i] = Gone}
FreeAddr(v) == {q \in Addr : v.filter[q] = Gone}

newFeed(v, f) ==
    LET i == Min(FreeFeeds(v))
        w == [v EXCEPT !.feeds = Append(@, i),
                       !.feed[i] = [url |-> f.url, active |-> f.active, age |-> f.age,
                                    articles |-> {}, loading |-> NotLoading]]
    IN  startFeed(loadArticles(w, i), i)

newFilter(v, f) == [v EXCEPT !.filter[Min(FreeAddr(v))] = [f EXCEPT !.old = f.matches]]

addNewAcceptFilter(v, f) == [newFilter(v, f) EXCEPT !.accept = Append(@, Min(FreeAddr(v)))]
addNewRejectFilter(v, f) == [newFilter(v, f) EXCEPT !.reject = Append(@, Min(FreeAddr(v)))]

\* The plugin is loaded: loadFeedList, loadFilterList
Load ==
    /\ ~m.on
    /\ Cardinality(FreeFeeds(m)) >= Len(m.saved.feeds)
    /\ Cardinality(FreeAddr(m)) >= Len(m.saved.accept) + Len(m.saved.reject)
    /\ LET v == FoldLeft(newFeed, [m EXCEPT !.on = TRUE], m.saved.feeds)
       IN  Becomes(FoldLeft(addNewRejectFilter, FoldLeft(addNewAcceptFilter, v, m.saved.accept),
                            m.saved.reject))
    /\ Quiet

\* The lists are forgotten; feeds, filters and downloads are not deleted
Unload ==
    /\ m.on /\ Event
    /\ Becomes([m EXCEPT !.on = FALSE, !.feeds = <<>>, !.accept = <<>>, !.reject = <<>>])

Exit == m # Exited(m) /\ Event /\ Becomes(Exited(m))

\* A new feed or filter is not saved before a setting changes
AddNewFeed ==
    /\ m.on /\ FreeFeeds(m) # {} /\ Event
    /\ Becomes(newFeed(m, [url |-> NoUrl, active |-> FALSE, age |-> Max(Ages)]))

DeleteSelectedFeed(k) ==
    /\ Event
    /\ Becomes(saveFeedList(
          [m EXCEPT !.feeds = RemoveAt(@, k), !.feed[m.feeds[k]] = Gone,
                    !.downloads = {[d EXCEPT !.feeds = @ \ {m.feeds[k]}] : d \in @}]))

\* The setters do nothing if nothing changes
ChangeFeed(i) ==
    /\ Event
    /\ \/ \E url \in Urls \ {m.feed[i].url} : Becomes(setFeedUrl(m, i, url))
       \/ Becomes(setActive(m, i, ~m.feed[i].active))
       \/ \E age \in Ages \ {m.feed[i].age} : Becomes(setArticleAge(m, i, age))

\* The timer of an active feed, or the button
Refresh(i) ==
    /\ m.feed[i] # Gone /\ m.feed[i].loading = NotLoading
    /\ m.feed[i].active \/ Contains(m.feeds, i)
    /\ Becomes(refreshFeed(m, i)) /\ Quiet

FeedLoaded(i) ==
    /\ m.feed[i] # Gone /\ m.feed[i].loading # NotLoading
    /\ \E v \in {m, setTitle(m, i)} : Becomes(feedLoaded(v, i))
    /\ Quiet

FeedNotLoaded(i) ==
    /\ m.feed[i] # Gone /\ m.feed[i].loading # NotLoading
    /\ Becomes([m EXCEPT !.feed[i].loading = NotLoading]) /\ Failure

AddNewFilter ==
    /\ m.on /\ FreeAddr(m) # {} /\ Event
    /\ LET f == [cfg |-> NewConfig, matches |-> {}, old |-> {}, name |-> m.names + 1]
           v == [m EXCEPT !.names = @ + 1]
       IN  Becomes(addNewAcceptFilter(v, f)) \/ Becomes(addNewRejectFilter(v, f))

DeleteSelectedFilter(q) ==
    /\ Event
    /\ Becomes(saveFilterList(
          [m EXCEPT !.accept = SelectSeq(@, LAMBDA p : p # q),
                    !.reject = SelectSeq(@, LAMBDA p : p # q), !.filter[q] = Gone]))

ChangeFilter(q, cfg) ==
    /\ cfg # m.filter[q].cfg /\ Event
    /\ LET lax == IF cfg.series THEN {} ELSE {m.filter[q].name}
       IN  Becomes(saveFilterList([m EXCEPT !.filter[q].cfg = cfg, !.lax = @ \cup lax]))

RescanFilter(q) ==
    /\ Event
    /\ Becomes(FoldLeft(LAMBDA v, i :
                  FoldLeft(LAMBDA x, a : scanArticle(x, a, <<q>>), v,
                           SetToSortSeq(v.feed[i].articles, >)), m, m.feeds))

DeleteSelectedMatches(q, a) ==
    /\ \E x \in m.filter[q].matches : x.link = a
    /\ Event
    /\ Becomes([deleteMatch(m, q, a) EXCEPT !.lax = @ \cup {m.filter[q].name}])

DownloadSelectedArticles(i, a) ==
    /\ a \in m.feed[i].articles
    /\ Event /\ Becomes(newDownload(m, a, 0, Range(m.feeds)))

DownloadSelectedMatches(q, a) ==
    /\ \E x \in m.filter[q].matches : x.link = a
    /\ Event /\ Becomes(newDownload(m, a, 0, {}))

TorrentFound(d) == Becomes(torrentFound(m, d)) /\ Quiet
PageFound(d, n) ==
    /\ \E v \in pageFound(m, d, n) : Becomes(v)
    /\ IF d.firstLink /\ n > 0 THEN Quiet ELSE Failure
NothingFound(d) == (\E v \in nextLink(m, d) : Becomes(v)) /\ Failure

DayPasses == today < LastDay /\ today' = today + 1 /\ UNCHANGED <<m, events, failures>>

---------------------------------------------------------------------------
RssInit ==
    /\ m = [on |-> FALSE, feed |-> [i \in FeedIds |-> Gone], feeds |-> <<>>,
            filter |-> [q \in Addr |-> Gone], accept |-> <<>>, reject |-> <<>>,
            downloads |-> {}, file |-> [url \in Urls \cup {NoUrl} |-> <<>>],
            saved |-> [feeds |-> SavedFeeds, accept |-> SavedAccept, reject |-> SavedReject],
            names |-> Len(SavedAccept) + Len(SavedReject), done |-> {},
            lax |-> {f.name : f \in {x \in Range(SavedAccept) : ~x.cfg.series}}]
    /\ today = 0 /\ events = 0 /\ failures = 0

RssNext ==
    \/ Load \/ Unload \/ Exit \/ AddNewFeed \/ AddNewFilter \/ DayPasses
    \/ \E k \in DOMAIN m.feeds :
          \/ DeleteSelectedFeed(k) \/ ChangeFeed(m.feeds[k])
          \/ \E a \in Articles : DownloadSelectedArticles(m.feeds[k], a)
    \/ \E i \in FeedIds : Refresh(i) \/ FeedLoaded(i) \/ FeedNotLoaded(i)
    \/ \E q \in Range(m.accept) \cup Range(m.reject) :
          \/ DeleteSelectedFilter(q)
          \/ \E cfg \in Configs : ChangeFilter(q, cfg)
          \/ \E a \in Articles : DeleteSelectedMatches(q, a) \/ DownloadSelectedMatches(q, a)
    \/ \E q \in Range(m.accept) : RescanFilter(q)
    \/ \E d \in m.downloads : TorrentFound(d) \/ NothingFound(d)
                               \/ \E n \in 0 .. MaxSub : PageFound(d, n)

RssSpec == RssInit /\ [][RssNext]_rssVars

---------------------------------------------------------------------------
RssTypeOK ==
    /\ m \in Manager
    /\ today \in 0 .. LastDay /\ events \in 0 .. MaxEvents /\ failures \in 0 .. MaxFailures

\* What filter n has downloaded or has on its way, of the articles in S
Pursued(n, S) ==
    Cardinality({d \in m.downloads : d.name = n /\ d.link \in S})
        + Cardinality(m.done \cap ({n} \X S))

\* A series filter downloads an episode once: however often it is posted, in whichever
\* feeds, whenever they are read again, and over restarts; only a download that failed may
\* be followed by another one.
EpisodeOnce ==
    \A n \in (1 .. m.names) \ m.lax, e \in Range(Episode) \ {NoEpisode} :
        Pursued(n, {a \in Articles : Episode[a] = e}) <= 1

\* A match that a filter has made since it was loaded is being downloaded or was, unless
\* its link is no URL; a download of an episode that runs has its match.  So nothing that
\* failed after it began is taken for downloaded, and nothing on its way is started again.
MatchIsPursued ==
    /\ RssTypeOK
    /\ \A q \in Range(m.accept) :
          LET f == m.filter[q]
          IN  /\ \A x \in f.matches \ f.old : x.link \in Broken \/ Pursued(f.name, {x.link}) > 0
              /\ \A d \in m.downloads :
                    d.name = f.name /\ f.name \notin m.lax /\ Episode[d.link] # NoEpisode =>
                        [ep |-> Episode[d.link], link |-> d.link] \in f.matches
===========================================================================
