-------------------------------- MODULE Sites --------------------------------
(***************************************************************************)
(* The crawl of a web site (scan_website): breadth first over the links of   *)
(* one host, up to a number of pages, with a cache of results in the process. *)
(* Two requests may crawl the same site at once; the later one to finish      *)
(* stays in the cache.                                                       *)
(***************************************************************************)
EXTENDS Scoring, SequencesExt

CONSTANTS
    Crawlers,   \* requests, at most one each at a time
    Urls, Host, Https,
    Limits,     \* values of max_pages a caller may ask for
    Hrefs,      \* what the links of a page may say
    Joins,      \* Joins[base][href]: the URL a link means on a page of this URL
    Redirects,  \* per URL, where its server may send a request on to
    Pages,      \* per URL, what its server may answer otherwise
    SiteTtl,    \* CACHE_TTL_SECONDS
    MaxTime,    \* bound: the clock
    MaxCrawls   \* bound: crawls that are started

\* An answer is a failed request, a response whose body cannot be read or is not
\* HTML, or a page; with the issues of its status, headers and content and its links,
\* which may be absolute or not: Url::join makes them a URL.
PossibleAnswers == [kind : {"failed", "unread", "other", "page"}, issues : SUBSET
                      [code : STRING, severity : DOMAIN IssueWeight, evidence : STRING],
                    links : Seq(Hrefs)]

\* max_pages is an Option<u8>.
ASSUME SitesAssumption == /\ Limits \subseteq 0..255 \cup {None}
                          /\ Joins \in [Urls -> [Hrefs -> Urls]]
                          /\ \A u \in Urls : /\ Pages[u] \subseteq PossibleAnswers
                                             /\ Redirects[u] \subseteq Urls

VARIABLES
    siteCache,  \* WEBSITE_SCAN_CACHE: None or [at, result], by URL and limit
    crawl,      \* the crawl of each request
    crawls,
    time

siteVars == <<siteCache, crawl, crawls, time>>

\* DEFAULT_MAX_PAGES, MAX_ALLOWED_PAGES
Limit(asked) == IF asked = None THEN 4 ELSE Max({1, Min({asked, 10})})

Key(url, limit) == <<url, limit>>
Keys == Urls \X {Limit(n) : n \in Limits} \cup Urls \X {4}

\* maybe_get_cached
Cached(key) == siteCache[key] # None /\ time - siteCache[key].at <= SiteTtl

\* Mutation of Seen: a page that links to itself is new each time.
NeverSeen(url, visited) == FALSE

Seen(url, visited) == url \in visited

\* Whether the queue takes another link.
Room(limit, queue, visited) == Len(queue) + Cardinality(visited) < 3 * limit

\* The client follows five redirects, to any host; what it then reads passes for the
\* answer of the URL it asked for.
Reached(url) ==
    LET within[n \in 0..5] ==
            IF n = 0 THEN {url}
            ELSE within[n - 1] \cup UNION {Redirects[u] : u \in within[n - 1]}
    IN  within[5]

\* Mutation of Base: links are judged by the page that was read.
BaseOfRead(asked, read) == read

\* The URL that the links of a page are resolved against, and whose host they must have.
Base(asked, read) == asked

\* The links of a page to the host of its base join the queue, in the order of the page,
\* as long as there is room.
Joined(base, links, limit, queue, visited) ==
    LET after[n \in 0..Len(links)] ==
            IF n = 0 THEN queue
            ELSE LET link == Joins[base][links[n]]
                 IN  IF /\ Host[link] = Host[base] /\ ~Seen(link, visited)
                        /\ Room(limit, after[n - 1], visited)
                     THEN Append(after[n - 1], link)
                     ELSE after[n - 1]
    IN  after[Len(links)]

\* No connection, a timeout, or one redirect too many: always possible.
Failed == [kind |-> "failed", issues |-> {}, links |-> <<>>]

Issue(code, severity, evidence) == [code |-> code, severity |-> severity, evidence |-> evidence]

\* What the crawler itself says of a request; a set holds each issue once.
PageIssues(url, answer) ==
    {i \in {Issue("non_https_page", "high", url)} : ~Https[url]}
    \cup {i \in {Issue("request_failed", "high", url)} : answer.kind = "failed"}
    \cup {i \in {Issue("html_read_error", "medium", url)} : answer.kind = "unread"}
    \cup (IF answer.kind = "failed" THEN {} ELSE answer.issues)

-----------------------------------------------------------------------------
Crawling(c) == crawl[c] # None /\ crawl[c].result = None

\* The cache, or a new crawl.
StartSite(c, url, asked) ==
    LET limit == Limit(asked)
        key   == Key(url, limit)
    IN  /\ crawl[c] = None /\ crawls < MaxCrawls /\ crawls' = crawls + 1
        /\ crawl' = [crawl EXCEPT ![c] =
               [url |-> url, limit |-> limit, queue |-> <<url>>, visited |-> {}, issues |-> {},
                result |-> IF Cached(key) THEN siteCache[key].result ELSE None]]
        /\ UNCHANGED <<siteCache, time>>

Skip(c) ==
    LET t == crawl[c]
    IN  /\ Crawling(c) /\ t.queue # <<>> /\ Cardinality(t.visited) < t.limit
        /\ Seen(Head(t.queue), t.visited)
        /\ crawl' = [crawl EXCEPT ![c].queue = Tail(@)]
        /\ UNCHANGED <<siteCache, crawls, time>>

\* One request and its redirects, which ends after ten seconds at the latest.
Fetch(c, read, answer) ==
    LET t       == crawl[c]
        url     == Head(t.queue)
        visited == t.visited \cup {url}
        queue   == IF answer.kind = "page"
                   THEN Joined(Base(url, read), answer.links, t.limit, Tail(t.queue), visited)
                   ELSE Tail(t.queue)
    IN  /\ Crawling(c) /\ t.queue # <<>> /\ Cardinality(t.visited) < t.limit
        /\ ~Seen(url, t.visited) /\ read \in Reached(url)
        /\ answer \in {Failed} \cup Pages[read]
        /\ crawl' = [crawl EXCEPT ![c].queue = queue, ![c].visited = visited,
                                  ![c].issues = @ \cup PageIssues(url, answer)]
        /\ UNCHANGED <<siteCache, crawls, time>>

\* The result of what was read is stored, even if nothing could be.
Finish(c) ==
    LET t == crawl[c]
        score == SiteScore(t.issues)
        result == [url |-> t.url, pages |-> t.visited, score |-> score, safety |-> Band(score)]
    IN  /\ Crawling(c) /\ (t.queue = <<>> \/ Cardinality(t.visited) >= t.limit)
        /\ siteCache' = [siteCache EXCEPT ![Key(t.url, t.limit)] = [at |-> time, result |-> result]]
        /\ crawl' = [crawl EXCEPT ![c].result = result, ![c].queue = <<>>]
        /\ UNCHANGED <<crawls, time>>

Serve(c) ==
    /\ crawl[c] # None /\ crawl[c].result # None
    /\ crawl' = [crawl EXCEPT ![c] = None]
    /\ UNCHANGED <<siteCache, crawls, time>>

\* The clock is coarse: it counts from the first result that is kept, and moves on
\* between requests only.
Pass ==
    /\ time < MaxTime /\ time' = time + 1 /\ \E k \in Keys : siteCache[k] # None
    /\ \A c \in Crawlers : crawl[c] = None
    /\ UNCHANGED <<siteCache, crawl, crawls>>

SiteInit == /\ siteCache = [k \in Keys |-> None] /\ crawl = [c \in Crawlers |-> None]
            /\ crawls = 0 /\ time = 0

\* A stopped process loses its crawls and its cache.
SiteStop == /\ siteCache' = [k \in Keys |-> None] /\ crawl' = [c \in Crawlers |-> None]
            /\ UNCHANGED <<crawls, time>>

CrawlStep(c) == \/ \E read \in Urls : \E answer \in {Failed} \cup Pages[read] : Fetch(c, read, answer)
                \/ Skip(c) \/ Finish(c) \/ Serve(c)

SiteNext == \/ \E c \in Crawlers : \/ \E url \in Urls, asked \in Limits : StartSite(c, url, asked)
                                   \/ CrawlStep(c)
            \/ Pass

-----------------------------------------------------------------------------
\* What a crawl asks for itself stays on the host it was started for, wherever the
\* redirects lead it and whatever the pages it reads there link to; it asks for no more
\* pages than it may, and its queue is bounded however many links the pages have.  What
\* a request is given, from the cache or from its own crawl, starts with the page it
\* asked for and has no more pages than it asked for.  The pages themselves may be read
\* from other hosts, behind a redirect (scan_website, extract_same_host_links).
CrawlStays ==
    \A c \in Crawlers : crawl[c] # None =>
        LET t == crawl[c]
        IN  /\ \A u \in t.visited \cup ToSet(t.queue) : Host[u] = Host[t.url]
            /\ Cardinality(t.visited) <= t.limit
            /\ Len(t.queue) + Cardinality(t.visited) <= 3 * t.limit
            /\ t.result # None => /\ t.url \in t.result.pages
                                  /\ Cardinality(t.result.pages) <= t.limit

\* Every crawl comes to an end, on sites with cycles of links and failing pages.
CrawlsEnd == \A c \in Crawlers : Crawling(c) ~> ~Crawling(c)
=============================================================================
