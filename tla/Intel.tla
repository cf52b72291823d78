-------------------------------- MODULE Intel --------------------------------
(***************************************************************************)
(* The threat intelligence that users share: scam reports, blocked          *)
(* contracts, the activity feed, the events of the correlation and the      *)
(* cached hits of an external service; and the requests that read it and    *)
(* write to it: Solana analyses, dApp checks, extension telemetry and the    *)
(* threat feed itself.                                                       *)
(*                                                                         *)
(* What one analysis finds is stored and is evidence for the next one, of    *)
(* any wallet.  The domains of the feed are kept in the process for FeedTtl,  *)
(* a hit of the external service stays in its table for HitTtl.  A request    *)
(* that cannot read a source goes on without it.                             *)
(***************************************************************************)
EXTENDS Verdict

CONSTANTS
    Workers,         \* requests, at most one each at a time
    Serves,          \* the kinds of requests of each worker
    Wallets,
    Registered,      \* the wallets that have a row in wallets
    Settings,        \* their protection settings: None or [warn, alerts]
    Family,          \* their chain family
    Programs,        \* Solana programs
    KnownPrograms,   \* those the analysis knows as harmless
    Contracts,       \* EVM contracts
    Domains,
    TrustedDomains,  \* TRUSTED_DOMAINS
    Covers,          \* per domain, itself and its subdomains
    Lookalike,       \* per domain, the risk of its spelling
    Rank,            \* per domain and address, its place in the alphabet
    Requests,        \* Solana requests: a method and a sequence of transactions
    SiteAnswers,     \* what a crawl and the external service say of a site
    TelemetryEvents, \* events the extension sends
    MaxFeed,         \* MAX_MALICIOUS_DOMAINS
    MaxItems,        \* MAX_FEED_ITEMS, also the LIMIT of the lists of hits
    FeedTtl, HitTtl,
    MaxTime,         \* bound: the clock
    MaxRuns,         \* bound: requests of the workers
    MaxOps           \* bound: what else happens: reports, blocks, unblocks,
                     \* telemetry events, failed calls and restarts

\* What the crawl and the two questions about a site can answer: a risk or nothing,
\* and for each question no answer, or its verdict and the contracts it names.
PossibleAnswers ==
    [site : {None} \cup 0..100, phishing : {None, "clean", "bad"}, contracts : SUBSET Contracts,
     dapp : {None, "clean", "trusted", "bad", "both"}, creators : SUBSET Contracts]

EventNames == {"tx_evaluated", "tx_blocked", "tx_warned", "domain_risk_detected",
               "user_decision", "sync_heartbeat"}

ASSUME IntelAssumption ==
    /\ \A a \in SiteAnswers : a \in PossibleAnswers /\ (a.contracts # {} => a.phishing # None)
                                                /\ (a.creators # {} => a.dapp \in {"bad", "both"})
    /\ \A e \in TelemetryEvents : /\ e.event \in EventNames /\ e.programs \subseteq Programs
                                 /\ e.domain \in Domains \cup {None} /\ e.risk \in Int
    /\ \A r \in Requests : \A i \in DOMAIN r.txs : r.txs[i].programs \subseteq Programs
    /\ Registered \subseteq Wallets /\ KnownPrograms \subseteq Programs
    /\ \A w \in Wallets : Family[w] \in {"evm", "solana"}
    /\ \A d \in Domains : d \in Covers[d] /\ Lookalike[d] \in 0..100 /\ Rank[d] \in Nat
    /\ MaxFeed \in Nat /\ FeedTtl \in Nat /\ HitTtl \in Nat /\ FeedTtl < HitTtl
    /\ None \notin Domains /\ None \notin Wallets /\ None \notin Requests /\ None \notin 0..100
    /\ MaxTime \in Nat /\ None \notin [risk : 0..100, expires : 1..(MaxTime + HitTtl)]

VARIABLES
    reported,     \* scam_reports: programs and contracts
    blocked,      \* user_blocked_contracts: <<wallet, program>>
    activity,     \* activity_feed: rows with risk metadata
    events,       \* threat_events: rows with a program or a domain, and whether their
                  \* risk is MIN_PROGRAM_RISK or more
    connections,  \* dapp_connections: <<wallet, domain>>
    hits,         \* external_intel_cache: None or [risk, expires], by entity
    feedCache,    \* FEED_CACHE: None or [at, domains]
    now,
    task,         \* the request of each worker
    runs, ops

tables == <<reported, blocked, activity, events, connections, hits>>
vars == <<tables, feedCache, now, task, runs, ops>>

Domain(d) == <<"domain", d>>
Program(p) == <<"program", p>>
Contract(c) == <<"contract", c>>
Entities == {Domain(d) : d \in Domains} \cup {Program(p) : p \in Programs}
            \cup {Contract(c) : c \in Contracts}

-----------------------------------------------------------------------------
(* What the feed lists.                                                    *)

Active(e) == hits[e] # None /\ hits[e].expires > now

\* Every program of a blocked transaction counts, not only the flagged ones.
ActivityPrograms(rows) ==
    UNION {r.programs : r \in {s \in rows : s.event = "tx_blocked" \/ s.grave}}

\* ORDER BY and LIMIT.
First(S, limit) == {x \in S : Cardinality({y \in S : Rank[y] < Rank[x]}) < limit}

\* LIMIT alone: any MaxItems of them.
Picks(S) == {T \in SUBSET S : Cardinality(T) = Min({MaxItems, Cardinality(S)})}

\* The addresses that a source names, before its LIMIT.
Reported(addresses) == addresses \cap reported
Blocked == {p \in Programs : \E w \in Wallets : <<w, p>> \in blocked}
InEvents == {p \in Programs : \E e \in events : e.program = p /\ e.high}
Hit(kind, names) == {x \in names : Active(<<kind, x>>)}

\* A request that reads its sources reads less than there is.
CutShort(some) ==
    \/ some # ActivityPrograms(activity)
    \/ \E S \in {Reported(Programs), Reported(Contracts), Blocked, InEvents,
                  Hit("program", Programs), Hit("contract", Contracts), Hit("domain", Domains)} :
          First(S, MaxItems) # S

Sources == {"reports", "events", "blocks", "activity", "hits"}

\* Mutation of BadPrograms: blocks of users are not read.
BadUnblocked(lost, some) == some \cup First(Reported(Programs), MaxItems)
                            \cup First(Hit("program", Programs), MaxItems)

\* malicious_programs; lost are the sources whose query fails, some are the
\* programs of the activity feed that come back.
BadPrograms(lost, some) ==
    LET read(source, S) == IF source \in lost THEN {} ELSE First(S, MaxItems)
    IN  read("reports", Reported(Programs)) \cup read("events", InEvents)
        \cup read("blocks", Blocked) \cup read("hits", Hit("program", Programs))
        \cup (IF "activity" \in lost THEN {} ELSE some)

BadContracts(lost) ==
    First(Reported(Contracts), MaxItems)
    \cup (IF "hits" \in lost THEN {} ELSE First(Hit("contract", Contracts), MaxItems))

HighRisk(r) == r.event \in {"domain_risk_detected", "tx_blocked", "tx_warned"} \/ r.grave

\* Mutation of BadDomains: the hits of the external service are left out.
FoundDomains(listed, family, lost) ==
    listed \cup {r.domain : r \in {s \in activity : s.family = family /\ HighRisk(s)}}

\* malicious_domains_by_family; listed is the domain feed below.
BadDomains(listed, family, lost) ==
    listed
    \cup {d \in Domains :
       \/ "activity" \notin lost
          /\ \E r \in activity : r.domain = d /\ r.family = family /\ HighRisk(r)
       \/ "events" \notin lost
          /\ \E e \in events : e.domain = d /\ e.family = family /\ e.high
       \/ "hits" \notin lost /\ d \in First(Hit("domain", Domains), MaxItems)}

\* The domain feed: sorted and cut at MaxFeed.
Cut(found) == First(found, MaxFeed)
Learned(rows) == {r.domain : r \in {s \in rows : s.event = "domain_risk_detected" \/ s.grave}}
                 \ {None}

\* Mutation of CacheValid: what was cached once is served for ever.
CacheForever(cache, time) == cache # None

CacheValid(cache, time) == cache # None /\ time - cache.at <= FeedTtl

-----------------------------------------------------------------------------
(* Scores.                                                                  *)

\* Mutation of Context: a page counts with its full risk.
FullContext(lure) == lure

Context(lure) == Clamp(lure, 50)

\* The risk of the instructions themselves.
TxRisk(request) ==
    LET txs == request.txs
        total(count) == MapThenSumSet(LAMBDA i : txs[i][count], DOMAIN txs)
    IN  [authority |-> Max({Weight(70, total("authorities") > 0), Weight(55, total("approves") > 0)}),
         drainer |-> Max({Weight(80, \E i \in DOMAIN txs : txs[i].closes > 0 /\ txs[i].transfers > 0),
                          Weight(75, total("closes") >= 3)}),
         bulk |-> Max({Weight(45, \E i \in DOMAIN txs : txs[i].crowded),
                       Weight(35, request.method = "signAllTransactions")}),
         repeated |-> total("approves") > 1 \/ total("authorities") > 1]

Invoked(request) == UNION {request.txs[i].programs : i \in DOMAIN request.txs}

\* analyze_solana_request
Analyze(request, bad, lure) ==
    LET tx == TxRisk(request)
        used == Invoked(request)
        unknown == used \ KnownPrograms
        reputation == Max({Weight(95, used \cap bad # {}), Weight(40, unknown # {})})
        risk == Max({reputation, tx.authority, tx.drainer, tx.bulk, Context(lure)})
    IN  [score |-> Clamp(risk + Weight(10, tx.repeated), 100),
         malicious |-> used \cap bad # {},
         flagged |-> (used \cap bad)
                     \cup (IF tx.drainer >= 70 \/ tx.authority >= 55 \/ tx.bulk >= 35
                           THEN unknown ELSE {})]

\* Mutation of HitBoost: a hit counts with the risk it was stored with.
StoredBoost(risk) == risk

HitBoost(risk) == Max({risk, 60})

\* assess_domain after the cached hits: the feed comes before the allowlist.
FeedBoost(domain, listed) ==
    IF \E d \in listed : domain \in Covers[d] THEN 60
    ELSE IF \E d \in TrustedDomains : domain \in Covers[d] THEN -10 ELSE 0

\* evaluate_dapp_connection: the external service may not answer (None).
SiteRisk(domain, boost, answer) ==
    LET start    == Lookalike[domain] + boost
        phishing == IF answer.phishing = "bad" THEN Clamp(start + 60, 100) ELSE start
        trusted  == IF answer.dapp \in {"trusted", "both"} THEN Max({phishing - 10, 0}) ELSE phishing
        dapp     == IF answer.dapp \in {"bad", "both"} THEN Clamp(trusted + 50, 100) ELSE trusted
        site     == IF answer.site # None THEN Clamp(dapp + answer.site, 100) ELSE dapp
    IN  Max({Clamp(site, 100), 0})

\* The hits a site's answers are worth, as <<entity, risk>>.
SiteHits(domain, answer) ==
    {h \in {<<Domain(domain), 60>>} : answer.phishing = "bad"}
    \cup {<<Contract(c), 85>> : c \in answer.contracts}
    \cup {h \in {<<Domain(domain), 50>>} : answer.dapp \in {"bad", "both"}}
    \cup {<<Contract(c), 90>> : c \in answer.creators}

\* upsert_positive_hit: the higher risk stays, the time to live starts again.
Upsert(found) ==
    hits' = [e \in Entities |->
        LET risks == {h[2] : h \in {g \in found : g[1] = e}}
        IN  IF risks = {} THEN hits[e]
            ELSE [risk |-> Max(risks \cup (IF hits[e] = None THEN {} ELSE {hits[e].risk})),
                  expires |-> now + HitTtl]]

-----------------------------------------------------------------------------
(* Requests of users, and the extension's telemetry.                        *)

\* What is known for certain: reported, blocked by a user, found by an analysis
\* that blocked its transaction, or confirmed by the external service.
Evidence ==
    {e \in Entities :
       \/ Active(e)
       \/ e[1] # "domain" /\ e[2] \in reported
       \/ e[1] = "program" /\ \E w \in Wallets : <<w, e[2]>> \in blocked
       \/ e[1] = "program" /\ \E r \in activity : r.event = "tx_blocked" /\ e[2] \in r.flagged}

\* The running requests after evidence was lost: kept is what was certain all along.
Watch == task' = [w \in Workers |-> IF task[w] = None THEN None
                                    ELSE [task[w] EXCEPT !.kept = @ \cap Evidence']]

Op == ops < MaxOps /\ ops' = ops + 1

\* The writes of the repository.
CreateScamReport(x) == reported' = reported \cup {x}
BlockContract(w, p) == blocked' = blocked \cup {<<w, p>>}
UnblockContract(w, p) == blocked' = blocked \ {<<w, p>>}
UpsertConnection(w, d) == connections' = connections \cup {<<w, d>>}

Report(x) ==
    /\ Op /\ CreateScamReport(x)
    /\ UNCHANGED <<blocked, activity, events, connections, hits, feedCache, now, task, runs>>

Block(w, p) ==
    /\ Op /\ BlockContract(w, p)
    /\ UNCHANGED <<reported, activity, events, connections, hits, feedCache, now, task, runs>>

Unblock(w, p) ==
    /\ Op /\ UnblockContract(w, p)
    /\ UNCHANGED <<reported, activity, events, connections, hits, feedCache, now, runs>>
    /\ Watch

\* What the feed tells apart of a row: whether its risk is MIN_DOMAIN_RISK or more.
Row(event, risk, programs, flagged, domain, family) ==
    [event |-> event, grave |-> risk >= 70, programs |-> programs, flagged |-> flagged,
     domain |-> domain, family |-> family, at |-> now]

CreateActivity(row) == activity' = activity \cup {row}

\* One event of a batch: the events of wallets without a row are dropped.
Telemetry(w, e) ==
    /\ Op /\ w \in Registered
    /\ CreateActivity(Row(e.event, e.risk, e.programs, {}, e.domain, Family[w]))
    /\ UNCHANGED <<reported, blocked, events, connections, hits, feedCache, now, task, runs>>

-----------------------------------------------------------------------------
(* The requests of the workers, one database or network call per step.      *)

At(w, pc) == task[w] # None /\ task[w].pc = pc
Go(w, t) == task' = [task EXCEPT ![w] = t]

Begin(w, entry, wallet, domain, request) ==
    /\ task[w] = None /\ entry \in Serves[w] /\ runs < MaxRuns /\ runs' = runs + 1
    /\ Go(w, [pc |-> IF domain = None THEN "feed" ELSE "lookup", entry |-> entry,
              wallet |-> wallet, domain |-> domain, request |-> request,
              boost |-> 0, lure |-> IF domain = None THEN 0 ELSE None, listed |-> {},
              verdict |-> None, kept |-> Evidence, missed |-> FALSE])
    /\ UNCHANGED <<tables, feedCache, now, ops>>

\* The dashboard's analysis needs settings with warnings on, the extension's none.
BeginAnalysis(w, entry, wallet, domain, request) ==
    /\ entry \in {"dashboard", "extension"} /\ Family[wallet] = "solana"
    /\ entry = "dashboard" => Settings[wallet] # None /\ Settings[wallet].warn
    /\ Begin(w, "analysis", wallet, domain, request)

\* An EVM wallet without settings is not checked.
BeginCheck(w, wallet, domain) ==
    /\ wallet # None => (Settings[wallet] = None => Family[wallet] = "solana")
    /\ Begin(w, "check", wallet, domain, None)

BeginFeed(w) == Begin(w, "feed", None, None, None)

\* evaluate_dapp_connection reads settings it does not use: without them an
\* analysis goes on as if it had no page, and a check fails.
SettingsFail(w) ==
    /\ At(w, "lookup") /\ Op
    /\ Go(w, IF task[w].entry = "check" THEN None
             ELSE [task[w] EXCEPT !.pc = "feed", !.lure = 0, !.missed = TRUE])
    /\ UNCHANGED <<tables, feedCache, now, runs>>

\* get_cached_domain_hit finds the host itself, not the domains above it.
Lookup(w) ==
    LET hit == Domain(task[w].domain)
    IN  /\ At(w, "lookup")
        /\ Go(w, IF Active(hit)
                 THEN [task[w] EXCEPT !.pc = "site", !.boost = HitBoost(hits[hit].risk)]
                 ELSE [task[w] EXCEPT !.pc = "feed"])
        /\ UNCHANGED <<tables, feedCache, now, runs, ops>>

\* A lookup that fails is a miss.
LookupFails(w) ==
    /\ At(w, "lookup") /\ Op
    /\ Go(w, [task[w] EXCEPT !.pc = "feed", !.missed = TRUE])
    /\ UNCHANGED <<tables, feedCache, now, runs>>

\* What a request does with the domain feed: first it assesses its page with it,
\* then it reads the other sources.
Listed(t, domains) ==
    IF t.lure = None
    THEN [t EXCEPT !.pc = "site", !.boost = FeedBoost(t.domain, domains)]
    ELSE [t EXCEPT !.pc = "sources", !.listed = domains]

ReadCache(w) ==
    /\ At(w, "feed") /\ CacheValid(feedCache, now)
    /\ Go(w, Listed(task[w], feedCache.domains))
    /\ UNCHANGED <<tables, feedCache, now, runs, ops>>

QueryDomains(w) ==
    /\ At(w, "feed") /\ ~CacheValid(feedCache, now)
    /\ Go(w, [task[w] EXCEPT !.pc = "store", !.listed = Cut(Learned(activity))])
    /\ UNCHANGED <<tables, feedCache, now, runs, ops>>

\* A feed that is older than the cached one replaces it.
StoreDomains(w) ==
    /\ At(w, "store")
    /\ feedCache' = [at |-> now, domains |-> task[w].listed]
    /\ Go(w, Listed([task[w] EXCEPT !.listed = {}], task[w].listed))
    /\ UNCHANGED <<tables, now, runs, ops>>

\* The page is then in no feed, an analysis has no malicious program and the
\* feed itself fails.
QueryFails(w) ==
    /\ At(w, "feed") /\ ~CacheValid(feedCache, now) /\ Op
    /\ Go(w, LET t == [task[w] EXCEPT !.missed = TRUE]
             IN  IF t.lure = None THEN Listed(t, {})
                 ELSE IF t.entry = "feed" THEN None
                 ELSE [t EXCEPT !.pc = "enrich", !.verdict = Analyze(t.request, {}, t.lure)])
    /\ UNCHANGED <<tables, feedCache, now, runs>>

\* The crawl and both questions to the external service.
Site(w, answer) ==
    LET t == task[w]
        alerts == t.wallet # None /\ Settings[t.wallet] # None /\ Settings[t.wallet].alerts
    IN  /\ At(w, "site")
        /\ \/ Upsert(SiteHits(t.domain, answer)) /\ UNCHANGED ops
           \/ Op /\ SiteHits(t.domain, answer) # {} /\ UNCHANGED hits
        /\ Go(w, [t EXCEPT !.pc = IF t.entry # "check" THEN "feed"
                                  ELSE IF alerts THEN "connect" ELSE "done",
                           !.lure = SiteRisk(t.domain, t.boost, answer), !.boost = 0])
        /\ UNCHANGED <<reported, blocked, activity, events, connections, feedCache, now, runs>>

\* After a check with alerts on: a signal about the page and the connection.
Connect(w) ==
    LET t == task[w]
        signal == [program |-> None, domain |-> t.domain, high |-> t.lure >= 65,
                   family |-> Family[t.wallet]]
        signals == IF t.lure > 0 /\ t.wallet \in Registered THEN {signal} ELSE {}
    IN  /\ At(w, "connect")
        /\ \/ events' = events \cup signals
              /\ UpsertConnection(t.wallet, t.domain) /\ UNCHANGED ops
           \/ events' = events \cup signals /\ UNCHANGED connections /\ Op
           \/ UpsertConnection(t.wallet, t.domain)
              /\ signals # {} /\ UNCHANGED events /\ Op
        /\ Go(w, [t EXCEPT !.pc = "done"])
        /\ UNCHANGED <<reported, blocked, activity, hits, feedCache, now, runs>>

\* get_malicious_programs, and the analysis with what it found.
ReadPrograms(w, lost, some) ==
    LET t == task[w]
    IN  /\ At(w, "sources") /\ t.entry # "feed"
        /\ some \in Picks(ActivityPrograms(activity))
        /\ IF lost = {} THEN UNCHANGED ops ELSE Op
        /\ Go(w, [t EXCEPT !.pc = "enrich", !.missed = @ \/ lost # {} \/ CutShort(some),
                           !.listed = {},
                           !.verdict = Analyze(t.request, BadPrograms(lost, some), t.lure)])
        /\ UNCHANGED <<tables, feedCache, now, runs>>

\* The query for EVM contracts is the one whose error is not dropped: the analysis
\* then knows no malicious program, and the feed fails.
ContractsFail(w) ==
    LET t == [task[w] EXCEPT !.missed = TRUE, !.listed = {}]
    IN  /\ At(w, "sources") /\ Op
        /\ Go(w, IF t.entry = "feed" THEN None
                 ELSE [t EXCEPT !.pc = "enrich", !.verdict = Analyze(t.request, {}, t.lure)])
        /\ UNCHANGED <<tables, feedCache, now, runs>>

ServeFeed(w, lost, some) ==
    LET t == task[w]
        feed == [programs |-> BadPrograms(lost, some), contracts |-> BadContracts(lost),
                 domains |-> [f \in {"evm", "solana"} |-> BadDomains(t.listed, f, lost)]]
    IN  /\ At(w, "sources") /\ t.entry = "feed"
        /\ some \in Picks(ActivityPrograms(activity))
        /\ IF lost = {} THEN UNCHANGED ops ELSE Op
        /\ Go(w, [t EXCEPT !.pc = "done", !.missed = @ \/ lost # {} \/ CutShort(some),
                           !.verdict = feed])
        /\ UNCHANGED <<tables, feedCache, now, runs>>

\* The external service is asked about each program and confirms some of them.
Enrich(w, confirmed) ==
    LET t == task[w]
        v == IF confirmed = {} THEN t.verdict
             ELSE [t.verdict EXCEPT !.score = Max({@, 95}), !.malicious = TRUE]
    IN  /\ At(w, "enrich") /\ confirmed \subseteq Invoked(t.request)
        /\ \/ Upsert({<<Program(p), 95>> : p \in confirmed}) /\ UNCHANGED ops
           \/ Op /\ confirmed # {} /\ UNCHANGED hits
        /\ Go(w, [t EXCEPT !.verdict = v,
                           !.pc = IF (v.score >= 65 \/ v.malicious) /\ t.wallet \in Registered
                                  THEN "record" ELSE "done"])
        /\ UNCHANGED <<reported, blocked, activity, events, connections, feedCache, now, runs>>

\* record_solana_analysis_signals: the row of the activity feed, with all the
\* programs of the transaction.
Record(w) ==
    LET t == task[w]
        event == IF t.verdict.score >= 80 \/ t.verdict.malicious THEN "tx_blocked" ELSE "tx_warned"
    IN  /\ At(w, "record")
        /\ \/ CreateActivity(Row(event, t.verdict.score, Invoked(t.request),
                                    t.verdict.flagged, t.domain, "solana"))
              /\ UNCHANGED ops
           \/ Op /\ UNCHANGED activity
        /\ Go(w, [t EXCEPT !.pc = "signal"])
        /\ UNCHANGED <<reported, blocked, events, connections, hits, feedCache, now, runs>>

\* One signal for each flagged program, one for the page.
SendSignals(w) ==
    LET t == task[w]
        signal(p) == [program |-> p, domain |-> t.domain, high |-> t.verdict.score >= 65,
                      family |-> "solana"]
        all == {signal(p) : p \in t.verdict.flagged
                    \cup (IF t.domain # None /\ t.verdict.score >= 70 THEN {None} ELSE {})}
    IN  /\ At(w, "signal")
        /\ \/ events' = events \cup all /\ UNCHANGED ops
           \/ Op /\ \E one \in all : events' = events \cup (all \ {one})
        /\ Go(w, [t EXCEPT !.pc = "done"])
        /\ UNCHANGED <<reported, blocked, activity, connections, hits, feedCache, now, runs>>

Reply(w) ==
    /\ At(w, "done") /\ Go(w, None)
    /\ UNCHANGED <<tables, feedCache, now, runs, ops>>

-----------------------------------------------------------------------------
\* The clock is coarse: it stands still between a query of the domains and the
\* use of its answer.
Tick ==
    /\ now < MaxTime /\ now' = now + 1
    /\ \A w \in Workers : ~At(w, "store") /\ ~At(w, "sources")
    /\ UNCHANGED <<tables, feedCache, runs, ops>>
    /\ Watch

\* The process stops: its requests and its cache are lost, the tables are not.
Restart ==
    /\ Op
    /\ task' = [w \in Workers |-> None] /\ feedCache' = None
    /\ UNCHANGED <<tables, now, runs>>

Init ==
    /\ reported = {} /\ blocked = {} /\ activity = {} /\ events = {} /\ connections = {}
    /\ hits = [e \in Entities |-> None]
    /\ feedCache = None /\ now = 0
    /\ task = [w \in Workers |-> None]
    /\ runs = 0 /\ ops = 0

Users ==
    \/ \E x \in Programs \cup Contracts : Report(x)
    \/ \E w \in Wallets, p \in Programs : Block(w, p) \/ Unblock(w, p)
    \/ \E w \in Wallets, e \in TelemetryEvents : Telemetry(w, e)

Start(w) ==
    \/ \E entry \in {"dashboard", "extension"}, wallet \in Wallets,
          domain \in Domains \cup {None}, request \in Requests :
            BeginAnalysis(w, entry, wallet, domain, request)
    \/ \E wallet \in Wallets \cup {None}, domain \in Domains : BeginCheck(w, wallet, domain)
    \/ BeginFeed(w)

Work(w) ==
    \/ SettingsFail(w) \/ Lookup(w) \/ LookupFails(w)
    \/ ReadCache(w) \/ QueryDomains(w) \/ StoreDomains(w) \/ QueryFails(w)
    \/ (\E answer \in SiteAnswers : Site(w, answer)) \/ Connect(w)
    \/ (\E lost \in {{}} \cup {{s} : s \in Sources}, some \in SUBSET Programs :
            ReadPrograms(w, lost, some) \/ ServeFeed(w, lost, some))
    \/ ContractsFail(w)
    \/ (\E confirmed \in SUBSET Programs : Enrich(w, confirmed))
    \/ Record(w) \/ SendSignals(w) \/ Reply(w)

Next == Users \/ (\E w \in Workers : Start(w) \/ Work(w)) \/ Tick \/ Restart

Spec == Init /\ [][Next]_vars

-----------------------------------------------------------------------------
(* Properties.                                                             *)

Rows == [event : EventNames, grave : BOOLEAN, programs : SUBSET Programs,
         flagged : SUBSET Programs, domain : Domains \cup {None}, family : {"evm", "solana"},
         at : Nat]

\* Type invariant: the tables, the cache and the requests hold what the code's
\* types let them, and no risk leaves 0..100.
TypeOK ==
    /\ reported \subseteq Programs \cup Contracts
    /\ blocked \subseteq Wallets \X Programs
    /\ activity \subseteq Rows
    /\ events \subseteq [program : Programs \cup {None}, domain : Domains \cup {None},
                         high : BOOLEAN, family : {"evm", "solana"}]
    /\ connections \subseteq Wallets \X Domains
    /\ \A e \in Entities : hits[e] # None => hits[e].risk \in 0..100 /\ hits[e].expires > 0
    /\ feedCache # None => feedCache.at \in 0..now /\ feedCache.domains \subseteq Domains
    /\ \A w \in Workers : task[w] # None /\ task[w].lure # None => task[w].lure \in 0..100
    /\ \A w \in Workers : At(w, "enrich") => task[w].verdict.score \in 0..100
                                            /\ task[w].verdict.flagged \subseteq Programs

Answered(w) == At(w, "done") /\ ~task[w].missed

\* An analysis that reads all its sources, none of them longer than its LIMIT, rejects
\* a transaction with a program that was reported, blocked, found or confirmed for any
\* wallet before it started and that still is (get_malicious_programs,
\* analyze_solana_request).
KnownBadIsRejected ==
    \A w \in Workers :
        Answered(w) /\ task[w].request # None
        /\ (\E p \in Invoked(task[w].request) : Program(p) \in task[w].kept)
        => task[w].verdict.malicious /\ Band(task[w].verdict.score) = "Block"

\* A page with a live hit of the external service is dangerous, whatever the
\* service says of it now, or if it says nothing (assess_domain).
ConfirmedStays ==
    \A w \in Workers :
        task[w] # None /\ task[w].domain # None /\ task[w].lure # None /\ ~task[w].missed
        /\ Domain(task[w].domain) \in task[w].kept
        => Band(task[w].lure) \in {"Dangerous", "Block"}

\* A dangerous page alone teaches the feed nothing: an analysis stores only what its
\* transaction or one of its programs gave reason for (analyze_solana_request).
PageAloneTeachesNothing ==
    \A w \in Workers :
        At(w, "record") =>
            \/ task[w].verdict.malicious
            \/ LET tx == TxRisk(task[w].request)
               IN  Max({tx.authority, tx.drainer, tx.bulk}) >= 55

\* A domain that was learned more than FeedTtl ago is in the list a request goes on
\* with, unless the list is full (get_domain_threat_feed).
FeedLag ==
    \A w \in Workers :
        At(w, "sources") =>
            \A r \in activity :
                /\ r.domain # None /\ (r.event = "domain_risk_detected" \/ r.grave)
                /\ now - r.at > FeedTtl
                => r.domain \in task[w].listed \/ Cardinality(task[w].listed) >= MaxFeed

\* The feed that is served lists everything that was certain when it was asked for
\* and still is, in the lists of both families, as long as no source is longer than its
\* LIMIT (get_multichain_threat_feed).
ConfirmedIsServed ==
    \A w \in Workers :
        Answered(w) /\ task[w].entry = "feed" =>
            \A e \in task[w].kept :
                e[2] \in CASE e[1] = "program"  -> task[w].verdict.programs
                           [] e[1] = "contract" -> task[w].verdict.contracts
                           [] e[1] = "domain"   -> task[w].verdict.domains["evm"]
                                                   \cap task[w].verdict.domains["solana"]

\* The programs the feed learns from analyses are those that made a transaction
\* risky (flagged_programs).
OnlyFlaggedLearned ==
    ActivityPrograms(activity) \subseteq UNION {r.flagged : r \in activity}
=============================================================================
