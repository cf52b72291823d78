----------------------------- MODULE IntelProofs -----------------------------
(***************************************************************************)
(* Theorems about Intel: what is known for certain reaches the requests, for  *)
(* any wallets, programs, domains, requests and answers, any number of          *)
(* workers, restarts and failures.                                          *)
(*                                                                         *)
(* The argument: what a running request has kept is still certain (Knows), so  *)
(* a source it reads without failure shows it; Shape says what each place of    *)
(* a request has made of what it read, and it says it only of what is kept.     *)
(* The age of the domain feed needs a second invariant, Lag.                 *)
(***************************************************************************)
EXTENDS Intel, FiniteSetTheorems, WellFoundedInduction, TLAPS

Pcs == {"lookup", "feed", "store", "site", "connect", "sources", "enrich", "record", "signal",
        "done"}

\* The transaction itself is a reason to record it.
Risky(request) == LET tx == TxRisk(request) IN Max({tx.authority, tx.drainer, tx.bulk}) >= 55

\* The verdict of an analysis: its transaction or a program is the reason for a risk
\* that is stored.
IsVerdict(v, request) ==
  /\ DOMAIN v = {"score", "malicious", "flagged"}
  /\ v.score \in 0..100 /\ v.malicious \in BOOLEAN /\ v.flagged \subseteq Invoked(request)
  /\ v.score >= 65 => v.malicious \/ Risky(request)

Judged(t) == t.pc \in {"enrich", "record", "signal"} \/ (t.pc = "done" /\ t.entry = "analysis")

\* The locals of a request, by place.
IsTask(t) ==
  /\ DOMAIN t = {"pc", "entry", "wallet", "domain", "request", "boost", "lure", "listed",
                 "verdict", "kept", "missed"}
  /\ t.pc \in Pcs /\ t.entry \in {"analysis", "check", "feed"}
  /\ t.wallet \in Wallets \cup {None} /\ t.domain \in Domains \cup {None}
  /\ IF t.entry = "analysis" THEN t.request \in Requests /\ t.wallet \in Wallets
                             ELSE t.request = None
  /\ t.pc \in {"lookup", "site"} => t.domain # None /\ t.lure = None
  /\ t.pc \in {"feed", "store"} => IF t.lure = None THEN t.domain # None ELSE t.entry # "check"
  /\ t.pc = "connect" => t.entry = "check" /\ t.domain # None /\ t.wallet \in Wallets /\ t.lure # None
  /\ t.pc = "sources" => t.entry # "check" /\ t.lure # None
  /\ t.pc \in {"enrich", "record", "signal"} => t.entry = "analysis"
  /\ t.lure = None \/ t.lure \in 0..100
  /\ t.boost \in Int /\ t.listed \subseteq Domains /\ t.missed \in BOOLEAN
  /\ t.entry = "check" => t.domain # None
  /\ t.entry = "feed" => t.domain = None
  /\ Judged(t) => IsVerdict(t.verdict, t.request)
  /\ t.pc = "record" => t.verdict.malicious \/ Risky(t.request)

\* A page with a live hit: what its assessment has made of it.
Warns(t) ==
  t.domain # None /\ ~t.missed /\ Domain(t.domain) \in t.kept =>
    /\ t.pc \in {"feed", "store"} => t.lure # None
    /\ t.pc = "site" => t.boost >= 60
    /\ t.lure # None => t.lure >= 50

\* A transaction with a program that is known as malicious.
Rejects(t) ==
  Judged(t) /\ ~t.missed /\ (\E p \in Invoked(t.request) : Program(p) \in t.kept) =>
    t.verdict.malicious /\ t.verdict.score >= 80

\* The feed.
ServesAll(t) ==
  t.pc = "done" /\ t.entry = "feed" /\ ~t.missed =>
    \A e \in t.kept : /\ e[1] = "program" => e[2] \in t.verdict.programs
                      /\ e[1] = "contract" => e[2] \in t.verdict.contracts
                      /\ e[1] = "domain" => e[2] \in t.verdict.domains["evm"]
                                            /\ e[2] \in t.verdict.domains["solana"]

Shape(t) == IsTask(t) /\ t.kept \subseteq Entities /\ Warns(t) /\ Rejects(t) /\ ServesAll(t)

Knows(t) == Shape(t) /\ (t.pc # "done" => t.kept \subseteq Evidence)

Tables ==
  /\ reported \subseteq Programs \cup Contracts /\ blocked \subseteq Wallets \X Programs
  /\ activity \subseteq Rows /\ \A r \in activity : r.flagged \subseteq r.programs
  /\ events \subseteq [program : Programs \cup {None}, domain : Domains \cup {None},
                       high : BOOLEAN, family : {"evm", "solana"}]
  /\ connections \subseteq Wallets \X Domains
  /\ hits = [e \in Entities |-> hits[e]]
  /\ \A e \in Entities : hits[e] # None => /\ DOMAIN hits[e] = {"risk", "expires"}
                                           /\ hits[e].risk \in 0..100
                                           /\ hits[e].expires \in Nat /\ hits[e].expires > 0
  /\ feedCache # None => /\ DOMAIN feedCache = {"at", "domains"}
                         /\ feedCache.at \in 0..now /\ feedCache.domains \subseteq Domains
  /\ now \in 0..MaxTime

Tasks == /\ task = [w \in Workers |-> task[w]]
         /\ \A w \in Workers : task[w] # None => Knows(task[w])

Inv == Tables /\ Tasks

-----------------------------------------------------------------------------
(* Numbers *)

\* The smaller of two numbers.
LEMMA ClampOf ==
  ASSUME NEW n \in Int, NEW top \in Int
  PROVE  Clamp(n, top) = IF n <= top THEN n ELSE top
<1> DEFINE m == IF n <= top THEN n ELSE top
<1>1. m \in {n, top} /\ \A y \in {n, top} : m <= y
  OBVIOUS
<1>2. \A x \in {n, top} : (\A y \in {n, top} : x <= y) => x = m
  OBVIOUS
<1> QED BY <1>1, <1>2 DEF Clamp, Min

\* The larger of two numbers.
LEMMA MaxOfTwo ==
  ASSUME NEW a \in Int, NEW b \in Int
  PROVE  Max({a, b}) = IF a >= b THEN a ELSE b
<1> DEFINE m == IF a >= b THEN a ELSE b
<1>1. m \in {a, b} /\ \A y \in {a, b} : m >= y
  OBVIOUS
<1>2. \A x \in {a, b} : (\A y \in {a, b} : x >= y) => x = m
  OBVIOUS
<1> QED BY <1>1, <1>2 DEF Max

\* A set with a largest element.
LEMMA MaxIs ==
  ASSUME NEW S, NEW m \in S, \A y \in S : m >= y
  PROVE  Max(S) \in S /\ \A y \in S : Max(S) >= y
BY DEF Max

\* The largest of three and of five.
LEMMA MaxOfThree ==
  ASSUME NEW a \in Int, NEW b \in Int, NEW c \in Int
  PROVE  Max({a, b, c}) \in {a, b, c} /\ \A y \in {a, b, c} : Max({a, b, c}) >= y
<1> DEFINE m == IF a >= b /\ a >= c THEN a ELSE IF b >= c THEN b ELSE c
<1>1. m \in {a, b, c} /\ \A y \in {a, b, c} : m >= y
  OBVIOUS
<1> HIDE DEF m
<1> QED BY <1>1, MaxIs

\* The largest of five.
LEMMA MaxOfFive ==
  ASSUME NEW a \in Int, NEW b \in Int, NEW c \in Int, NEW d \in Int, NEW e \in Int
  PROVE  /\ Max({a, b, c, d, e}) \in {a, b, c, d, e}
         /\ \A y \in {a, b, c, d, e} : Max({a, b, c, d, e}) >= y
<1> DEFINE k == IF a >= b /\ a >= c THEN a ELSE IF b >= c THEN b ELSE c
           m == IF k >= d /\ k >= e THEN k ELSE IF d >= e THEN d ELSE e
<1>1. k \in {a, b, c} /\ \A y \in {a, b, c} : k >= y
  OBVIOUS
<1> HIDE DEF k
<1>2. m \in {a, b, c, d, e} /\ \A y \in {a, b, c, d, e} : m >= y
  BY <1>1
<1> HIDE DEF m
<1> QED BY <1>2, MaxIs

\* The risk that is stored of a hit: one of those found, or the one it had.
LEMMA StoredRisk ==
  ASSUME NEW S, S \subseteq {50, 60, 85, 90, 95}, S # {}, NEW T, T = {} \/ \E x \in 0..100 : T = {x}
  PROVE  Max(S \cup T) \in 0..100
<1>1. PICK k \in S : k \in 0..100 /\ \A y \in S : k >= y
  <2>1. CASE 95 \in S
    BY <2>1
  <2>2. CASE 95 \notin S /\ 90 \in S
    BY <2>2
  <2>3. CASE 95 \notin S /\ 90 \notin S /\ 85 \in S
    BY <2>3
  <2>4. CASE 95 \notin S /\ 90 \notin S /\ 85 \notin S /\ 60 \in S
    BY <2>4
  <2>5. CASE 95 \notin S /\ 90 \notin S /\ 85 \notin S /\ 60 \notin S
    <3>1. \A y \in S : y = 50
      BY <2>5
    <3>2. 50 \in S
      BY <3>1
    <3> QED BY <3>1, <3>2
  <2> QED BY <2>1, <2>2, <2>3, <2>4, <2>5, Zenon
<1>2. CASE T = {}
  <2>1. S \cup T = S
    BY <1>2
  <2>2. Max(S) \in S
    BY <1>1, MaxIs
  <2>3. Max(S \cup T) = Max(S)
    BY <2>1, Zenon
  <2>4. Max(S) \in {50, 60, 85, 90, 95}
    BY <2>2, Zenon
  <2>5. \A n \in {50, 60, 85, 90, 95} : n \in 0..100
    OBVIOUS
  <2> QED BY <2>3, <2>4, <2>5, Zenon
<1>3. ASSUME NEW x \in 0..100, T = {x} PROVE Max(S \cup T) \in 0..100
  <2> DEFINE m == IF k >= x THEN k ELSE x
  <2>1. m \in S \cup T /\ \A y \in S \cup T : m >= y
    BY <1>1, <1>3
  <2>2. \A y \in S \cup T : y \in 0..100
    BY <1>3
  <2> HIDE DEF m
  <2> QED BY <2>1, <2>2, MaxIs
<1> QED BY <1>2, <1>3

-----------------------------------------------------------------------------
(* Scores *)

\* The risks of the instructions.
LEMMA TxRisks ==
  ASSUME NEW request
  PROVE  LET tx == TxRisk(request)
         IN  /\ tx.authority \in {0, 55, 70} /\ tx.drainer \in {0, 75, 80} /\ tx.bulk \in {0, 35, 45}
<1> DEFINE txs == request.txs
           total(count) == MapThenSumSet(LAMBDA i : txs[i][count], DOMAIN txs)
           a == Weight(70, total("authorities") > 0)
           b == Weight(55, total("approves") > 0)
           c == Weight(80, \E i \in DOMAIN txs : txs[i].closes > 0 /\ txs[i].transfers > 0)
           d == Weight(75, total("closes") >= 3)
           e == Weight(45, \E i \in DOMAIN txs : txs[i].crowded)
           f == Weight(35, request.method = "signAllTransactions")
<1>1. /\ TxRisk(request).authority = Max({a, b}) /\ TxRisk(request).drainer = Max({c, d})
      /\ TxRisk(request).bulk = Max({e, f})
  BY DEF TxRisk
<1>2. /\ a \in {0, 70} /\ b \in {0, 55} /\ c \in {0, 80} /\ d \in {0, 75} /\ e \in {0, 45} /\ f \in {0, 35}
  BY DEF Weight
<1> HIDE DEF a, b, c, d, e, f
<1>3. Max({a, b}) = (IF a >= b THEN a ELSE b) /\ Max({c, d}) = (IF c >= d THEN c ELSE d)
      /\ Max({e, f}) = (IF e >= f THEN e ELSE f)
  BY <1>2, MaxOfTwo
<1> QED BY <1>1, <1>2, <1>3

\* A verdict: malicious with a program that is known to be, and otherwise a risk that
\* is stored has its reason in the transaction.
LEMMA AnalyzeIs ==
  ASSUME NEW request, NEW bad, NEW lure \in 0..100
  PROVE  LET v == Analyze(request, bad, lure)
         IN  /\ IsVerdict(v, request)
             /\ Invoked(request) \cap bad # {} => v.malicious /\ v.score >= 80
<1> DEFINE tx == TxRisk(request)
           used == Invoked(request)
           unknown == used \ KnownPrograms
           a == Weight(95, used \cap bad # {})
           b == Weight(40, unknown # {})
           reputation == Max({a, b})
           context == Context(lure)
           risk == Max({reputation, tx.authority, tx.drainer, tx.bulk, context})
           extra == Weight(10, tx.repeated)
           v == Analyze(request, bad, lure)
<1>1. tx.authority \in {0, 55, 70} /\ tx.drainer \in {0, 75, 80} /\ tx.bulk \in {0, 35, 45}
  BY TxRisks
<1>2. a \in {0, 95} /\ b \in {0, 40} /\ (used \cap bad # {} => a = 95) /\ (used \cap bad = {} => a = 0)
  BY DEF Weight
<1>3. reputation = IF a >= b THEN a ELSE b
  BY <1>2, MaxOfTwo
<1>4. reputation \in {0, 40, 95} /\ (used \cap bad # {} => reputation = 95)
      /\ (used \cap bad = {} => reputation <= 40)
  BY <1>2, <1>3
<1>5. context \in 0..50
  BY ClampOf DEF Context
<1>6. extra \in {0, 10}
  BY DEF Weight
<1>7. /\ v.score = Clamp(risk + extra, 100) /\ v.malicious = (used \cap bad # {})
      /\ v.flagged \subseteq used /\ DOMAIN v = {"score", "malicious", "flagged"}
  BY DEF Analyze
<1>8. PICK au, dr, bu : au = tx.authority /\ dr = tx.drainer /\ bu = tx.bulk
  OBVIOUS
<1> HIDE DEF a, b, context, extra, reputation
<1>9. risk \in {reputation, au, dr, bu, context} /\ \A y \in {reputation, au, dr, bu, context} : risk >= y
  <2>1. reputation \in Int /\ au \in Int /\ dr \in Int /\ bu \in Int /\ context \in Int
    BY <1>1, <1>4, <1>5, <1>8
  <2>2. risk = Max({reputation, au, dr, bu, context})
    BY <1>8
  <2>3. /\ Max({reputation, au, dr, bu, context}) \in {reputation, au, dr, bu, context}
        /\ \A y \in {reputation, au, dr, bu, context} : Max({reputation, au, dr, bu, context}) >= y
    BY <2>1, MaxOfFive
  <2> HIDE DEF risk
  <2> QED BY <2>2, <2>3, Zenon
<1>10. risk \in 0..95 /\ (used \cap bad # {} => risk = 95)
  BY <1>1, <1>4, <1>5, <1>8, <1>9
<1>11. Clamp(risk + extra, 100) = IF risk + extra <= 100 THEN risk + extra ELSE 100
  BY <1>6, <1>10, ClampOf
<1>12. v.score \in 0..100 /\ (used \cap bad # {} => v.score >= 80)
  BY <1>6, <1>7, <1>10, <1>11
<1>13. v.score >= 65 /\ used \cap bad = {} => Risky(request)
  <2> SUFFICES ASSUME v.score >= 65, used \cap bad = {} PROVE Risky(request)
    OBVIOUS
  <2>1. risk >= 55
    BY <1>6, <1>7, <1>10, <1>11
  <2>2. au >= 55 \/ dr >= 55 \/ bu >= 55
    BY <1>4, <1>5, <1>9, <2>1
  <2>3. au \in Int /\ dr \in Int /\ bu \in Int
    BY <1>1, <1>8
  <2>4. Max({au, dr, bu}) \in {au, dr, bu} /\ \A y \in {au, dr, bu} : Max({au, dr, bu}) >= y
    BY <2>3, MaxOfThree
  <2>5. Max({au, dr, bu}) >= 55
    BY <2>2, <2>3, <2>4
  <2> QED BY <1>8, <2>5 DEF Risky
<1> QED BY <1>7, <1>12, <1>13 DEF IsVerdict

\* A page that a live hit confirms stays dangerous, whatever is said of it now.
LEMMA SiteRiskIs ==
  ASSUME NEW domain \in Domains, NEW boost \in Int, NEW answer \in SiteAnswers
  PROVE  /\ SiteRisk(domain, boost, answer) \in 0..100
         /\ boost >= 60 => SiteRisk(domain, boost, answer) >= 50
<1> DEFINE start    == Lookalike[domain] + boost
           phishing == IF answer.phishing = "bad" THEN Clamp(start + 60, 100) ELSE start
           trusted  == IF answer.dapp \in {"trusted", "both"} THEN Max({phishing - 10, 0}) ELSE phishing
           dapp     == IF answer.dapp \in {"bad", "both"} THEN Clamp(trusted + 50, 100) ELSE trusted
           site     == IF answer.site # None THEN Clamp(dapp + answer.site, 100) ELSE dapp
<1>1. start \in Int /\ (boost >= 60 => start >= 60)
  BY IntelAssumption
<1> HIDE DEF start
<1>2. phishing \in Int /\ (boost >= 60 => phishing >= 60)
  <2>1. Clamp(start + 60, 100) = IF start + 60 <= 100 THEN start + 60 ELSE 100
    BY <1>1, ClampOf
  <2> QED BY <1>1, <2>1
<1> HIDE DEF phishing
<1>3. trusted \in Int /\ (boost >= 60 => trusted >= 50)
  <2>1. phishing - 10 \in Int
    BY <1>2
  <2>2. Max({phishing - 10, 0}) = IF phishing - 10 >= 0 THEN phishing - 10 ELSE 0
    BY <2>1, MaxOfTwo
  <2> QED BY <1>2, <2>2
<1> HIDE DEF trusted
<1>4. dapp \in Int /\ (boost >= 60 => dapp >= 50)
  <2>1. Clamp(trusted + 50, 100) = IF trusted + 50 <= 100 THEN trusted + 50 ELSE 100
    BY <1>3, ClampOf
  <2> QED BY <1>3, <2>1
<1> HIDE DEF dapp
<1>5. site \in Int /\ (boost >= 60 => site >= 50)
  <2>1. answer.site # None => answer.site \in 0..100
    BY IntelAssumption DEF PossibleAnswers
  <2>2. CASE answer.site # None
    <3>1. answer.site \in 0..100 /\ dapp + answer.site \in Int
      BY <1>4, <2>1, <2>2
    <3>2. Clamp(dapp + answer.site, 100) = IF dapp + answer.site <= 100 THEN dapp + answer.site ELSE 100
      BY <3>1, ClampOf
    <3> QED BY <1>4, <2>2, <3>1, <3>2
  <2>3. CASE answer.site = None
    BY <1>4, <2>3
  <2> QED BY <2>2, <2>3
<1> HIDE DEF site
<1>6. Clamp(site, 100) = IF site <= 100 THEN site ELSE 100
  BY <1>5, ClampOf
<1>7. Clamp(site, 100) \in Int
  BY <1>5, <1>6
<1>8. Max({Clamp(site, 100), 0}) = IF Clamp(site, 100) >= 0 THEN Clamp(site, 100) ELSE 0
  BY <1>7, MaxOfTwo
<1>9. SiteRisk(domain, boost, answer) = Max({Clamp(site, 100), 0})
  BY DEF SiteRisk, start, phishing, trusted, dapp, site
<1> QED BY <1>5, <1>6, <1>8, <1>9

-----------------------------------------------------------------------------
(* What is certain *)

\* What is found of entities: one of the risks the code stores.
Found(found) == \A h \in found : h[1] \in Entities /\ h[2] \in {50, 60, 85, 90, 95}

HitsOf(h) ==
  /\ h = [e \in Entities |-> h[e]]
  /\ \A e \in Entities : h[e] # None => /\ DOMAIN h[e] = {"risk", "expires"}
                                       /\ h[e].risk \in 0..100
                                       /\ h[e].expires \in Nat /\ h[e].expires > 0

\* Storing hits keeps them in range and ends none.
LEMMA Upserted ==
  ASSUME Tables, NEW found, Found(found), Upsert(found)
  PROVE  /\ HitsOf(hits')
         /\ \A e \in Entities : Active(e) => hits'[e] # None /\ hits'[e].expires > now
<1> DEFINE risks(e) == {h[2] : h \in {g \in found : g[1] = e}}
           old(e) == IF hits[e] = None THEN {} ELSE {hits[e].risk}
           top(e) == Max(risks(e) \cup old(e))
<1>1. hits' = [e \in Entities |-> IF risks(e) = {} THEN hits[e]
                                  ELSE [risk |-> top(e), expires |-> now + HitTtl]]
  BY DEF Upsert
<1>2. \A e \in Entities : risks(e) # {} => top(e) \in 0..100
  <2> SUFFICES ASSUME NEW e \in Entities, risks(e) # {} PROVE top(e) \in 0..100
    OBVIOUS
  <2>1. risks(e) \subseteq {50, 60, 85, 90, 95}
    BY DEF Found
  <2>2. old(e) = {} \/ \E x \in 0..100 : old(e) = {x}
    BY DEF Tables
  <2> HIDE DEF risks, old
  <2> QED BY <2>1, <2>2, StoredRisk
<1>3. now + HitTtl \in 1..(MaxTime + HitTtl) /\ now + HitTtl > now /\ now + HitTtl \in Nat
  BY IntelAssumption DEF Tables
<1> HIDE DEF risks, top
<1>4. ASSUME NEW e \in Entities, risks(e) # {}
      PROVE  /\ hits'[e] # None /\ hits'[e].expires = now + HitTtl /\ hits'[e].risk = top(e)
             /\ DOMAIN hits'[e] = {"risk", "expires"}
  <2>1. hits'[e] = [risk |-> top(e), expires |-> now + HitTtl]
    BY <1>1, <1>4
  <2>2. [risk |-> top(e), expires |-> now + HitTtl] \in [risk : 0..100, expires : 1..(MaxTime + HitTtl)]
    BY <1>2, <1>3, <1>4
  <2> QED BY <2>1, <2>2, IntelAssumption
<1>5. ASSUME NEW e \in Entities, risks(e) = {} PROVE hits'[e] = hits[e]
  BY <1>1, <1>5
<1>6. hits' = [e \in Entities |-> hits'[e]]
  BY <1>1
<1>7. ASSUME NEW e \in Entities
      PROVE  /\ hits'[e] # None => /\ DOMAIN hits'[e] = {"risk", "expires"}
                                   /\ hits'[e].risk \in 0..100
                                   /\ hits'[e].expires \in Nat /\ hits'[e].expires > 0
             /\ Active(e) => hits'[e] # None /\ hits'[e].expires > now
  <2>1. CASE risks(e) = {}
    <3>1. hits'[e] = hits[e]
      BY <1>5, <2>1
    <3> QED BY <3>1 DEF Tables, Active
  <2>2. CASE risks(e) # {}
    <3>1. /\ hits'[e] # None /\ hits'[e].expires = now + HitTtl /\ hits'[e].risk = top(e)
          /\ DOMAIN hits'[e] = {"risk", "expires"}
      BY <1>4, <2>2
    <3>2. top(e) \in 0..100
      BY <1>2, <2>2
    <3> QED BY <1>3, <3>1, <3>2
  <2> QED BY <2>1, <2>2
<1> QED BY <1>6, <1>7 DEF HitsOf

\* While the tables grow and no hit ends, what was certain stays so.
LEMMA EvidenceGrows ==
  ASSUME reported \subseteq reported', blocked \subseteq blocked', activity \subseteq activity',
         \A e \in Entities : Active(e) => hits'[e] # None /\ hits'[e].expires > now'
  PROVE  Evidence \subseteq Evidence'
BY DEF Evidence, Active

\* What is certain is what the feed lists when it reads all its sources whole.
LEMMA EvidenceIsListed ==
  ASSUME Tables, NEW some, ~CutShort(some)
  PROVE  /\ \A p \in Programs : Program(p) \in Evidence => p \in BadPrograms({}, some)
         /\ \A c \in Contracts : Contract(c) \in Evidence => c \in BadContracts({})
         /\ \A d \in Domains : Domain(d) \in Evidence => d \in First(Hit("domain", Domains), MaxItems)
<1>1. /\ some = ActivityPrograms(activity)
      /\ First(Reported(Programs), MaxItems) = Reported(Programs)
      /\ First(Reported(Contracts), MaxItems) = Reported(Contracts)
      /\ First(Blocked, MaxItems) = Blocked
      /\ First(Hit("program", Programs), MaxItems) = Hit("program", Programs)
      /\ First(Hit("contract", Contracts), MaxItems) = Hit("contract", Contracts)
      /\ First(Hit("domain", Domains), MaxItems) = Hit("domain", Domains)
  BY DEF CutShort
<1>2. ASSUME NEW p \in Programs, Program(p) \in Evidence PROVE p \in BadPrograms({}, some)
  <2>1. \/ Active(Program(p)) \/ p \in reported \/ \E w \in Wallets : <<w, p>> \in blocked
        \/ \E r \in activity : r.event = "tx_blocked" /\ p \in r.flagged
    BY <1>2 DEF Evidence, Program
  <2>2. (\E r \in activity : r.event = "tx_blocked" /\ p \in r.flagged) => p \in ActivityPrograms(activity)
    BY DEF ActivityPrograms, Tables
  <2>3. \/ p \in Hit("program", Programs) \/ p \in Reported(Programs) \/ p \in Blocked \/ p \in some
    BY <1>1, <2>1, <2>2 DEF Hit, Program, Reported, Blocked
  <2> QED BY <1>1, <2>3 DEF BadPrograms
<1>3. ASSUME NEW c \in Contracts, Contract(c) \in Evidence PROVE c \in BadContracts({})
  <2>1. c \in Hit("contract", Contracts) \/ c \in Reported(Contracts)
    BY <1>3 DEF Evidence, Contract, Hit, Reported
  <2> QED BY <1>1, <2>1 DEF BadContracts
<1>4. ASSUME NEW d \in Domains, Domain(d) \in Evidence PROVE d \in Hit("domain", Domains)
  BY <1>4 DEF Evidence, Domain, Hit
<1> QED BY <1>1, <1>2, <1>3, <1>4

-----------------------------------------------------------------------------
(* One request moves *)

\* The tables are as they were.
LEMMA TablesStay ==
  ASSUME Tables, UNCHANGED <<tables, feedCache, now>>
  PROVE  Tables' /\ Evidence' = Evidence
BY DEF Tables, Evidence, Active, tables

\* One request takes a step and the others stay where they are.
LEMMA Moved ==
  ASSUME Inv, Tables', Evidence \subseteq Evidence', NEW w \in Workers, NEW t, Go(w, t),
         t = None \/ (Shape(t) /\ (t.pc # "done" => t.kept \subseteq Evidence))
  PROVE  Inv'
<1>1. task' = [x \in Workers |-> IF x = w THEN t ELSE task[x]]
  BY DEF Go, Inv, Tasks
<1>2. ASSUME NEW x \in Workers, task'[x] # None
      PROVE  Shape(task'[x]) /\ (task'[x].pc # "done" => task'[x].kept \subseteq Evidence')
  <2>1. CASE x = w
    <3>1. task'[x] = t
      BY <1>1, <2>1
    <3> QED BY <1>2, <3>1
  <2>2. CASE x # w
    <3>1. task'[x] = task[x]
      BY <1>1, <2>2
    <3> QED BY <1>2, <3>1 DEF Inv, Tasks, Knows
  <2> QED BY <2>1, <2>2
<1>3. task' = [x \in Workers |-> task'[x]]
  BY <1>1
<1> QED BY <1>2, <1>3 DEF Inv, Tasks, Knows

\* A step that changes no table.
LEMMA Stepped ==
  ASSUME Inv, UNCHANGED <<tables, feedCache, now>>, NEW w \in Workers, NEW t, Go(w, t),
         t = None \/ (Shape(t) /\ (t.pc # "done" => t.kept \subseteq Evidence))
  PROVE  Inv'
<1>1. Tables' /\ Evidence' = Evidence
  BY TablesStay DEF Inv
<1> QED BY <1>1, Moved

\* A request that only forgets: what it has kept shrinks.
LEMMA Forgets ==
  ASSUME NEW s, Shape(s), NEW k, k \subseteq s.kept
  PROVE  Shape([s EXCEPT !.kept = k]) /\ [s EXCEPT !.kept = k].kept = k
         /\ [s EXCEPT !.kept = k].pc = s.pc
<1>1. PICK t : t = [s EXCEPT !.kept = k]
  OBVIOUS
<1>2. /\ DOMAIN t = DOMAIN s /\ t.pc = s.pc /\ t.entry = s.entry /\ t.wallet = s.wallet
      /\ t.domain = s.domain /\ t.request = s.request /\ t.boost = s.boost /\ t.lure = s.lure
      /\ t.listed = s.listed /\ t.verdict = s.verdict /\ t.missed = s.missed /\ t.kept = k
  BY <1>1 DEF Shape, IsTask
<1>3. IsTask(t)
  BY <1>2 DEF Shape, IsTask, Judged
<1>4. Warns(t) /\ Rejects(t) /\ ServesAll(t)
  BY <1>2 DEF Shape, Warns, Rejects, ServesAll, Judged
<1>5. Shape(t)
  BY <1>2, <1>3, <1>4 DEF Shape
<1> QED BY <1>1, <1>2, <1>5

\* After evidence was lost the requests have kept what still is.
LEMMA Watched ==
  ASSUME Inv, Tables', Watch
  PROVE  Inv'
<1>1. task' = [w \in Workers |-> task'[w]]
  BY DEF Watch
<1>2. ASSUME NEW w \in Workers, task'[w] # None
      PROVE  Shape(task'[w]) /\ task'[w].kept \subseteq Evidence'
  <2>1. task[w] # None /\ task'[w] = [task[w] EXCEPT !.kept = @ \cap Evidence']
    BY <1>2 DEF Watch
  <2>2. PICK k : k = task[w].kept \cap Evidence'
    OBVIOUS
  <2>3. task'[w] = [task[w] EXCEPT !.kept = k]
    BY <2>1, <2>2
  <2>4. Shape(task[w]) /\ k \subseteq task[w].kept /\ k \subseteq Evidence'
    BY <2>1, <2>2 DEF Inv, Tasks, Knows
  <2>5. Shape(task'[w]) /\ task'[w].kept = k
    BY <2>3, <2>4, Forgets
  <2> QED BY <2>4, <2>5
<1> QED BY <1>1, <1>2 DEF Inv, Tasks, Knows

-----------------------------------------------------------------------------
(* The steps of a request *)

\* What a step of a request leaves as it was.
Same(t, s) == /\ DOMAIN t = DOMAIN s /\ t.entry = s.entry /\ t.wallet = s.wallet
              /\ t.domain = s.domain /\ t.request = s.request /\ t.kept = s.kept

\* The request at a place: what it has kept is certain, unless it has answered.
LEMMA Current ==
  ASSUME Inv, NEW w \in Workers, NEW pc, At(w, pc)
  PROVE  /\ task[w] # None /\ task[w].pc = pc /\ Shape(task[w])
         /\ pc # "done" => task[w].kept \subseteq Evidence
BY DEF Inv, Tasks, Knows, At

\* A request starts with all that is certain.
LEMMA BeginKeeps ==
  ASSUME Inv, NEW w \in Workers, NEW entry \in {"analysis", "check", "feed"},
         NEW wallet \in Wallets \cup {None}, NEW domain \in Domains \cup {None}, NEW request,
         Begin(w, entry, wallet, domain, request),
         IF entry = "analysis" THEN request \in Requests /\ wallet \in Wallets ELSE request = None,
         entry = "check" => domain # None, entry = "feed" => domain = None
  PROVE  Inv'
<1>1. PICK t : t = [pc |-> IF domain = None THEN "feed" ELSE "lookup", entry |-> entry,
                    wallet |-> wallet, domain |-> domain, request |-> request,
                    boost |-> 0, lure |-> IF domain = None THEN 0 ELSE None, listed |-> {},
                    verdict |-> None, kept |-> Evidence, missed |-> FALSE]
  OBVIOUS
<1>2. /\ DOMAIN t = {"pc", "entry", "wallet", "domain", "request", "boost", "lure", "listed",
                     "verdict", "kept", "missed"}
      /\ t.pc = (IF domain = None THEN "feed" ELSE "lookup") /\ t.entry = entry /\ t.wallet = wallet
      /\ t.domain = domain /\ t.request = request /\ t.boost = 0
      /\ t.lure = (IF domain = None THEN 0 ELSE None) /\ t.listed = {} /\ t.kept = Evidence
      /\ t.missed \in BOOLEAN
  BY <1>1
<1>3. /\ IF domain = None THEN t.lure # None /\ t.lure \in 0..100 ELSE t.lure = None
      /\ t.missed \in BOOLEAN /\ t.listed \subseteq Domains /\ t.boost \in Int
  <2>1. t.missed \in BOOLEAN /\ t.listed \subseteq Domains /\ t.boost \in Int
    BY <1>2
  <2>2. ASSUME domain = None PROVE t.lure # None /\ t.lure \in 0..100
    <3>1. t.lure = 0
      BY <1>2, <2>2
    <3> QED BY <3>1, IntelAssumption
  <2>3. domain # None => t.lure = None
    BY <1>2
  <2> QED BY <2>1, <2>2, <2>3
<1>4. IsTask(t)
  <2>1. ~Judged(t) /\ t.pc \in Pcs /\ t.pc \in {"feed", "lookup"}
    BY <1>2 DEF Judged, Pcs
  <2>2. t.request = request /\ t.wallet = wallet /\ t.domain = domain /\ t.entry = entry
        /\ (t.pc = "feed" <=> domain = None)
    BY <1>2
  <2>3. IF t.entry = "analysis" THEN t.request \in Requests /\ t.wallet \in Wallets
                                ELSE t.request = None
    BY <2>2
  <2>4. t.lure = None \/ t.lure \in 0..100
    BY <1>3
  <2>5. /\ t.pc \in {"lookup", "site"} => t.domain # None /\ t.lure = None
        /\ t.pc \in {"feed", "store"} => IF t.lure = None THEN t.domain # None ELSE t.entry # "check"
    BY <1>3, <2>1, <2>2
  <2>6. /\ DOMAIN t = {"pc", "entry", "wallet", "domain", "request", "boost", "lure", "listed",
                       "verdict", "kept", "missed"}
        /\ t.wallet \in Wallets \cup {None} /\ t.domain \in Domains \cup {None}
        /\ t.entry \in {"analysis", "check", "feed"}
    BY <1>2
  <2>7. (t.entry = "check" => t.domain # None) /\ (t.entry = "feed" => t.domain = None)
    BY <2>2
  <2> QED BY <1>3, <2>1, <2>3, <2>4, <2>5, <2>6, <2>7 DEF IsTask
<1>5. Warns(t) /\ Rejects(t) /\ ServesAll(t)
  BY <1>2 DEF Warns, Rejects, ServesAll, Judged
<1>6. Shape(t)
  BY <1>2, <1>4, <1>5 DEF Shape, Evidence
<1>7. Go(w, t) /\ UNCHANGED <<tables, feedCache, now>>
  BY <1>1 DEF Begin
<1> QED BY <1>2, <1>6, <1>7, Stepped

\* The requests that start: analyses, checks and the feed.
LEMMA StartKeeps ==
  ASSUME Inv, NEW w \in Workers, Start(w)
  PROVE  Inv'
<1>1. ASSUME NEW entry \in {"dashboard", "extension"}, NEW wallet \in Wallets,
             NEW domain \in Domains \cup {None}, NEW request \in Requests,
             BeginAnalysis(w, entry, wallet, domain, request)
      PROVE  Inv'
  <2>1. Begin(w, "analysis", wallet, domain, request)
    BY <1>1 DEF BeginAnalysis
  <2> QED BY <2>1, BeginKeeps
<1>2. ASSUME NEW wallet \in Wallets \cup {None}, NEW domain \in Domains, BeginCheck(w, wallet, domain)
      PROVE  Inv'
  <2>1. Begin(w, "check", wallet, domain, None) /\ domain # None
    BY <1>2, IntelAssumption DEF BeginCheck
  <2> QED BY <2>1, BeginKeeps
<1>3. ASSUME BeginFeed(w) PROVE Inv'
  <2>1. Begin(w, "feed", None, None, None)
    BY <1>3 DEF BeginFeed
  <2> QED BY <2>1, BeginKeeps
<1> QED BY <1>1, <1>2, <1>3 DEF Start

\* The assessment of a page without its settings.
LEMMA SettingsFailKeeps ==
  ASSUME Inv, NEW w \in Workers, SettingsFail(w)
  PROVE  Inv'
<1> DEFINE s == task[w]
<1>1. s.pc = "lookup" /\ Shape(s) /\ s.kept \subseteq Evidence
  BY Current DEF SettingsFail
<1>2. UNCHANGED <<tables, feedCache, now>>
  BY DEF SettingsFail
<1>3. CASE s.entry = "check"
  <2>1. Go(w, None)
    BY <1>3 DEF SettingsFail
  <2> QED BY <1>2, <2>1, Stepped
<1>4. CASE s.entry # "check"
  <2>1. PICK t : t = [s EXCEPT !.pc = "feed", !.lure = 0, !.missed = TRUE]
    OBVIOUS
  <2>2. Same(t, s) /\ t.pc = "feed" /\ t.lure = 0 /\ t.missed = TRUE /\ t.listed = s.listed
        /\ t.boost = s.boost
    BY <1>1, <2>1 DEF Shape, IsTask, Same
  <2>3. Go(w, t)
    BY <1>4, <2>1 DEF SettingsFail
  <2>3a. Same(t, s) /\ t.pc = "feed" /\ t.missed \in BOOLEAN /\ t.listed = s.listed
         /\ t.boost = s.boost
    BY <2>2
  <2>4. t.lure # None /\ t.lure \in 0..100
    BY <2>2, IntelAssumption
  <2>5. IsTask(t)
    BY <1>1, <1>4, <2>3a, <2>4 DEF Shape, IsTask, Same, Judged, Pcs
  <2>6. Warns(t) /\ Rejects(t) /\ ServesAll(t)
    BY <2>2 DEF Warns, Rejects, ServesAll
  <2>7. Shape(t)
    BY <1>1, <2>2, <2>5, <2>6 DEF Shape, Same
  <2> QED BY <1>1, <1>2, <2>2, <2>3, <2>7, Stepped DEF Same
<1> QED BY <1>3, <1>4

\* The cached hit: a page that has one is assessed with it.
LEMMA LookupKeeps ==
  ASSUME Inv, NEW w \in Workers, Lookup(w)
  PROVE  Inv'
<1> DEFINE s == task[w]
           hit == Domain(s.domain)
<1>1. s.pc = "lookup" /\ Shape(s) /\ s.kept \subseteq Evidence
  BY Current DEF Lookup
<1>2. UNCHANGED <<tables, feedCache, now>>
  BY DEF Lookup
<1>3. s.domain \in Domains /\ s.lure = None
  BY <1>1 DEF Shape, IsTask
<1>4. CASE Active(hit)
  <2>1. PICK t : t = [s EXCEPT !.pc = "site", !.boost = HitBoost(hits[hit].risk)]
    OBVIOUS
  <2>2. Same(t, s) /\ t.pc = "site" /\ t.boost = HitBoost(hits[hit].risk) /\ t.listed = s.listed
        /\ t.lure = s.lure /\ t.missed = s.missed
    BY <1>1, <2>1 DEF Shape, IsTask, Same
  <2>3. Go(w, t)
    BY <1>4, <2>1 DEF Lookup
  <2>4. hits[hit].risk \in 0..100
    BY <1>3, <1>4 DEF Inv, Tables, Active, Entities
  <2>5. HitBoost(hits[hit].risk) = IF hits[hit].risk >= 60 THEN hits[hit].risk ELSE 60
    <3>1. hits[hit].risk \in Int /\ 60 \in Int
      BY <2>4
    <3> QED BY ONLY <3>1, MaxOfTwo DEF HitBoost
  <2>6. t.boost \in Int /\ t.boost >= 60
    BY <2>2, <2>4, <2>5
  <2>7. IsTask(t)
    BY <1>1, <2>2, <2>6 DEF Shape, IsTask, Same, Judged, Pcs
  <2>8. Warns(t) /\ Rejects(t) /\ ServesAll(t)
    BY <1>3, <2>2, <2>6 DEF Warns, Rejects, ServesAll, Judged
  <2>9. Shape(t)
    BY <1>1, <2>2, <2>7, <2>8 DEF Shape, Same
  <2> QED BY <1>1, <1>2, <2>2, <2>3, <2>9, Stepped DEF Same
<1>5. CASE ~Active(hit)
  <2>1. PICK t : t = [s EXCEPT !.pc = "feed"]
    OBVIOUS
  <2>2. Same(t, s) /\ t.pc = "feed" /\ t.boost = s.boost /\ t.listed = s.listed
        /\ t.lure = s.lure /\ t.missed = s.missed
    BY <1>1, <2>1 DEF Shape, IsTask, Same
  <2>3. Go(w, t)
    BY <1>5, <2>1 DEF Lookup
  <2>4. hit \notin Evidence
    BY <1>3, <1>5 DEF Evidence, Domain
  <2>5. IsTask(t)
    BY <1>1, <1>3, <2>2 DEF Shape, IsTask, Same, Judged, Pcs
  <2>6. Warns(t) /\ Rejects(t) /\ ServesAll(t)
    BY <1>1, <2>2, <2>4 DEF Warns, Rejects, ServesAll, Judged, Same
  <2>7. Shape(t)
    BY <1>1, <2>2, <2>5, <2>6 DEF Shape, Same
  <2> QED BY <1>1, <1>2, <2>2, <2>3, <2>7, Stepped DEF Same
<1> QED BY <1>4, <1>5

\* A lookup that fails.
LEMMA LookupFailsKeeps ==
  ASSUME Inv, NEW w \in Workers, LookupFails(w)
  PROVE  Inv'
<1> DEFINE s == task[w]
<1>1. s.pc = "lookup" /\ Shape(s) /\ s.kept \subseteq Evidence
  BY Current DEF LookupFails
<1>2. PICK t : t = [s EXCEPT !.pc = "feed", !.missed = TRUE]
  OBVIOUS
<1>3. Same(t, s) /\ t.pc = "feed" /\ t.missed = TRUE /\ t.listed = s.listed /\ t.boost = s.boost
      /\ t.lure = s.lure
  BY <1>1, <1>2 DEF Shape, IsTask, Same
<1>4. Go(w, t) /\ UNCHANGED <<tables, feedCache, now>>
  BY <1>2 DEF LookupFails
<1>5. IsTask(t)
  BY <1>1, <1>3 DEF Shape, IsTask, Same, Judged, Pcs
<1>6. Warns(t) /\ Rejects(t) /\ ServesAll(t)
  BY <1>3 DEF Warns, Rejects, ServesAll
<1>7. Shape(t)
  BY <1>1, <1>3, <1>5, <1>6 DEF Shape, Same
<1> QED BY <1>1, <1>3, <1>4, <1>7, Stepped DEF Same

\* The domain feed assesses a page or is kept for the other sources.
LEMMA ListedIs ==
  ASSUME NEW s, Shape(s), s.pc \in {"feed", "store"}, NEW domains, domains \subseteq Domains
  PROVE  /\ Shape(Listed(s, domains)) /\ Listed(s, domains).kept = s.kept
         /\ Listed(s, domains).pc # "done"
<1>1. CASE s.lure = None
  <2>1. PICK t : t = [s EXCEPT !.pc = "site", !.boost = FeedBoost(s.domain, domains)]
    OBVIOUS
  <2>2. Same(t, s) /\ t.pc = "site" /\ t.boost = FeedBoost(s.domain, domains) /\ t.lure = s.lure
        /\ t.listed = s.listed /\ t.missed = s.missed
    BY <2>1 DEF Shape, IsTask, Same
  <2>3. FeedBoost(s.domain, domains) \in Int
    BY DEF FeedBoost
  <2>4. IsTask(t)
    BY <1>1, <2>2, <2>3 DEF Shape, IsTask, Same, Judged, Pcs
  <2>5. Warns(t) /\ Rejects(t) /\ ServesAll(t)
    BY <1>1, <2>2 DEF Shape, Warns, Rejects, ServesAll, Judged, Same
  <2>6. Shape(t)
    BY <2>2, <2>4, <2>5 DEF Shape, Same
  <2>7. Listed(s, domains) = t
    BY <1>1, <2>1 DEF Listed
  <2> QED BY <2>2, <2>6, <2>7 DEF Same
<1>2. CASE s.lure # None
  <2>1. PICK t : t = [s EXCEPT !.pc = "sources", !.listed = domains]
    OBVIOUS
  <2>2. Same(t, s) /\ t.pc = "sources" /\ t.boost = s.boost /\ t.lure = s.lure
        /\ t.listed = domains /\ t.missed = s.missed
    BY <2>1 DEF Shape, IsTask, Same
  <2>3. IsTask(t)
    BY <1>2, <2>2 DEF Shape, IsTask, Same, Judged, Pcs
  <2>4. Warns(t) /\ Rejects(t) /\ ServesAll(t)
    BY <1>2, <2>2 DEF Shape, Warns, Rejects, ServesAll, Judged, Same
  <2>5. Shape(t)
    BY <2>2, <2>3, <2>4 DEF Shape, Same
  <2>6. Listed(s, domains) = t
    BY <1>2, <2>1 DEF Listed
  <2> QED BY <2>2, <2>5, <2>6 DEF Same
<1> QED BY <1>1, <1>2

\* The cached domains are used.
LEMMA ReadCacheKeeps ==
  ASSUME Inv, NEW w \in Workers, ReadCache(w)
  PROVE  Inv'
<1>1. task[w].pc = "feed" /\ Shape(task[w]) /\ task[w].kept \subseteq Evidence
  BY Current DEF ReadCache
<1>2. feedCache.domains \subseteq Domains
  BY DEF Inv, Tables, ReadCache, CacheValid
<1>3. PICK t : t = Listed(task[w], feedCache.domains)
  OBVIOUS
<1>4. Go(w, t) /\ UNCHANGED <<tables, feedCache, now>>
  BY <1>3 DEF ReadCache
<1> QED BY <1>1, <1>2, <1>3, <1>4, ListedIs, Stepped

\* The feed lists domains only.
LEMMA LearnedAre ==
  ASSUME Tables
  PROVE  Cut(Learned(activity)) \subseteq Domains
<1>1. Learned(activity) \subseteq Domains
  BY DEF Learned, Tables, Rows
<1>2. Cut(Learned(activity)) \subseteq Learned(activity)
  BY DEF Cut, First
<1> QED BY <1>1, <1>2

\* The domains are read from the activity feed.
LEMMA QueryDomainsKeeps ==
  ASSUME Inv, NEW w \in Workers, QueryDomains(w)
  PROVE  Inv'
<1> DEFINE s == task[w]
<1>1. s.pc = "feed" /\ Shape(s) /\ s.kept \subseteq Evidence
  BY Current DEF QueryDomains
<1>2. PICK d : d = Cut(Learned(activity))
  OBVIOUS
<1>3. PICK t : t = [s EXCEPT !.pc = "store", !.listed = d]
  OBVIOUS
<1>4. Same(t, s) /\ t.pc = "store" /\ t.missed = s.missed /\ t.listed = d /\ t.boost = s.boost
      /\ t.lure = s.lure
  BY <1>1, <1>3 DEF Shape, IsTask, Same
<1>5. Go(w, t) /\ UNCHANGED <<tables, feedCache, now>>
  BY <1>2, <1>3 DEF QueryDomains
<1>6. d \subseteq Domains
  BY <1>2, LearnedAre DEF Inv
<1>7. IsTask(t)
  BY <1>1, <1>4, <1>6 DEF Shape, IsTask, Same, Judged, Pcs
<1>8. Warns(t) /\ Rejects(t) /\ ServesAll(t)
  BY <1>1, <1>4 DEF Shape, Warns, Rejects, ServesAll, Judged, Same
<1>9. Shape(t)
  BY <1>1, <1>4, <1>7, <1>8 DEF Shape, Same
<1> QED BY <1>1, <1>4, <1>5, <1>9, Stepped DEF Same

\* They are stored in the process and used.
LEMMA StoreDomainsKeeps ==
  ASSUME Inv, NEW w \in Workers, StoreDomains(w)
  PROVE  Inv'
<1> DEFINE s == task[w]
<1>1. s.pc = "store" /\ Shape(s) /\ s.kept \subseteq Evidence
  BY Current DEF StoreDomains
<1>2. PICK u : u = [s EXCEPT !.listed = {}]
  OBVIOUS
<1>3. Same(u, s) /\ u.pc = "store" /\ u.missed = s.missed /\ u.listed = {} /\ u.boost = s.boost
      /\ u.lure = s.lure
  BY <1>1, <1>2 DEF Shape, IsTask, Same
<1>4. IsTask(u)
  BY <1>1, <1>3 DEF Shape, IsTask, Same, Judged, Pcs
<1>5. Warns(u) /\ Rejects(u) /\ ServesAll(u)
  BY <1>1, <1>3 DEF Shape, Warns, Rejects, ServesAll, Judged, Same
<1>6. Shape(u) /\ u.kept \subseteq Evidence
  BY <1>1, <1>3, <1>4, <1>5 DEF Shape, Same
<1>7. s.listed \subseteq Domains
  BY <1>1 DEF Shape, IsTask
<1>8. PICK t : t = Listed(u, s.listed)
  OBVIOUS
<1>9. Shape(t) /\ t.kept \subseteq Evidence
  BY <1>3, <1>6, <1>7, <1>8, ListedIs
<1>10. Go(w, t)
  BY <1>2, <1>8 DEF StoreDomains
<1>11. feedCache' = [at |-> now, domains |-> s.listed] /\ UNCHANGED <<tables, now>>
  BY DEF StoreDomains
<1>12. Tables' /\ Evidence' = Evidence
  BY <1>7, <1>11 DEF Inv, Tables, Evidence, Active, tables
<1> QED BY <1>9, <1>10, <1>12, Moved

\* The verdict of an analysis, on its way to the external service.
LEMMA AnalyzedIs ==
  ASSUME NEW s, Shape(s), s.entry = "analysis", s.lure # None, NEW bad, NEW t,
         Same(t, s), t.pc = "enrich", t.boost = s.boost, t.lure = s.lure,
         t.listed = {} \/ t.listed = s.listed, t.missed \in BOOLEAN, ~t.missed => ~s.missed,
         t.verdict = Analyze(s.request, bad, s.lure),
         ~t.missed => \A p \in Invoked(s.request) : Program(p) \in s.kept => p \in bad
  PROVE  Shape(t)
<1>1. s.lure \in 0..100
  BY DEF Shape, IsTask
<1>2. IsVerdict(t.verdict, t.request)
      /\ (Invoked(t.request) \cap bad # {} => t.verdict.malicious /\ t.verdict.score >= 80)
  BY <1>1, AnalyzeIs DEF Same
<1>3. IsTask(t)
  BY <1>2 DEF Shape, IsTask, Same, Judged, Pcs
<1>4. Warns(t) /\ ServesAll(t)
  BY DEF Shape, Warns, ServesAll, Same
<1>5. Rejects(t)
  BY <1>2 DEF Rejects, Same
<1> QED BY <1>3, <1>4, <1>5 DEF Shape, Same

\* The domains cannot be read.
LEMMA QueryFailsKeeps ==
  ASSUME Inv, NEW w \in Workers, QueryFails(w)
  PROVE  Inv'
<1> DEFINE s == task[w]
<1>1. s.pc = "feed" /\ Shape(s) /\ s.kept \subseteq Evidence
  BY Current DEF QueryFails
<1>2. PICK u : u = [s EXCEPT !.missed = TRUE]
  OBVIOUS
<1>3. Same(u, s) /\ u.pc = "feed" /\ u.missed = TRUE /\ u.listed = s.listed /\ u.boost = s.boost
      /\ u.lure = s.lure
  BY <1>1, <1>2 DEF Shape, IsTask, Same
<1>4. IsTask(u)
  BY <1>1, <1>3 DEF Shape, IsTask, Same, Judged, Pcs
<1>5. Warns(u) /\ Rejects(u) /\ ServesAll(u)
  BY <1>3 DEF Warns, Rejects, ServesAll
<1>6. Shape(u) /\ u.kept \subseteq Evidence
  BY <1>1, <1>3, <1>4, <1>5 DEF Shape, Same
<1>7. UNCHANGED <<tables, feedCache, now>>
  BY DEF QueryFails
<1>8. Go(w, IF u.lure = None THEN Listed(u, {})
            ELSE IF u.entry = "feed" THEN None
            ELSE [u EXCEPT !.pc = "enrich", !.verdict = Analyze(u.request, {}, u.lure)])
  BY <1>2 DEF QueryFails
<1>9. CASE u.lure = None
  <2>1. PICK t : t = Listed(u, {})
    OBVIOUS
  <2>2. Shape(t) /\ t.kept \subseteq Evidence
    BY <1>3, <1>6, <2>1, ListedIs
  <2>3. Go(w, t)
    BY <1>8, <1>9, <2>1
  <2> QED BY <1>7, <2>2, <2>3, Stepped
<1>10. CASE u.lure # None /\ u.entry = "feed"
  <2>1. Go(w, None)
    BY <1>8, <1>10
  <2> QED BY <1>7, <2>1, Stepped
<1>11. CASE u.lure # None /\ u.entry # "feed"
  <2>1. PICK v : v = Analyze(u.request, {}, u.lure)
    OBVIOUS
  <2>2. PICK t : t = [u EXCEPT !.pc = "enrich", !.verdict = v]
    OBVIOUS
  <2>3. Same(t, u) /\ t.pc = "enrich" /\ t.verdict = v /\ t.boost = u.boost /\ t.lure = u.lure
        /\ t.listed = u.listed /\ t.missed = TRUE
    BY <1>3, <1>6, <2>2 DEF Shape, IsTask, Same
  <2>4. u.entry = "analysis"
    BY <1>3, <1>6, <1>11 DEF Shape, IsTask
  <2>5. Shape(t)
    BY <1>6, <1>11, <2>1, <2>3, <2>4, AnalyzedIs
  <2>6. Go(w, t)
    BY <1>8, <1>11, <2>1, <2>2
  <2> QED BY <1>6, <1>7, <2>3, <2>5, <2>6, Stepped DEF Same
<1> QED BY <1>8, <1>9, <1>10, <1>11

\* Hits are stored, or the call fails.
LEMMA HitsKept ==
  ASSUME Tables, NEW found, Found(found), Upsert(found) \/ UNCHANGED hits,
         UNCHANGED <<reported, blocked, activity, events, connections, feedCache, now>>
  PROVE  Tables' /\ Evidence \subseteq Evidence'
<1>1. HitsOf(hits') /\ \A e \in Entities : Active(e) => hits'[e] # None /\ hits'[e].expires > now
  <2>1. CASE Upsert(found)
    BY <2>1, Upserted
  <2>2. CASE UNCHANGED hits
    BY <2>2 DEF Tables, HitsOf, Active
  <2> QED BY <2>1, <2>2
<1>2. Tables'
  BY <1>1 DEF Tables, HitsOf
<1> QED BY <1>1, <1>2, EvidenceGrows

\* What a site's answers say is about entities.
LEMMA SiteHitsAre ==
  ASSUME NEW domain \in Domains, NEW answer \in SiteAnswers
  PROVE  Found(SiteHits(domain, answer))
<1>1. answer.contracts \subseteq Contracts /\ answer.creators \subseteq Contracts
  BY IntelAssumption DEF PossibleAnswers
<1>2. ASSUME NEW h \in SiteHits(domain, answer) PROVE h[1] \in Entities /\ h[2] \in {50, 60, 85, 90, 95}
  <2>1. CASE h = <<Domain(domain), 60>> \/ h = <<Domain(domain), 50>>
    BY <2>1 DEF Entities
  <2>2. ASSUME NEW c \in answer.contracts, h = <<Contract(c), 85>> PROVE h[1] \in Entities /\ h[2] = 85
    BY <1>1, <2>2 DEF Entities
  <2>3. ASSUME NEW c \in answer.creators, h = <<Contract(c), 90>> PROVE h[1] \in Entities /\ h[2] = 90
    BY <1>1, <2>3 DEF Entities
  <2> QED BY <1>2, <2>1, <2>2, <2>3 DEF SiteHits
<1> QED BY <1>2 DEF Found

\* The page is assessed: a confirmed one is dangerous.
LEMMA SiteKeeps ==
  ASSUME Inv, NEW w \in Workers, NEW answer \in SiteAnswers, Site(w, answer)
  PROVE  Inv'
<1> DEFINE s == task[w]
           alerts == s.wallet # None /\ Settings[s.wallet] # None /\ Settings[s.wallet].alerts
<1>1. s.pc = "site" /\ Shape(s) /\ s.kept \subseteq Evidence
  BY Current DEF Site
<1>2. s.domain \in Domains /\ s.domain # None /\ s.lure = None /\ s.boost \in Int
  BY <1>1 DEF Shape, IsTask
<1>3. PICK r : r = SiteRisk(s.domain, s.boost, answer)
  OBVIOUS
<1>4. r \in 0..100 /\ (s.boost >= 60 => r >= 50)
  BY <1>2, <1>3, SiteRiskIs
<1>5. PICK pc : pc = IF s.entry # "check" THEN "feed" ELSE IF alerts THEN "connect" ELSE "done"
  OBVIOUS
<1>6. PICK t : t = [s EXCEPT !.pc = pc, !.lure = r, !.boost = 0]
  OBVIOUS
<1>7. Same(t, s) /\ t.pc = pc /\ t.lure = r /\ t.boost = 0 /\ t.listed = s.listed /\ t.missed = s.missed
  BY <1>1, <1>6 DEF Shape, IsTask, Same
<1>8. Go(w, t)
  BY <1>3, <1>5, <1>6 DEF Site
<1>9. r # None
  BY <1>4, IntelAssumption
<1>10. /\ pc \in {"feed", "connect", "done"} /\ (pc # "feed" => s.entry = "check")
       /\ (pc = "feed" => s.entry # "check") /\ (pc = "connect" => s.wallet # None)
  BY <1>5
<1>11. IsTask(t)
  BY <1>1, <1>2, <1>4, <1>7, <1>9, <1>10 DEF Shape, IsTask, Same, Judged, Pcs
<1>12. Warns(t)
  <2> SUFFICES ASSUME ~t.missed, Domain(t.domain) \in t.kept PROVE t.lure # None /\ t.lure >= 50 /\ t.pc # "site"
    BY DEF Warns
  <2>1. s.boost >= 60
    BY <1>1, <1>2, <1>7 DEF Shape, Warns, Same
  <2> QED BY <1>4, <1>7, <1>9, <1>10, <2>1
<1>13. Rejects(t) /\ ServesAll(t)
  BY <1>7, <1>10 DEF Rejects, ServesAll, Judged, Same
<1>14. Shape(t)
  BY <1>1, <1>7, <1>11, <1>12, <1>13 DEF Shape, Same
<1>15. /\ Upsert(SiteHits(s.domain, answer)) \/ UNCHANGED hits
       /\ UNCHANGED <<reported, blocked, activity, events, connections, feedCache, now>>
  BY DEF Site
<1>16. Tables' /\ Evidence \subseteq Evidence'
  BY <1>2, <1>15, SiteHitsAre, HitsKept DEF Inv
<1> QED BY <1>1, <1>7, <1>8, <1>14, <1>16, Moved DEF Same

\* A step whose writes are rows of the tables that prove nothing.
LEMMA Written ==
  ASSUME Tables, UNCHANGED <<reported, blocked, activity, hits, feedCache, now>>,
         connections' \subseteq Wallets \X Domains,
         events' \subseteq [program : Programs \cup {None}, domain : Domains \cup {None},
                            high : BOOLEAN, family : {"evm", "solana"}]
  PROVE  Tables' /\ Evidence' = Evidence
BY DEF Tables, Evidence, Active

\* The last steps of requests that have nothing to remember.
LEMMA Answers ==
  ASSUME NEW s, Shape(s), s.pc \in {"connect", "record", "signal"}, NEW t, Same(t, s),
         t.pc = "done" \/ (s.pc = "record" /\ t.pc = "signal"),
         t.boost = s.boost, t.lure = s.lure, t.listed = s.listed, t.missed = s.missed,
         t.verdict = s.verdict
  PROVE  Shape(t)
<1>1. s.pc \in {"record", "signal"} => s.entry = "analysis"
  BY DEF Shape, IsTask
<1>2. s.pc = "connect" => s.entry = "check"
  BY DEF Shape, IsTask
<1>3. Judged(t) => Judged(s)
  BY <1>1, <1>2 DEF Judged, Same
<1>4. IsTask(t)
  BY <1>1, <1>2, <1>3 DEF Shape, IsTask, Same, Judged, Pcs
<1>5. Warns(t)
  BY DEF Shape, Warns, Same
<1>6. Rejects(t)
  BY <1>3 DEF Shape, Rejects, Same
<1>7. ServesAll(t)
  BY <1>1, <1>2 DEF ServesAll, Same
<1> QED BY <1>4, <1>5, <1>6, <1>7 DEF Shape, Same

\* The signal and the connection of a check.
LEMMA ConnectKeeps ==
  ASSUME Inv, NEW w \in Workers, Connect(w)
  PROVE  Inv'
<1> DEFINE s == task[w]
           signal == [program |-> None, domain |-> s.domain, high |-> s.lure >= 65,
                      family |-> Family[s.wallet]]
           signals == IF s.lure > 0 /\ s.wallet \in Registered THEN {signal} ELSE {}
<1>1. s.pc = "connect" /\ Shape(s) /\ s.kept \subseteq Evidence
  BY Current DEF Connect
<1>2. s.domain \in Domains /\ s.wallet \in Wallets /\ s.lure \in 0..100
  BY <1>1 DEF Shape, IsTask
<1>3. PICK t : t = [s EXCEPT !.pc = "done"]
  OBVIOUS
<1>4. Same(t, s) /\ t.pc = "done" /\ t.lure = s.lure /\ t.boost = s.boost /\ t.listed = s.listed
      /\ t.missed = s.missed /\ t.verdict = s.verdict
  BY <1>1, <1>3 DEF Shape, IsTask, Same
<1>5. Go(w, t)
  BY <1>3 DEF Connect
<1>6. Shape(t)
  BY <1>1, <1>4, Answers
<1>7. /\ events' \in {events, events \cup signals}
      /\ connections' \in {connections, connections \cup {<<s.wallet, s.domain>>}}
      /\ UNCHANGED <<reported, blocked, activity, hits, feedCache, now>>
  BY DEF Connect, UpsertConnection
<1>8. signals \subseteq [program : Programs \cup {None}, domain : Domains \cup {None},
                         high : BOOLEAN, family : {"evm", "solana"}]
  <2>1. PICK f \in {"evm", "solana"} : f = Family[s.wallet]
    BY <1>2, IntelAssumption
  <2>2. PICK high \in BOOLEAN : high = (s.lure >= 65)
    <3>1. (s.lure >= 65) \in BOOLEAN
      OBVIOUS
    <3> QED BY <3>1, Zenon
  <2>3. signal = [program |-> None, domain |-> s.domain, high |-> high, family |-> f]
    BY <2>1, <2>2, Zenon
  <2>4. signal \in [program : Programs \cup {None}, domain : Domains \cup {None},
                    high : BOOLEAN, family : {"evm", "solana"}]
    BY <1>2, <2>3
  <2> HIDE DEF signal
  <2> QED BY <2>4
<1> HIDE DEF signals
<1>9. /\ events' \subseteq [program : Programs \cup {None}, domain : Domains \cup {None},
                            high : BOOLEAN, family : {"evm", "solana"}]
      /\ connections' \subseteq Wallets \X Domains
  BY <1>2, <1>7, <1>8 DEF Inv, Tables
<1>10. Tables' /\ Evidence' = Evidence
  BY <1>7, <1>9, Written DEF Inv
<1> QED BY <1>1, <1>4, <1>5, <1>6, <1>10, Moved DEF Same

\* An analysis reads the malicious programs and judges its request.
LEMMA ReadProgramsKeeps ==
  ASSUME Inv, NEW w \in Workers, NEW lost, NEW some, ReadPrograms(w, lost, some)
  PROVE  Inv'
<1> DEFINE s == task[w]
<1>1. s.pc = "sources" /\ Shape(s) /\ s.kept \subseteq Evidence /\ s.entry # "feed"
  BY Current DEF ReadPrograms
<1>2. s.entry = "analysis" /\ s.lure # None /\ s.request \in Requests
  BY <1>1 DEF Shape, IsTask
<1>3. PICK v : v = Analyze(s.request, BadPrograms(lost, some), s.lure)
  OBVIOUS
<1>4. PICK m \in BOOLEAN : m = (s.missed \/ lost # {} \/ CutShort(some))
  <2>1. (s.missed \/ lost # {} \/ CutShort(some)) \in BOOLEAN
    OBVIOUS
  <2> QED BY <2>1, Zenon
<1>5. PICK t : t = [s EXCEPT !.pc = "enrich", !.missed = m, !.listed = {}, !.verdict = v]
  OBVIOUS
<1>6. Same(t, s) /\ t.pc = "enrich" /\ t.missed = m /\ t.listed = {} /\ t.boost = s.boost
      /\ t.lure = s.lure /\ t.verdict = v
  BY <1>1, <1>5 DEF Shape, IsTask, Same
<1>7. Go(w, t) /\ UNCHANGED <<tables, feedCache, now>>
  BY <1>3, <1>4, <1>5 DEF ReadPrograms
<1>8. ASSUME lost = {}, ~CutShort(some)
      PROVE  \A p \in Invoked(s.request) : Program(p) \in s.kept => p \in BadPrograms(lost, some)
  <2>1. Invoked(s.request) \subseteq Programs
    BY <1>2, IntelAssumption DEF Invoked
  <2> QED BY <1>1, <1>8, <2>1, EvidenceIsListed DEF Inv
<1>9. (~t.missed => ~s.missed) /\ (~t.missed => lost = {} /\ ~CutShort(some)) /\ t.missed \in BOOLEAN
  BY <1>4, <1>6
<1>10. Shape(t)
  BY <1>1, <1>2, <1>3, <1>6, <1>8, <1>9, AnalyzedIs
<1> QED BY <1>1, <1>6, <1>7, <1>10, Stepped DEF Same

\* Without the EVM contracts an analysis knows no malicious program.
LEMMA ContractsFailKeeps ==
  ASSUME Inv, NEW w \in Workers, ContractsFail(w)
  PROVE  Inv'
<1> DEFINE s == task[w]
<1>1. s.pc = "sources" /\ Shape(s) /\ s.kept \subseteq Evidence
  BY Current DEF ContractsFail
<1>2. UNCHANGED <<tables, feedCache, now>>
  BY DEF ContractsFail
<1>3. CASE s.entry = "feed"
  <2>1. Go(w, None)
    BY <1>1, <1>3 DEF ContractsFail, Shape, IsTask
  <2> QED BY <1>2, <2>1, Stepped
<1>4. CASE s.entry # "feed"
  <2>1. s.entry = "analysis" /\ s.lure # None
    BY <1>1, <1>4 DEF Shape, IsTask
  <2>2. PICK u : u = [s EXCEPT !.missed = TRUE, !.listed = {}]
    OBVIOUS
  <2>3. Same(u, s) /\ u.boost = s.boost /\ u.lure = s.lure /\ u.missed = TRUE /\ u.listed = {}
    BY <1>1, <2>2 DEF Shape, IsTask, Same
  <2>4. PICK v : v = Analyze(s.request, {}, s.lure)
    OBVIOUS
  <2>5. PICK t : t = [u EXCEPT !.pc = "enrich", !.verdict = v]
    OBVIOUS
  <2>6. Same(t, s) /\ t.pc = "enrich" /\ t.verdict = v /\ t.boost = s.boost /\ t.lure = s.lure
        /\ t.missed = TRUE /\ t.listed = {}
    BY <1>1, <2>3, <2>5 DEF Shape, IsTask, Same
  <2>7. Go(w, t)
    BY <1>4, <2>2, <2>3, <2>4, <2>5 DEF ContractsFail, Same
  <2>8. Shape(t)
    BY <1>1, <2>1, <2>4, <2>6, AnalyzedIs
  <2> QED BY <1>1, <1>2, <2>6, <2>7, <2>8, Stepped DEF Same
<1> QED BY <1>3, <1>4

\* The feed lists all that is certain, when it reads all its sources.
LEMMA ServeFeedKeeps ==
  ASSUME Inv, NEW w \in Workers, NEW lost, NEW some, ServeFeed(w, lost, some)
  PROVE  Inv'
<1> DEFINE s == task[w]
           feed == [programs |-> BadPrograms(lost, some), contracts |-> BadContracts(lost),
                    domains |-> [f \in {"evm", "solana"} |-> BadDomains(s.listed, f, lost)]]
<1>1. s.pc = "sources" /\ Shape(s) /\ s.kept \subseteq Evidence /\ s.entry = "feed"
  BY Current DEF ServeFeed
<1>2. PICK m \in BOOLEAN : m = (s.missed \/ lost # {} \/ CutShort(some))
  <2>1. (s.missed \/ lost # {} \/ CutShort(some)) \in BOOLEAN
    OBVIOUS
  <2> QED BY <2>1, Zenon
<1>3. PICK v : v = feed
  OBVIOUS
<1>4. PICK t : t = [s EXCEPT !.pc = "done", !.missed = m, !.verdict = v]
  OBVIOUS
<1>5. Same(t, s) /\ t.pc = "done" /\ t.missed = m /\ t.listed = s.listed /\ t.boost = s.boost
      /\ t.lure = s.lure /\ t.verdict = v
  BY <1>1, <1>4 DEF Shape, IsTask, Same
<1>6. Go(w, t) /\ UNCHANGED <<tables, feedCache, now>>
  BY <1>2, <1>3, <1>4 DEF ServeFeed
<1>7. m \in BOOLEAN /\ (~m => ~s.missed) /\ (~m => lost = {} /\ ~CutShort(some))
  BY <1>2
<1>8. IsTask(t)
  BY <1>1, <1>5, <1>7 DEF Shape, IsTask, Same, Judged, Pcs
<1>9. Warns(t) /\ Rejects(t)
  BY <1>1, <1>5, <1>7 DEF Shape, Warns, Rejects, Judged, Same
<1>10. ServesAll(t)
  <2> SUFFICES ASSUME lost = {}, ~CutShort(some), NEW e \in s.kept
               PROVE  /\ e[1] = "program" => e[2] \in v.programs
                      /\ e[1] = "contract" => e[2] \in v.contracts
                      /\ e[1] = "domain" => e[2] \in v.domains["evm"] /\ e[2] \in v.domains["solana"]
    BY <1>5, <1>7 DEF ServesAll, Same
  <2>1. e \in Evidence
    BY <1>1
  <2>2. \/ \E d \in Domains : e = Domain(d)
        \/ \E p \in Programs : e = Program(p)
        \/ \E c \in Contracts : e = Contract(c)
    BY <2>1 DEF Evidence, Entities
  <2>3. ASSUME NEW d \in Domains, e = Domain(d)
        PROVE  d \in v.domains["evm"] /\ d \in v.domains["solana"]
    <3>1. d \in First(Hit("domain", Domains), MaxItems)
      BY <2>1, <2>3, EvidenceIsListed DEF Inv
    <3>2. \A f \in {"evm", "solana"} : d \in BadDomains(s.listed, f, lost)
      BY <3>1 DEF BadDomains
    <3> QED BY <1>3, <3>2
  <2>4. ASSUME NEW p \in Programs, e = Program(p) PROVE p \in v.programs
    BY <1>3, <2>1, <2>4, EvidenceIsListed DEF Inv
  <2>5. ASSUME NEW c \in Contracts, e = Contract(c) PROVE c \in v.contracts
    BY <1>3, <2>1, <2>5, EvidenceIsListed DEF Inv
  <2>6. CASE \E d \in Domains : e = Domain(d)
    <3>1. PICK d \in Domains : e = Domain(d)
      BY <2>6
    <3>2. e[1] = "domain" /\ e[2] = d
      BY <3>1 DEF Domain
    <3> QED BY <2>3, <3>1, <3>2
  <2>7. CASE \E p \in Programs : e = Program(p)
    <3>1. PICK p \in Programs : e = Program(p)
      BY <2>7
    <3>2. e[1] = "program" /\ e[2] = p
      BY <3>1 DEF Program
    <3> QED BY <2>4, <3>1, <3>2
  <2>8. CASE \E c \in Contracts : e = Contract(c)
    <3>1. PICK c \in Contracts : e = Contract(c)
      BY <2>8
    <3>2. e[1] = "contract" /\ e[2] = c
      BY <3>1 DEF Contract
    <3> QED BY <2>5, <3>1, <3>2
  <2> QED BY <2>2, <2>6, <2>7, <2>8
<1>11. Shape(t)
  BY <1>1, <1>5, <1>8, <1>9, <1>10 DEF Shape, Same
<1> QED BY <1>5, <1>6, <1>11, Stepped

\* The programs of a transaction that the external service confirms.
LEMMA EnrichKeeps ==
  ASSUME Inv, NEW w \in Workers, NEW confirmed \in SUBSET Programs, Enrich(w, confirmed)
  PROVE  Inv'
<1> DEFINE s == task[w]
           found == {<<Program(p), 95>> : p \in confirmed}
<1>1. s.pc = "enrich" /\ Shape(s) /\ s.kept \subseteq Evidence
  BY Current DEF Enrich
<1>2. s.entry = "analysis" /\ IsVerdict(s.verdict, s.request)
  BY <1>1 DEF Shape, IsTask, Judged
<1>3. PICK v : v = IF confirmed = {} THEN s.verdict
                   ELSE [s.verdict EXCEPT !.score = Max({@, 95}), !.malicious = TRUE]
  OBVIOUS
<1>4. IsVerdict(v, s.request) /\ (s.verdict.malicious /\ s.verdict.score >= 80 => v.malicious /\ v.score >= 80)
  <2>1. CASE confirmed = {}
    BY <1>2, <1>3, <2>1
  <2>2. CASE confirmed # {}
    <3>1. v = [s.verdict EXCEPT !.score = Max({s.verdict.score, 95}), !.malicious = TRUE]
      BY <1>3, <2>2
    <3>2. /\ DOMAIN v = {"score", "malicious", "flagged"} /\ v.malicious
          /\ v.score = Max({s.verdict.score, 95}) /\ v.flagged = s.verdict.flagged
      BY <1>2, <3>1 DEF IsVerdict
    <3>3. s.verdict.score \in 0..100 /\ s.verdict.flagged \subseteq Invoked(s.request)
      BY <1>2 DEF IsVerdict
    <3>4. Max({s.verdict.score, 95}) = IF s.verdict.score >= 95 THEN s.verdict.score ELSE 95
      <4>1. s.verdict.score \in Int /\ 95 \in Int
        BY <3>3
      <4> QED BY ONLY <4>1, MaxOfTwo
    <3>5. v.score \in 0..100 /\ v.score >= 80
      BY <3>2, <3>3, <3>4
    <3>6. v.malicious \in BOOLEAN
      BY <3>1, <1>2 DEF IsVerdict
    <3>7. v.score >= 65 => v.malicious \/ Risky(s.request)
      BY <3>2
    <3> QED BY <3>2, <3>3, <3>5, <3>6, <3>7 DEF IsVerdict
  <2> QED BY <2>1, <2>2
<1>5. PICK pc : pc = IF (v.score >= 65 \/ v.malicious) /\ s.wallet \in Registered
                     THEN "record" ELSE "done"
  OBVIOUS
<1>6. PICK t : t = [s EXCEPT !.verdict = v, !.pc = pc]
  OBVIOUS
<1>7. Same(t, s) /\ t.pc = pc /\ t.verdict = v /\ t.lure = s.lure /\ t.boost = s.boost
      /\ t.listed = s.listed /\ t.missed = s.missed
  BY <1>1, <1>6 DEF Shape, IsTask, Same
<1>8. Go(w, t)
  BY <1>3, <1>5, <1>6 DEF Enrich
<1>9. pc \in {"record", "done"} /\ (pc = "record" => v.malicious \/ Risky(s.request))
  BY <1>4, <1>5 DEF IsVerdict
<1>10. IsTask(t)
  BY <1>1, <1>2, <1>4, <1>7, <1>9 DEF Shape, IsTask, Same, Judged, Pcs
<1>11. Warns(t)
  BY <1>1, <1>7, <1>9 DEF Shape, Warns, Same
<1>12. Rejects(t)
  BY <1>1, <1>4, <1>7 DEF Shape, Rejects, Judged, Same
<1>13. ServesAll(t)
  BY <1>2, <1>7 DEF ServesAll, Same
<1>14. Shape(t)
  BY <1>1, <1>7, <1>10, <1>11, <1>12, <1>13 DEF Shape, Same
<1>15. Found(found)
  BY DEF Found, Entities
<1>16. Upsert(found) \/ UNCHANGED hits
  BY DEF Enrich
<1>17. UNCHANGED <<reported, blocked, activity, events, connections, feedCache, now>>
  BY DEF Enrich
<1> HIDE DEF found
<1>18. Tables' /\ Evidence \subseteq Evidence'
  BY <1>15, <1>16, <1>17, HitsKept DEF Inv
<1> QED BY <1>1, <1>7, <1>8, <1>14, <1>18, Moved DEF Same

\* A row of the activity feed: what is certain stays so.
LEMMA ActivityGrows ==
  ASSUME Tables, NEW row, row \in Rows, row.flagged \subseteq row.programs,
         activity' \in {activity, activity \cup {row}},
         UNCHANGED <<reported, blocked, events, connections, hits, feedCache, now>>
  PROVE  Tables' /\ Evidence \subseteq Evidence'
<1>1. activity \subseteq activity' /\ activity' \subseteq Rows
      /\ \A r \in activity' : r.flagged \subseteq r.programs
  BY DEF Tables
<1>2. Tables'
  BY <1>1 DEF Tables
<1>3. \A e \in Entities : Active(e) => hits'[e] # None /\ hits'[e].expires > now'
  BY DEF Active
<1> QED BY <1>1, <1>2, <1>3, EvidenceGrows

\* A row of the code is one of the table's.
LEMMA RowIs ==
  ASSUME Tables, NEW event \in EventNames, NEW risk \in Int, NEW programs, programs \subseteq Programs,
         NEW flagged, flagged \subseteq Programs, NEW domain \in Domains \cup {None},
         NEW family \in {"evm", "solana"}
  PROVE  /\ Row(event, risk, programs, flagged, domain, family) \in Rows
         /\ Row(event, risk, programs, flagged, domain, family).flagged = flagged
         /\ Row(event, risk, programs, flagged, domain, family).programs = programs
<1>1. now \in Nat
  BY DEF Tables
<1>2. PICK grave \in BOOLEAN : grave = (risk >= 70)
  <2>1. (risk >= 70) \in BOOLEAN
    OBVIOUS
  <2> QED BY <2>1, Zenon
<1>3. Row(event, risk, programs, flagged, domain, family)
      = [event |-> event, grave |-> grave, programs |-> programs, flagged |-> flagged,
         domain |-> domain, family |-> family, at |-> now]
  BY <1>2 DEF Row
<1> QED BY <1>1, <1>3 DEF Rows

\* An analysis leaves its row.
LEMMA RecordKeeps ==
  ASSUME Inv, NEW w \in Workers, Record(w)
  PROVE  Inv'
<1> DEFINE s == task[w]
<1>1. s.pc = "record" /\ Shape(s) /\ s.kept \subseteq Evidence
  BY Current DEF Record
<1>2. /\ s.request \in Requests /\ s.domain \in Domains \cup {None} /\ s.verdict.score \in Int
      /\ s.verdict.flagged \subseteq Invoked(s.request)
  BY <1>1 DEF Shape, IsTask, Judged, IsVerdict
<1>3. PICK t : t = [s EXCEPT !.pc = "signal"]
  OBVIOUS
<1>4. Same(t, s) /\ t.pc = "signal" /\ t.lure = s.lure /\ t.boost = s.boost /\ t.listed = s.listed
      /\ t.missed = s.missed /\ t.verdict = s.verdict
  BY <1>1, <1>3 DEF Shape, IsTask, Same
<1>5. Go(w, t)
  BY <1>3 DEF Record
<1>6. Shape(t)
  BY <1>1, <1>4, Answers
<1>7. PICK event \in EventNames :
        event = IF s.verdict.score >= 80 \/ s.verdict.malicious THEN "tx_blocked" ELSE "tx_warned"
  BY DEF EventNames
<1>8. Invoked(s.request) \subseteq Programs
  BY <1>2, IntelAssumption DEF Invoked
<1>9. PICK row : row = Row(event, s.verdict.score, Invoked(s.request), s.verdict.flagged,
                           s.domain, "solana")
  OBVIOUS
<1>10. row \in Rows /\ row.flagged \subseteq row.programs
  BY <1>2, <1>7, <1>8, <1>9, RowIs DEF Inv
<1>11. activity' \in {activity, activity \cup {row}}
       /\ UNCHANGED <<reported, blocked, events, connections, hits, feedCache, now>>
  BY <1>7, <1>9 DEF Record, CreateActivity
<1>12. Tables' /\ Evidence \subseteq Evidence'
  BY <1>10, <1>11, ActivityGrows DEF Inv
<1> QED BY <1>1, <1>4, <1>5, <1>6, <1>12, Moved DEF Same

\* It sends its signals, or all but one.
LEMMA SendSignalsKeeps ==
  ASSUME Inv, NEW w \in Workers, SendSignals(w)
  PROVE  Inv'
<1> DEFINE s == task[w]
           signal(p) == [program |-> p, domain |-> s.domain, high |-> s.verdict.score >= 65,
                         family |-> "solana"]
           pages == IF s.domain # None /\ s.verdict.score >= 70 THEN {None} ELSE {}
           all == {signal(p) : p \in s.verdict.flagged \cup pages}
           Sent == [program : Programs \cup {None}, domain : Domains \cup {None},
                    high : BOOLEAN, family : {"evm", "solana"}]
<1>1. s.pc = "signal" /\ Shape(s) /\ s.kept \subseteq Evidence
  BY Current DEF SendSignals
<1>2. /\ s.request \in Requests /\ s.domain \in Domains \cup {None}
      /\ s.verdict.flagged \subseteq Invoked(s.request)
  BY <1>1 DEF Shape, IsTask, Judged, IsVerdict
<1>3. PICK t : t = [s EXCEPT !.pc = "done"]
  OBVIOUS
<1>4. Same(t, s) /\ t.pc = "done" /\ t.lure = s.lure /\ t.boost = s.boost /\ t.listed = s.listed
      /\ t.missed = s.missed /\ t.verdict = s.verdict
  BY <1>1, <1>3 DEF Shape, IsTask, Same
<1>5. Go(w, t)
  BY <1>3 DEF SendSignals
<1>6. Shape(t)
  BY <1>1, <1>4, Answers
<1>7. s.verdict.flagged \cup pages \subseteq Programs \cup {None}
  BY <1>2, IntelAssumption DEF Invoked
<1>8. \A p \in Programs \cup {None} : signal(p) \in Sent
  <2>1. PICK high \in BOOLEAN : high = (s.verdict.score >= 65)
    <3>1. (s.verdict.score >= 65) \in BOOLEAN
      OBVIOUS
    <3> QED BY <3>1, Zenon
  <2>2. ASSUME NEW p \in Programs \cup {None} PROVE signal(p) \in Sent
    <3>1. signal(p) = [program |-> p, domain |-> s.domain, high |-> high, family |-> "solana"]
      BY <2>1, Zenon
    <3> HIDE DEF signal
    <3> QED BY <1>2, <3>1
  <2> QED BY <2>2, Zenon
<1> HIDE DEF signal, pages
<1>9. all \subseteq Sent
  BY <1>7, <1>8
<1>10. events' \subseteq events \cup all
  <2>1. \/ events' = events \cup all
        \/ \E one \in all : events' = events \cup (all \ {one})
    BY DEF SendSignals, signal, pages
  <2> HIDE DEF all
  <2> QED BY <2>1
<1>11. UNCHANGED <<reported, blocked, activity, connections, hits, feedCache, now>>
  BY DEF SendSignals
<1> HIDE DEF all
<1>12. events' \subseteq Sent /\ connections' \subseteq Wallets \X Domains
  BY <1>9, <1>10, <1>11 DEF Inv, Tables
<1>13. Tables' /\ Evidence' = Evidence
  BY <1>11, <1>12, Written DEF Inv
<1> QED BY <1>1, <1>4, <1>5, <1>6, <1>13, Moved DEF Same

-----------------------------------------------------------------------------
(* Everything else *)

\* A step of a running request.
LEMMA WorkKeeps ==
  ASSUME Inv, NEW w \in Workers, Work(w)
  PROVE  Inv'
<1>1. CASE SettingsFail(w) \/ Lookup(w) \/ LookupFails(w)
  BY <1>1, SettingsFailKeeps, LookupKeeps, LookupFailsKeeps
<1>2. CASE ReadCache(w) \/ QueryDomains(w) \/ StoreDomains(w) \/ QueryFails(w)
  BY <1>2, ReadCacheKeeps, QueryDomainsKeeps, StoreDomainsKeeps, QueryFailsKeeps
<1>3. CASE (\E answer \in SiteAnswers : Site(w, answer)) \/ Connect(w)
  BY <1>3, SiteKeeps, ConnectKeeps
<1>4. CASE \E lost, some : ReadPrograms(w, lost, some) \/ ServeFeed(w, lost, some)
  BY <1>4, ReadProgramsKeeps, ServeFeedKeeps
<1>5. CASE ContractsFail(w)
  BY <1>5, ContractsFailKeeps
<1>6. CASE \E confirmed \in SUBSET Programs : Enrich(w, confirmed)
  BY <1>6, EnrichKeeps
<1>7. CASE Record(w) \/ SendSignals(w)
  BY <1>7, RecordKeeps, SendSignalsKeeps
<1>8. CASE Reply(w)
  <2>1. Go(w, None) /\ UNCHANGED <<tables, feedCache, now>>
    BY <1>8 DEF Reply
  <2> QED BY <2>1, Stepped
<1> QED BY <1>1, <1>2, <1>3, <1>4, <1>5, <1>6, <1>7, <1>8 DEF Work

\* The requests stay where they are while evidence only grows.
LEMMA TasksStay ==
  ASSUME Inv, Tables', Evidence \subseteq Evidence', UNCHANGED task
  PROVE  Inv'
BY DEF Inv, Tasks, Knows

\* What users report and block, and what the extension tells.
LEMMA UsersKeep ==
  ASSUME Inv, Users
  PROVE  Inv'
<1>1. ASSUME NEW x \in Programs \cup Contracts, Report(x) PROVE Inv'
  <2>1. Tables'
    BY <1>1 DEF Report, CreateScamReport, Inv, Tables
  <2>2. Evidence \subseteq Evidence'
    BY <1>1, EvidenceGrows DEF Report, CreateScamReport, Active
  <2> QED BY <1>1, <2>1, <2>2, TasksStay DEF Report
<1>2. ASSUME NEW w \in Wallets, NEW p \in Programs, Block(w, p) PROVE Inv'
  <2>1. Tables'
    BY <1>2 DEF Block, BlockContract, Inv, Tables
  <2>2. Evidence \subseteq Evidence'
    BY <1>2, EvidenceGrows DEF Block, BlockContract, Active
  <2> QED BY <1>2, <2>1, <2>2, TasksStay DEF Block
<1>3. ASSUME NEW w \in Wallets, NEW p \in Programs, Unblock(w, p) PROVE Inv'
  <2>1. Tables' /\ Watch
    BY <1>3 DEF Unblock, UnblockContract, Inv, Tables
  <2> QED BY <2>1, Watched
<1>4. ASSUME NEW w \in Wallets, NEW e \in TelemetryEvents, Telemetry(w, e) PROVE Inv'
  <2>1. PICK row : row = Row(e.event, e.risk, e.programs, {}, e.domain, Family[w])
    OBVIOUS
  <2>2. row \in Rows /\ row.flagged = {}
    BY <2>1, RowIs, IntelAssumption DEF Inv
  <2>3. activity' \in {activity, activity \cup {row}}
        /\ UNCHANGED <<reported, blocked, events, connections, hits, feedCache, now, task>>
    BY <1>4, <2>1 DEF Telemetry, CreateActivity
  <2>4. Tables' /\ Evidence \subseteq Evidence'
    BY <2>2, <2>3, ActivityGrows DEF Inv
  <2> QED BY <2>3, <2>4, TasksStay
<1> QED BY <1>1, <1>2, <1>3, <1>4 DEF Users

\* The clock and restarts.
LEMMA OthersKeep ==
  ASSUME Inv, Tick \/ Restart
  PROVE  Inv'
<1>1. CASE Tick
  <2>1. Tables' /\ Watch
    BY <1>1, IntelAssumption DEF Tick, tables, Inv, Tables
  <2> QED BY <2>1, Watched
<1>2. CASE Restart
  <2>1. Tables' /\ task' = [w \in Workers |-> None]
    BY <1>2 DEF Restart, tables, Inv, Tables
  <2> QED BY <2>1 DEF Inv, Tasks
<1> QED BY <1>1, <1>2

\* Nothing is stored and nothing runs at first.
LEMMA InitInv == Init => Inv
BY IntelAssumption DEF Init, Inv, Tables, Tasks

\* Every step keeps the invariant.
LEMMA NextInv == Inv /\ [Next]_vars => Inv'
<1> SUFFICES ASSUME Inv, [Next]_vars PROVE Inv'
  OBVIOUS
<1>1. CASE Users
  BY <1>1, UsersKeep
<1>2. ASSUME NEW w \in Workers, Start(w) \/ Work(w) PROVE Inv'
  BY <1>2, StartKeeps, WorkKeeps
<1>3. CASE Tick \/ Restart
  BY <1>3, OthersKeep
<1>4. CASE UNCHANGED vars
  <2>1. UNCHANGED <<tables, feedCache, now, task>>
    BY <1>4 DEF vars
  <2>2. Tables' /\ Evidence' = Evidence
    BY <2>1, TablesStay DEF Inv
  <2> QED BY <2>1, <2>2, TasksStay
<1> QED BY <1>1, <1>2, <1>3, <1>4 DEF Next

-----------------------------------------------------------------------------
(* Theorems *)

\* The inductive invariant: the tables, and what every request has kept and made of it.
THEOREM InvHolds == Spec => []Inv
<1>1. Init => Inv
  BY InitInv
<1>2. Inv /\ [Next]_vars => Inv'
  BY NextInv
<1> QED BY <1>1, <1>2, PTL DEF Spec

\* The types of the tables, the cache and the requests, with risks in 0..100.
THEOREM TypeHolds == Spec => []TypeOK
<1>1. Inv => TypeOK
  <2> SUFFICES ASSUME Inv PROVE TypeOK
    OBVIOUS
  <2>1. ASSUME NEW w \in Workers, task[w] # None
        PROVE  /\ task[w].lure # None => task[w].lure \in 0..100
               /\ task[w].pc = "enrich" => /\ task[w].verdict.score \in 0..100
                                           /\ task[w].verdict.flagged \subseteq Programs
    <3>1. IsTask(task[w])
      BY <2>1 DEF Inv, Tasks, Knows, Shape
    <3>2. ASSUME task[w].pc = "enrich"
          PROVE  task[w].verdict.score \in 0..100 /\ task[w].verdict.flagged \subseteq Programs
      <4>1. task[w].request \in Requests /\ IsVerdict(task[w].verdict, task[w].request)
        BY <3>1, <3>2 DEF IsTask, Judged
      <4>2. Invoked(task[w].request) \subseteq Programs
        BY <4>1, IntelAssumption DEF Invoked
      <4> QED BY <4>1, <4>2 DEF IsVerdict
    <3> QED BY <3>1, <3>2 DEF IsTask
  <2> QED BY <2>1 DEF TypeOK, Inv, Tables, At
<1> QED BY <1>1, InvHolds, PTL

\* An analysis that reads all its sources rejects what was known as malicious before it
\* started and still is (get_malicious_programs, analyze_solana_request).
THEOREM RejectedHolds == Spec => []KnownBadIsRejected
<1>1. Inv => KnownBadIsRejected
  <2> SUFFICES ASSUME Inv, NEW w \in Workers, Answered(w), task[w].request # None,
                      \E p \in Invoked(task[w].request) : Program(p) \in task[w].kept
               PROVE  task[w].verdict.malicious /\ Band(task[w].verdict.score) = "Block"
    BY DEF KnownBadIsRejected
  <2>1. Shape(task[w]) /\ task[w].pc = "done" /\ ~task[w].missed
    BY Current DEF Answered
  <2>2. task[w].entry = "analysis"
    BY <2>1 DEF Shape, IsTask
  <2>3. task[w].verdict.malicious /\ task[w].verdict.score >= 80
    BY <2>1, <2>2 DEF Shape, Rejects, Judged
  <2> QED BY <2>3 DEF Band
<1> QED BY <1>1, InvHolds, PTL

\* A page with a live hit is dangerous, whatever is said of it now (assess_domain).
THEOREM ConfirmedStaysHolds == Spec => []ConfirmedStays
<1>1. Inv => ConfirmedStays
  <2> SUFFICES ASSUME Inv, NEW w \in Workers, task[w] # None, task[w].domain # None,
                      task[w].lure # None, ~task[w].missed, Domain(task[w].domain) \in task[w].kept
               PROVE  Band(task[w].lure) \in {"Dangerous", "Block"}
    BY DEF ConfirmedStays
  <2>1. task[w].lure >= 50
    BY DEF Inv, Tasks, Knows, Shape, Warns
  <2> QED BY <2>1 DEF Band
<1> QED BY <1>1, InvHolds, PTL

\* A dangerous page alone teaches the feed nothing (analyze_solana_request).
THEOREM LearnedHolds == Spec => []PageAloneTeachesNothing
<1>1. Inv => PageAloneTeachesNothing
  <2> SUFFICES ASSUME Inv, NEW w \in Workers, At(w, "record")
               PROVE  task[w].verdict.malicious \/ Risky(task[w].request)
    BY DEF PageAloneTeachesNothing, Risky
  <2>1. Shape(task[w]) /\ task[w].pc = "record"
    BY Current
  <2> QED BY <2>1 DEF Shape, IsTask
<1> QED BY <1>1, InvHolds, PTL

\* The served feed lists all that was certain and still is (get_multichain_threat_feed).
THEOREM ServedHolds == Spec => []ConfirmedIsServed
<1>1. Inv => ConfirmedIsServed
  <2> SUFFICES ASSUME Inv, NEW w \in Workers, Answered(w), task[w].entry = "feed",
                      NEW e \in task[w].kept
               PROVE  e[2] \in CASE e[1] = "program"  -> task[w].verdict.programs
                                 [] e[1] = "contract" -> task[w].verdict.contracts
                                 [] e[1] = "domain"   -> task[w].verdict.domains["evm"]
                                                         \cap task[w].verdict.domains["solana"]
    BY DEF ConfirmedIsServed
  <2>1. Shape(task[w]) /\ task[w].pc = "done" /\ ~task[w].missed
    BY Current DEF Answered
  <2>2. /\ e[1] = "program" => e[2] \in task[w].verdict.programs
        /\ e[1] = "contract" => e[2] \in task[w].verdict.contracts
        /\ e[1] = "domain" => e[2] \in task[w].verdict.domains["evm"]
                              /\ e[2] \in task[w].verdict.domains["solana"]
    BY <2>1 DEF Shape, ServesAll
  <2>3. e[1] \in {"program", "contract", "domain"}
    BY <2>1 DEF Shape, Entities, Program, Contract, Domain
  <2>4. CASE e[1] = "program"
    BY <2>2, <2>4
  <2>5. CASE e[1] = "contract"
    BY <2>2, <2>5
  <2>6. CASE e[1] = "domain"
    BY <2>2, <2>6
  <2> QED BY <2>3, <2>4, <2>5, <2>6
<1> QED BY <1>1, InvHolds, PTL

-----------------------------------------------------------------------------
(* The age of the domain feed.  A list of domains is complete up to a time     *)
(* when it lists all that was learned before it, or is full.  The cached list    *)
(* is complete up to the time of its query, the list a request goes on with up     *)
(* to FeedTtl ago.                                                           *)

Teaches(r) == r.domain # None /\ (r.event = "domain_risk_detected" \/ r.grave)

Complete(D, time) ==
  \A r \in activity : Teaches(r) /\ r.at < time => r.domain \in D \/ Cardinality(D) >= MaxFeed

Keeps(t) == /\ t.pc = "store" => Complete(t.listed, now)
            /\ t.pc = "sources" => Complete(t.listed, now - FeedTtl)

Lag == /\ IsFiniteSet(activity)
       /\ feedCache # None => Complete(feedCache.domains, feedCache.at)
       /\ \A w \in Workers : task[w] # None => Keeps(task[w])

\* What a LIMIT leaves out, it leaves out because the list is full.
LEMMA FirstIsFull ==
  ASSUME NEW S, IsFiniteSet(S), \A x \in S : Rank[x] \in Nat, NEW limit \in Nat,
         NEW x \in S, x \notin First(S, limit)
  PROVE  Cardinality(First(S, limit)) >= limit
<1> DEFINE out == S \ First(S, limit)
           before(z) == {y \in S : Rank[y] < Rank[z]}
           R == {p \in Nat \X Nat : p[1] < p[2]}
           ranks == {Rank[z] : z \in out}
<1>1. IsWellFoundedOn(R, Nat)
  BY NatLessThanWellFounded DEF OpToRel
<1>2. ranks \subseteq Nat /\ ranks # {}
  OBVIOUS
<1>3. PICK n \in ranks : \A m \in ranks : <<m, n>> \notin R
  <2> HIDE DEF ranks, R
  <2> QED BY <1>1, <1>2, WFMin
<1>4. PICK z \in out : n = Rank[z]
  BY <1>3
<1>5. \A y \in out : ~(Rank[y] < Rank[z])
  <2> SUFFICES ASSUME NEW y \in out, Rank[y] < Rank[z] PROVE FALSE
    OBVIOUS
  <2>1. Rank[y] \in ranks /\ <<Rank[y], n>> \in R
    BY <1>2, <1>4
  <2> QED BY <1>3, <2>1
<1>6. before(z) \subseteq First(S, limit)
  BY <1>5
<1>7. ~(Cardinality(before(z)) < limit)
  BY <1>4 DEF First
<1>8. IsFiniteSet(First(S, limit)) /\ Cardinality(First(S, limit)) \in Nat
  <2>1. First(S, limit) \subseteq S
    BY DEF First
  <2>2. IsFiniteSet(First(S, limit))
    BY <2>1, FS_Subset
  <2> QED BY <2>2, FS_CardinalityType
<1>9. Cardinality(before(z)) <= Cardinality(First(S, limit)) /\ Cardinality(before(z)) \in Nat
  <2> HIDE DEF before
  <2>1. IsFiniteSet(before(z)) /\ Cardinality(before(z)) <= Cardinality(First(S, limit))
    BY <1>6, <1>8, FS_Subset
  <2> QED BY <2>1, FS_CardinalityType
<1> QED BY <1>7, <1>8, <1>9

\* Finitely many rows teach finitely many domains.
LEMMA LearnedFinite ==
  ASSUME IsFiniteSet(activity)
  PROVE  IsFiniteSet(Learned(activity))
<1> DEFINE good == {s \in activity : s.event = "domain_risk_detected" \/ s.grave}
           all == {r.domain : r \in good}
           f == [r \in good |-> r.domain]
<1>1. IsFiniteSet(good)
  BY FS_Subset
<1>2. f \in Surjection(good, all)
  BY DEF Surjection
<1>3. IsFiniteSet(all)
  <2> HIDE DEF good, all, f
  <2> QED BY <1>1, <1>2, FS_Surjection
<1>4. Learned(activity) \subseteq all
  BY DEF Learned
<1> QED BY <1>3, <1>4, FS_Subset

\* What a query of the domains returns is complete up to now.
LEMMA CutIsComplete ==
  ASSUME Tables, IsFiniteSet(activity), NEW time
  PROVE  Complete(Cut(Learned(activity)), time)
<1> SUFFICES ASSUME NEW r \in activity, Teaches(r), r.domain \notin Cut(Learned(activity))
             PROVE  Cardinality(Cut(Learned(activity))) >= MaxFeed
  BY DEF Complete
<1>1. r.domain \in Learned(activity)
  BY DEF Teaches, Learned
<1>2. \A d \in Learned(activity) : Rank[d] \in Nat
  BY IntelAssumption DEF Learned, Tables, Rows
<1>3. IsFiniteSet(Learned(activity))
  BY LearnedFinite
<1>4. PICK S : S = Learned(activity)
  OBVIOUS
<1>5. r.domain \in S /\ IsFiniteSet(S) /\ (\A d \in S : Rank[d] \in Nat) /\ r.domain \notin First(S, MaxFeed)
  BY <1>1, <1>2, <1>3, <1>4 DEF Cut
<1>6. Cardinality(First(S, MaxFeed)) >= MaxFeed
  BY <1>5, FirstIsFull, IntelAssumption
<1> QED BY <1>4, <1>6 DEF Cut

\* A list that was complete up to a time stays so: the rows that come are not older.
LEMMA StaysComplete ==
  ASSUME Tables, NEW D, NEW time \in Int, time <= now, Complete(D, time),
         \A r \in activity' : r \in activity \/ r.at = now
  PROVE  Complete(D, time)'
BY DEF Complete, Teaches, Tables

\* A list that is complete up to a time is so up to an earlier one.
LEMMA CompleteBefore ==
  ASSUME Tables, NEW D, NEW time \in Int, NEW older \in Int, older <= time, Complete(D, time)
  PROVE  Complete(D, older)
BY DEF Complete, Tables, Rows


\* A list stays complete while the activity feed only gains rows of now.
LEMMA KeepsStay ==
  ASSUME Inv, NEW t, Keeps(t), \A r \in activity' : r \in activity \/ r.at = now, now' = now
  PROVE  Keeps(t)'
<1>1. now \in Int /\ FeedTtl \in Nat /\ Tables
  BY IntelAssumption DEF Inv, Tables
<1>2. ASSUME t.pc = "store" PROVE Complete(t.listed, now)'
  <2>1. Complete(t.listed, now)
    BY <1>2 DEF Keeps
  <2>2. PICK time : time = now
    OBVIOUS
  <2>3. Complete(t.listed, time)'
    BY <1>1, <2>1, <2>2, StaysComplete
  <2> QED BY <2>2, <2>3 DEF Complete
<1>3. ASSUME t.pc = "sources" PROVE Complete(t.listed, now - FeedTtl)'
  <2>1. PICK time : time = now - FeedTtl
    OBVIOUS
  <2>2. Complete(t.listed, time) /\ time \in Int /\ time <= now
    BY <1>1, <1>3, <2>1 DEF Keeps
  <2>3. Complete(t.listed, time)'
    BY <1>1, <2>2, StaysComplete
  <2> QED BY <2>1, <2>3 DEF Complete
<1> QED BY <1>2, <1>3 DEF Keeps

\* The cached list stays complete up to its query.
LEMMA CacheStays ==
  ASSUME Inv, Lag, UNCHANGED feedCache, \A r \in activity' : r \in activity \/ r.at = now
  PROVE  (feedCache # None => Complete(feedCache.domains, feedCache.at))'
<1> SUFFICES ASSUME feedCache # None PROVE Complete(feedCache.domains, feedCache.at)'
  OBVIOUS
<1>1. PICK D, time : D = feedCache.domains /\ time = feedCache.at
  OBVIOUS
<1>2. Complete(D, time) /\ time \in Int /\ time <= now /\ Tables
  BY <1>1 DEF Lag, Inv, Tables
<1>3. Complete(D, time)'
  BY <1>2, StaysComplete
<1> QED BY <1>1, <1>3 DEF Complete

\* One request takes a step, with a list that is complete; the others keep theirs.
LEMMA LagMoved ==
  ASSUME Inv, Lag, NEW w \in Workers, NEW t, Go(w, t), t = None \/ Keeps(t),
         (feedCache # None => Complete(feedCache.domains, feedCache.at))',
         IsFiniteSet(activity'), \A r \in activity' : r \in activity \/ r.at = now, now' = now
  PROVE  Lag'
<1>1. ASSUME NEW x \in Workers, task'[x] # None PROVE Keeps(task[x])'
  <2>1. task' = [y \in Workers |-> IF y = w THEN t ELSE task[y]]
    BY DEF Go, Inv, Tasks
  <2>2. PICK u : u = task'[x]
    OBVIOUS
  <2>3. Keeps(u)
    BY <1>1, <2>1, <2>2 DEF Lag
  <2>4. Keeps(u)'
    BY <2>3, KeepsStay
  <2> QED BY <2>2, <2>4 DEF Keeps, Complete
<1> QED BY <1>1 DEF Lag

\* A step that leaves the activity feed and the cache as they are.
LEMMA LagStepped ==
  ASSUME Inv, Lag, NEW w \in Workers, NEW t, Go(w, t), t = None \/ Keeps(t),
         UNCHANGED <<activity, feedCache, now>>
  PROVE  Lag'
<1>1. (feedCache # None => Complete(feedCache.domains, feedCache.at))'
  BY CacheStays
<1> QED BY <1>1, LagMoved DEF Lag

\* The cached domains are used: they were read FeedTtl ago at the most.
LEMMA ReadCacheLag ==
  ASSUME Inv, Lag, NEW w \in Workers, ReadCache(w)
  PROVE  Lag'
<1>1. task[w].pc = "feed" /\ Shape(task[w])
  BY Current DEF ReadCache
<1>2. PICK D, time : D = feedCache.domains /\ time = feedCache.at
  OBVIOUS
<1>3. /\ Complete(D, time) /\ time \in Int /\ now - FeedTtl <= time /\ now - FeedTtl \in Int
      /\ Tables
  <2>1. feedCache # None /\ now - feedCache.at <= FeedTtl
    BY DEF ReadCache, CacheValid
  <2>2. feedCache.at \in Int /\ now \in Int /\ FeedTtl \in Int
    BY <2>1, IntelAssumption DEF Inv, Tables
  <2> QED BY <1>2, <2>1, <2>2 DEF Lag, Inv
<1>4. Complete(D, now - FeedTtl)
  BY <1>3, CompleteBefore
<1>5. PICK t : t = Listed(task[w], D)
  OBVIOUS
<1>6. Keeps(t)
  <2>1. t.pc \in {"site", "sources"} /\ (t.pc = "sources" => t.listed = D)
    BY <1>1, <1>5 DEF Listed, Shape, IsTask
  <2> QED BY <1>4, <2>1 DEF Keeps
<1>7. Go(w, t) /\ UNCHANGED <<activity, feedCache, now>>
  BY <1>2, <1>5 DEF ReadCache, tables
<1> QED BY <1>6, <1>7, LagStepped

\* The query of the domains misses nothing that was learned before it.
LEMMA QueryDomainsLag ==
  ASSUME Inv, Lag, NEW w \in Workers, QueryDomains(w)
  PROVE  Lag'
<1>1. Shape(task[w])
  BY Current DEF QueryDomains
<1>2. PICK d : d = Cut(Learned(activity))
  OBVIOUS
<1>3. PICK t : t = [task[w] EXCEPT !.pc = "store", !.listed = d]
  OBVIOUS
<1>4. t.pc = "store" /\ t.listed = d
  BY <1>1, <1>3 DEF Shape, IsTask
<1>5. Complete(d, now)
  BY <1>2, CutIsComplete DEF Inv, Lag
<1>6. Go(w, t) /\ UNCHANGED <<activity, feedCache, now>>
  BY <1>2, <1>3 DEF QueryDomains, tables
<1>7. Keeps(t)
  BY <1>4, <1>5 DEF Keeps
<1> QED BY <1>6, <1>7, LagStepped

\* What is stored was read at the same time of the clock.
LEMMA StoreDomainsLag ==
  ASSUME Inv, Lag, NEW w \in Workers, StoreDomains(w)
  PROVE  Lag'
<1>1. task[w].pc = "store" /\ Shape(task[w]) /\ task[w] # None
  BY Current DEF StoreDomains
<1>2. PICK D : D = task[w].listed
  OBVIOUS
<1>3. Complete(D, now)
  BY <1>1, <1>2 DEF Lag, Keeps
<1>4. now \in Int /\ now - FeedTtl \in Int /\ now - FeedTtl <= now /\ Tables
  BY IntelAssumption DEF Inv, Tables
<1>5. Complete(D, now - FeedTtl)
  BY <1>3, <1>4, CompleteBefore
<1>6. PICK u : u = [task[w] EXCEPT !.listed = {}]
  OBVIOUS
<1>7. u.pc = "store" /\ DOMAIN u = DOMAIN task[w]
  BY <1>1, <1>6 DEF Shape, IsTask
<1>8. PICK t : t = Listed(u, D)
  OBVIOUS
<1>9. Keeps(t)
  <2>1. t.pc \in {"site", "sources"} /\ (t.pc = "sources" => t.listed = D)
    BY <1>1, <1>7, <1>8 DEF Listed, Shape, IsTask
  <2> QED BY <1>5, <2>1 DEF Keeps
<1>10. /\ Go(w, t) /\ feedCache' = [at |-> now, domains |-> D]
       /\ UNCHANGED <<activity, now>>
  BY <1>2, <1>6, <1>8 DEF StoreDomains, tables
<1>11. (feedCache # None => Complete(feedCache.domains, feedCache.at))'
  <2>1. feedCache'.domains = D /\ feedCache'.at = now
    BY <1>10
  <2> QED BY <1>3, <1>10, <2>1 DEF Complete
<1> QED BY <1>9, <1>10, <1>11, LagMoved DEF Lag

\* Without the domains a request goes on, but not to the other sources.
LEMMA QueryFailsLag ==
  ASSUME Inv, Lag, NEW w \in Workers, QueryFails(w)
  PROVE  Lag'
<1>1. Shape(task[w])
  BY Current DEF QueryFails
<1>2. PICK u : u = [task[w] EXCEPT !.missed = TRUE]
  OBVIOUS
<1>3. DOMAIN u = DOMAIN task[w]
  BY <1>1, <1>2 DEF Shape, IsTask
<1>4. PICK t : t = IF u.lure = None THEN Listed(u, {})
                   ELSE IF u.entry = "feed" THEN None
                   ELSE [u EXCEPT !.pc = "enrich", !.verdict = Analyze(u.request, {}, u.lure)]
  OBVIOUS
<1>5. t = None \/ Keeps(t)
  <2>1. CASE u.lure = None
    <3>1. t.pc = "site"
      BY <1>1, <1>3, <1>4, <2>1 DEF Listed, Shape, IsTask
    <3> QED BY <3>1 DEF Keeps
  <2>2. CASE u.lure # None /\ u.entry = "feed"
    BY <1>4, <2>2
  <2>3. CASE u.lure # None /\ u.entry # "feed"
    <3>1. t.pc = "enrich"
      BY <1>1, <1>3, <1>4, <2>3 DEF Shape, IsTask
    <3> QED BY <3>1 DEF Keeps
  <2> QED BY <2>1, <2>2, <2>3
<1>6. Go(w, t) /\ UNCHANGED <<activity, feedCache, now>>
  BY <1>2, <1>4 DEF QueryFails, tables
<1> QED BY <1>5, <1>6, LagStepped

\* A request that is not at the domains has no list to keep.
Off(t) == t = None \/ t.pc \notin {"store", "sources"}

\* A request goes where it has no list.
LEMMA LagOff ==
  ASSUME Inv, Lag, NEW w \in Workers, NEW t, Go(w, t), Off(t),
         UNCHANGED <<activity, feedCache, now>>
  PROVE  Lag'
BY LagStepped DEF Off, Keeps

\* A request starts before the domains.
LEMMA BeginLag ==
  ASSUME Inv, Lag, NEW w \in Workers, Start(w)
  PROVE  Lag'
<1>1. ASSUME NEW entry, NEW wallet, NEW domain, NEW request, Begin(w, entry, wallet, domain, request)
      PROVE  Lag'
  <2>1. PICK t : t = [pc |-> IF domain = None THEN "feed" ELSE "lookup", entry |-> entry,
                      wallet |-> wallet, domain |-> domain, request |-> request,
                      boost |-> 0, lure |-> IF domain = None THEN 0 ELSE None, listed |-> {},
                      verdict |-> None, kept |-> Evidence, missed |-> FALSE]
    OBVIOUS
  <2>2. t.pc \in {"feed", "lookup"}
    BY <2>1
  <2>3. Go(w, t) /\ UNCHANGED <<activity, feedCache, now>>
    BY <1>1, <2>1 DEF Begin, tables
  <2> QED BY <2>2, <2>3, LagOff DEF Off
<1> QED BY <1>1 DEF Start, BeginAnalysis, BeginCheck, BeginFeed

\* The assessment of a page, before and after the domains.
LEMMA AssessLag ==
  ASSUME Inv, Lag, NEW w \in Workers,
         \/ SettingsFail(w) \/ Lookup(w) \/ LookupFails(w) \/ Connect(w)
         \/ \E answer \in SiteAnswers : Site(w, answer)
  PROVE  Lag'
<1> DEFINE s == task[w]
<1>1. DOMAIN s = {"pc", "entry", "wallet", "domain", "request", "boost", "lure", "listed",
                  "verdict", "kept", "missed"}
  BY DEF SettingsFail, Lookup, LookupFails, Connect, Site, At, Inv, Tasks, Knows, Shape, IsTask
<1>2. UNCHANGED <<activity, feedCache, now>>
  BY DEF SettingsFail, Lookup, LookupFails, Connect, Site, tables
<1>3. CASE SettingsFail(w)
  <2>1. PICK t : t = [s EXCEPT !.pc = "feed", !.lure = 0, !.missed = TRUE]
    OBVIOUS
  <2>2. t.pc = "feed"
    BY <1>1, <2>1
  <2>3. Go(w, t) \/ Go(w, None)
    BY <1>3, <2>1 DEF SettingsFail
  <2> QED BY <1>2, <2>2, <2>3, LagOff DEF Off
<1>4. CASE Lookup(w)
  <2>1. PICK b : b = HitBoost(hits[Domain(s.domain)].risk)
    OBVIOUS
  <2>2. PICK t : t = [s EXCEPT !.pc = "site", !.boost = b]
    OBVIOUS
  <2>3. PICK u : u = [s EXCEPT !.pc = "feed"]
    OBVIOUS
  <2>4. t.pc = "site" /\ u.pc = "feed"
    BY <1>1, <2>2, <2>3
  <2>5. Go(w, t) \/ Go(w, u)
    BY <1>4, <2>1, <2>2, <2>3 DEF Lookup
  <2> QED BY <1>2, <2>4, <2>5, LagOff DEF Off
<1>5. CASE LookupFails(w)
  <2>1. PICK t : t = [s EXCEPT !.pc = "feed", !.missed = TRUE]
    OBVIOUS
  <2>2. t.pc = "feed"
    BY <1>1, <2>1
  <2>3. Go(w, t)
    BY <1>5, <2>1 DEF LookupFails
  <2> QED BY <1>2, <2>2, <2>3, LagOff DEF Off
<1>6. CASE Connect(w)
  <2>1. PICK t : t = [s EXCEPT !.pc = "done"]
    OBVIOUS
  <2>2. t.pc = "done"
    BY <1>1, <2>1
  <2>3. Go(w, t)
    BY <1>6, <2>1 DEF Connect
  <2> QED BY <1>2, <2>2, <2>3, LagOff DEF Off
<1>7. ASSUME NEW answer \in SiteAnswers, Site(w, answer) PROVE Lag'
  <2>1. PICK r, pc : /\ r = SiteRisk(s.domain, s.boost, answer)
                     /\ pc = IF s.entry # "check" THEN "feed"
                             ELSE IF /\ s.wallet # None /\ Settings[s.wallet] # None
                                     /\ Settings[s.wallet].alerts
                             THEN "connect" ELSE "done"
    OBVIOUS
  <2>2. PICK t : t = [s EXCEPT !.pc = pc, !.lure = r, !.boost = 0]
    OBVIOUS
  <2>3. t.pc \in {"feed", "connect", "done"}
    BY <1>1, <2>1, <2>2
  <2>4. Go(w, t)
    BY <1>7, <2>1, <2>2 DEF Site
  <2> QED BY <1>2, <2>3, <2>4, LagOff DEF Off
<1> QED BY <1>3, <1>4, <1>5, <1>6, <1>7

\* The sources after the domains, and what follows them.
LEMMA JudgeLag ==
  ASSUME Inv, Lag, NEW w \in Workers,
         \/ \E lost, some : ReadPrograms(w, lost, some) \/ ServeFeed(w, lost, some)
         \/ ContractsFail(w) \/ (\E confirmed \in SUBSET Programs : Enrich(w, confirmed))
         \/ SendSignals(w) \/ Reply(w)
  PROVE  Lag'
<1> DEFINE s == task[w]
<1>1. DOMAIN s = {"pc", "entry", "wallet", "domain", "request", "boost", "lure", "listed",
                  "verdict", "kept", "missed"}
  BY DEF ReadPrograms, ServeFeed, ContractsFail, Enrich, SendSignals, Reply, At, Inv, Tasks, Knows,
         Shape, IsTask
<1>2. UNCHANGED <<activity, feedCache, now>>
  BY DEF ReadPrograms, ServeFeed, ContractsFail, Enrich, SendSignals, Reply, tables
<1>3. ASSUME NEW lost, NEW some, ReadPrograms(w, lost, some) PROVE Lag'
  <2>1. PICK m, v : /\ m = (s.missed \/ lost # {} \/ CutShort(some))
                    /\ v = Analyze(s.request, BadPrograms(lost, some), s.lure)
    OBVIOUS
  <2>2. PICK t : t = [s EXCEPT !.pc = "enrich", !.missed = m, !.listed = {}, !.verdict = v]
    OBVIOUS
  <2>3. t.pc = "enrich"
    BY <1>1, <2>2
  <2>4. Go(w, [s EXCEPT !.pc = "enrich", !.missed = @ \/ lost # {} \/ CutShort(some),
                        !.listed = {}, !.verdict = Analyze(s.request, BadPrograms(lost, some), s.lure)])
    BY <1>3 DEF ReadPrograms
  <2>5. Go(w, t)
    BY <2>1, <2>2, <2>4, Zenon
  <2> QED BY <1>2, <2>3, <2>5, LagOff DEF Off
<1>4. ASSUME NEW lost, NEW some, ServeFeed(w, lost, some) PROVE Lag'
  <2>1. PICK m, v : /\ m = (s.missed \/ lost # {} \/ CutShort(some))
                    /\ v = [programs |-> BadPrograms(lost, some), contracts |-> BadContracts(lost),
                            domains |-> [f \in {"evm", "solana"} |-> BadDomains(s.listed, f, lost)]]
    OBVIOUS
  <2>2. PICK t : t = [s EXCEPT !.pc = "done", !.missed = m, !.verdict = v]
    OBVIOUS
  <2>3. t.pc = "done"
    BY <1>1, <2>2
  <2>4. Go(w, [s EXCEPT !.pc = "done", !.missed = @ \/ lost # {} \/ CutShort(some), !.verdict = v])
    BY <1>4, <2>1 DEF ServeFeed
  <2>5. Go(w, t)
    BY <2>1, <2>2, <2>4, Zenon
  <2> QED BY <1>2, <2>3, <2>5, LagOff DEF Off
<1>5. CASE ContractsFail(w)
  <2>1. PICK u : u = [s EXCEPT !.missed = TRUE, !.listed = {}]
    OBVIOUS
  <2>2. PICK v : v = Analyze(u.request, {}, u.lure)
    OBVIOUS
  <2>3. PICK t : t = [u EXCEPT !.pc = "enrich", !.verdict = v]
    OBVIOUS
  <2>4. t.pc = "enrich"
    BY <1>1, <2>1, <2>3
  <2>5. Go(w, t) \/ Go(w, None)
    BY <1>5, <2>1, <2>2, <2>3 DEF ContractsFail
  <2> QED BY <1>2, <2>4, <2>5, LagOff DEF Off
<1>6. ASSUME NEW confirmed \in SUBSET Programs, Enrich(w, confirmed) PROVE Lag'
  <2>1. PICK v : v = IF confirmed = {} THEN s.verdict
                     ELSE [s.verdict EXCEPT !.score = Max({@, 95}), !.malicious = TRUE]
    OBVIOUS
  <2>2. PICK pc : pc = IF (v.score >= 65 \/ v.malicious) /\ s.wallet \in Registered
                       THEN "record" ELSE "done"
    OBVIOUS
  <2>3. PICK t : t = [s EXCEPT !.verdict = v, !.pc = pc]
    OBVIOUS
  <2>4. t.pc \in {"record", "done"}
    BY <1>1, <2>2, <2>3
  <2>5. Go(w, t)
    BY <1>6, <2>1, <2>2, <2>3 DEF Enrich
  <2> QED BY <1>2, <2>4, <2>5, LagOff DEF Off
<1>7. CASE SendSignals(w)
  <2>1. PICK t : t = [s EXCEPT !.pc = "done"]
    OBVIOUS
  <2>2. t.pc = "done"
    BY <1>1, <2>1
  <2>3. Go(w, t)
    BY <1>7, <2>1 DEF SendSignals
  <2> QED BY <1>2, <2>2, <2>3, LagOff DEF Off
<1>8. CASE Reply(w)
  <2>1. PICK t : t = None
    OBVIOUS
  <2>2. Go(w, t)
    BY <1>8, <2>1 DEF Reply
  <2> QED BY <1>2, <2>1, <2>2, LagOff DEF Off
<1> QED BY <1>3, <1>4, <1>5, <1>6, <1>7, <1>8

\* A row that comes is of now.
LEMMA ActivityLag ==
  ASSUME Lag, NEW event, NEW risk, NEW programs, NEW flagged, NEW domain, NEW family,
         \/ CreateActivity(Row(event, risk, programs, flagged, domain, family))
         \/ UNCHANGED activity
  PROVE  IsFiniteSet(activity') /\ \A r \in activity' : r \in activity \/ r.at = now
<1>1. PICK row : row = Row(event, risk, programs, flagged, domain, family)
  OBVIOUS
<1>2. row.at = now
  BY <1>1 DEF Row
<1>3. activity' = activity \cup {row} \/ activity' = activity
  BY <1>1 DEF CreateActivity
<1> QED BY <1>2, <1>3, FS_AddElement DEF Lag

\* An analysis adds its row.
LEMMA RecordLag ==
  ASSUME Inv, Lag, NEW w \in Workers, Record(w)
  PROVE  Lag'
<1> DEFINE s == task[w]
<1>1. Shape(s)
  BY Current DEF Record
<1>2. PICK event : event = IF s.verdict.score >= 80 \/ s.verdict.malicious THEN "tx_blocked" ELSE "tx_warned"
  OBVIOUS
<1>3. IsFiniteSet(activity') /\ \A r \in activity' : r \in activity \/ r.at = now
  <2>1. \/ CreateActivity(Row(event, s.verdict.score, Invoked(s.request), s.verdict.flagged,
                               s.domain, "solana"))
        \/ UNCHANGED activity
    BY <1>2 DEF Record
  <2>2. PICK sc, pr, fl, dm, fa : /\ sc = s.verdict.score /\ pr = Invoked(s.request)
                                 /\ fl = s.verdict.flagged /\ dm = s.domain /\ fa = "solana"
    OBVIOUS
  <2>3. CreateActivity(Row(event, sc, pr, fl, dm, fa)) \/ UNCHANGED activity
    BY <2>1, <2>2, Zenon
  <2> QED BY <2>3, ActivityLag
<1>4. PICK t : t = [s EXCEPT !.pc = "signal"]
  OBVIOUS
<1>5. t.pc = "signal"
  BY <1>1, <1>4 DEF Shape, IsTask
<1>6. Go(w, t) /\ UNCHANGED <<feedCache, now>>
  BY <1>4 DEF Record
<1>7. (feedCache # None => Complete(feedCache.domains, feedCache.at))'
  BY <1>3, <1>6, CacheStays
<1> QED BY <1>3, <1>5, <1>6, <1>7, LagMoved DEF Keeps

\* No request moves.
LEMMA LagStays ==
  ASSUME Inv, Lag, UNCHANGED <<feedCache, now, task>>, IsFiniteSet(activity'),
         \A r \in activity' : r \in activity \/ r.at = now
  PROVE  Lag'
<1>1. (feedCache # None => Complete(feedCache.domains, feedCache.at))'
  BY CacheStays
<1>2. ASSUME NEW x \in Workers, task'[x] # None PROVE Keeps(task[x])'
  <2>1. PICK u : u = task[x]
    OBVIOUS
  <2>2. Keeps(u)
    BY <1>2, <2>1 DEF Lag
  <2>3. Keeps(u)'
    BY <2>2, KeepsStay
  <2> QED BY <2>1, <2>3 DEF Keeps, Complete
<1> QED BY <1>1, <1>2 DEF Lag

\* A request that forgets what it has kept keeps its list.
LEMMA WatchLag ==
  ASSUME Inv, Lag, Watch, UNCHANGED <<activity, feedCache>>,
         now' = now \/ \A w \in Workers : ~At(w, "store") /\ ~At(w, "sources")
  PROVE  Lag'
<1>1. ASSUME NEW x \in Workers, task'[x] # None PROVE Keeps(task[x])'
  <2>1. PICK k : k = task[x].kept \cap Evidence'
    OBVIOUS
  <2>2. task[x] # None /\ task'[x] = [task[x] EXCEPT !.kept = k]
    BY <1>1, <2>1 DEF Watch
  <2>3. Shape(task[x])
    BY <2>2 DEF Inv, Tasks, Knows
  <2>4. task'[x].pc = task[x].pc /\ task'[x].listed = task[x].listed
    BY <2>2, <2>3 DEF Shape, IsTask
  <2>5. Keeps(task[x])
    BY <2>2 DEF Lag
  <2>6. CASE now' = now
    BY <2>4, <2>5, <2>6 DEF Keeps, Complete
  <2>7. CASE ~At(x, "store") /\ ~At(x, "sources")
    BY <2>2, <2>4, <2>7 DEF Keeps, At
  <2> QED BY <2>6, <2>7
<1>2. (feedCache # None => Complete(feedCache.domains, feedCache.at))'
  BY CacheStays
<1> QED BY <1>1, <1>2 DEF Lag

\* Users, the clock and restarts.
LEMMA OthersLag ==
  ASSUME Inv, Lag, Users \/ Tick \/ Restart
  PROVE  Lag'
<1>1. ASSUME NEW x \in Programs \cup Contracts, Report(x) PROVE Lag'
  BY <1>1, LagStays DEF Report, Lag
<1>2. ASSUME NEW w \in Wallets, NEW p \in Programs, Block(w, p) PROVE Lag'
  BY <1>2, LagStays DEF Block, Lag
<1>3. ASSUME NEW w \in Wallets, NEW p \in Programs, Unblock(w, p) PROVE Lag'
  BY <1>3, WatchLag DEF Unblock
<1>4. ASSUME NEW w \in Wallets, NEW e \in TelemetryEvents, Telemetry(w, e) PROVE Lag'
  <2>1. PICK ev, ri, pr, fl, dm, fa : /\ ev = e.event /\ ri = e.risk /\ pr = e.programs
                                     /\ fl = {} /\ dm = e.domain /\ fa = Family[w]
    OBVIOUS
  <2>2. CreateActivity(Row(ev, ri, pr, fl, dm, fa))
    BY <1>4, <2>1 DEF Telemetry
  <2>3. IsFiniteSet(activity') /\ \A r \in activity' : r \in activity \/ r.at = now
    BY <2>2, ActivityLag
  <2> QED BY <1>4, <2>3, LagStays DEF Telemetry
<1>5. CASE Tick
  BY <1>5, WatchLag DEF Tick, tables
<1>6. CASE Restart
  <2>1. activity' = activity /\ feedCache' = None /\ \A w \in Workers : task'[w] = None
    BY <1>6 DEF Restart, tables
  <2> QED BY <2>1 DEF Lag
<1> QED BY <1>1, <1>2, <1>3, <1>4, <1>5, <1>6 DEF Users

\* Every step keeps the lists complete.
LEMMA NextLag == Inv /\ Lag /\ [Next]_vars => Lag'
<1> SUFFICES ASSUME Inv, Lag, [Next]_vars PROVE Lag'
  OBVIOUS
<1>1. CASE Users \/ Tick \/ Restart
  BY <1>1, OthersLag
<1>2. ASSUME NEW w \in Workers, Start(w) PROVE Lag'
  BY <1>2, BeginLag
<1>3. ASSUME NEW w \in Workers, Work(w) PROVE Lag'
  <2>1. CASE \/ SettingsFail(w) \/ Lookup(w) \/ LookupFails(w) \/ Connect(w)
             \/ \E answer \in SiteAnswers : Site(w, answer)
    BY <2>1, AssessLag
  <2>2. CASE \/ \E lost, some : ReadPrograms(w, lost, some) \/ ServeFeed(w, lost, some)
             \/ ContractsFail(w) \/ (\E confirmed \in SUBSET Programs : Enrich(w, confirmed))
             \/ SendSignals(w) \/ Reply(w)
    BY <2>2, JudgeLag
  <2>3. CASE ReadCache(w) \/ QueryDomains(w) \/ StoreDomains(w) \/ QueryFails(w)
    BY <2>3, ReadCacheLag, QueryDomainsLag, StoreDomainsLag, QueryFailsLag
  <2>4. CASE Record(w)
    BY <2>4, RecordLag
  <2> QED BY <1>3, <2>1, <2>2, <2>3, <2>4 DEF Work
<1>4. CASE UNCHANGED vars
  <2>1. UNCHANGED <<activity, feedCache, now, task>>
    BY <1>4 DEF vars, tables
  <2> QED BY <2>1, LagStays DEF Lag
<1> QED BY <1>1, <1>2, <1>3, <1>4 DEF Next

\* The lists of domains, cached or in use, are complete up to their time, whatever
\* the requests do to each other's cache (get_domain_threat_feed).
THEOREM LagHolds == Spec => [](Inv /\ Lag)
<1>1. Init => Inv /\ Lag
  BY InitInv, FS_EmptySet DEF Init, Lag
<1>2. Inv /\ Lag /\ [Next]_vars => (Inv /\ Lag)'
  BY NextInv, NextLag
<1> QED BY <1>1, <1>2, PTL DEF Spec

\* A domain that was learned more than FeedTtl ago is in the list a request goes on
\* with, unless the list is full (get_domain_threat_feed).
THEOREM FeedLagHolds == Spec => []FeedLag
<1>1. Inv /\ Lag => FeedLag
  <2> SUFFICES ASSUME Inv, Lag, NEW w \in Workers, At(w, "sources"), NEW r \in activity,
                      r.domain # None, r.event = "domain_risk_detected" \/ r.grave,
                      now - r.at > FeedTtl
               PROVE  r.domain \in task[w].listed \/ Cardinality(task[w].listed) >= MaxFeed
    BY DEF FeedLag
  <2>1. Complete(task[w].listed, now - FeedTtl)
    BY DEF At, Lag, Keeps
  <2>2. r.at < now - FeedTtl
    BY IntelAssumption DEF Inv, Tables, Rows
  <2> QED BY <2>1, <2>2 DEF Complete, Teaches
<1> QED BY <1>1, LagHolds, PTL
=============================================================================
