----------------------------- MODULE ScansProofs -----------------------------
(***************************************************************************)
(* First the bounds of the scores of Scoring, for every answer a provider may *)
(* give and every number of reports and scans.                              *)
(*                                                                         *)
(* Then theorems about Scans, for every set of requests, wallets, contracts and  *)
(* facts, any number of requests, reports, failed calls and restarts, and    *)
(* crawls of any sites in between.                                           *)
(*                                                                         *)
(* Inv is inductive.  Beyond the properties it says what a request has in     *)
(* hand between two of its calls (Held), that the latest row of a contract     *)
(* is what its name says, and that a row whose line is still to be written     *)
(* belongs to one request only (Pending).  The charges have an invariant of    *)
(* their own (Books): stored and running scans against what each wallet paid.   *)
(* So have the crawls (Crawls): the queue of each has room for what is in it.  *)
(***************************************************************************)
EXTENDS Scans, SequenceTheorems, FiniteSetTheorems, WellFoundedInduction, TLAPS

-----------------------------------------------------------------------------
(* Minimum, maximum and caps of two integers *)

\* The smaller of two numbers.
LEMMA MinOfTwo ==
  ASSUME NEW a \in Int, NEW b \in Int
  PROVE  Min({a, b}) = IF a <= b THEN a ELSE b
<1> DEFINE m == IF a <= b THEN a ELSE b
<1>1. m \in {a, b} /\ \A y \in {a, b} : m <= y
  OBVIOUS
<1>2. \A x \in {a, b} : (\A y \in {a, b} : x <= y) => x = m
  OBVIOUS
<1> QED BY <1>1, <1>2 DEF Min

\* The larger of two numbers.
LEMMA MaxOfTwo ==
  ASSUME NEW a \in Int, NEW b \in Int
  PROVE  Max({a, b}) = IF a >= b THEN a ELSE b
<1> DEFINE m == IF a >= b THEN a ELSE b
<1>1. m \in {a, b} /\ \A y \in {a, b} : m >= y
  OBVIOUS
<1>2. \A x \in {a, b} : (\A y \in {a, b} : x >= y) => x = m
  OBVIOUS
<1> QED BY <1>1, <1>2 DEF Max

\* A capped number.
LEMMA ClampOf ==
  ASSUME NEW n \in Int, NEW top \in Int
  PROVE  Clamp(n, top) = IF n <= top THEN n ELSE top
BY MinOfTwo DEF Clamp

\* A weight counts whole or not at all.
LEMMA WeightOf ==
  ASSUME NEW n \in Nat, NEW condition
  PROVE  Weight(n, condition) \in {0, n} /\ (~condition => Weight(n, condition) = 0)
BY DEF Weight

\* A cast count capped under 256 is between nothing and the cap.
LEMMA ByteClamped ==
  ASSUME NEW n \in Nat, NEW top \in 0..255
  PROVE  Clamp(Byte(n), top) \in 0..top
<1>1. PICK byte \in 0..255 : byte = Byte(n)
  BY DEF Byte
<1>2. Clamp(byte, top) = IF byte <= top THEN byte ELSE top
  BY ClampOf
<1>3. (IF byte <= top THEN byte ELSE top) \in 0..top
  OBVIOUS
<1> QED BY ONLY <1>1, <1>2, <1>3

-----------------------------------------------------------------------------
(* The factors of an EVM contract *)

\* simulation_risk: 100 at most, 50 without a drain.
LEMMA SimulationBound ==
  ASSUME NEW sim, sim.hidden \in Nat
  PROVE  SimulationRisk(sim) \in 0..100 /\ (~sim.drains => SimulationRisk(sim) <= 50)
<1>a. sim.hidden \in Nat /\ 20 \in 0..255
  OBVIOUS
<1>b. Clamp(Byte(sim.hidden), 20) \in 0..20
  BY ONLY <1>a, ByteClamped
<1>1. PICK c \in 0..20 : c = Clamp(Byte(sim.hidden), 20)
  BY ONLY <1>b
<1>2. PICK d \in {0, 50} : d = Weight(50, sim.drains) /\ (~sim.drains => d = 0)
  BY WeightOf
<1>3. PICK u \in {0, 30} : u = Weight(30, sim.unlimited)
  BY WeightOf
<1>4. SimulationRisk(sim) = d + u + c
  BY <1>1, <1>2, <1>3 DEF SimulationRisk
<1>5. d + u + c \in 0..100 /\ (d = 0 => d + u + c <= 50)
  OBVIOUS
<1> QED BY ONLY <1>2, <1>4, <1>5

\* owner_risk: 52 at most, 40 when liquidity cannot be withdrawn.
LEMMA OwnerBound ==
  ASSUME NEW owner
  PROVE  OwnerRisk(owner) \in 0..52 /\ ("withdraw" \notin owner => OwnerRisk(owner) <= 40)
BY DEF OwnerRisk, Weight

\* reputation_risk: 70 at most, 25 without a reported scam.
LEMMA ReputationBound ==
  ASSUME NEW rep, rep.flags \in Nat
  PROVE  ReputationRisk(rep) \in 0..70 /\ (~rep.reported => ReputationRisk(rep) <= 25)
<1>a. rep.flags \in Nat /\ 25 \in 0..255
  OBVIOUS
<1>b. Clamp(Byte(rep.flags), 25) \in 0..25
  BY ONLY <1>a, ByteClamped
<1>1. PICK c \in 0..25 : c = Clamp(Byte(rep.flags), 25)
  BY ONLY <1>b
<1>2. PICK r \in {0, 45} : r = Weight(45, rep.reported) /\ (~rep.reported => r = 0)
  BY WeightOf
<1>3. ReputationRisk(rep) = r + c
  BY <1>1, <1>2 DEF ReputationRisk
<1>4. r + c \in 0..70 /\ (r = 0 => r + c <= 25)
  OBVIOUS
<1> QED BY ONLY <1>2, <1>3, <1>4

\* The three factors that are steps of a scale.
LEMMA ScaleBounds ==
  /\ \A earlier : AnomalyRisk(earlier) \in 0..50
  /\ \A tokens : TokenRisk(tokens) \in 0..40
  /\ \A days : AgeRisk(days) \in 0..80
BY DEF AnomalyRisk, TokenRisk, AgeRisk

\* A rounded score is within one half of the weighted one.
LEMMA RoundedScore ==
  ASSUME NEW weighted \in Int, NEW low \in 0..100, weighted <= 10000 - 100 * low + 50,
         weighted # 10000 - 100 * low + 50, NEW t \in TrustScores(weighted)
  PROVE  t \in low..100
BY DEF TrustScores

-----------------------------------------------------------------------------
(* What a scan of an EVM contract stores *)

\* The trust score of an EVM contract is 28 or more, and 52 or more without a
\* critical flag, whatever the providers answer, provided that their counts are
\* counts (ScoringEngine::compute, scan_contract).
THEOREM EvmFloor ==
  ASSUME NEW facts, NEW rep, NEW earlier,
         Simulation(facts).hidden \in Nat, rep.flags \in Nat,
         NEW t \in EvmScores(facts, rep, earlier)
  PROVE  t \in 28..100 /\ (EvmFlags(facts, rep) = 0 => t >= 52)
<1> DEFINE sim == SimulationRisk(Simulation(facts))
           owner == OwnerRisk(Analysis(facts).owner)
           reputation == ReputationRisk(rep)
           anomaly == AnomalyRisk(earlier)
           token == TokenRisk(Analysis(facts).tokens)
           age == AgeRisk(facts.days)
           w == Weighted(sim, owner, reputation, anomaly, token, age)
<1>1. /\ sim \in 0..100 /\ (~Simulation(facts).drains => sim <= 50)
  BY SimulationBound
<1>2. owner \in 0..52 /\ ("withdraw" \notin Analysis(facts).owner => owner <= 40)
  BY OwnerBound
<1>3. reputation \in 0..70 /\ (~rep.reported => reputation <= 25)
  BY ReputationBound
<1>4. anomaly \in 0..50 /\ token \in 0..40 /\ age \in 0..80
  BY ScaleBounds
<1>5. t \in TrustScores(w)
  BY DEF EvmScores
<1> HIDE DEF sim, owner, reputation, anomaly, token, age
<1>6. w \in Int /\ w <= 7190
  BY <1>1, <1>2, <1>3, <1>4 DEF Weighted
<1>7. t \in 28..100
  <2> HIDE DEF w
  <2> QED BY <1>5, <1>6, RoundedScore
<1>8. ASSUME EvmFlags(facts, rep) = 0 PROVE t >= 52
  <2>1. ~Simulation(facts).drains /\ ~rep.reported /\ "withdraw" \notin Analysis(facts).owner
    BY <1>8 DEF EvmFlags, Weight
  <2>2. w \in Int /\ w <= 4775
    BY <2>1, <1>1, <1>2, <1>3, <1>4 DEF Weighted
  <2> HIDE DEF w
  <2> QED BY <1>5, <2>2, RoundedScore
<1> QED BY <1>7, <1>8

\* Without an ABI a contract is taken for one that can drain its owner's liquidity: it
\* has a critical flag, so that the extension calls it malicious, and the pattern of
\* a honeypot, whatever else is known of it (stub_owner_privileges,
\* extension_scan_smart_contract, contract_scam_pattern).
THEOREM UnverifiedIsMalicious ==
  ASSUME NEW facts, facts.abi = None, NEW rep, NEW risk, NEW told
  PROVE  /\ EvmFlags(facts, rep) \in 1..3
         /\ Malicious(risk, told, EvmFlags(facts, rep))
         /\ Honeypot(facts)
<1>1. Analysis(facts).owner = Privileges \ {"blacklist"}
  BY DEF Analysis, NoAbi
<1>2. "withdraw" \in Analysis(facts).owner /\ "mint" \in Analysis(facts).owner
  BY <1>1 DEF Privileges
<1>3. EvmFlags(facts, rep) \in 1..3
  BY <1>2 DEF EvmFlags, Weight
<1> QED BY <1>2, <1>3 DEF Malicious, Honeypot

\* No owner's privileges add up to a rug pull that is called "High": the weights end
\* at 52, the threshold is 70 (rug_pull_probability).
THEOREM RugPullIsNeverHigh ==
  ASSUME NEW owner PROVE RugPull(owner) \in {"Low", "Medium"}
BY OwnerBound DEF RugPull

-----------------------------------------------------------------------------
(* What a scan of a Solana program stores *)

\* The score of a program never exceeds the one of its own facts, and with at least one
\* report of a user that one is 37 or less (compute_solana_trust_score).
THEOREM ReportedProgramScore ==
  ASSUME NEW facts, NEW rep, NEW earlier, rep.local \in Nat,
         NEW t \in SolanaScores(facts, rep, earlier)
  PROVE  t \in Int /\ t <= 100 /\ (rep.local > 0 => t <= 37)
<1>1. SolanaTrust(facts, rep) \in Int /\ (rep.local > 0 => SolanaTrust(facts, rep) <= 37)
  BY DEF SolanaTrust
<1> DEFINE w == Weighted(0, 0, ReputationRisk(rep), AnomalyRisk(earlier),
                         IF facts.system THEN 5 ELSE 25, 30)
<1>2. t \in {Min({SolanaTrust(facts, rep), s}) : s \in TrustScores(w)}
  BY DEF SolanaScores
<1> HIDE DEF w
<1>3. PICK s \in TrustScores(w) : t = Min({SolanaTrust(facts, rep), s})
  BY <1>2
<1>4. s \in 0..100
  BY DEF TrustScores
<1> QED BY <1>1, <1>3, <1>4, MinOfTwo

-----------------------------------------------------------------------------
(* What is shown of a contract *)

\* The reputation of a contract adds 35 at most.
LEMMA ContractRiskBound ==
  ASSUME NEW trust, NEW told \in Nat
  PROVE  ContractRisk(trust, told) \in 0..35
<1>1. TrustPenalty(trust) \in 0..35
  BY DEF TrustPenalty
<1>2. ReportPenalty(told) \in 0..24
  <2>1. CASE told >= 3
    <3>1. (told - 2) * 8 \in Nat
      BY <2>1
    <3> QED BY <3>1, <2>1, ClampOf DEF ReportPenalty
  <2>2. CASE ~(told >= 3)
    BY <2>2 DEF ReportPenalty
  <2> QED BY <2>1, <2>2
<1> QED BY <1>1, <1>2, ClampOf DEF ContractRisk

\* Every risk that is shown of a contract is between 0 and 100, an alert about a token
\* at least 60 (extension_scan_smart_contract, extension_analyze_transaction_screen,
\* extension_scam_token_detected).
THEOREM ShownRisks ==
  ASSUME NEW trust \in {None} \cup 0..100, NEW own \in 0..100, NEW told \in Nat,
         NEW tx \in 0..100, NEW policy \in BOOLEAN
  PROVE  /\ ScanRisk(own, trust, told) \in 0..100
         /\ ScreenRisk(trust, told, tx, policy) \in 0..100
         /\ TokenAlert(trust, told) \in 60..95
<1>1. ContractRisk(trust, told) \in 0..35
  BY ContractRiskBound
<1> DEFINE r == ContractRisk(trust, told)
           missing == IF trust = None THEN 0 ELSE 100 - trust
           shown == IF policy THEN 0 ELSE tx
<1> HIDE DEF r
<1>2. ScanRisk(own, trust, told) \in 0..100
  BY <1>1, ClampOf DEF ScanRisk, r
<1>3. TokenAlert(trust, told) \in 60..95
  BY <1>1, ClampOf DEF TokenAlert, r
<1>4. missing \in 0..100 /\ shown \in 0..100
  OBVIOUS
<1>5. Clamp(missing + r, 100) \in 0..100
  BY <1>1, <1>4, ClampOf DEF r
<1>6. ScreenRisk(trust, told, tx, policy) = Max({Clamp(missing + r, 100), shown})
  BY DEF ScreenRisk, r
<1>7. Max({Clamp(missing + r, 100), shown}) \in 0..100
  <2>1. \A a, b \in 0..100 : Max({a, b}) \in 0..100
    BY MaxOfTwo
  <2> DEFINE clamped == Clamp(missing + r, 100)
  <2>2. clamped \in 0..100
    BY <1>5
  <2> HIDE DEF missing, shown, clamped
  <2>3. Max({clamped, shown}) \in 0..100
    BY <1>4, <2>1, <2>2
  <2> QED BY <2>3 DEF clamped
<1> QED BY <1>2, <1>3, <1>6, <1>7

\* The risk of the reputation graph is between 0 and 100 (analyze_reputation_graph).
THEOREM GraphRiskBound ==
  ASSUME NEW told \in Nat, NEW touched \in Nat, NEW refs \in Nat, NEW trust
  PROVE  GraphRisk(told, touched, refs, trust) \in 0..100
<1> DEFINE a == Clamp(18 * told, 54)
           b == Clamp(3 * touched, 15)
           c == IF refs >= 20 THEN 20 ELSE IF refs >= 5 THEN 10 ELSE 0
           d == IF trust = None THEN 0 ELSE IF trust <= 20 THEN 25 ELSE IF trust <= 40 THEN 15 ELSE 0
<1>1. a \in 0..54 /\ b \in 0..15
  BY ClampOf
<1>2. c \in 0..20 /\ d \in 0..25
  OBVIOUS
<1>3. GraphRisk(told, touched, refs, trust) = Clamp(a + b + c + d, 100)
  BY DEF GraphRisk
<1> HIDE DEF a, b, c, d
<1> QED BY <1>1, <1>2, <1>3, ClampOf

-----------------------------------------------------------------------------
(* The states of Scans.                                                      *)

LatestIsLast ==
  \A c \in Contracts : /\ Latest(c) \in {0} \cup RowsOf(c)
                       /\ \A i \in RowsOf(c) : i <= Latest(c)

\* What a scan has stored: its own row, marked and low when reports were seen.
OwnRow(t) ==
  /\ t.row \in DOMAIN scans
  /\ scans[t.row].contract = t.contract
  /\ scans[t.row].wallet = t.wallet /\ scans[t.row].family = t.family
  /\ "count" \notin t.missed =>
       /\ t.before >= 3 => scans[t.row].flags > 0
       /\ Solana(t) /\ t.before > 0 => scans[t.row].trust <= 37

Scanned(t) == t.kind \in ScanKinds /\ t.pc \in {"history", "trust", "reports", "done"}
TrustRead(t) == \/ t.kind # "scan" /\ t.pc = "done"
                \/ t.kind # "graph" /\ t.pc = "reports"
ReportsRead(t) == \/ t.kind # "scan" /\ t.pc = "done"
                  \/ t.kind = "graph" /\ t.pc = "trust"

Held(t) ==
  /\ t.before <= reports[t.contract]
  /\ t.row <= Latest(t.contract)
  /\ t.kind \notin ScanKinds => t.pc \in {"trust", "reports", "done"}
  /\ t.kind = "scan" => t.pc \notin {"trust", "reports"}
  /\ t.pc \in {"count", "earlier", "insert"} => t.facts \in Facts[t.contract][t.family]
  /\ t.pc \in {"earlier", "insert"} =>
       /\ t.rep \in Reps
       /\ t.rep.local >= 3 => t.rep.reported
       /\ "count" \notin t.missed => t.before <= t.rep.local
  /\ Scanned(t) => OwnRow(t)
  /\ TrustRead(t) /\ "trust" \notin t.missed => t.row <= t.seen
  /\ ReportsRead(t) /\ "reports" \notin t.missed => t.before <= t.reports

TasksHeld == \A w \in Workers : task[w] # None => Held(task[w])

Lines == \A i \in DOMAIN history : history[i].scan \in DOMAIN scans

Pending ==
  \A w \in Workers : At(w, "history") =>
    /\ \A i \in DOMAIN history : history[i].scan # task[w].row
    /\ \A v \in Workers \ {w} : At(v, "history") => task[v].row # task[w].row

Inv == /\ TypeOK /\ LatestIsLast /\ TasksHeld /\ Lines /\ Pending
       /\ HistoryTellsTheScan /\ EvmScoreFloor

-----------------------------------------------------------------------------
(* Facts and scores *)

\* The maximum of a set that has one.
LEMMA MaxIs ==
  ASSUME NEW S, S \subseteq Int, NEW m \in S, \A i \in S : i <= m
  PROVE  Max(S) = m
<1>1. \A x \in S : (\A y \in S : x >= y) => x = m
  OBVIOUS
<1>2. \A y \in S : m >= y
  OBVIOUS
<1> QED BY <1>1, <1>2 DEF Max

\* On the EVM path, whichever provider answers, the number of hidden calls is one.
LEMMA HiddenIsCount ==
  ASSUME NEW c \in Contracts, NEW facts \in Facts[c].evm
  PROVE  Simulation(facts).hidden \in Nat
<1>1. facts \in [abi : Answers([owner : SUBSET Privileges, unlimited : BOOLEAN, tokens : Nat]),
                 days : Answers(Nat), alchemy : Answers([drains : BOOLEAN, hidden : Nat]),
                 trace : Answers(Nat), debug : Answers(Nat), token : TokenFlags, feeds : Nat \X Nat]
  BY FactsAssumption
<1>2. facts.alchemy # None => facts.alchemy.hidden \in Nat
  BY <1>1 DEF Answers
<1>3. /\ facts.trace # None => facts.trace \in Nat
      /\ facts.debug # None => facts.debug \in Nat
  BY <1>1 DEF Answers
<1> QED BY <1>2, <1>3 DEF Simulation

\* What the reports and the services make of a contract.
LEMMA ReputationShape ==
  ASSUME NEW c \in Contracts, NEW family \in Families, NEW facts \in Facts[c][family],
         NEW count \in Nat
  PROVE  LET rep == Reputation(count, ExternalSignals(facts.token, facts.feeds))
         IN  /\ rep \in Reps
             /\ rep.local = count
             /\ count >= 3 => rep.reported
<1>1. facts.token \in TokenFlags /\ facts.feeds \in Nat \X Nat
  <2>1. CASE family = "solana"
    <3>1. facts \in [bad : BOOLEAN, system : BOOLEAN, token : TokenFlags, feeds : Nat \X Nat]
      BY <2>1, FactsAssumption
    <3> QED BY <3>1
  <2>2. CASE family = "evm"
    <3>1. facts \in [abi : Answers([owner : SUBSET Privileges, unlimited : BOOLEAN, tokens : Nat]),
                     days : Answers(Nat), alchemy : Answers([drains : BOOLEAN, hidden : Nat]),
                     trace : Answers(Nat), debug : Answers(Nat), token : TokenFlags, feeds : Nat \X Nat]
      BY <2>2, FactsAssumption
    <3> QED BY <3>1
  <2> QED BY <2>1, <2>2 DEF Families
<1>2. facts.feeds[1] \in Nat /\ facts.feeds[2] \in Nat
  BY <1>1
<1>3. facts.token = None \/ (facts.token.scam \in Nat /\ facts.token.info \in Nat)
  BY <1>1 DEF TokenFlags, Answers
<1> DEFINE signals == TokenSignals(facts.token)
           external == ExternalSignals(facts.token, facts.feeds)
<1>4. signals.scam \in BOOLEAN /\ signals.flags \in Nat
  <2>1. CASE facts.token = None
    BY <2>1 DEF TokenSignals
  <2>2. CASE facts.token # None
    <3>1. signals = [scam |-> facts.token.scam > 0, flags |-> facts.token.scam + facts.token.info]
      BY <2>2 DEF TokenSignals
    <3> HIDE DEF signals
    <3> QED BY <1>3, <2>2, <3>1
  <2> QED BY <2>1, <2>2
<1>5. external.scam \in BOOLEAN /\ external.flags \in Nat
  BY <1>2, <1>4 DEF ExternalSignals
<1> HIDE DEF external
<1> DEFINE rep == Reputation(count, external)
           reported == count >= 3 \/ external.scam
<1>6. rep = [reported |-> reported, local |-> count, flags |-> count + external.flags]
  BY DEF Reputation
<1>7. reported \in BOOLEAN /\ (count >= 3 => reported)
  BY <1>5
<1>8. count + external.flags \in Nat
  BY <1>5
<1> HIDE DEF rep, reported
<1>9. /\ rep \in Reps
      /\ rep.local = count
      /\ count >= 3 => rep.reported
  BY <1>6, <1>7, <1>8 DEF Reps
<1> QED BY <1>9 DEF external, rep

-----------------------------------------------------------------------------
(* What a step leaves alone *)

\* What a request has in hand depends on the rows and the reports only.
LEMMA SameRows ==
  ASSUME UNCHANGED <<scans, reports>>
  PROVE  /\ \A c : RowsOf(c)' = RowsOf(c) /\ Latest(c)' = Latest(c)
         /\ \A t : Held(t) => Held(t)'
<1>1. \A c : RowsOf(c)' = RowsOf(c)
  BY DEF RowsOf
<1>2. \A c : Latest(c)' = Latest(c)
  BY <1>1 DEF Latest
<1>3. ASSUME NEW t, Held(t) PROVE Held(t)'
  <2>1. OwnRow(t) => OwnRow(t)'
    BY DEF OwnRow, Solana
  <2> QED BY <1>2, <1>3, <2>1 DEF Held, Scanned, TrustRead, ReportsRead
<1> QED BY <1>1, <1>2, <1>3

\* A request that makes a call, begins or ends, and stores no row.
LEMMA MovedWith ==
  ASSUME Inv, NEW w \in Workers, NEW t, UNCHANGED <<scans, reports>>,
         task' = [task EXCEPT ![w] = t],
         t # None => t \in Tasks /\ Held(t) /\ t.pc # "history",
         history' \in Seq(Line), Lines', HistoryTellsTheScan',
         \A v \in Workers \ {w} : At(v, "history") => \A i \in DOMAIN history' : history'[i].scan # task[v].row
  PROVE  Inv'
<1>1. TypeOK'
  BY DEF Inv, TypeOK
<1>2. LatestIsLast'
  BY SameRows DEF Inv, LatestIsLast
<1>3. \A v \in Workers : task'[v] = IF v = w THEN t ELSE task[v]
  BY DEF Inv, TypeOK
<1>4. TasksHeld'
  <2>1. ASSUME NEW v \in Workers, task'[v] # None PROVE Held(task[v])'
    <3>1. Held(task'[v])
      BY <1>3, <2>1 DEF Inv, TasksHeld
    <3>2. PICK u : u = task'[v]
      OBVIOUS
    <3>3. Held(u)'
      BY <3>1, <3>2, SameRows
    <3> QED BY <3>2, <3>3
  <2> QED BY <2>1 DEF TasksHeld
<1>5. Pending'
  <2>1. \A v \in Workers : At(v, "history")' => v # w /\ task'[v] = task[v] /\ At(v, "history")
    BY <1>3 DEF At
  <2> QED BY <1>3, <2>1 DEF Inv, Pending
<1>6. EvmScoreFloor'
  BY DEF Inv, EvmScoreFloor
<1> QED BY <1>1, <1>2, <1>4, <1>5, <1>6 DEF Inv

\* The same, when the history stays as it was.
LEMMA Moved ==
  ASSUME Inv, NEW w \in Workers, NEW t, UNCHANGED <<scans, history, reports>>,
         task' = [task EXCEPT ![w] = t],
         t # None => t \in Tasks /\ Held(t) /\ t.pc # "history"
  PROVE  Inv'
<1>1. history' \in Seq(Line) /\ Lines' /\ HistoryTellsTheScan'
  BY DEF Inv, TypeOK, Lines, HistoryTellsTheScan
<1>2. \A v \in Workers \ {w} : At(v, "history") => \A i \in DOMAIN history' : history'[i].scan # task[v].row
  BY DEF Inv, Pending
<1> QED BY <1>1, <1>2, MovedWith

-----------------------------------------------------------------------------
(* Requests that store nothing *)

\* The place of the latest row is a number.
LEMMA LatestIsPlace ==
  ASSUME Inv, NEW c \in Contracts
  PROVE  Latest(c) \in Nat
BY DEF Inv, TypeOK, LatestIsLast, RowsOf

\* The next call of a request is one of its calls.
LEMMA NextCalls ==
  ASSUME NEW kind, NEW call PROVE NextCall(kind, call) \in Places
BY DEF NextCall, Places

LEMMA BeginKeeps ==
  ASSUME Inv, NEW w \in Workers, NEW kind \in Kinds, NEW wallet \in Wallets \cup {None},
         NEW contract \in Contracts, NEW asked \in Families \cup {None},
         NEW reading \in Readings \cup {None}, Begin(w, kind, wallet, contract, asked, reading)
  PROVE  Inv'
<1>1. PICK t : t = Task(kind, wallet, contract, Family(asked, contract), reading)
  OBVIOUS
<1>2. reports[contract] \in Nat /\ Latest(contract) \in Nat
  BY LatestIsPlace DEF Inv, TypeOK
<1>3. FirstCall(kind) \in Places
  BY DEF FirstCall, Places
<1>4. t \in Tasks
  <2>1. Family(asked, contract) \in Families
    BY DEF Family, Families
  <2> QED BY <1>1, <1>2, <1>3, <2>1 DEF Task, Tasks
<1>5. Held(t)
  BY <1>1, <1>2 DEF Task, FirstCall, Held, Scanned, TrustRead, ReportsRead, Kinds, ScanKinds
<1>6. t.pc # "history"
  BY <1>1 DEF Task, FirstCall
<1>7. UNCHANGED <<scans, history, reports>> /\ task' = [task EXCEPT ![w] = t]
  BY <1>1 DEF Begin
<1> QED BY <1>4, <1>5, <1>6, <1>7, Moved

LEMMA AskProvidersKeeps ==
  ASSUME Inv, NEW w \in Workers, NEW facts, AskProviders(w, facts)
  PROVE  Inv' /\ task'[w] \in Tasks
<1>1. PICK s : s = task[w]
  OBVIOUS
<1>2. s \in Tasks /\ Held(s) /\ s.pc = "facts" /\ facts \in Facts[s.contract][s.family]
  BY <1>1 DEF AskProviders, At, Inv, TypeOK, TasksHeld
<1>3. PICK t : t = [s EXCEPT !.facts = facts, !.pc = "count"]
  OBVIOUS
<1>4. t \in Tasks
  <2>1. s.contract \in Contracts /\ s.family \in {"evm", "solana"}
    BY <1>2 DEF Tasks, Families
  <2>2. facts \in AllFacts
    BY <1>2, <2>1 DEF AllFacts
  <2> QED BY <1>2, <1>3, <2>2 DEF Tasks, Places
<1>5. Held(t) /\ t.pc # "history"
  BY <1>2, <1>3, <1>4 DEF Tasks, Held, Scanned, TrustRead, ReportsRead
<1>6. UNCHANGED <<scans, history, reports>> /\ task' = [task EXCEPT ![w] = t]
  BY <1>1, <1>2, <1>3 DEF AskProviders, Continue, NextCall, Tasks
<1>7. task'[w] = t
  BY <1>6 DEF Inv, TypeOK
<1> QED BY <1>4, <1>5, <1>6, <1>7, Moved

LEMMA CountReportsKeeps ==
  ASSUME Inv, NEW w \in Workers, CountReports(w)
  PROVE  Inv' /\ task'[w] \in Tasks
<1>1. PICK s : s = task[w]
  OBVIOUS
<1>2. s \in Tasks /\ Held(s) /\ s.pc = "count" /\ s.facts \in Facts[s.contract][s.family]
  BY <1>1 DEF CountReports, At, Inv, TypeOK, TasksHeld, Held
<1>3. s.contract \in Contracts /\ s.family \in Families /\ s.before <= reports[s.contract] /\ reports[s.contract] \in Nat
  BY <1>2 DEF Tasks, Held, Inv, TypeOK
<1> DEFINE rep(count) == Reputation(count, ExternalSignals(s.facts.token, s.facts.feeds))
<1>4. rep(0) \in Reps
  BY <1>2, <1>3, ReputationShape
<1>5. LET c == reports[s.contract]
      IN  rep(c) \in Reps /\ rep(c).local = c /\ (c >= 3 => rep(c).reported)
  BY <1>2, <1>3, ReputationShape
<1>6. rep(0).local = 0
  BY <1>2, <1>3, ReputationShape
<1>7. ASSUME NEW r \in Reps, r.local >= 3 => r.reported, NEW missed \in SUBSET {"count"},
             "count" \notin missed => s.before <= r.local,
             task' = [task EXCEPT ![w] = [s EXCEPT !.rep = r, !.missed = @ \cup missed, !.pc = "earlier"]]
      PROVE  Inv' /\ task'[w] \in Tasks
  <2>1. PICK t : t = [s EXCEPT !.rep = r, !.missed = @ \cup missed, !.pc = "earlier"]
    OBVIOUS
  <2>2. t \in Tasks
    BY <1>2, <1>7, <2>1 DEF Tasks, Places
  <2>3. Held(t) /\ t.pc # "history"
    BY <1>2, <1>7, <2>1, <2>2 DEF Tasks, Held, Scanned, TrustRead, ReportsRead
  <2>4. UNCHANGED <<scans, history, reports>> /\ task' = [task EXCEPT ![w] = t]
    BY <1>7, <2>1 DEF CountReports
  <2>5. task'[w] = t
    BY <2>4 DEF Inv, TypeOK
  <2> QED BY <2>2, <2>3, <2>4, <2>5, Moved
<1>8. CASE Continue(w, [s EXCEPT !.rep = rep(reports[s.contract])])
  <2>1. PICK r : r = rep(reports[s.contract])
    OBVIOUS
  <2>2. [[s EXCEPT !.rep = r] EXCEPT !.pc = NextCall(s.kind, @)]
           = [s EXCEPT !.rep = r, !.missed = @ \cup {}, !.pc = "earlier"]
    BY <1>2 DEF NextCall, Tasks
  <2>3. task' = [task EXCEPT ![w] = [s EXCEPT !.rep = r, !.missed = @ \cup {}, !.pc = "earlier"]]
    BY <1>2, <1>8, <2>1, <2>2 DEF Continue, Tasks
  <2>4. /\ r \in Reps /\ (r.local >= 3 => r.reported)
        /\ s.before <= r.local
    BY <1>3, <1>5, <2>1
  <2>5. {} \in SUBSET {"count"}
    OBVIOUS
  <2> HIDE DEF rep
  <2> QED BY <1>7, <2>3, <2>4, <2>5
<1>9. CASE Continue(w, [s EXCEPT !.rep = rep(0), !.missed = @ \cup {"count"}])
  <2>1. PICK r : r = rep(0)
    OBVIOUS
  <2>2. [[s EXCEPT !.rep = r, !.missed = @ \cup {"count"}] EXCEPT !.pc = NextCall(s.kind, @)]
           = [s EXCEPT !.rep = r, !.missed = @ \cup {"count"}, !.pc = "earlier"]
    BY <1>2 DEF NextCall, Tasks
  <2>3. task' = [task EXCEPT ![w] = [s EXCEPT !.rep = r, !.missed = @ \cup {"count"}, !.pc = "earlier"]]
    BY <1>2, <1>9, <2>1, <2>2 DEF Continue, Tasks
  <2>4. r \in Reps /\ (r.local >= 3 => r.reported)
    BY <1>4, <1>6, <2>1
  <2>5. {"count"} \in SUBSET {"count"} /\ "count" \in {"count"}
    OBVIOUS
  <2> HIDE DEF rep
  <2> QED BY <1>7, <2>3, <2>4, <2>5
<1> QED BY <1>1, <1>8, <1>9 DEF CountReports

\* The number of earlier scans is a number.
LEMMA EarlierIsCount ==
  ASSUME Inv, NEW wallet, NEW contract
  PROVE  Earlier(wallet, contract) \in Nat
<1>1. Len(scans) \in Nat /\ DOMAIN scans = 1..Len(scans)
  BY DEF Inv, TypeOK
<1>2. IsFiniteSet(1..Len(scans))
  BY <1>1, FS_Interval
<1> DEFINE S == {i \in RowsOf(contract) : scans[i].wallet = wallet}
<1>3. S \subseteq 1..Len(scans)
  BY <1>1 DEF RowsOf
<1>4. IsFiniteSet(S)
  BY <1>2, <1>3, FS_Subset
<1> HIDE DEF S
<1>5. Cardinality(S) \in Nat
  BY <1>4, FS_CardinalityType
<1> QED BY <1>5 DEF Earlier, S

LEMMA CountEarlierKeeps ==
  ASSUME Inv, NEW w \in Workers, CountEarlier(w)
  PROVE  Inv' /\ task'[w] \in Tasks
<1>1. PICK s : s = task[w]
  OBVIOUS
<1>2. s \in Tasks /\ Held(s) /\ s.pc = "earlier"
  BY <1>1 DEF CountEarlier, At, Inv, TypeOK, TasksHeld
<1>3. PICK count : /\ count \in {None} \cup Nat
                   /\ task' = [task EXCEPT ![w] = [s EXCEPT !.earlier = count, !.pc = "insert"]]
  <2>1. CASE Continue(w, s)
    <3>1. [s EXCEPT !.pc = NextCall(s.kind, @)] = [s EXCEPT !.earlier = s.earlier, !.pc = "insert"]
      BY <1>2 DEF NextCall, Tasks
    <3>2. s.earlier \in {None} \cup Nat
      BY <1>2 DEF Tasks
    <3> QED BY <2>1, <3>1, <3>2 DEF Continue
  <2>2. ASSUME NEW count, count \in {None} \cup Nat, Continue(w, [s EXCEPT !.earlier = count])
        PROVE  task' = [task EXCEPT ![w] = [s EXCEPT !.earlier = count, !.pc = "insert"]]
    <3>1. [[s EXCEPT !.earlier = count] EXCEPT !.pc = NextCall(s.kind, @)]
            = [s EXCEPT !.earlier = count, !.pc = "insert"]
      BY <1>2 DEF NextCall, Tasks
    <3>2. [s EXCEPT !.earlier = count].kind = s.kind
      BY <1>2 DEF Tasks
    <3> QED BY <2>2, <3>1, <3>2 DEF Continue
  <2>3. (IF s.wallet = None THEN None ELSE Earlier(s.wallet, s.contract)) \in {None} \cup Nat
    BY EarlierIsCount
  <2> QED BY <1>1, <2>1, <2>2, <2>3 DEF CountEarlier
<1>4. PICK t : t = [s EXCEPT !.earlier = count, !.pc = "insert"]
  OBVIOUS
<1>5. t \in Tasks
  BY <1>2, <1>3, <1>4 DEF Tasks, Places
<1>6. Held(t) /\ t.pc # "history"
  BY <1>2, <1>4, <1>5 DEF Tasks, Held, Scanned, TrustRead, ReportsRead
<1>7. UNCHANGED <<scans, history, reports>> /\ task' = [task EXCEPT ![w] = t]
  BY <1>3, <1>4 DEF CountEarlier
<1>8. task'[w] = t
  BY <1>7 DEF Inv, TypeOK
<1> QED BY <1>5, <1>6, <1>7, <1>8, Moved

LEMMA ReadTrustKeeps ==
  ASSUME Inv, NEW w \in Workers, ReadTrust(w)
  PROVE  Inv'
<1>1. PICK s : s = task[w]
  OBVIOUS
<1>2. s \in Tasks /\ Held(s) /\ s.pc = "trust"
  BY <1>1 DEF ReadTrust, At, Inv, TypeOK, TasksHeld
<1>3. s.contract \in Contracts /\ s.row <= Latest(s.contract) /\ Latest(s.contract) \in Nat
  BY <1>2, LatestIsPlace DEF Tasks, Held
<1>4. PICK next : next = NextCall(s.kind, "trust")
  OBVIOUS
<1>5. /\ next \in Places
      /\ next = IF s.kind = "graph" THEN "done" ELSE "reports"
  BY <1>4 DEF NextCall, Places
<1>6. ASSUME NEW seen \in Nat, NEW missed \in SUBSET {"trust"},
             "trust" \notin missed => s.row <= seen,
             task' = [task EXCEPT ![w] = [s EXCEPT !.seen = seen, !.missed = @ \cup missed, !.pc = next]]
      PROVE  Inv'
  <2>1. PICK t : t = [s EXCEPT !.seen = seen, !.missed = @ \cup missed, !.pc = next]
    OBVIOUS
  <2>2. t \in Tasks
    <3>1. PICK m : m = s.missed \cup missed
      OBVIOUS
    <3>2. m \in SUBSET {"count", "trust", "reports"}
      BY <1>2, <3>1 DEF Tasks
    <3>3. PICK a : a = [s EXCEPT !.seen = seen]
      OBVIOUS
    <3>4. a \in Tasks
      BY ONLY <1>2, <3>3, seen \in Nat DEF Tasks
    <3>5. PICK b : b = [a EXCEPT !.missed = m]
      OBVIOUS
    <3>6. b \in Tasks
      BY ONLY <3>2, <3>4, <3>5 DEF Tasks
    <3>7. t = [b EXCEPT !.pc = next]
      BY <1>2, <2>1, <3>1, <3>3, <3>5 DEF Tasks
    <3> QED BY ONLY <1>5, <3>6, <3>7 DEF Tasks
  <2>3. /\ t.kind = s.kind /\ t.pc = next /\ t.contract = s.contract /\ t.wallet = s.wallet
        /\ t.family = s.family
        /\ t.before = s.before /\ t.row = s.row /\ t.seen = seen /\ t.reports = s.reports
        /\ t.missed = s.missed \cup missed
    BY <1>2, <2>1 DEF Tasks
  <2>4. Scanned(t) => OwnRow(t)
    BY <1>2, <1>5, <1>6, <2>3 DEF Held, Scanned, OwnRow, Solana
  <2>5. Held(t) /\ t.pc # "history"
    BY <1>2, <1>5, <1>6, <2>3, <2>4 DEF Held, TrustRead, ReportsRead, ScanKinds
  <2>6. UNCHANGED <<scans, history, reports>> /\ task' = [task EXCEPT ![w] = t]
    BY <1>6, <2>1 DEF ReadTrust
  <2> QED BY <2>2, <2>5, <2>6, Moved
<1>7. CASE Continue(w, [s EXCEPT !.seen = Latest(s.contract)])
  <2>1. PICK seen : seen = Latest(s.contract)
    OBVIOUS
  <2>2. [[s EXCEPT !.seen = seen] EXCEPT !.pc = NextCall(s.kind, @)]
          = [s EXCEPT !.seen = seen, !.missed = @ \cup {}, !.pc = next]
    BY <1>2, <1>4 DEF Tasks
  <2>3. task' = [task EXCEPT ![w] = [s EXCEPT !.seen = seen, !.missed = @ \cup {}, !.pc = next]]
    BY <1>2, <1>7, <2>1, <2>2 DEF Continue, Tasks
  <2>4. {} \in SUBSET {"trust"} /\ seen \in Nat /\ s.row <= seen
    BY <1>3, <2>1
  <2> QED BY <1>6, <2>3, <2>4
<1>8. CASE Continue(w, [s EXCEPT !.missed = @ \cup {"trust"}])
  <2>1. s.seen \in Nat /\ {"trust"} \in SUBSET {"trust"} /\ "trust" \in {"trust"}
    BY <1>2 DEF Tasks
  <2>2. [[s EXCEPT !.missed = @ \cup {"trust"}] EXCEPT !.pc = NextCall(s.kind, @)]
          = [s EXCEPT !.seen = s.seen, !.missed = @ \cup {"trust"}, !.pc = next]
    BY <1>2, <1>4 DEF Tasks
  <2>3. task' = [task EXCEPT ![w] = [s EXCEPT !.seen = s.seen, !.missed = @ \cup {"trust"}, !.pc = next]]
    BY <1>2, <1>8, <2>2 DEF Continue, Tasks
  <2> QED BY <1>6, <2>1, <2>3
<1> QED BY <1>1, <1>7, <1>8 DEF ReadTrust

LEMMA ReadReportsKeeps ==
  ASSUME Inv, NEW w \in Workers, ReadReports(w)
  PROVE  Inv'
<1>1. PICK s : s = task[w]
  OBVIOUS
<1>2. s \in Tasks /\ Held(s) /\ s.pc = "reports"
  BY <1>1 DEF ReadReports, At, Inv, TypeOK, TasksHeld
<1>3. s.before <= reports[s.contract] /\ reports[s.contract] \in Nat
  BY <1>2 DEF Tasks, Held, Inv, TypeOK
<1>4. PICK next : next = NextCall(s.kind, "reports")
  OBVIOUS
<1>5. /\ next \in Places
      /\ next = IF s.kind = "graph" THEN "trust" ELSE "done"
  BY <1>4 DEF NextCall, Places
<1>6. ASSUME NEW read \in Nat, NEW missed \in SUBSET {"reports"},
             "reports" \notin missed => s.before <= read,
             task' = [task EXCEPT ![w] = [s EXCEPT !.reports = read, !.missed = @ \cup missed, !.pc = next]]
      PROVE  Inv'
  <2>1. PICK t : t = [s EXCEPT !.reports = read, !.missed = @ \cup missed, !.pc = next]
    OBVIOUS
  <2>2. t \in Tasks
    BY <1>2, <1>5, <1>6, <2>1 DEF Tasks
  <2>3. /\ t.kind = s.kind /\ t.pc = next /\ t.contract = s.contract /\ t.wallet = s.wallet
        /\ t.family = s.family
        /\ t.before = s.before /\ t.row = s.row /\ t.seen = s.seen /\ t.reports = read
        /\ t.missed = s.missed \cup missed
    BY <1>2, <2>1 DEF Tasks
  <2>4. Scanned(t) => OwnRow(t)
    BY <1>2, <1>5, <1>6, <2>3 DEF Held, Scanned, OwnRow, Solana
  <2>5. Held(t) /\ t.pc # "history"
    BY <1>2, <1>5, <1>6, <2>3, <2>4 DEF Held, TrustRead, ReportsRead, ScanKinds
  <2>6. UNCHANGED <<scans, history, reports>> /\ task' = [task EXCEPT ![w] = t]
    BY <1>6, <2>1 DEF ReadReports
  <2> QED BY <2>2, <2>5, <2>6, Moved
<1>7. CASE Continue(w, [s EXCEPT !.reports = reports[s.contract]])
  <2>1. PICK read : read = reports[s.contract]
    OBVIOUS
  <2>2. [[s EXCEPT !.reports = read] EXCEPT !.pc = NextCall(s.kind, @)]
          = [s EXCEPT !.reports = read, !.missed = @ \cup {}, !.pc = next]
    BY <1>2, <1>4 DEF Tasks
  <2>3. task' = [task EXCEPT ![w] = [s EXCEPT !.reports = read, !.missed = @ \cup {}, !.pc = next]]
    BY <1>2, <1>7, <2>1, <2>2 DEF Continue, Tasks
  <2>4. {} \in SUBSET {"reports"} /\ read \in Nat /\ s.before <= read
    BY <1>3, <2>1
  <2> QED BY <1>6, <2>3, <2>4
<1>8. CASE Continue(w, [s EXCEPT !.missed = @ \cup {"reports"}])
  <2>1. s.reports \in Nat /\ {"reports"} \in SUBSET {"reports"} /\ "reports" \in {"reports"}
    BY <1>2 DEF Tasks
  <2>2. [[s EXCEPT !.missed = @ \cup {"reports"}] EXCEPT !.pc = NextCall(s.kind, @)]
          = [s EXCEPT !.reports = s.reports, !.missed = @ \cup {"reports"}, !.pc = next]
    BY <1>2, <1>4 DEF Tasks
  <2>3. task' = [task EXCEPT ![w] = [s EXCEPT !.reports = s.reports, !.missed = @ \cup {"reports"}, !.pc = next]]
    BY <1>2, <1>8, <2>2 DEF Continue, Tasks
  <2> QED BY <1>6, <2>1, <2>3
<1> QED BY <1>1, <1>7, <1>8 DEF ReadReports

LEMMA AnswerKeeps ==
  ASSUME Inv, NEW w \in Workers, Answer(w)
  PROVE  Inv'
<1>1. UNCHANGED <<scans, history, reports>> /\ task' = [task EXCEPT ![w] = None]
  BY DEF Answer
<1> QED BY <1>1, Moved

-----------------------------------------------------------------------------
(* Requests that store something *)

\* What a scan may store: a number, no lower than the floor of an EVM contract; with the
\* reports it was to count it is flagged, and a program gets 37 at most.
LEMMA StoredScore ==
  ASSUME NEW s \in Tasks, s.facts \in Facts[s.contract][s.family], s.rep \in Reps,
         s.rep.local >= 3 => s.rep.reported, NEW trust \in Scores(s)
  PROVE  /\ trust \in Int /\ Flags(s) \in Nat
         /\ s.rep.local >= 3 => Flags(s) > 0
         /\ Solana(s) /\ s.rep.local > 0 => trust <= 37
         /\ ~Solana(s) => trust >= 28 /\ (Flags(s) = 0 => trust >= 52)
<1>1. s.contract \in Contracts /\ s.family \in Families /\ s.rep.local \in Nat /\ s.rep.flags \in Nat
  BY DEF Tasks, Reps
<1>2. CASE Solana(s)
  <2>1. trust \in SolanaScores(s.facts, s.rep, s.earlier)
    BY <1>2 DEF Scores
  <2>2. trust \in Int /\ (s.rep.local > 0 => trust <= 37)
    BY <1>1, <2>1, ReportedProgramScore
  <2>3. Flags(s) \in Nat /\ (s.rep.local >= 3 => Flags(s) > 0)
    BY <1>2 DEF Flags, SolanaFlags, Weight
  <2> QED BY <1>2, <2>2, <2>3
<1>3. CASE ~Solana(s)
  <2>1. trust \in EvmScores(s.facts, s.rep, s.earlier)
    BY <1>3 DEF Scores
  <2>2. Simulation(s.facts).hidden \in Nat
    BY <1>1, <1>3, HiddenIsCount DEF Solana, Families
  <2>3. trust \in 28..100 /\ (EvmFlags(s.facts, s.rep) = 0 => trust >= 52)
    BY <1>1, <2>1, <2>2, EvmFloor
  <2>4. Flags(s) = EvmFlags(s.facts, s.rep)
    BY <1>3 DEF Flags
  <2>5. Flags(s) \in Nat /\ (s.rep.local >= 3 => Flags(s) > 0)
    BY <2>4 DEF EvmFlags, Weight
  <2> QED BY <1>3, <2>3, <2>4, <2>5
<1> QED BY <1>2, <1>3

\* A new row is the latest of its contract; the other contracts keep theirs.
LEMMA NewRow ==
  ASSUME Inv, NEW r \in Row, scans' = Append(scans, r)
  PROVE  /\ scans' \in Seq(Row)
         /\ Len(scans') = Len(scans) + 1 /\ Len(scans) \in Nat
         /\ DOMAIN scans = 1..Len(scans) /\ DOMAIN scans' = 1..Len(scans')
         /\ scans'[Len(scans')] = r
         /\ \A i \in DOMAIN scans : scans'[i] = scans[i]
         /\ \A c \in Contracts : /\ RowsOf(c)' = RowsOf(c) \cup (IF c = r.contract THEN {Len(scans')} ELSE {})
                                 /\ Latest(c)' = IF c = r.contract THEN Len(scans') ELSE Latest(c)
<1>1. scans \in Seq(Row)
  BY DEF Inv, TypeOK
<1>2. /\ scans' \in Seq(Row)
      /\ Len(scans') = Len(scans) + 1 /\ Len(scans) \in Nat
      /\ DOMAIN scans = 1..Len(scans) /\ DOMAIN scans' = 1..Len(scans')
      /\ scans'[Len(scans')] = r
      /\ \A i \in DOMAIN scans : scans'[i] = scans[i]
  BY <1>1
<1>3. ASSUME NEW c \in Contracts
      PROVE  RowsOf(c)' = RowsOf(c) \cup (IF c = r.contract THEN {Len(scans')} ELSE {})
  <2>1. DOMAIN scans' = DOMAIN scans \cup {Len(scans')}
    BY <1>2
  <2> QED BY <1>2, <2>1 DEF RowsOf
<1>4. ASSUME NEW c \in Contracts
      PROVE  Latest(c)' = IF c = r.contract THEN Len(scans') ELSE Latest(c)
  <2>1. CASE c = r.contract
    <3>1. PICK S : S = RowsOf(c)'
      OBVIOUS
    <3>2. PICK n : n = Len(scans')
      OBVIOUS
    <3>3. S \subseteq Int /\ n \in S /\ \A i \in S : i <= n
      BY <1>2, <1>3, <2>1, <3>1, <3>2 DEF RowsOf
    <3>4. Max(S) = n
      BY <3>3, MaxIs
    <3> QED BY <2>1, <3>1, <3>2, <3>3, <3>4 DEF Latest
  <2>2. CASE c # r.contract
    BY <1>3, <2>2 DEF Latest
  <2> QED BY <2>1, <2>2
<1> QED BY <1>2, <1>3, <1>4

LEMMA InsertKeeps ==
  ASSUME Inv, NEW w \in Workers, Insert(w)
  PROVE  Inv'
<1>1. PICK s : s = task[w]
  OBVIOUS
<1>2. s \in Tasks /\ Held(s) /\ s.pc = "insert"
  BY <1>1 DEF Insert, At, Inv, TypeOK, TasksHeld
<1>3. CASE task' = [task EXCEPT ![w] = None] /\ UNCHANGED scans
  BY <1>3, Moved DEF Insert
<1>4. ASSUME NEW trust \in Scores(s), NEW r,
             r = [contract |-> s.contract, wallet |-> s.wallet, family |-> s.family,
                  trust |-> trust, flags |-> Flags(s)],
             scans' = Append(scans, r),
             Continue(w, [s EXCEPT !.row = Len(scans'), !.facts = None, !.rep = None])
      PROVE  Inv'
  <2>1. /\ s.contract \in Contracts /\ s.wallet \in Wallets \cup {None} /\ s.before \in Nat
        /\ s.family \in Families
        /\ s.facts \in Facts[s.contract][s.family] /\ s.rep \in Reps /\ s.rep.local \in Nat
        /\ s.rep.local >= 3 => s.rep.reported
        /\ "count" \notin s.missed => s.before <= s.rep.local
        /\ s.kind \in ScanKinds
    BY <1>2 DEF Tasks, Held, Reps
  <2>2. /\ trust \in Int /\ Flags(s) \in Nat
        /\ s.rep.local >= 3 => Flags(s) > 0
        /\ Solana(s) /\ s.rep.local > 0 => trust <= 37
        /\ ~Solana(s) => trust >= 28 /\ (Flags(s) = 0 => trust >= 52)
    BY <1>2, <1>4, <2>1, StoredScore
  <2>3. PICK n : n = Len(scans')
    OBVIOUS
  <2>4. /\ r \in Row /\ r.contract = s.contract /\ r.wallet = s.wallet
        /\ r.family = s.family /\ r.trust = trust /\ r.flags = Flags(s)
    BY <1>4, <2>1, <2>2 DEF Row
  <2>5. /\ scans' \in Seq(Row) /\ n = Len(scans) + 1 /\ Len(scans) \in Nat /\ n \in Nat
        /\ DOMAIN scans = 1..Len(scans) /\ DOMAIN scans' = 1..n /\ n \in DOMAIN scans'
        /\ n \notin DOMAIN scans /\ DOMAIN scans' = DOMAIN scans \cup {n}
        /\ scans'[n] = r /\ \A i \in DOMAIN scans : scans'[i] = scans[i]
    BY <1>4, <2>3, <2>4, NewRow
  <2>6. \A c \in Contracts :
          /\ RowsOf(c)' = RowsOf(c) \cup (IF c = s.contract THEN {n} ELSE {})
          /\ Latest(c)' = IF c = s.contract THEN n ELSE Latest(c)
    BY <1>4, <2>3, <2>4, NewRow
  <2>7. PICK t : t = [s EXCEPT !.row = n, !.facts = None, !.rep = None, !.pc = "history"]
    OBVIOUS
  <2>8. task' = [task EXCEPT ![w] = t]
    <3>1. [[s EXCEPT !.row = n, !.facts = None, !.rep = None] EXCEPT !.pc = NextCall(s.kind, @)] = t
      BY <1>2, <2>7 DEF NextCall, Tasks
    <3>2. [s EXCEPT !.row = n, !.facts = None, !.rep = None].kind = s.kind
      BY <1>2 DEF Tasks
    <3> QED BY <1>4, <2>3, <3>1, <3>2 DEF Continue
  <2>9. t \in Tasks
    BY <1>2, <2>5, <2>7 DEF Tasks, Places
  <2>10. /\ t.kind = s.kind /\ t.contract = s.contract /\ t.wallet = s.wallet /\ t.before = s.before
         /\ t.family = s.family
         /\ t.missed = s.missed /\ t.row = n /\ t.pc = "history"
    BY <1>2, <2>7 DEF Tasks
  <2>11. UNCHANGED <<history, reports>>
    BY DEF Insert
  <2>12. \A v \in Workers : task'[v] = IF v = w THEN t ELSE task[v]
    BY <2>8 DEF Inv, TypeOK
  <2>13. TypeOK'
    BY <2>5, <2>8, <2>9, <2>11 DEF Inv, TypeOK
  <2>14. LatestIsLast'
    <3>1. \A c \in Contracts : \A i \in RowsOf(c) : i \in Nat /\ i <= n
      BY <2>5 DEF RowsOf
    <3> QED BY <2>5, <2>6, <3>1 DEF Inv, LatestIsLast
  <2>15. Held(t)'
    <3>1. OwnRow(t)'
      BY <2>1, <2>2, <2>4, <2>5, <2>10 DEF OwnRow, Solana
    <3>2. t.before <= reports'[t.contract]
      BY <1>2, <2>10, <2>11 DEF Held
    <3>3. t.row <= Latest(t.contract)'
      BY <2>1, <2>5, <2>6, <2>10
    <3> QED BY <2>1, <2>10, <3>1, <3>2, <3>3 DEF Held, TrustRead, ReportsRead, ScanKinds
  <2>16. ASSUME NEW u \in Tasks, Held(u) PROVE Held(u)'
    <3>1. u.contract \in Contracts /\ u.row \in Nat
      BY <2>16 DEF Tasks
    <3>2. Latest(u.contract) \in Nat /\ Latest(u.contract) <= Latest(u.contract)'
      <4>1. Latest(u.contract) \in Nat /\ Latest(u.contract) <= n
        BY <2>5, <3>1 DEF Inv, LatestIsLast, RowsOf
      <4> QED BY <2>6, <3>1, <4>1
    <3>3. u.row <= Latest(u.contract)'
      <4>1. u.row <= Latest(u.contract) /\ Latest(u.contract)' \in Nat
        BY <2>5, <2>6, <2>16, <3>1, <3>2 DEF Held
      <4> QED BY <3>1, <3>2, <4>1
    <3>4. OwnRow(u) => OwnRow(u)'
      BY <2>5 DEF OwnRow, Solana
    <3> QED BY <2>11, <2>16, <3>3, <3>4 DEF Held, Scanned, TrustRead, ReportsRead
  <2>17. TasksHeld'
    <3>1. ASSUME NEW v \in Workers, task'[v] # None PROVE Held(task[v])'
      <4>1. PICK u : u = task'[v]
        OBVIOUS
      <4>2. u = t \/ (u \in Tasks /\ Held(u))
        BY <2>12, <3>1, <4>1 DEF Inv, TypeOK, TasksHeld
      <4>3. Held(u)'
        BY <2>15, <2>16, <4>2
      <4> QED BY <4>1, <4>3
    <3> QED BY <3>1 DEF TasksHeld
  <2>18. Lines' /\ HistoryTellsTheScan'
    BY <2>5, <2>11 DEF Inv, Lines, HistoryTellsTheScan
  <2>19. EvmScoreFloor'
    BY <2>2, <2>4, <2>5 DEF Inv, EvmScoreFloor, Solana
  <2>20. Pending'
    <3>1. \A v \in Workers \ {w} : At(v, "history")' => /\ At(v, "history") /\ task'[v] = task[v]
                                                        /\ task[v].row \in DOMAIN scans
      <4>1. ASSUME NEW v \in Workers \ {w}, At(v, "history")'
            PROVE  At(v, "history") /\ task'[v] = task[v] /\ Held(task[v])
        BY <2>12, <4>1 DEF At, Inv, TasksHeld
      <4> QED BY <4>1 DEF At, Held, Scanned, OwnRow
    <3>2. \A i \in DOMAIN history' : history'[i].scan \in DOMAIN scans
      BY <2>11 DEF Inv, Lines
    <3>3. task'[w].row = n
      BY <2>10, <2>12
    <3>4. ASSUME NEW v \in Workers, At(v, "history")'
          PROVE  /\ \A i \in DOMAIN history' : history'[i].scan # task'[v].row
                 /\ \A u \in Workers \ {v} : At(u, "history")' => task'[u].row # task'[v].row
      <4>1. CASE v = w
        BY <2>5, <3>1, <3>2, <3>3, <4>1
      <4>2. CASE v # w
        BY <2>5, <2>11, <3>1, <3>3, <3>4, <4>2 DEF Inv, Pending
      <4> QED BY <4>1, <4>2
    <3> QED BY <3>4 DEF Pending
  <2> QED BY <2>13, <2>14, <2>17, <2>18, <2>19, <2>20 DEF Inv
<1> QED BY <1>1, <1>3, <1>4 DEF Insert

LEMMA RecordHistoryKeeps ==
  ASSUME Inv, NEW w \in Workers, RecordHistory(w)
  PROVE  Inv'
<1>1. PICK s : s = task[w]
  OBVIOUS
<1>2. s \in Tasks /\ Held(s) /\ s.pc = "history"
  BY <1>1 DEF RecordHistory, At, Inv, TypeOK, TasksHeld
<1>3. s.kind \in ScanKinds /\ OwnRow(s) /\ s.row \in Nat
  BY <1>2 DEF Held, Scanned, Tasks
<1>4. PICK next : next = NextCall(s.kind, "history")
  OBVIOUS
<1>5. /\ next \in Places
      /\ next = IF s.kind = "extension" THEN "trust" ELSE "done"
  BY <1>4 DEF NextCall, Places
<1>6. PICK t : t = [s EXCEPT !.pc = next]
  OBVIOUS
<1>7. t \in Tasks
  BY <1>2, <1>5, <1>6 DEF Tasks
<1>8. task' = [task EXCEPT ![w] = t]
  BY <1>1, <1>2, <1>4, <1>6 DEF RecordHistory, Continue
<1>9. Held(t) /\ t.pc # "history"
  <2>1. /\ t.kind = s.kind /\ t.contract = s.contract /\ t.wallet = s.wallet /\ t.before = s.before
        /\ t.family = s.family /\ t.missed = s.missed /\ t.row = s.row /\ t.pc = next
    BY <1>2, <1>6 DEF Tasks
  <2>2. OwnRow(t)
    BY <1>3, <2>1 DEF OwnRow, Solana
  <2> QED BY <1>2, <1>3, <1>5, <2>1, <2>2 DEF Held, TrustRead, ReportsRead, ScanKinds
<1> DEFINE line == [wallet |-> s.wallet, scan |-> s.row, risk |-> 100 - Trust(s.row),
                    issues |-> scans[s.row].flags]
<1>10. history' = history \/ (s.wallet # None /\ history' = Append(history, line))
  BY <1>1 DEF RecordHistory, OwnScan
<1>11. UNCHANGED <<scans, reports>>
  BY DEF RecordHistory
<1>12. /\ s.row \in DOMAIN scans /\ scans[s.row].wallet = line.wallet /\ line.scan = s.row
       /\ line.risk = 100 - scans[s.row].trust /\ line.issues = scans[s.row].flags
       /\ s.wallet # None => line \in Line
  <2>1. s.row # 0 /\ s.wallet \in Wallets \cup {None} /\ scans[s.row] \in Row
    BY <1>2, <1>3 DEF OwnRow, Inv, TypeOK, Tasks
  <2> QED BY <1>3, <2>1 DEF OwnRow, Trust, Line, Row
<1> HIDE DEF line
<1>13. history \in Seq(Line) /\ DOMAIN history = 1..Len(history) /\ Len(history) \in Nat
  BY DEF Inv, TypeOK
<1>14. \A i \in DOMAIN history : history[i].scan # line.scan
  BY <1>1, <1>2, <1>12 DEF RecordHistory, Inv, Pending
<1>15. /\ history' \in Seq(Line) /\ Lines' /\ HistoryTellsTheScan'
       /\ \A v \in Workers \ {w} : At(v, "history") => \A i \in DOMAIN history' : history'[i].scan # task[v].row
  <2>1. At(w, "history")
    BY DEF RecordHistory
  <2>2. CASE history' = history
    BY <1>11, <2>2 DEF Inv, TypeOK, Lines, HistoryTellsTheScan, Pending
  <2>3. CASE s.wallet # None /\ history' = Append(history, line)
    <3>1. PICK n : n = Len(history) + 1
      OBVIOUS
    <3>2. /\ history' \in Seq(Line) /\ DOMAIN history' = DOMAIN history \cup {n} /\ n \notin DOMAIN history
          /\ history'[n] = line /\ \A i \in DOMAIN history : history'[i] = history[i]
      BY <1>12, <1>13, <2>3, <3>1
    <3>3. Lines'
      BY <1>11, <1>12, <3>2 DEF Inv, Lines
    <3>4. HistoryTellsTheScan'
      BY <1>11, <1>12, <1>14, <3>2 DEF Inv, HistoryTellsTheScan
    <3>5. ASSUME NEW v \in Workers \ {w}, At(v, "history"), NEW i \in DOMAIN history'
          PROVE  history'[i].scan # task[v].row
      BY <1>1, <1>12, <2>1, <3>2, <3>5 DEF Inv, Pending
    <3> QED BY <3>2, <3>3, <3>4, <3>5
  <2> QED BY <1>10, <2>2, <2>3
<1> QED BY <1>7, <1>8, <1>9, <1>11, <1>15, MovedWith

LEMMA ReportKeeps ==
  ASSUME Inv, NEW c \in Contracts, Report(c)
  PROVE  Inv'
<1>1. /\ UNCHANGED <<scans, history, task>>
      /\ reports' = [reports EXCEPT ![c] = @ + 1]
  BY DEF Report
<1>2. TypeOK'
  BY <1>1 DEF Inv, TypeOK
<1>3. \A d : RowsOf(d)' = RowsOf(d)
  BY <1>1 DEF RowsOf
<1>4. \A d : Latest(d)' = Latest(d)
  BY <1>3 DEF Latest
<1>5. LatestIsLast'
  BY <1>3, <1>4 DEF Inv, LatestIsLast
<1>6. ASSUME NEW u \in Tasks, Held(u) PROVE Held(u)'
  <2>1. u.contract \in Contracts /\ u.before \in Nat
    BY DEF Tasks
  <2>2. u.before <= reports'[u.contract]
    BY <1>1, <1>6, <2>1 DEF Held, Inv, TypeOK
  <2>3. OwnRow(u) => OwnRow(u)'
    BY <1>1 DEF OwnRow, Solana
  <2> QED BY <1>4, <1>6, <2>2, <2>3 DEF Held, Scanned, TrustRead, ReportsRead
<1>7. TasksHeld'
  <2>1. ASSUME NEW v \in Workers, task'[v] # None PROVE Held(task[v])'
    <3>1. PICK u : u = task'[v]
      OBVIOUS
    <3>2. u \in Tasks /\ Held(u)
      BY <1>1, <2>1, <3>1 DEF Inv, TypeOK, TasksHeld
    <3>3. Held(u)'
      BY <1>6, <3>2
    <3> QED BY <3>1, <3>3
  <2> QED BY <2>1 DEF TasksHeld
<1>8. Lines' /\ Pending' /\ HistoryTellsTheScan' /\ EvmScoreFloor'
  BY <1>1 DEF Inv, Lines, Pending, At, HistoryTellsTheScan, EvmScoreFloor
<1> QED BY <1>2, <1>5, <1>7, <1>8 DEF Inv

\* Restarts lose the requests, crawls leave the scans alone.
LEMMA RestartKeeps ==
  ASSUME Inv, UNCHANGED <<scans, history, reports>>,
         task' = [w \in Workers |-> None] \/ UNCHANGED task
  PROVE  Inv'
<1>1. TypeOK'
  BY DEF Inv, TypeOK
<1>2. LatestIsLast'
  BY SameRows DEF Inv, LatestIsLast
<1>3. \A v \in Workers : task'[v] # None => task'[v] = task[v]
  OBVIOUS
<1>4. TasksHeld'
  <2>1. ASSUME NEW v \in Workers, task'[v] # None PROVE Held(task[v])'
    <3>1. PICK u : u = task'[v]
      OBVIOUS
    <3>2. Held(u)
      BY <1>3, <2>1, <3>1 DEF Inv, TasksHeld
    <3>3. Held(u)'
      BY <3>2, SameRows
    <3> QED BY <3>1, <3>3
  <2> QED BY <2>1 DEF TasksHeld
<1>5. Pending'
  <2>1. \A v \in Workers : At(v, "history")' => At(v, "history") /\ task'[v] = task[v]
    BY <1>3 DEF At
  <2> QED BY <2>1 DEF Inv, Pending
<1>6. Lines' /\ HistoryTellsTheScan' /\ EvmScoreFloor'
  BY DEF Inv, Lines, HistoryTellsTheScan, EvmScoreFloor
<1> QED BY <1>1, <1>2, <1>4, <1>5, <1>6 DEF Inv

-----------------------------------------------------------------------------
(* The theorems *)

LEMMA InitInv == Init => Inv
<1> SUFFICES ASSUME Init PROVE Inv
  OBVIOUS
<1>1. /\ scans = <<>> /\ history = <<>> /\ reports = FirstReports
      /\ task = [w \in Workers |-> None] /\ DOMAIN scans = {} /\ DOMAIN history = {}
  BY DEF Init
<1>2. TypeOK
  BY <1>1, ScansAssumption DEF TypeOK
<1>3. \A c \in Contracts : RowsOf(c) = {} /\ Latest(c) = 0
  BY <1>1 DEF RowsOf, Latest
<1>4. LatestIsLast
  BY <1>3 DEF LatestIsLast
<1>5. TasksHeld /\ Pending
  BY <1>1 DEF TasksHeld, Pending, At
<1>6. Lines /\ HistoryTellsTheScan /\ EvmScoreFloor
  BY <1>1 DEF Lines, HistoryTellsTheScan, EvmScoreFloor
<1> QED BY <1>2, <1>4, <1>5, <1>6 DEF Inv

LEMMA NextInv == Inv /\ [Next]_vars => Inv'
<1> SUFFICES ASSUME Inv, [Next]_vars PROVE Inv'
  OBVIOUS
<1>1. ASSUME NEW w \in Workers, ScanStep(w) PROVE Inv'
  <2>1. ASSUME NEW kind \in Kinds, NEW wallet \in Wallets \cup {None}, NEW contract \in Contracts,
               NEW asked \in Families \cup {None}, NEW reading \in Readings \cup {None},
               Begin(w, kind, wallet, contract, asked, reading)
        PROVE  Inv'
    BY <2>1, BeginKeeps
  <2>2. ASSUME NEW facts, AskProviders(w, facts) PROVE Inv'
    BY <2>2, AskProvidersKeeps
  <2>3. CASE CountReports(w)
    BY <2>3, CountReportsKeeps
  <2>4. CASE CountEarlier(w)
    BY <2>4, CountEarlierKeeps
  <2>5. CASE Insert(w)
    BY <2>5, InsertKeeps
  <2>6. CASE RecordHistory(w)
    BY <2>6, RecordHistoryKeeps
  <2>7. CASE ReadTrust(w)
    BY <2>7, ReadTrustKeeps
  <2>8. CASE ReadReports(w)
    BY <2>8, ReadReportsKeeps
  <2>9. CASE Answer(w)
    BY <2>9, AnswerKeeps
  <2> QED BY <1>1, <2>1, <2>2, <2>3, <2>4, <2>5, <2>6, <2>7, <2>8, <2>9 DEF ScanStep
<1>2. ASSUME NEW c \in Contracts, Report(c) PROVE Inv'
  BY <1>2, ReportKeeps
<1>3. CASE SiteNext /\ UNCHANGED scanVars
  BY <1>3, RestartKeeps DEF scanVars
<1>4. CASE Restart
  BY <1>4, RestartKeeps DEF Restart
<1>5. CASE UNCHANGED vars
  BY <1>5, RestartKeeps DEF vars, scanVars
<1> QED BY <1>1, <1>2, <1>3, <1>4, <1>5 DEF Next, ScanNext

\* What a request has in hand between its calls, whatever the other requests did in
\* between, the failures and the restarts.
THEOREM InvHolds == Spec => []Inv
<1>1. Init => Inv
  BY InitInv
<1>2. Inv /\ [Next]_vars => Inv'
  BY NextInv
<1> QED BY <1>1, <1>2, PTL DEF Spec

\* The lowest scores on the EVM path, for all facts, any number of reports, and any address.
THEOREM EvmFloorHolds == Spec => []EvmScoreFloor
<1>1. Inv => EvmScoreFloor
  BY DEF Inv
<1> QED BY <1>1, InvHolds, PTL

\* No line of the history is about another wallet's scan, and no scan has two, though
\* nothing in the table keeps a second one out.
THEOREM HistoryHolds == Spec => []HistoryTellsTheScan
<1>1. Inv => HistoryTellsTheScan
  BY DEF Inv
<1> QED BY <1>1, InvHolds, PTL

\* No request shows a score older than its own scan, or than the last one stored when it
\* began.
THEOREM CurrentHolds == Spec => []ScoreIsCurrent
<1>1. Inv => ScoreIsCurrent
  BY DEF Inv, TypeOK, TasksHeld, Held, TrustRead, ScoreIsCurrent, Done, At, Tasks
<1> QED BY <1>1, InvHolds, PTL

\* A contract with three reports is shown as malicious even if one of the counts fails.
THEOREM ReportedHolds == Spec => []ReportedIsShown
<1>1. Inv => ReportedIsShown
  <2> SUFFICES ASSUME Inv, NEW w \in Workers, NEW t, t = task[w], Done(w), t.before >= 3
               PROVE  /\ t.kind = "extension" /\ ~({"count", "reports"} \subseteq t.missed)
                           => Malicious(Shown(t), t.reports, scans[t.row].flags)
                      /\ t.kind = "graph" /\ "reports" \notin t.missed
                           => GraphStop(t.reports, Shown(t))
    BY DEF ReportedIsShown
  <2>1. t \in Tasks /\ Held(t) /\ t.pc = "done"
    BY DEF Done, At, Inv, TypeOK, TasksHeld
  <2>2. t.reports \in Nat /\ t.before \in Nat
    BY <2>1 DEF Tasks
  <2>3. t.kind # "scan" /\ "reports" \notin t.missed => t.reports >= 3
    BY <2>1, <2>2 DEF Held, ReportsRead
  <2>4. t.kind = "extension" /\ "count" \notin t.missed => scans[t.row].flags > 0
    BY <2>1 DEF Held, Scanned, ScanKinds, OwnRow
  <2> QED BY <2>3, <2>4 DEF Malicious, GraphStop
<1> QED BY <1>1, InvHolds, PTL

\* On the Solana path, an address with a report of a user is stored with 37 at most.
THEOREM ReportedProgramHolds == Spec => []ReportedProgramIsLow
<1>1. Inv => ReportedProgramIsLow
  <2> SUFFICES ASSUME Inv, NEW w \in Workers, At(w, "history"), Solana(task[w]),
                      task[w].before > 0, "count" \notin task[w].missed
               PROVE  scans[task[w].row].trust <= 37
    BY DEF ReportedProgramIsLow
  <2>1. PICK t : t = task[w]
    OBVIOUS
  <2>2. t \in Tasks /\ Held(t) /\ t.pc = "history"
    BY <2>1 DEF At, Inv, TypeOK, TasksHeld
  <2>3. OwnRow(t)
    BY <2>2 DEF Held, Scanned
  <2> QED BY <2>1, <2>3 DEF OwnRow
<1> QED BY <1>1, InvHolds, PTL

\* Rows, reports and requests keep their types.
THEOREM TypeHolds == Spec => []TypeOK
<1>1. Inv => TypeOK
  BY DEF Inv
<1> QED BY <1>1, InvHolds, PTL

\* Both bounds of the stored scores hold together.
THEOREM BoundsHold == Spec => []ScoreBounds
<1>1. EvmScoreFloor /\ ReportedProgramIsLow => ScoreBounds
  BY DEF ScoreBounds
<1> QED BY <1>1, EvmFloorHolds, ReportedProgramHolds, PTL

-----------------------------------------------------------------------------
(* What is paid *)

\* The rows of a wallet, and its scans that are paid and have no row yet.
Stored(u) == {i \in DOMAIN scans : scans[i].wallet = u}
Unstored == {"facts", "count", "earlier", "insert"}
Open(t, u) == t # None /\ t.pc \in Unstored /\ t.wallet = u
Running(u) == {w \in Workers : Open(task[w], u)}

\* A failed call loses one scan at most, a restart one of each worker.
Balanced(stored, running, charged, lost) ==
  /\ stored + running <= charged
  /\ charged <= stored + running + lost * Cardinality(Workers)

Books == /\ paid \in [Wallets -> Nat] /\ faults \in Nat
         /\ \A u \in Wallets : Balanced(Cardinality(Stored(u)), Cardinality(Running(u)), paid[u], faults)

\* Workers, rows and running scans can be counted.
LEMMA Counted ==
  ASSUME Inv, NEW u
  PROVE  /\ IsFiniteSet(Stored(u)) /\ Cardinality(Stored(u)) \in Nat
         /\ IsFiniteSet(Running(u)) /\ Cardinality(Running(u)) \in Nat
         /\ Cardinality(Workers) \in Nat /\ Cardinality(Running(u)) <= Cardinality(Workers)
<1>1. DOMAIN scans = 1 .. Len(scans) /\ Len(scans) \in Nat
  BY DEF Inv, TypeOK
<1>2. IsFiniteSet(1 .. Len(scans))
  BY <1>1, FS_Interval
<1>3. IsFiniteSet(Stored(u))
  <2>1. Stored(u) \subseteq 1 .. Len(scans)
    BY <1>1 DEF Stored
  <2> QED BY <1>2, <2>1, FS_Subset
<1>4. IsFiniteSet(Running(u)) /\ Cardinality(Running(u)) <= Cardinality(Workers)
  <2>1. Running(u) \subseteq Workers /\ IsFiniteSet(Workers)
    BY ScansAssumption DEF Running
  <2> QED BY <2>1, FS_Subset
<1> QED BY <1>3, <1>4, ScansAssumption, FS_CardinalityType

\* One more failure allows for one more lost scan of each worker.
LEMMA MoreLost ==
  ASSUME NEW f \in Nat, NEW n \in Nat
  PROVE  f * n \in Nat /\ (f + 1) * n = f * n + n
OBVIOUS

\* A step that stores nothing, charges nothing and keeps each scan that runs.
LEMMA SameBooks ==
  ASSUME Inv, Books, UNCHANGED <<scans, paid>>, faults' \in {faults, faults + 1},
         \A u \in Wallets, w \in Workers : Open(task'[w], u) <=> Open(task[w], u)
  PROVE  Books'
<1>1. ASSUME NEW u \in Wallets
      PROVE  Balanced(Cardinality(Stored(u)), Cardinality(Running(u)), paid[u], faults)'
  <2>1. Stored(u)' = Stored(u)
    BY DEF Stored
  <2>2. Running(u)' = Running(u)
    BY DEF Running
  <2>3. PICK n \in Nat : n = Cardinality(Workers)
    BY Counted
  <2>4. PICK s \in Nat, r \in Nat : s = Cardinality(Stored(u)) /\ r = Cardinality(Running(u))
    BY Counted
  <2>5. faults * n \in Nat /\ (faults + 1) * n = faults * n + n
    BY MoreLost DEF Books
  <2>6. s + r <= paid[u] /\ paid[u] <= s + r + faults * n /\ paid[u] \in Nat
    BY <2>3, <2>4 DEF Books, Balanced
  <2>7. s + r <= paid[u] /\ paid[u] <= s + r + faults' * n
    BY <2>5, <2>6
  <2> QED BY <2>1, <2>2, <2>3, <2>4, <2>7 DEF Balanced
<1>2. paid' \in [Wallets -> Nat] /\ faults' \in Nat
  BY DEF Books
<1> QED BY <1>1, <1>2 DEF Books

\* The same for a step of one request.
LEMMA SameBooksOf ==
  ASSUME Inv, Books, UNCHANGED <<scans, paid>>, faults' \in {faults, faults + 1},
         NEW w \in Workers, NEW t, task' = [task EXCEPT ![w] = t],
         \A u \in Wallets : Open(t, u) <=> Open(task[w], u)
  PROVE  Books'
<1>1. \A v \in Workers : task'[v] = IF v = w THEN t ELSE task[v]
  BY DEF Inv, TypeOK
<1> QED BY <1>1, SameBooks

\* The calls before the row, and those after it.
LEMMA CallsOfBooks ==
  ASSUME Inv, Books, UNCHANGED <<scans, paid>>, faults' \in {faults, faults + 1},
         NEW w \in Workers, NEW s, s = task[w], s # None, s.pc \notin {"insert", "done"},
         s.pc = "history" => s.kind \in ScanKinds, s.pc \in Unstored => task'[w] \in Tasks,
         NEW t, DOMAIN t = DOMAIN s, t.kind = s.kind, t.wallet = s.wallet, t.pc = s.pc, Continue(w, t)
  PROVE  Books'
<1>1. s \in Tasks /\ Held(s)
  BY DEF Inv, TypeOK, TasksHeld
<1>2. PICK next : next = NextCall(s.kind, s.pc)
  OBVIOUS
<1>3. next \in Unstored <=> s.pc \in Unstored
  BY <1>1, <1>2 DEF NextCall, Unstored, Tasks, Places
<1>4. PICK r : r = [t EXCEPT !.pc = next]
  OBVIOUS
<1>5. "pc" \in DOMAIN s /\ "wallet" \in DOMAIN s
  BY <1>1 DEF Tasks
<1>6. r.pc = next /\ r.wallet = s.wallet
  BY <1>4, <1>5
<1>7. task' = [task EXCEPT ![w] = r]
  BY <1>2, <1>4 DEF Continue
<1>8. s.pc \in Unstored => r # None
  <2>1. task'[w] = r
    BY <1>7 DEF Inv, TypeOK
  <2> QED BY <2>1, NoTaskAssumption
<1>9. \A u \in Wallets : Open(r, u) <=> Open(s, u)
  BY <1>3, <1>6, <1>8 DEF Open
<1> QED BY <1>7, <1>9, SameBooksOf

LEMMA AskBooks ==
  ASSUME Inv, Books, NEW w \in Workers, NEW facts, AskProviders(w, facts)
  PROVE  Books'
<1>1. PICK s : s = task[w]
  OBVIOUS
<1>2. s \in Tasks /\ s.pc = "facts" /\ s # None
  BY <1>1 DEF AskProviders, At, Inv, TypeOK
<1>3. PICK t : t = [s EXCEPT !.facts = facts]
  OBVIOUS
<1>4. DOMAIN t = DOMAIN s /\ t.kind = s.kind /\ t.wallet = s.wallet /\ t.pc = s.pc
  BY <1>2, <1>3 DEF Tasks
<1>5. Continue(w, t) /\ UNCHANGED <<scans, paid, faults>>
  BY <1>1, <1>3 DEF AskProviders
<1>6. task'[w] \in Tasks
  BY AskProvidersKeeps
<1> QED BY <1>1, <1>2, <1>4, <1>5, <1>6, CallsOfBooks

LEMMA ReportsBooks ==
  ASSUME Inv, Books, NEW w \in Workers, CountReports(w)
  PROVE  Books'
<1>1. PICK s : s = task[w]
  OBVIOUS
<1>2. s \in Tasks /\ s.pc = "count" /\ s # None
  BY <1>1 DEF CountReports, At, Inv, TypeOK
<1>3. task'[w] \in Tasks
  BY CountReportsKeeps
<1>4. UNCHANGED <<scans, paid>> /\ faults' \in {faults, faults + 1}
  BY DEF CountReports, Fault
<1>5. ASSUME NEW r, Continue(w, [s EXCEPT !.rep = r]) PROVE Books'
  <2>1. PICK t : t = [s EXCEPT !.rep = r]
    OBVIOUS
  <2>2. DOMAIN t = DOMAIN s /\ t.kind = s.kind /\ t.wallet = s.wallet /\ t.pc = s.pc
    BY <1>2, <2>1 DEF Tasks
  <2> QED BY <1>1, <1>2, <1>3, <1>4, <1>5, <2>1, <2>2, CallsOfBooks
<1>6. ASSUME NEW r, Continue(w, [s EXCEPT !.rep = r, !.missed = @ \cup {"count"}]) PROVE Books'
  <2>1. PICK t : t = [s EXCEPT !.rep = r, !.missed = @ \cup {"count"}]
    OBVIOUS
  <2>2. DOMAIN t = DOMAIN s /\ t.kind = s.kind /\ t.wallet = s.wallet /\ t.pc = s.pc
    BY <1>2, <2>1 DEF Tasks
  <2> QED BY <1>1, <1>2, <1>3, <1>4, <1>6, <2>1, <2>2, CallsOfBooks
<1> QED BY <1>1, <1>5, <1>6 DEF CountReports

LEMMA EarlierBooks ==
  ASSUME Inv, Books, NEW w \in Workers, CountEarlier(w)
  PROVE  Books'
<1>1. PICK s : s = task[w]
  OBVIOUS
<1>2. s \in Tasks /\ s.pc = "earlier" /\ s # None
  BY <1>1 DEF CountEarlier, At, Inv, TypeOK
<1>3. task'[w] \in Tasks
  BY CountEarlierKeeps
<1>4. UNCHANGED <<scans, paid>> /\ faults' \in {faults, faults + 1}
  BY DEF CountEarlier, Fault
<1>5. CASE Continue(w, s)
  BY <1>1, <1>2, <1>3, <1>4, <1>5, CallsOfBooks
<1>6. ASSUME NEW count, Continue(w, [s EXCEPT !.earlier = count]) PROVE Books'
  <2>1. PICK t : t = [s EXCEPT !.earlier = count]
    OBVIOUS
  <2>2. DOMAIN t = DOMAIN s /\ t.kind = s.kind /\ t.wallet = s.wallet /\ t.pc = s.pc
    BY <1>2, <2>1 DEF Tasks
  <2> QED BY <1>1, <1>2, <1>3, <1>4, <1>6, <2>1, <2>2, CallsOfBooks
<1> QED BY <1>1, <1>5, <1>6 DEF CountEarlier

\* The calls after the row.
LEMMA LaterBooks ==
  ASSUME Inv, Books, NEW w \in Workers, RecordHistory(w) \/ ReadTrust(w) \/ ReadReports(w)
  PROVE  Books'
<1>1. PICK s : s = task[w]
  OBVIOUS
<1>2. s \in Tasks /\ Held(s) /\ s.pc \in {"history", "trust", "reports"} /\ s # None
  BY <1>1 DEF RecordHistory, ReadTrust, ReadReports, At, Inv, TypeOK, TasksHeld
<1>3. s.pc = "history" => s.kind \in ScanKinds
  BY <1>2 DEF Held
<1>4. UNCHANGED <<scans, paid>> /\ faults' \in {faults, faults + 1}
  BY DEF RecordHistory, ReadTrust, ReadReports, Fault
<1>5. s.pc \notin Unstored
  BY <1>2 DEF Unstored
<1>6. ASSUME NEW t, DOMAIN t = DOMAIN s, t.kind = s.kind, t.wallet = s.wallet, t.pc = s.pc,
             Continue(w, t)
      PROVE  Books'
  BY <1>1, <1>2, <1>3, <1>4, <1>5, <1>6, CallsOfBooks
<1>7. CASE Continue(w, s)
  BY <1>6, <1>7
<1>8. ASSUME NEW seen, Continue(w, [s EXCEPT !.seen = seen]) PROVE Books'
  <2>1. PICK t : t = [s EXCEPT !.seen = seen]
    OBVIOUS
  <2>2. DOMAIN t = DOMAIN s /\ t.kind = s.kind /\ t.wallet = s.wallet /\ t.pc = s.pc
    BY <1>2, <2>1 DEF Tasks
  <2> QED BY <1>6, <1>8, <2>1, <2>2
<1>9. ASSUME NEW read, Continue(w, [s EXCEPT !.reports = read]) PROVE Books'
  <2>1. PICK t : t = [s EXCEPT !.reports = read]
    OBVIOUS
  <2>2. DOMAIN t = DOMAIN s /\ t.kind = s.kind /\ t.wallet = s.wallet /\ t.pc = s.pc
    BY <1>2, <2>1 DEF Tasks
  <2> QED BY <1>6, <1>9, <2>1, <2>2
<1>10. ASSUME NEW call, Continue(w, [s EXCEPT !.missed = @ \cup {call}]) PROVE Books'
  <2>1. PICK t : t = [s EXCEPT !.missed = @ \cup {call}]
    OBVIOUS
  <2>2. DOMAIN t = DOMAIN s /\ t.kind = s.kind /\ t.wallet = s.wallet /\ t.pc = s.pc
    BY <1>2, <2>1 DEF Tasks
  <2> QED BY <1>6, <1>10, <2>1, <2>2
<1> QED BY <1>1, <1>7, <1>8, <1>9, <1>10 DEF RecordHistory, ReadTrust, ReadReports

\* The scans that run after a request was replaced.
LEMMA RunningAfter ==
  ASSUME Inv, NEW w \in Workers, NEW t, task' = [task EXCEPT ![w] = t], NEW u
  PROVE  Running(u)' = IF Open(t, u) THEN Running(u) \cup {w} ELSE Running(u) \ {w}
<1>1. \A v \in Workers : task'[v] = IF v = w THEN t ELSE task[v]
  BY DEF Inv, TypeOK
<1>2. \A v \in Workers : Open(task'[v], u) <=> IF v = w THEN Open(t, u) ELSE Open(task[v], u)
  BY <1>1
<1> HIDE DEF Open
<1> QED BY <1>2 DEF Running

LEMMA BeginBooks ==
  ASSUME Inv, Books, NEW w \in Workers, NEW kind \in Kinds, NEW wallet \in Wallets \cup {None},
         NEW contract \in Contracts, NEW asked \in Families \cup {None},
         NEW reading \in Readings \cup {None}, Begin(w, kind, wallet, contract, asked, reading)
  PROVE  Books'
<1>1. PICK t : t = Task(kind, wallet, contract, Family(asked, contract), reading)
  OBVIOUS
<1>2. t.wallet = wallet /\ t.pc = FirstCall(kind)
  BY <1>1 DEF Task
<1>3. /\ task' = [task EXCEPT ![w] = t] /\ task[w] = None /\ UNCHANGED <<scans, faults>>
      /\ paid' = IF kind \in ScanKinds /\ wallet # None THEN Charge(wallet) ELSE paid
  BY <1>1 DEF Begin
<1>4. \A u \in Wallets : ~Open(task[w], u)
  BY <1>3 DEF Open
<1>5. CASE kind \notin ScanKinds \/ wallet = None
  <2>1. \A u \in Wallets : ~Open(t, u)
    BY <1>2, <1>5, ScansAssumption DEF FirstCall, Open, Unstored
  <2> QED BY <1>3, <1>4, <1>5, <2>1, SameBooksOf
<1>6. CASE kind \in ScanKinds /\ wallet # None
  <2>1. wallet \in Wallets /\ paid' = [paid EXCEPT ![wallet] = @ + 1]
    BY <1>3, <1>6 DEF Charge
  <2>2. paid' \in [Wallets -> Nat] /\ faults' \in Nat
        /\ \A u \in Wallets : paid'[u] = IF u = wallet THEN paid[u] + 1 ELSE paid[u]
    BY <1>3, <2>1 DEF Books
  <2>3. t # None
    <3>1. FirstCall(kind) \in Places /\ reports[contract] \in Nat /\ Latest(contract) \in Nat
      BY LatestIsPlace DEF Inv, TypeOK, FirstCall, Places
    <3>2. t \in Tasks
      BY <1>1, <3>1 DEF Task, Tasks, Family, Families
    <3> QED BY <3>2, NoTaskAssumption
  <2>4. \A u \in Wallets : Open(t, u) <=> u = wallet
    BY <1>2, <1>6, <2>3 DEF FirstCall, Open, Unstored
  <2>5. ASSUME NEW u \in Wallets
        PROVE  Balanced(Cardinality(Stored(u)), Cardinality(Running(u)), paid[u], faults)'
    <3>1. Stored(u)' = Stored(u)
      BY <1>3 DEF Stored
    <3>2. Running(u)' = IF u = wallet THEN Running(u) \cup {w} ELSE Running(u) \ {w}
      BY <1>3, <2>4, RunningAfter
    <3>3. w \notin Running(u)
      BY <1>4 DEF Running
    <3>4. Cardinality(Running(u) \cup {w}) = Cardinality(Running(u)) + 1
      BY <3>3, Counted, FS_AddElement
    <3>5. Cardinality(Running(u))' = IF u = wallet THEN Cardinality(Running(u)) + 1
                                                  ELSE Cardinality(Running(u))
      <4>1. Running(u) \ {w} = Running(u)
        BY <3>3
      <4> QED BY <3>2, <3>4, <4>1
    <3>6. PICK n \in Nat : n = Cardinality(Workers)
      BY Counted
    <3>7. PICK s \in Nat, r \in Nat : s = Cardinality(Stored(u)) /\ r = Cardinality(Running(u))
      BY Counted
    <3>8. faults * n \in Nat
      BY MoreLost DEF Books
    <3>9. s + r <= paid[u] /\ paid[u] <= s + r + faults * n /\ paid[u] \in Nat
      BY <3>6, <3>7 DEF Books, Balanced
    <3>10. PICK r2 : r2 = IF u = wallet THEN r + 1 ELSE r
      OBVIOUS
    <3>11. s + r2 <= paid'[u] /\ paid'[u] <= s + r2 + faults * n
      BY <2>2, <3>8, <3>9, <3>10
    <3> QED BY <1>3, <3>1, <3>5, <3>6, <3>7, <3>10, <3>11 DEF Balanced
  <2> QED BY <2>2, <2>5 DEF Books
<1> QED BY <1>5, <1>6

LEMMA InsertBooks ==
  ASSUME Inv, Books, NEW w \in Workers, Insert(w)
  PROVE  Books'
<1>1. PICK s : s = task[w]
  OBVIOUS
<1>2. s \in Tasks /\ Held(s) /\ s.pc = "insert" /\ s # None
  BY <1>1 DEF Insert, At, Inv, TypeOK, TasksHeld
<1>3. \A u \in Wallets : Open(s, u) <=> s.wallet = u
  BY <1>2 DEF Open, Unstored
<1>4. \A u \in Wallets : s.wallet = u <=> w \in Running(u)
  BY <1>1, <1>3 DEF Running
<1>5. ASSUME NEW u, w \in Running(u)
      PROVE  Cardinality(Running(u) \ {w}) = Cardinality(Running(u)) - 1
  BY <1>5, Counted, FS_RemoveElement
<1>6. paid' = paid
  BY DEF Insert
<1>7. CASE Fault /\ task' = [task EXCEPT ![w] = None] /\ UNCHANGED scans
  <2>1. faults' = faults + 1 /\ faults \in Nat /\ faults' \in Nat
    BY <1>7 DEF Fault, Books
  <2>2. ASSUME NEW u \in Wallets
        PROVE  Balanced(Cardinality(Stored(u)), Cardinality(Running(u)), paid[u], faults)'
    <3>1. Stored(u)' = Stored(u)
      BY <1>7 DEF Stored
    <3>2. Running(u)' = Running(u) \ {w}
      BY <1>7, RunningAfter DEF Open
    <3>3. Cardinality(Running(u))' \in {Cardinality(Running(u)), Cardinality(Running(u)) - 1}
      <4>1. CASE w \in Running(u)
        BY <1>5, <3>2, <4>1
      <4>2. CASE w \notin Running(u)
        <5>1. Running(u) \ {w} = Running(u)
          BY <4>2
        <5> QED BY <3>2, <5>1
      <4> QED BY <4>1, <4>2
    <3>4. PICK n \in Nat : n = Cardinality(Workers)
      BY Counted
    <3>5. n >= 1
      <4>1. Workers # {} /\ IsFiniteSet(Workers)
        BY ScansAssumption
      <4> QED BY <3>4, <4>1, FS_EmptySet
    <3>6. PICK q \in Nat, r \in Nat : q = Cardinality(Stored(u)) /\ r = Cardinality(Running(u))
      BY Counted
    <3>7. PICK r2 : r2 \in {r, r - 1} /\ r2 = Cardinality(Running(u))'
      BY <3>3, <3>6
    <3>8. faults * n \in Nat /\ (faults + 1) * n = faults * n + n
      BY MoreLost DEF Books
    <3>9. q + r <= paid[u] /\ paid[u] <= q + r + faults * n /\ paid[u] \in Nat
      BY <3>4, <3>6 DEF Books, Balanced
    <3>10. q + r2 <= paid[u] /\ paid[u] <= q + r2 + faults' * n
      BY <2>1, <3>5, <3>7, <3>8, <3>9
    <3> QED BY <1>6, <3>1, <3>4, <3>6, <3>7, <3>10 DEF Balanced
  <2> QED BY <1>6, <2>1, <2>2 DEF Books
<1>8. ASSUME NEW trust \in Scores(s), NEW r,
             r = [contract |-> s.contract, wallet |-> s.wallet, family |-> s.family,
                  trust |-> trust, flags |-> Flags(s)],
             scans' = Append(scans, r), UNCHANGED faults,
             Continue(w, [s EXCEPT !.row = Len(scans'), !.facts = None, !.rep = None])
      PROVE  Books'
  <2>1. PICK t : t = [s EXCEPT !.row = Len(scans'), !.facts = None, !.rep = None]
    OBVIOUS
  <2>2. PICK v : v = [t EXCEPT !.pc = "history"]
    OBVIOUS
  <2>3. /\ t.kind = s.kind /\ t.pc = "insert" /\ v.pc = "history"
    BY <1>2, <2>1, <2>2 DEF Tasks
  <2>4. task' = [task EXCEPT ![w] = v]
    BY <1>8, <2>1, <2>2, <2>3 DEF Continue, NextCall
  <2>5. \A u : Running(u)' = Running(u) \ {w}
    BY <2>3, <2>4, RunningAfter DEF Open, Unstored
  <2>6. /\ DOMAIN scans = 1 .. Len(scans) /\ Len(scans) \in Nat
        /\ DOMAIN scans' = 1 .. Len(scans) + 1 /\ scans'[Len(scans) + 1] = r
        /\ \A i \in DOMAIN scans : scans'[i] = scans[i]
    BY <1>8 DEF Inv, TypeOK
  <2>7. PICK last : last = Len(scans) + 1
    OBVIOUS
  <2>8. /\ last \notin DOMAIN scans /\ DOMAIN scans' = DOMAIN scans \cup {last}
        /\ scans'[last].wallet = s.wallet
    BY <1>8, <2>6, <2>7
  <2>9. ASSUME NEW u \in Wallets
        PROVE  Balanced(Cardinality(Stored(u)), Cardinality(Running(u)), paid[u], faults)'
    <3>1. Stored(u)' = IF s.wallet = u THEN Stored(u) \cup {last} ELSE Stored(u)
      BY <2>6, <2>8 DEF Stored
    <3>2. last \notin Stored(u)
      BY <2>8 DEF Stored
    <3>3. Cardinality(Stored(u) \cup {last}) = Cardinality(Stored(u)) + 1
      BY <3>2, Counted, FS_AddElement
    <3>4. PICK q \in Nat, k \in Nat : q = Cardinality(Stored(u)) /\ k = Cardinality(Running(u))
      BY Counted
    <3>5. CASE s.wallet = u
      <4>1. Cardinality(Stored(u))' = q + 1
        BY <3>1, <3>3, <3>4, <3>5
      <4>2. Cardinality(Running(u))' = k - 1
        BY <1>4, <1>5, <2>5, <3>4, <3>5
      <4>3. (q + 1) + (k - 1) = q + k
        OBVIOUS
      <4>4. Balanced(q, k, paid[u], faults)
        BY <3>4 DEF Books
      <4> QED BY <1>6, <1>8, <4>1, <4>2, <4>3, <4>4 DEF Balanced
    <3>6. CASE s.wallet # u
      <4>1. Running(u)' = Running(u) /\ Stored(u)' = Stored(u)
        BY <1>4, <2>5, <3>1, <3>6
      <4> QED BY <1>6, <1>8, <4>1 DEF Books, Balanced
    <3> QED BY <3>5, <3>6
  <2> QED BY <1>6, <1>8, <2>9 DEF Books
<1> QED BY <1>1, <1>7, <1>8 DEF Insert

\* An answer ends a request that has its row, or needs none.
LEMMA AnswerBooks ==
  ASSUME Inv, Books, NEW w \in Workers, Answer(w)
  PROVE  Books'
<1>1. task' = [task EXCEPT ![w] = None] /\ UNCHANGED <<scans, paid, faults>>
  BY DEF Answer
<1>2. \A u \in Wallets : ~Open(task[w], u) /\ ~Open(None, u)
  BY DEF Answer, Done, At, Open, Unstored
<1> QED BY <1>1, <1>2, SameBooksOf

\* A stop of the process loses the scans that run, of each worker one at most.
LEMMA RestartBooks ==
  ASSUME Inv, Books, Restart
  PROVE  Books'
<1>1. /\ task' = [w \in Workers |-> None] /\ UNCHANGED <<scans, paid>>
      /\ faults' = faults + 1 /\ faults \in Nat /\ faults' \in Nat
  BY DEF Restart, Fault, Books
<1>2. ASSUME NEW u \in Wallets
      PROVE  Balanced(Cardinality(Stored(u)), Cardinality(Running(u)), paid[u], faults)'
  <2>1. Stored(u)' = Stored(u)
    BY <1>1 DEF Stored
  <2>2. Running(u)' = {}
    BY <1>1 DEF Running, Open
  <2>3. Cardinality(Running(u))' = 0
    BY <2>2, FS_EmptySet
  <2>4. PICK n \in Nat : n = Cardinality(Workers)
    BY Counted
  <2>5. PICK q \in Nat, r \in Nat : /\ q = Cardinality(Stored(u)) /\ r = Cardinality(Running(u))
                                    /\ r <= n
    BY <2>4, Counted
  <2>6. faults * n \in Nat /\ (faults + 1) * n = faults * n + n
    BY MoreLost DEF Books
  <2>7. q + r <= paid[u] /\ paid[u] <= q + r + faults * n /\ paid[u] \in Nat
    BY <2>4, <2>5 DEF Books, Balanced
  <2>8. q + 0 <= paid[u] /\ paid[u] <= q + 0 + faults' * n
    BY <1>1, <2>5, <2>6, <2>7
  <2> QED BY <1>1, <2>1, <2>3, <2>4, <2>5, <2>8 DEF Balanced
<1> QED BY <1>1, <1>2 DEF Books

\* Nothing is paid at the start, and nothing stored.
LEMMA InitBooks == Init => Books
<1> SUFFICES ASSUME Init PROVE Books
  OBVIOUS
<1>1. /\ scans = <<>> /\ paid = [u \in Wallets |-> 0] /\ faults = 0
      /\ task = [w \in Workers |-> None]
  BY DEF Init
<1>2. Inv
  BY InitInv
<1>3. ASSUME NEW u \in Wallets
      PROVE  Balanced(Cardinality(Stored(u)), Cardinality(Running(u)), paid[u], faults)
  <2>1. Stored(u) = {} /\ Running(u) = {}
    BY <1>1 DEF Stored, Running, Open
  <2>2. Cardinality(Stored(u)) = 0 /\ Cardinality(Running(u)) = 0
    BY <2>1, FS_EmptySet
  <2>3. PICK n \in Nat : n = Cardinality(Workers)
    BY <1>2, Counted
  <2>4. 0 + 0 <= 0 /\ 0 <= 0 + 0 + 0 * n
    OBVIOUS
  <2> QED BY <1>1, <2>2, <2>3, <2>4 DEF Balanced
<1> QED BY <1>1, <1>3 DEF Books

LEMMA NextBooks == Inv /\ Books /\ [Next]_vars => Books'
<1> SUFFICES ASSUME Inv, Books, [Next]_vars PROVE Books'
  OBVIOUS
<1>1. ASSUME NEW w \in Workers, ScanStep(w) PROVE Books'
  <2>1. ASSUME NEW kind \in Kinds, NEW wallet \in Wallets \cup {None}, NEW contract \in Contracts,
               NEW asked \in Families \cup {None},
               NEW reading \in Readings \cup {None}, Begin(w, kind, wallet, contract, asked, reading)
        PROVE  Books'
    BY <2>1, BeginBooks
  <2>2. ASSUME NEW facts, AskProviders(w, facts) PROVE Books'
    BY <2>2, AskBooks
  <2>3. CASE CountReports(w)
    BY <2>3, ReportsBooks
  <2>4. CASE CountEarlier(w)
    BY <2>4, EarlierBooks
  <2>5. CASE Insert(w)
    BY <2>5, InsertBooks
  <2>6. CASE RecordHistory(w) \/ ReadTrust(w) \/ ReadReports(w)
    BY <2>6, LaterBooks
  <2>7. CASE Answer(w)
    BY <2>7, AnswerBooks
  <2> QED BY <1>1, <2>1, <2>2, <2>3, <2>4, <2>5, <2>6, <2>7 DEF ScanStep
<1>2. ASSUME UNCHANGED <<scans, paid, task, faults>> PROVE Books'
  <2>1. \A u \in Wallets, w \in Workers : Open(task'[w], u) <=> Open(task[w], u)
    BY <1>2
  <2> QED BY <1>2, <2>1, SameBooks
<1>3. ASSUME NEW c \in Contracts, Report(c) PROVE Books'
  BY <1>2, <1>3 DEF Report
<1>4. CASE SiteNext /\ UNCHANGED scanVars
  BY <1>2, <1>4 DEF scanVars
<1>5. CASE Restart
  BY <1>5, RestartBooks
<1>6. CASE UNCHANGED vars
  BY <1>2, <1>6 DEF vars, scanVars
<1> QED BY <1>1, <1>3, <1>4, <1>5, <1>6 DEF Next, ScanNext

\* What a wallet paid for is stored, or runs, or was lost: a failed call loses one scan
\* at most and a restart one of each worker, and no scan is stored without a charge.
THEOREM PaidHolds == Spec => []PaidIsStored
<1>1. Inv /\ Books => PaidIsStored
  <2> SUFFICES ASSUME Inv, Books, NEW u \in Wallets
               PROVE  Balanced(Cardinality({i \in DOMAIN scans : scans[i].wallet = u}),
                               Cardinality({w \in Workers : \E call \in {"facts", "count", "earlier", "insert"} :
                                                               At(w, call) /\ task[w].wallet = u}),
                               paid[u], faults)
    BY DEF PaidIsStored, Balanced
  <2>1. {w \in Workers : \E call \in {"facts", "count", "earlier", "insert"} :
                            At(w, call) /\ task[w].wallet = u} = Running(u)
    BY DEF At, Running, Open, Unstored
  <2>2. {i \in DOMAIN scans : scans[i].wallet = u} = Stored(u)
    BY DEF Stored
  <2> QED BY <2>1, <2>2 DEF Books
<1>2. Init => Books
  BY InitBooks
<1>3. Inv /\ Books /\ [Next]_vars => Books'
  BY NextBooks
<1> QED BY <1>1, <1>2, <1>3, InvHolds, NextInv, PTL DEF Spec

-----------------------------------------------------------------------------
(* The crawl of a site                                                      *)

\* Induction over the natural numbers, for a set of them.
LEMMA NumbersAre ==
  ASSUME NEW G, 0 \in G, \A n \in Nat : n \in G => n + 1 \in G
  PROVE  Nat \subseteq G
<1> DEFINE Below == {p \in Nat \X Nat : p[1] < p[2]}
           Bad == Nat \ G
<1>1. IsWellFoundedOn(Below, Nat)
  BY NatLessThanWellFounded DEF OpToRel
<1> SUFFICES ASSUME Bad # {} PROVE FALSE
  OBVIOUS
<1>2. PICK n \in Bad : \A k \in Bad : <<k, n>> \notin Below
  <2>1. Bad \subseteq Nat
    OBVIOUS
  <2> HIDE DEF Below, Bad
  <2> QED BY <1>1, <2>1, WFMin
<1>3. n # 0 /\ n \in Nat /\ n - 1 \in Nat /\ <<n - 1, n>> \in Below
  OBVIOUS
<1>4. n - 1 \in G
  BY <1>2, <1>3
<1> QED BY <1>3, <1>4

\* A queue of a crawl of url that has visited so many pages.
Fits(queue, url, limit, pages) ==
  /\ queue \in Seq(Urls)
  /\ \A i \in DOMAIN queue : Host[queue[i]] = Host[url]
  /\ Len(queue) + pages <= 3 * limit

\* A link joins a queue that has room for it.
LEMMA AppendFits ==
  ASSUME NEW queue, NEW url, NEW limit \in Nat, NEW pages \in Nat, Fits(queue, url, limit, pages),
         NEW link \in Urls, Host[link] = Host[url], Len(queue) + pages < 3 * limit
  PROVE  Fits(Append(queue, link), url, limit, pages)
<1>1. queue \in Seq(Urls) /\ Len(queue) \in Nat
  BY DEF Fits
<1>2. PICK q : q = Append(queue, link)
  OBVIOUS
<1>3. q \in Seq(Urls) /\ Len(q) = Len(queue) + 1
  BY <1>1, <1>2
<1>4. ASSUME NEW i \in DOMAIN q PROVE Host[q[i]] = Host[url]
  <2>1. \/ i = Len(queue) + 1
        \/ i \in DOMAIN queue /\ q[i] = queue[i]
    BY <1>1, <1>2, <1>3
  <2>2. q[Len(queue) + 1] = link
    BY <1>1, <1>2
  <2> QED BY <2>1, <2>2 DEF Fits
<1> QED BY <1>1, <1>2, <1>3, <1>4 DEF Fits

\* The links that join leave it a queue of the crawl, however many there are.
LEMMA JoinedFits ==
  ASSUME NEW base \in Urls, NEW links \in Seq(Hrefs), NEW limit \in Nat, NEW visited,
         Cardinality(visited) \in Nat, NEW queue, Fits(queue, base, limit, Cardinality(visited))
  PROVE  Fits(Joined(base, links, limit, queue, visited), base, limit, Cardinality(visited))
<1> DEFINE step(f, n) == IF n = 0 THEN queue
                         ELSE LET link == Joins[base][links[n]]
                              IN  IF /\ Host[link] = Host[base] /\ ~Seen(link, visited)
                                     /\ Room(limit, f[n - 1], visited)
                                  THEN Append(f[n - 1], link)
                                  ELSE f[n - 1]
           Loops(f, n) == f = [k \in 0..n |-> step(f, k)]
           G == {n \in Nat : \E f : Loops(f, n)}
<1>1. \E f : Loops(f, Len(links))
  <2>1. 0 \in G
    <3>1. PICK f : f = [k \in 0..0 |-> queue]
      OBVIOUS
    <3>2. Loops(f, 0)
      BY <3>1
    <3> QED BY <3>2
  <2>2. ASSUME NEW n \in Nat, n \in G PROVE n + 1 \in G
    <3>1. PICK f : Loops(f, n)
      BY <2>2
    <3>2. PICK g : g = [k \in 0..(n + 1) |-> step(f, k)]
      OBVIOUS
    <3>3. \A k \in 0..n : g[k] = f[k]
      <4> HIDE DEF step
      <4> QED BY <3>1, <3>2
    <3>4. \A k \in 0..(n + 1) : step(f, k) = step(g, k)
      <4>1. \A k \in 0..(n + 1) : k # 0 => f[k - 1] = g[k - 1]
        BY <3>3
      <4> QED BY <4>1
    <3>5. Loops(g, n + 1)
      <4> HIDE DEF step
      <4> QED BY <3>2, <3>4
    <3> HIDE DEF Loops
    <3> QED BY <3>5
  <2>3. Nat \subseteq G
    <3> HIDE DEF G
    <3> QED BY <2>1, <2>2, NumbersAre
  <2>4. Len(links) \in G
    <3> HIDE DEF G
    <3> QED BY <2>3
  <2> HIDE DEF Loops
  <2> QED BY <2>4
<1>2. PICK f : f = CHOOSE g : Loops(g, Len(links))
  OBVIOUS
<1>3. Loops(f, Len(links))
  <2> HIDE DEF Loops
  <2> QED BY <1>1, <1>2
<1>4. Joined(base, links, limit, queue, visited) = f[Len(links)]
  BY <1>2, Zenon DEF Joined
<1> DEFINE H == {n \in Nat : n <= Len(links) => Fits(f[n], base, limit, Cardinality(visited))}
<1>5. \A n \in 0..Len(links) : f[n] = step(f, n)
  <2> HIDE DEF step
  <2> QED BY <1>3
<1>6. 0 \in H
  BY <1>5
<1>7. ASSUME NEW n \in Nat, n \in H PROVE n + 1 \in H
  <2> SUFFICES ASSUME n + 1 <= Len(links)
               PROVE  Fits(f[n + 1], base, limit, Cardinality(visited))
    OBVIOUS
  <2>1. PICK m \in 0..Len(links) : m = n + 1 /\ m # 0
    OBVIOUS
  <2>2. PICK link : link = Joins[base][links[m]]
    OBVIOUS
  <2>3. Fits(f[n], base, limit, Cardinality(visited)) /\ link \in Urls /\ m - 1 = n
    <3>1. links[m] \in Hrefs
      BY <2>1
    <3>2. Joins \in [Urls -> [Hrefs -> Urls]]
      BY SitesAssumption
    <3>3. link \in Urls
      BY <2>2, <3>1, <3>2
    <3> QED BY <1>7, <2>1, <3>3
  <2>4. f[m] = IF /\ Host[link] = Host[base] /\ ~Seen(link, visited)
                  /\ Room(limit, f[n], visited)
               THEN Append(f[n], link) ELSE f[n]
    BY <1>5, <2>1, <2>2, <2>3
  <2>5. Room(limit, f[n], visited) => Len(f[n]) + Cardinality(visited) < 3 * limit
    BY DEF Room
  <2>6. Fits(f[m], base, limit, Cardinality(visited))
    BY <2>3, <2>4, <2>5, AppendFits
  <2> QED BY <2>1, <2>6
<1>8. Nat \subseteq H
  <2> HIDE DEF H
  <2> QED BY <1>6, <1>7, NumbersAre
<1>9. Len(links) \in H
  BY <1>8
<1> QED BY <1>4, <1>9

\* What a request for url with this limit may be given.
IsResult(r, url, limit) == url \in r.pages /\ Cardinality(r.pages) <= limit

\* A crawl: until it has read the page it was asked for, that page is all its queue.
IsCrawl(t) ==
  /\ DOMAIN t = {"url", "limit", "queue", "visited", "issues", "result"}
  /\ t.url \in Urls /\ t.limit \in Nat \ {0}
  /\ IsFiniteSet(t.visited) /\ Cardinality(t.visited) <= t.limit
  /\ \A u \in t.visited : Host[u] = Host[t.url]
  /\ Fits(t.queue, t.url, t.limit, Cardinality(t.visited))
  /\ \/ t.url \in t.visited
     \/ t.visited = {} /\ t.queue = <<t.url>>
  /\ t.result # None => IsResult(t.result, t.url, t.limit)

\* The crawls, and what the cache holds for each page and limit.
Crawls ==
  /\ DOMAIN crawl = Crawlers /\ DOMAIN siteCache = Keys
  /\ \A c \in Crawlers : crawl[c] # None => IsCrawl(crawl[c])
  /\ \A url \in Urls, limit \in Nat :
        Key(url, limit) \in Keys /\ siteCache[Key(url, limit)] # None =>
            IsResult(siteCache[Key(url, limit)].result, url, limit)

\* The limit of a crawl is a page at least, and a key of the cache.
LEMMA LimitIs ==
  ASSUME NEW asked \in Limits
  PROVE  Limit(asked) \in Nat \ {0} /\ \A url \in Urls : Key(url, Limit(asked)) \in Keys
<1>1. Limit(asked) \in Nat \ {0}
  <2>1. CASE asked = None
    BY <2>1 DEF Limit
  <2>2. CASE asked # None
    <3>1. asked \in Int
      BY <2>2, SitesAssumption
    <3>2. PICK n \in Int : n = Min({asked, 10})
      BY <3>1, MinOfTwo
    <3>3. Max({1, n}) = IF 1 >= n THEN 1 ELSE n
      BY MaxOfTwo
    <3> QED BY <2>2, <3>2, <3>3 DEF Limit
  <2> QED BY <2>1, <2>2
<1> QED BY <1>1 DEF Key, Keys

\* A step of one crawl leaves the others alone.
LEMMA CrawlMoved ==
  ASSUME Crawls, NEW c \in Crawlers, NEW t, crawl' = [crawl EXCEPT ![c] = t],
         t # None => IsCrawl(t), UNCHANGED siteCache
  PROVE  Crawls'
BY DEF Crawls, IsCrawl, IsResult, Fits, Key, Keys

\* A request begins with the page it asked for, or with what is cached for it.
LEMMA StartSiteKeeps ==
  ASSUME Crawls, NEW c \in Crawlers, NEW url \in Urls, NEW asked \in Limits,
         StartSite(c, url, asked)
  PROVE  Crawls'
<1>1. PICK limit : limit = Limit(asked)
  OBVIOUS
<1>2. limit \in Nat \ {0} /\ Key(url, limit) \in Keys
  BY <1>1, LimitIs
<1>3. PICK result : result = IF Cached(Key(url, limit)) THEN siteCache[Key(url, limit)].result
                                                        ELSE None
  OBVIOUS
<1>4. result # None => IsResult(result, url, limit)
  BY <1>2, <1>3 DEF Crawls, Cached
<1>5. PICK t : t = [url |-> url, limit |-> limit, queue |-> <<url>>, visited |-> {},
                    issues |-> {}, result |-> result]
  OBVIOUS
<1>6. crawl' = [crawl EXCEPT ![c] = t] /\ UNCHANGED siteCache
  BY <1>1, <1>3, <1>5, Zenon DEF StartSite
<1>7. IsFiniteSet({}) /\ Cardinality({}) = 0
  BY FS_EmptySet
<1>8. Fits(<<url>>, url, limit, 0)
  BY <1>2 DEF Fits
<1>9. IsCrawl(t)
  BY <1>2, <1>4, <1>5, <1>7, <1>8 DEF IsCrawl
<1> QED BY <1>6, <1>9, CrawlMoved

\* What is left of a queue is one, shorter by a page.
LEMMA TailFits ==
  ASSUME NEW queue, NEW url, NEW limit \in Nat, NEW pages \in Nat, Fits(queue, url, limit, pages),
         queue # <<>>
  PROVE  /\ Head(queue) \in Urls /\ Host[Head(queue)] = Host[url]
         /\ Fits(Tail(queue), url, limit, pages + 1) /\ Fits(Tail(queue), url, limit, pages)
<1>1. queue \in Seq(Urls) /\ Len(queue) \in Nat /\ Len(queue) # 0
  BY DEF Fits
<1>2. Head(queue) = queue[1] /\ 1 \in DOMAIN queue
  BY <1>1
<1>3. PICK q : q = Tail(queue)
  OBVIOUS
<1>4. /\ q \in Seq(Urls) /\ Len(q) = Len(queue) - 1
      /\ \A i \in DOMAIN q : q[i] = queue[i + 1] /\ i + 1 \in DOMAIN queue
  BY <1>1, <1>3
<1> QED BY <1>1, <1>2, <1>3, <1>4 DEF Fits

\* A page that was read before is passed over.
LEMMA SkipKeeps ==
  ASSUME Crawls, NEW c \in Crawlers, Skip(c)
  PROVE  Crawls'
<1>1. PICK s : s = crawl[c]
  OBVIOUS
<1>2. IsCrawl(s) /\ s.queue # <<>> /\ Head(s.queue) \in s.visited
  BY <1>1 DEF Skip, Crawling, Crawls, Seen
<1>3. PICK queue : queue = Tail(s.queue)
  OBVIOUS
<1>4. PICK t : t = [s EXCEPT !.queue = queue]
  OBVIOUS
<1>5. crawl' = [crawl EXCEPT ![c] = t] /\ UNCHANGED siteCache
  BY <1>1, <1>3, <1>4 DEF Skip, Crawls, IsCrawl
<1>6. Cardinality(s.visited) \in Nat /\ s.limit \in Nat
  BY <1>2, FS_CardinalityType DEF IsCrawl
<1>7. Fits(queue, s.url, s.limit, Cardinality(s.visited))
  BY <1>2, <1>3, <1>6, TailFits DEF IsCrawl
<1>8. s.url \in s.visited
  BY <1>2 DEF IsCrawl
<1>9. /\ DOMAIN t = DOMAIN s /\ t.queue = queue /\ t.url = s.url /\ t.limit = s.limit
      /\ t.visited = s.visited /\ t.result = s.result
  BY <1>2, <1>4 DEF IsCrawl
<1>10. IsCrawl(t)
  BY <1>2, <1>7, <1>8, <1>9 DEF IsCrawl
<1> QED BY <1>5, <1>10, CrawlMoved

\* A page that is asked for is of the host, is new, and fits; so do the links of what is
\* read in its place.
LEMMA FetchKeeps ==
  ASSUME Crawls, NEW c \in Crawlers, NEW read \in Urls, NEW answer, Fetch(c, read, answer)
  PROVE  Crawls'
<1>1. PICK s : s = crawl[c]
  OBVIOUS
<1>2. IsCrawl(s) /\ s.queue # <<>> /\ Cardinality(s.visited) < s.limit
  BY <1>1 DEF Fetch, Crawling, Crawls
<1>3. PICK url : url = Head(s.queue)
  OBVIOUS
<1>4. PICK rest : rest = Tail(s.queue)
  OBVIOUS
<1>5. PICK visited : visited = s.visited \cup {url}
  OBVIOUS
<1>6. url \notin s.visited /\ answer \in {Failed} \cup Pages[read] /\ s.result = None
  BY <1>1, <1>3 DEF Fetch, Seen, Crawling
<1>7. s.limit \in Nat /\ Cardinality(s.visited) \in Nat
  BY <1>2, FS_CardinalityType DEF IsCrawl
<1>8. IsFiniteSet(visited) /\ Cardinality(visited) = Cardinality(s.visited) + 1
  BY <1>2, <1>5, <1>6, FS_AddElement DEF IsCrawl
<1>9. /\ url \in Urls /\ Host[url] = Host[s.url]
      /\ Fits(rest, s.url, s.limit, Cardinality(visited))
  BY <1>2, <1>3, <1>4, <1>7, <1>8, TailFits DEF IsCrawl
<1>10. PICK queue : queue = IF answer.kind = "page"
                            THEN Joined(url, answer.links, s.limit, rest, visited) ELSE rest
  OBVIOUS
<1>11. Fits(queue, s.url, s.limit, Cardinality(visited))
  <2>1. answer.kind = "page" => answer.links \in Seq(Hrefs)
    BY <1>6, SitesAssumption DEF PossibleAnswers, Failed
  <2>2. Fits(rest, url, s.limit, Cardinality(visited))
    BY <1>9 DEF Fits
  <2>3. Cardinality(visited) \in Nat
    BY <1>7, <1>8
  <2>4. answer.kind = "page" =>
          Fits(Joined(url, answer.links, s.limit, rest, visited), url, s.limit, Cardinality(visited))
    BY <1>7, <1>9, <2>1, <2>2, <2>3, JoinedFits
  <2>5. answer.kind = "page" =>
          Fits(Joined(url, answer.links, s.limit, rest, visited), s.url, s.limit, Cardinality(visited))
    BY <1>9, <2>4 DEF Fits
  <2> QED BY <1>9, <1>10, <2>5
<1>12. PICK issues : issues = s.issues \cup PageIssues(url, answer)
  OBVIOUS
<1>13. PICK t : t = [s EXCEPT !.queue = queue, !.visited = visited, !.issues = issues]
  OBVIOUS
<1>14. crawl' = [crawl EXCEPT ![c] = t] /\ UNCHANGED siteCache
  BY <1>1, <1>2, <1>3, <1>4, <1>5, <1>10, <1>12, <1>13 DEF Fetch, Base, Crawls, IsCrawl
<1>15. /\ DOMAIN t = DOMAIN s /\ t.queue = queue /\ t.url = s.url /\ t.limit = s.limit
       /\ t.visited = visited /\ t.result = s.result
  BY <1>2, <1>13 DEF IsCrawl
<1>16. s.url \in visited
  BY <1>2, <1>3, <1>5 DEF IsCrawl
<1>17. IsCrawl(t)
  BY <1>2, <1>5, <1>6, <1>7, <1>8, <1>9, <1>11, <1>15, <1>16 DEF IsCrawl
<1> QED BY <1>14, <1>17, CrawlMoved

\* The result of a crawl is stored for its page and limit.
LEMMA FinishKeeps ==
  ASSUME Crawls, NEW c \in Crawlers, Finish(c)
  PROVE  Crawls'
<1>1. PICK s : s = crawl[c]
  OBVIOUS
<1>2. IsCrawl(s) /\ (s.queue = <<>> \/ Cardinality(s.visited) >= s.limit)
  BY <1>1 DEF Finish, Crawling, Crawls
<1>3. PICK result : result = [url |-> s.url, pages |-> s.visited, score |-> SiteScore(s.issues),
                              safety |-> Band(SiteScore(s.issues))]
  OBVIOUS
<1>4. s.url \in s.visited
  <2>1. Cardinality({}) = 0
    BY FS_EmptySet
  <2>2. s.limit \in Nat /\ s.limit # 0 /\ <<s.url>> # <<>>
    BY <1>2 DEF IsCrawl
  <2>3. s.visited = {} => s.queue # <<s.url>>
    <3> SUFFICES ASSUME s.visited = {}, s.queue = <<s.url>> PROVE FALSE
      OBVIOUS
    <3>1. Cardinality(s.visited) = 0 /\ s.queue # <<>>
      BY <2>1, <2>2
    <3> QED BY <1>2, <2>2, <3>1
  <2> QED BY <1>2, <2>3 DEF IsCrawl
<1>5. IsResult(result, s.url, s.limit)
  BY <1>2, <1>3, <1>4 DEF IsCrawl, IsResult
<1>6. PICK entry : entry = [at |-> time, result |-> result]
  OBVIOUS
<1>7. siteCache' = [siteCache EXCEPT ![Key(s.url, s.limit)] = entry]
  BY <1>1, <1>3, <1>6 DEF Finish
<1>8. PICK t : t = [s EXCEPT !.result = result, !.queue = <<>>]
  OBVIOUS
<1>9. crawl' = [crawl EXCEPT ![c] = t]
  BY <1>1, <1>2, <1>3, <1>8 DEF Finish, Crawls, IsCrawl
<1>10. /\ DOMAIN t = DOMAIN s /\ t.queue = <<>> /\ t.url = s.url /\ t.limit = s.limit
       /\ t.visited = s.visited /\ t.result = result
  BY <1>2, <1>8 DEF IsCrawl
<1>11. Fits(<<>>, s.url, s.limit, Cardinality(s.visited))
  <2>1. Cardinality(s.visited) \in Nat /\ Cardinality(s.visited) <= s.limit /\ s.limit \in Nat
    BY <1>2, FS_CardinalityType DEF IsCrawl
  <2> QED BY <2>1 DEF Fits
<1>12. IsCrawl(t)
  BY <1>2, <1>4, <1>5, <1>10, <1>11 DEF IsCrawl
<1>13. \A b \in Crawlers : crawl'[b] # None => IsCrawl(crawl'[b])
  BY <1>9, <1>12 DEF Crawls
<1>14. ASSUME NEW url \in Urls, NEW limit \in Nat, Key(url, limit) \in Keys,
              siteCache'[Key(url, limit)] # None
       PROVE  IsResult(siteCache'[Key(url, limit)].result, url, limit)
  <2>1. CASE url = s.url /\ limit = s.limit
    <3>1. siteCache'[Key(url, limit)] = entry
      BY <1>7, <1>14, <2>1 DEF Crawls
    <3> QED BY <1>5, <1>6, <2>1, <3>1
  <2>2. CASE Key(url, limit) # Key(s.url, s.limit)
    <3>1. siteCache'[Key(url, limit)] = siteCache[Key(url, limit)]
      BY <1>7, <1>14, <2>2 DEF Crawls
    <3> QED BY <1>14, <3>1 DEF Crawls
  <2> QED BY <2>1, <2>2 DEF Key
<1>15. DOMAIN crawl' = Crawlers /\ DOMAIN siteCache' = Keys
  BY <1>7, <1>9 DEF Crawls
<1> QED BY <1>13, <1>14, <1>15 DEF Crawls, IsCrawl, IsResult, Fits, Key, Keys

\* The steps of the crawler, of the scans beside it, and a restart.
LEMMA NextCrawls == Crawls /\ [Next]_vars => Crawls'
<1> SUFFICES ASSUME Crawls, [Next]_vars PROVE Crawls'
  OBVIOUS
<1>1. ASSUME UNCHANGED <<siteCache, crawl>> PROVE Crawls'
  BY <1>1 DEF Crawls, IsCrawl, IsResult, Fits, Key, Keys
<1>2. ASSUME NEW c \in Crawlers, CrawlStep(c) PROVE Crawls'
  <2>1. CASE Serve(c)
    <3>1. PICK t : t = None
      OBVIOUS
    <3> QED BY <2>1, <3>1, CrawlMoved DEF Serve
  <2> QED BY <1>2, <2>1, SkipKeeps, FetchKeeps, FinishKeeps DEF CrawlStep
<1>3. CASE SiteNext
  <2>1. CASE \E c \in Crawlers : \E url \in Urls, asked \in Limits : StartSite(c, url, asked)
    BY <2>1, StartSiteKeeps
  <2>2. CASE Pass
    BY <1>1, <2>2 DEF Pass
  <2> QED BY <1>2, <1>3, <2>1, <2>2 DEF SiteNext
<1>4. CASE Restart
  <2>1. siteCache' = [k \in Keys |-> None] /\ crawl' = [c \in Crawlers |-> None]
    BY <1>4 DEF Restart, SiteStop
  <2> QED BY <2>1 DEF Crawls, IsCrawl, IsResult, Fits, Key, Keys
<1>5. CASE ScanNext /\ UNCHANGED siteVars
  BY <1>1, <1>5 DEF siteVars
<1>6. CASE UNCHANGED vars
  BY <1>1, <1>6 DEF vars, siteVars
<1> QED BY <1>3, <1>4, <1>5, <1>6 DEF Next

\* Wherever redirects lead, and whatever the pages read there link to, fail or are crawled
\* at once by others, what a crawl asks for itself stays on its host, within its limit and
\* its queue, and every result given, from the cache too, starts with the page asked for
\* and is no larger than asked for.
THEOREM CrawlsHold == Spec => []CrawlStays
<1>1. Init => Crawls
  BY DEF Init, SiteInit, Crawls
<1>2. Crawls => CrawlStays
  <2> SUFFICES ASSUME Crawls, NEW c \in Crawlers, crawl[c] # None
               PROVE  LET t == crawl[c]
                      IN  /\ \A u \in t.visited \cup ToSet(t.queue) : Host[u] = Host[t.url]
                          /\ Cardinality(t.visited) <= t.limit
                          /\ Len(t.queue) + Cardinality(t.visited) <= 3 * t.limit
                          /\ t.result # None => /\ t.url \in t.result.pages
                                                /\ Cardinality(t.result.pages) <= t.limit
    BY DEF CrawlStays
  <2>1. PICK t : t = crawl[c]
    OBVIOUS
  <2>2. IsCrawl(t)
    BY <2>1 DEF Crawls
  <2>3. \A u \in t.visited \cup ToSet(t.queue) : Host[u] = Host[t.url]
    BY <2>2 DEF IsCrawl, Fits, ToSet
  <2> QED BY <2>1, <2>2, <2>3 DEF IsCrawl, IsResult, Fits
<1>3. Crawls /\ [Next]_vars => Crawls'
  BY NextCrawls
<1> QED BY <1>1, <1>2, <1>3, PTL DEF Spec

=============================================================================
