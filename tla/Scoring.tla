------------------------------- MODULE Scoring -------------------------------
(***************************************************************************)
(* The trust score of a contract or a Solana program, what is derived from  *)
(* it, and the score of a web site.  Operators only: Scans.tla and           *)
(* Sites.tla run them, ScansProofs.tla states their bounds.                  *)
(*                                                                         *)
(* The facts of an EVM contract are what its providers answer, None being    *)
(* no answer:                                                               *)
(*   abi      [owner, unlimited, tokens]: the privileges its functions give   *)
(*            the owner, whether one of them approves everything, and how     *)
(*            many kinds of assets it can move                               *)
(*   days     its age                                                       *)
(*   alchemy  [drains, hidden]; trace and debug: the number of calls traced   *)
(*   token    [scam, info]: the flags of the token service                    *)
(*   feeds    the counts of the two report feeds                             *)
(***************************************************************************)
EXTENDS Verdict, Sequences

Privileges == {"mint", "withdraw", "upgrade", "pause", "blacklist"}

-----------------------------------------------------------------------------
(* From answers to factors.                                                 *)

\* Without an ABI the owner is assumed to have every privilege but a blacklist.
NoAbi == [owner |-> Privileges \ {"blacklist"}, unlimited |-> FALSE, tokens |-> 1]
Analysis(facts) == IF facts.abi = None THEN NoAbi ELSE facts.abi

\* The first provider that answers counts, and only the first one sees a drain.
\* With none left the contract looks as if the call had been harmless.
Simulation(facts) ==
    LET seen(drains, hidden) == [drains |-> drains, hidden |-> hidden,
                                 unlimited |-> Analysis(facts).unlimited]
    IN  IF facts.alchemy # None THEN seen(facts.alchemy.drains, facts.alchemy.hidden)
        ELSE IF facts.trace # None THEN seen(FALSE, facts.trace)
        ELSE IF facts.debug # None THEN seen(FALSE, facts.debug)
        ELSE seen(FALSE, 0)

AgeRisk(days) == IF days = None THEN 30
                 ELSE IF days < 7 THEN 80
                 ELSE IF days < 30 THEN 50
                 ELSE IF days < 365 THEN 30 ELSE 10

\* A flag of the token service or a count of a feed is a report of a scam.
TokenSignals(token) == IF token = None THEN [scam |-> FALSE, flags |-> 0]
                       ELSE [scam |-> token.scam > 0, flags |-> token.scam + token.info]
ExternalSignals(token, feeds) ==
    [scam  |-> TokenSignals(token).scam \/ feeds[1] > 0 \/ feeds[2] > 0,
     flags |-> TokenSignals(token).flags + feeds[1] + feeds[2]]

\* get_reputation: three reports of users, or one of a service.
Reputation(reports, external) ==
    [reported |-> reports >= 3 \/ external.scam, local |-> reports,
     flags |-> reports + external.flags]

-----------------------------------------------------------------------------
(* The risk of each factor.  Counts are cast to eight bits before the cap.   *)

Byte(n) == n % 256

\* Mutation of SimulationRisk: the calls are not capped.
OpenSimulation(sim) == Weight(50, sim.drains) + Weight(30, sim.unlimited) + Byte(sim.hidden)

SimulationRisk(sim) == Weight(50, sim.drains) + Weight(30, sim.unlimited) + Clamp(Byte(sim.hidden), 20)

OwnerRisk(owner) == Weight(12, "mint" \in owner) + Weight(12, "withdraw" \in owner)
                    + Weight(15, "upgrade" \in owner) + Weight(8, "pause" \in owner)
                    + Weight(5, "blacklist" \in owner)

ReputationRisk(rep) == Weight(45, rep.reported) + Clamp(Byte(rep.flags), 25)

\* The user's factor: earlier scans of this contract by this wallet, None when there
\* is no wallet or the count failed.
AnomalyRisk(earlier) == IF earlier = None THEN 0 ELSE IF earlier = 0 THEN 50 ELSE 20

TokenRisk(tokens) == IF tokens >= 2 THEN 40 ELSE 20

\* The weights, in percent.
Weighted(sim, owner, rep, anomaly, token, age) ==
    30 * sim + 20 * owner + 15 * rep + 10 * anomaly + 10 * token + 15 * age

\* 100 less the weighted risk, rounded.  The code adds floating-point numbers: a half
\* may go either way.
TrustScores(weighted) ==
    {t \in 0..100 : /\ 10000 - weighted - 100 * t <= 50
                    /\ 100 * t - (10000 - weighted) <= 50}

RugPull(owner) == IF OwnerRisk(owner) >= 70 THEN "High"
                  ELSE IF OwnerRisk(owner) >= 40 THEN "Medium" ELSE "Low"

-----------------------------------------------------------------------------
(* What a scan stores.                                                      *)

\* scan_contract: the scores an EVM contract may get.
EvmScores(facts, rep, earlier) ==
    TrustScores(Weighted(SimulationRisk(Simulation(facts)), OwnerRisk(Analysis(facts).owner),
                         ReputationRisk(rep), AnomalyRisk(earlier),
                         TokenRisk(Analysis(facts).tokens), AgeRisk(facts.days)))

EvmFlags(facts, rep) ==
    Weight(1, Simulation(facts).drains) + Weight(1, rep.reported)
    + Weight(1, "withdraw" \in Analysis(facts).owner)

\* compute_solana_trust_score: bad is a program of the feed, or a confirmed one.
SolanaTrust(facts, rep) ==
    IF facts.bad THEN 8
    ELSE IF rep.reported THEN 12
    ELSE IF rep.local >= 3 THEN 15
    ELSE IF rep.local > 0 THEN 45 - 8 * rep.local
    ELSE IF facts.system THEN 96 ELSE 58

\* scan_solana_program: the lower of that score and of the weighted one.
SolanaScores(facts, rep, earlier) ==
    {Min({SolanaTrust(facts, rep), t}) :
        t \in TrustScores(Weighted(0, 0, ReputationRisk(rep), AnomalyRisk(earlier),
                                   IF facts.system THEN 5 ELSE 25, 30))}

SolanaFlags(facts, rep) == Weight(1, facts.bad) + Weight(1, rep.reported)

-----------------------------------------------------------------------------
(* What is shown of a contract: trust is the score of its latest scan.       *)

TrustPenalty(trust) == IF trust = None THEN 0
                       ELSE IF trust <= 20 THEN 35 ELSE IF trust <= 35 THEN 28
                       ELSE IF trust <= 50 THEN 20 ELSE IF trust <= 70 THEN 10 ELSE 0
ReportPenalty(reports) == IF reports >= 3 THEN Clamp((reports - 2) * 8, 24) ELSE 0

\* compute_contract_reputation_risk
ContractRisk(trust, reports) == Clamp(TrustPenalty(trust) + ReportPenalty(reports), 35)

\* What a scan of the extension answers: its own trust and the reputation read after.
ScanRisk(own, trust, reports) == Clamp(100 - own + ContractRisk(trust, reports), 100)

\* Mutation of Malicious: only the score and the flags of the scan itself.
MaliciousScan(risk, reports, flags) == risk >= 75 \/ flags > 0

Malicious(risk, reports, flags) == risk >= 75 \/ reports >= 3 \/ flags > 0

\* The screen of an analysis: a policy's block hides the score of the transaction.
ScreenRisk(trust, reports, tx, policy) ==
    Max({Clamp((IF trust = None THEN 0 ELSE 100 - trust) + ContractRisk(trust, reports), 100),
         IF policy THEN 0 ELSE tx})

PanelRisk(trust, reports) ==
    LET risk == ContractRisk(trust, reports)
    IN  IF risk >= 35 THEN "High" ELSE IF risk >= 15 THEN "Medium" ELSE "Low"

TokenAlert(trust, reports) == Clamp(60 + ContractRisk(trust, reports), 100)

\* contract_scam_pattern, of the facts of the latest scan.
Honeypot(facts) == /\ Analysis(facts).owner \cap {"mint", "pause"} # {}
                   /\ Simulation(facts).drains \/ "withdraw" \in Analysis(facts).owner

\* analyze_reputation_graph: touched counts the wallet's suspicious activity, refs
\* the rows of all users that name the contract.
GraphRisk(reports, touched, refs, trust) ==
    Clamp(Clamp(18 * reports, 54) + Clamp(3 * touched, 15)
          + (IF refs >= 20 THEN 20 ELSE IF refs >= 5 THEN 10 ELSE 0)
          + (IF trust = None THEN 0 ELSE IF trust <= 20 THEN 25 ELSE IF trust <= 40 THEN 15 ELSE 0),
          100)

GraphStop(reports, risk) == reports >= 3 \/ risk >= 85

-----------------------------------------------------------------------------
(* The score of a web site, from the issues of its pages.                    *)

IssueWeight == [critical |-> 40, high |-> 25, medium |-> 12, low |-> 5]

SiteScore(issues) == Clamp(MapThenSumSet(LAMBDA i : IssueWeight[i.severity], issues), 100)
==============================================================================
