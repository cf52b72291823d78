------------------------------ MODULE Threats ------------------------------
(***************************************************************************)
(* Threats of one wallet: ThreatCorrelationService, the threat tables of   *)
(* SenseiguardRepository and the remediation half of SenseiguardService.   *)
(*                                                                         *)
(* A risky verdict (of a transaction, an approval or a dapp) is stored as  *)
(* an event, correlated with the events of the last day into a campaign,   *)
(* and, for a transaction, may become a threat and an alert.  The user     *)
(* works threats off: resolve, dismiss, record an action, verify one or    *)
(* all; the wallet's score is computed from what is left.                  *)
(*                                                                         *)
(* A request is a chain of SQL statements with no transaction around it,   *)
(* so one statement is one action and requests interleave.                 *)
(***************************************************************************)
EXTENDS Integers, Sequences, FiniteSets

CONSTANTS
  Reqs,          \* request tasks
  Contracts,     \* destinations, spenders
  Domains,       \* of dapps
  Actions,       \* remediation actions clients record
  None,          \* SQL NULL
  LookbackDays,  \* CORRELATION_LOOKBACK_HOURS and the window of v2 dedupe, in days
  CampaignDays,  \* how long a campaign goes on without a new event
  Crowds,        \* bound: how many requests are served at once
  Asked,         \* bound: what so many ask for: [kinds, the endpoints called; signals, see
                 \* SignalType; contracts and actions, those named; days that pass]
  MaxOps,        \* bound: requests
  MaxFaults      \* bound: statements that fail, requests that die

Sources == {"tx", "approval", "dapp"}

(* The threat types a verdict can have.  Verification also knows drainer,  *)
(* risky-token, behavioural and policy threats; no code stores one.        *)
Types == {"malicious_transaction", "signature_phishing", "unlimited_approval",
          "frontend_phishing", "phishing_indicator"}

(* What ingest_signal is given of a verdict of a risk > 0.  The last four fields are     *)
(* only used by a transaction: its first threat type, the severity of its  *)
(* band, should_persist_threat, and whether scoring v2 gave the verdict.   *)
SignalType ==
  [from : Sources, cat : {"transaction", "approval", "signature", "domain"},
   stage : {"lure", "hook", "execute", "exfiltrate"}, risk : 1 .. 100,
   contract : Contracts \cup {None}, domain : Domains \cup {None},
   type : Types \cup {None}, sev : {"high", "medium", "low"}, persist : BOOLEAN,
   v2 : BOOLEAN]

ASSUME AskedTyped ==
  \A n \in Crowds :
    /\ n \in Nat
    /\ Asked[n].signals \subseteq SignalType /\ Asked[n].contracts \subseteq Contracts
    /\ Asked[n].actions \subseteq Actions /\ Asked[n].days \in Nat
ASSUME ReqsFinite == IsFiniteSet(Reqs)
ASSUME NoneIsNoName == None \notin Contracts \cup Domains \cup Types
ASSUME DaysNat == {LookbackDays, CampaignDays, MaxOps, MaxFaults} \subseteq Nat

VARIABLES
  v2,        \* THREAT_SCORING_V2, fixed while the process runs
  crowd,     \* how many requests are served at once, fixed too
  event,     \* threat_events, oldest first
  campaign,  \* threat_campaigns; nothing closes one
  evidence,  \* threat_campaign_evidence: <<campaign, event>>
  threat,    \* threats
  acted,     \* threat_remediation_actions: <<threat, action>>
  blocked,   \* user_blocked_contracts
  alert,     \* alerts, all of severity high
  score,     \* wallet_monitoring.security_score
  job,       \* the locals of each request
  day, ops, faults,
  last,      \* history: what the request that just finished did
  wasBlocked \* history: contracts blocked at some time

tables == <<event, campaign, evidence, threat, acted, blocked, alert, score>>
vars   == <<v2, crowd, event, campaign, evidence, threat, acted, blocked, alert, score,
            job, day, ops, faults, last, wasBlocked>>

Idle    == [pc |-> "idle"]
Nothing == [did |-> "nothing"]
AllIdle == \A r \in Reqs : job[r] = Idle
Load    == Asked[crowd]

-----------------------------------------------------------------------------
(* Requests: a start, statements, an end. *)

Counted ==
  /\ ops < MaxOps /\ ops' = ops + 1
  /\ Cardinality({ r \in Reqs : job[r] # Idle }) < crowd
  /\ last' = Nothing
  /\ UNCHANGED <<v2, crowd, day, faults>>

Begin(r, j) ==
  /\ job[r] = Idle /\ Counted
  /\ job' = [job EXCEPT ![r] = j]
  /\ UNCHANGED <<tables, wasBlocked>>

(* A request of one statement: it takes a task, for that statement only.   *)
Instant == Counted /\ UNCHANGED job /\ \E r \in Reqs : job[r] = Idle

Goto(r, j) ==
  /\ job' = [job EXCEPT ![r] = j]
  /\ UNCHANGED <<v2, crowd, day, ops, faults, last, wasBlocked>>

Finish(r, did) ==
  /\ job' = [job EXCEPT ![r] = Idle] /\ last' = did
  /\ UNCHANGED <<v2, crowd, day, ops, faults, wasBlocked>>

Newest(S, at(_)) == { k \in S : \A l \in S : at(l) <= at(k) }

Larger(a, b)  == IF a > b THEN a ELSE b
NoClamp(n)    == n
Percent(n)    == IF n > 100 THEN 100 ELSE IF n < 0 THEN 0 ELSE n
When(cond, n) == IF cond THEN n ELSE 0
Top(S)        == CHOOSE n \in S : \A k \in S : k <= n

-----------------------------------------------------------------------------
(* ThreatCorrelationService::build_correlation over a set of events.       *)

(* Lure, then hook, then execute, in the order of the events. *)
Sequence(E) ==
  \E i, k, l \in E : /\ i < k /\ k < l
                     /\ event[i].stage = "lure" /\ event[k].stage = "hook"
                     /\ event[l].stage = "execute"

Repeated(E) ==
  \E i, k \in E : /\ i # k
                  /\ \/ event[i].contract # None /\ event[i].contract = event[k].contract
                     \/ event[i].domain # None /\ event[i].domain = event[k].domain

(* The categories of the callers reach these three types only. *)
CampaignType(E) ==
  LET stages == { event[i].stage : i \in E }
      cats   == { event[i].cat : i \in E }
  IN  IF "lure" \in stages /\ stages \cap {"hook", "execute"} # {}
      THEN "phishing_kill_chain"
      ELSE IF "domain" \in cats /\ cats \cap {"approval", "transaction"} # {}
      THEN "phishing_execution_chain"
      ELSE "suspicious_activity_cluster"

Correlation(E) ==
  LET cats == Cardinality({ event[i].cat : i \in E })
      risk == Top({ event[i].risk : i \in E })
      conf == Larger(risk, Top({ event[i].conf : i \in E }))
  IN  [type |-> CampaignType(E),
       cats |-> cats,
       risk |-> Percent(risk + When(Sequence(E), 8) + When(cats >= 3, 6)),
       conf |-> Percent(conf + When(cats >= 2, 10) + When(Sequence(E), 10)
                             + When(Repeated(E), 8))]

(* CORRELATION_CREATE_THRESHOLD *)
Correlates(c) == c.conf >= 65 \/ c.cats >= 2

-----------------------------------------------------------------------------
(* What a transaction's handler makes of the correlation. *)

Severity(risk) == IF risk >= 50 THEN "high" ELSE IF risk >= 30 THEN "medium" ELSE "low"

Joined(j)    == v2 /\ j.camp # 0
FinalRisk(j) == IF Joined(j) THEN Larger(j.sig.risk, j.corr.risk) ELSE j.sig.risk
FinalSev(j)  == IF Joined(j) THEN Severity(FinalRisk(j)) ELSE j.sig.sev
Persists(j)  ==
  /\ j.sig.from = "tx"
  /\ IF v2 THEN j.sig.persist \/ (Joined(j) /\ j.corr.conf >= 80)
           ELSE j.sig.risk >= 60 \/ j.sig.type # None

Found(j) == [did |-> "found", sev |-> FinalSev(j), camp |-> IF v2 THEN j.camp ELSE 0,
             type |-> j.sig.type, contract |-> j.sig.contract]

Alertable(j) == FinalRisk(j) >= 85

(* Where upsert_open_threat_for_campaign looks next. *)
ByContractOrInsert(j) ==
  IF v2 /\ j.sig.type # None /\ j.sig.contract # None THEN "byContract" ELSE "insert"

AfterIngest(r, j) ==
  IF ~Persists(j) THEN Finish(r, Nothing)
  ELSE Goto(r, [j EXCEPT !.pc = IF Joined(j) THEN "byCampaign" ELSE ByContractOrInsert(j)])

AfterThreat(r, j) ==
  IF Alertable(j) THEN Goto(r, [j EXCEPT !.pc = "alert"]) ELSE Finish(r, Found(j))

-----------------------------------------------------------------------------
(* ingest_signal *)

Confidence(s) ==
  IF s.from = "tx"
  THEN IF s.risk >= 85 THEN 88 ELSE IF s.risk >= 70 THEN 76 ELSE IF s.risk >= 50 THEN 68 ELSE 55
  ELSE IF s.from = "approval"
  THEN IF s.risk >= 85 THEN 86 ELSE IF s.risk >= 65 THEN 74 ELSE 60
  ELSE IF s.risk >= 75 THEN 84 ELSE IF s.risk >= 50 THEN 74 ELSE 62

NoCorrelation == [type |-> None, cats |-> 0, risk |-> 0, conf |-> 0]

Analyse(r, s) ==
  /\ s.from \in Load.kinds /\ (s.from = "tx" => s.v2 = v2)
  /\ Begin(r, [pc |-> "event", sig |-> s, ev |-> 0, corr |-> NoCorrelation,
               camp |-> 0, tid |-> 0])

RecordEvent(r) ==
  LET j == job[r]
      e == [cat |-> j.sig.cat, stage |-> j.sig.stage, risk |-> j.sig.risk,
            conf |-> Confidence(j.sig), contract |-> j.sig.contract,
            domain |-> j.sig.domain, at |-> day]
  IN  /\ j.pc = "event"
      /\ event' = Append(event, e)
      /\ Goto(r, [j EXCEPT !.pc = "events", !.ev = Len(event) + 1])
      /\ UNCHANGED <<campaign, evidence, threat, acted, blocked, alert, score>>

Recent(at, days) == at >= day - days

ReadEvents(r) ==
  LET j == job[r]
      c == Correlation({ i \in DOMAIN event : Recent(event[i].at, LookbackDays) })
  IN  /\ j.pc = "events"
      /\ IF Correlates(c) THEN Goto(r, [j EXCEPT !.pc = "find", !.corr = c])
                          ELSE AfterIngest(r, j)
      /\ UNCHANGED tables

RunningOf(type) ==
  { k \in DOMAIN campaign : campaign[k].type = type /\ Recent(campaign[k].seen, CampaignDays) }

FindCampaign(r) ==
  LET j    == job[r]
      seen(k) == campaign[k].seen
      K    == Newest(RunningOf(j.corr.type), seen)
  IN  /\ j.pc = "find"
      /\ \E k \in IF K = {} THEN {0} ELSE K : Goto(r, [j EXCEPT !.pc = "campaign", !.camp = k])
      /\ UNCHANGED tables

(* update_threat_campaign_scores of the campaign found, else                *)
(* create_threat_campaign.                                                 *)
WriteCampaign(r) ==
  LET j == job[r]
      c == [type |-> j.corr.type, risk |-> j.corr.risk, conf |-> j.corr.conf, seen |-> day]
  IN  /\ j.pc = "campaign"
      /\ IF j.camp # 0
         THEN /\ campaign' = [campaign EXCEPT ![j.camp] = c]
              /\ Goto(r, [j EXCEPT !.pc = "evidence"])
         ELSE /\ campaign' = Append(campaign, c)
              /\ Goto(r, [j EXCEPT !.pc = "evidence", !.camp = Len(campaign) + 1])
      /\ UNCHANGED <<event, evidence, threat, acted, blocked, alert, score>>

AddEvidence(r) ==
  /\ job[r].pc = "evidence"
  /\ evidence' = evidence \cup {<<job[r].camp, job[r].ev>>}
  /\ AfterIngest(r, job[r])
  /\ UNCHANGED <<event, campaign, threat, acted, blocked, alert, score>>

-----------------------------------------------------------------------------
(* analyze_tx_and_respond stores a threat: create_threat_with_surface, or  *)
(* with scoring v2 upsert_open_threat_for_campaign.                        *)

TodaysOfCampaign(k) ==
  { t \in DOMAIN threat : /\ threat[t].status = "open"
                          /\ threat[t].campaign = k /\ threat[t].at = day }

OfCampaign(k) == { t \in DOMAIN threat : threat[t].campaign = k }

OpenOfCampaign(k) ==
  { t \in DOMAIN threat : threat[t].status = "open" /\ threat[t].campaign = k }

OpenOfContract(type, c) ==
  { t \in DOMAIN threat : /\ threat[t].status = "open"
                          /\ threat[t].type = type /\ threat[t].contract = c
                          /\ Recent(threat[t].at, LookbackDays) }

Select(r, T, found, missing) ==
  LET at(t) == threat[t].at
  IN  /\ IF T = {} THEN Goto(r, [job[r] EXCEPT !.pc = missing])
         ELSE \E t \in Newest(T, at) : Goto(r, [job[r] EXCEPT !.pc = found, !.tid = t])
      /\ UNCHANGED tables

FindByCampaign(r) ==
  /\ job[r].pc = "byCampaign"
  /\ Select(r, OpenOfCampaign(job[r].camp), "mergeCampaign", ByContractOrInsert(job[r]))

FindByContract(r) ==
  /\ job[r].pc = "byContract"
  /\ Select(r, OpenOfContract(job[r].sig.type, job[r].sig.contract), "mergeContract", "insert")

MergeReopens(r) ==
  LET j == job[r]
  IN  /\ j.pc \in {"mergeCampaign", "mergeContract"}
      /\ threat' = [threat EXCEPT ![j.tid].sev = FinalSev(j), ![j.tid].at = day,
                                  ![j.tid].status = "open"]
      /\ AfterThreat(r, j)
      /\ UNCHANGED <<event, campaign, evidence, acted, blocked, alert, score>>

(* The UPDATE names the row alone: it does not look at its status again.   *)
MergeThreat(r) ==
  LET j == job[r]
      c == IF j.pc = "mergeContract" /\ j.camp # 0 THEN j.camp ELSE threat[j.tid].campaign
  IN  /\ j.pc \in {"mergeCampaign", "mergeContract"}
      /\ threat' = [threat EXCEPT ![j.tid].sev = FinalSev(j), ![j.tid].at = day,
                                  ![j.tid].campaign = c]
      /\ AfterThreat(r, j)
      /\ UNCHANGED <<event, campaign, evidence, acted, blocked, alert, score>>

InsertThreat(r) ==
  LET j == job[r]
  IN  /\ j.pc = "insert"
      /\ threat' = Append(threat,
           [type |-> j.sig.type, contract |-> j.sig.contract,
            campaign |-> IF v2 THEN j.camp ELSE 0, status |-> "open", sev |-> FinalSev(j),
            at |-> day, verification |-> "pending", auto |-> FALSE])
      /\ AfterThreat(r, j)
      /\ UNCHANGED <<event, campaign, evidence, acted, blocked, alert, score>>

CreateAlert(r) ==
  /\ job[r].pc = "alert"
  /\ alert' = Append(alert, [at |-> day, read |-> FALSE])
  /\ Finish(r, Found(job[r]))
  /\ UNCHANGED <<event, campaign, evidence, threat, acted, blocked, score>>

-----------------------------------------------------------------------------
(* One statement of the user. *)

Close(t, status) == [threat EXCEPT ![t].status = status]

Resolve(t) ==
  /\ "resolve" \in Load.kinds /\ Instant
  /\ threat' = Close(t, "resolved")
  /\ UNCHANGED <<event, campaign, evidence, acted, blocked, alert, score, wasBlocked>>

Dismiss(t) ==
  /\ "dismiss" \in Load.kinds /\ Instant
  /\ threat' = Close(t, "dismissed")
  /\ UNCHANGED <<event, campaign, evidence, acted, blocked, alert, score, wasBlocked>>

(* record_threat_action; threats are never deleted, so its read of the     *)
(* threat finds it.                                                        *)
RecordAction(t, a) ==
  /\ "action" \in Load.kinds /\ Instant
  /\ acted' = acted \cup {<<t, a>>}
  /\ UNCHANGED <<event, campaign, evidence, threat, blocked, alert, score, wasBlocked>>

BlockContract(c) ==
  /\ "block" \in Load.kinds /\ Instant
  /\ blocked' = blocked \cup {c} /\ wasBlocked' = wasBlocked \cup {c}
  /\ UNCHANGED <<event, campaign, evidence, threat, acted, alert, score>>

UnblockContract(c) ==
  /\ "block" \in Load.kinds /\ c \in blocked /\ Instant
  /\ blocked' = blocked \ {c}
  /\ UNCHANGED <<event, campaign, evidence, threat, acted, alert, score, wasBlocked>>

MarkRead(A) == [a \in DOMAIN alert |-> IF a \in A THEN [alert[a] EXCEPT !.read = TRUE]
                                       ELSE alert[a]]

(* mark_alert_read, mark_all_alerts_read *)
MarkAlertsRead ==
  /\ "read" \in Load.kinds /\ alert # <<>> /\ Instant
  /\ \E A \in {{a} : a \in DOMAIN alert} \cup {DOMAIN alert} : alert' = MarkRead(A)
  /\ UNCHANGED <<event, campaign, evidence, threat, acted, blocked, score, wasBlocked>>

-----------------------------------------------------------------------------
(* Verification. *)

TxTypes == {"malicious_transaction", "signature_phishing"}

(* The recorded actions that mitigate a threat of each type. *)
Remedies(type) ==
  IF type \in TxTypes
  THEN {"block_contract", "reject_tx", "cancel_transaction", "proceed_anyway"}
  ELSE IF type \in {"frontend_phishing", "phishing_indicator"}
  THEN {"disconnect_dapp", "block_domain", "report_scam", "block_contract"}
  ELSE IF type = "unlimited_approval" THEN {"revoke_approval", "limit_approval"}
  ELSE {}

Mitigated(t) == \E a \in Remedies(threat[t].type) : <<t, a>> \in acted

OpenThreats == { t \in DOMAIN threat : threat[t].status = "open" }

(* A verification works off todo, threats it has read.  Their types and    *)
(* contracts never change, and it reads no status.                         *)
Verification(did, todo) ==
  [pc |-> IF todo = {} THEN "cost" ELSE "actions", did |-> did, todo |-> todo,
   tid |-> 0, ok |-> FALSE, cost |-> 0]

Verify(r, t) ==
  /\ "verify" \in Load.kinds
  /\ Begin(r, Verification("verify", {t}))

VerifyAll(r) ==
  /\ "verifyAll" \in Load.kinds
  /\ Begin(r, Verification("verifyAll", OpenThreats))

Refresh(r) ==
  /\ "refresh" \in Load.kinds
  /\ Begin(r, Verification("refresh", {}))

(* Only a transaction's contract is looked up among the blocked ones.      *)
Examined(j, t, ok) ==
  [j EXCEPT !.tid = t, !.ok = ok,
            !.pc = IF threat[t].type \in TxTypes /\ threat[t].contract # None
                   THEN "blocked" ELSE "mark"]

ReadActions(r) ==
  /\ job[r].pc = "actions"
  /\ \E t \in job[r].todo : Goto(r, Examined(job[r], t, Mitigated(t)))
  /\ UNCHANGED tables

(* is_contract_blocked counts as much as a recorded action. *)
ReadBlocked(r) ==
  LET j == job[r]
  IN  /\ j.pc = "blocked"
      /\ Goto(r, [j EXCEPT !.pc = "mark", !.ok = j.ok \/ threat[j.tid].contract \in blocked])
      /\ UNCHANGED tables

Outcome(j) ==
  IF j.ok THEN "verified"
  ELSE IF threat[j.tid].type \in Types \ {"unlimited_approval"} THEN "failed"
  ELSE "not_applicable"

FirstOnly(j) == [j EXCEPT !.pc = "cost", !.todo = {}, !.tid = 0, !.ok = FALSE]
NextThreat(j) == [j EXCEPT !.pc = IF j.todo = {j.tid} THEN "cost" ELSE "actions",
                      !.todo = @ \ {j.tid}, !.tid = 0, !.ok = FALSE]

MarkOnly(r) ==
  LET j == job[r]
  IN  /\ j.pc = "mark"
      /\ threat' = [threat EXCEPT ![j.tid].verification = Outcome(j)]
      /\ Goto(r, NextThreat(j))
      /\ UNCHANGED <<event, campaign, evidence, acted, blocked, alert, score>>

MarkVerification(r) ==
  LET j == job[r]
  IN  /\ j.pc = "mark"
      /\ threat' = [threat EXCEPT ![j.tid].verification = Outcome(j)]
      /\ Goto(r, IF j.ok THEN [j EXCEPT !.pc = "close"] ELSE NextThreat(j))
      /\ UNCHANGED <<event, campaign, evidence, acted, blocked, alert, score>>

CloseVerified(r) ==
  LET j == job[r]
  IN  /\ j.pc = "close"
      /\ threat' = [Close(j.tid, "resolved") EXCEPT ![j.tid].auto = TRUE]
      /\ Goto(r, NextThreat(j))
      /\ UNCHANGED <<event, campaign, evidence, acted, blocked, alert, score>>

-----------------------------------------------------------------------------
(* refresh_wallet_health: compute_live_security_score is two reads, the    *)
(* store a third statement.                                                *)

Risky(low, high) == Cardinality({ k \in DOMAIN campaign : campaign[k].risk \in low .. high })
CampaignCost == 14 * Risky(80, 100) + 10 * Risky(50, 79) + 6 * Risky(30, 49) + 3 * Risky(0, 29)

Severe(sev)  == Cardinality({ t \in OpenThreats : threat[t].sev = sev })
ThreatCost   == 12 * Severe("high") + 7 * Severe("medium") + 3 * Severe("low")

AlertCost    == 3 * Cardinality({ a \in DOMAIN alert : ~alert[a].read })

LiveScore    == Percent(100 - AlertCost - (IF v2 THEN CampaignCost ELSE ThreatCost))

ReadCost(r) ==
  LET j == job[r]
  IN  /\ j.pc = "cost"
      /\ Goto(r, [j EXCEPT !.pc = "rest", !.cost = IF v2 THEN AlertCost ELSE ThreatCost])
      /\ UNCHANGED tables

ReadAlertsOnly(r) ==
  LET j == job[r]
  IN  /\ j.pc = "rest"
      /\ Goto(r, [j EXCEPT !.pc = "store", !.cost = @ + AlertCost])
      /\ UNCHANGED tables

ReadRest(r) ==
  LET j == job[r]
  IN  /\ j.pc = "rest"
      /\ Goto(r, [j EXCEPT !.pc = "store",
                           !.cost = @ + (IF v2 THEN CampaignCost ELSE AlertCost)])
      /\ UNCHANGED tables

StoreScore(r) ==
  LET j == job[r]
  IN  /\ j.pc = "store"
      /\ score' = Percent(100 - j.cost)
      /\ Finish(r, [did |-> j.did])
      /\ UNCHANGED <<event, campaign, evidence, threat, acted, blocked, alert>>

-----------------------------------------------------------------------------
(* Failures and time. *)

Ingesting == {"event", "events", "find", "campaign", "evidence"}
Storing   == {"byCampaign", "byContract", "mergeCampaign", "mergeContract", "insert"}

Fault == faults < MaxFaults /\ faults' = faults + 1 /\ last' = Nothing
         /\ UNCHANGED <<v2, crowd, tables, day, ops, wasBlocked>>

(* An error returned, a client that hangs up, a restart. *)
Abandon(r) ==
  /\ job[r] # Idle /\ Fault
  /\ job' = [job EXCEPT ![r] = Idle]

(* A failed correlation is dropped and the handler goes on without one; a  *)
(* failed store of the threat is dropped and the alert still made.         *)
Swallow(r) ==
  LET j == job[r]
      k == IF j.pc \in Ingesting THEN [j EXCEPT !.camp = 0, !.corr = NoCorrelation] ELSE j
  IN  /\ j.pc \in Ingesting \cup Storing /\ Fault
      /\ job' = [job EXCEPT ![r] =
           IF j.pc \in Ingesting /\ Persists(k) THEN [k EXCEPT !.pc = ByContractOrInsert(k)]
           ELSE IF j.pc \in Storing /\ Alertable(k) THEN [k EXCEPT !.pc = "alert"]
           ELSE Idle]

(* Evidence that cannot be read counts as none. *)
MissEvidence(r) ==
  LET j == job[r]
  IN  /\ Fault
      /\ \/ /\ j.pc = "actions"
            /\ \E t \in j.todo : job' = [job EXCEPT ![r] = Examined(j, t, FALSE)]
         \/ /\ j.pc = "blocked"
            /\ job' = [job EXCEPT ![r].pc = "mark"]

(* No request takes a day. *)
NextDay ==
  /\ day < Load.days /\ AllIdle
  /\ day' = day + 1 /\ last' = Nothing
  /\ UNCHANGED <<v2, crowd, tables, job, ops, faults, wasBlocked>>

-----------------------------------------------------------------------------
Init ==
  /\ v2 \in BOOLEAN /\ crowd \in Crowds
  /\ event = <<>> /\ campaign = <<>> /\ evidence = {} /\ threat = <<>>
  /\ acted = {} /\ blocked = {} /\ alert = <<>> /\ score = 100
  /\ job = [r \in Reqs |-> Idle]
  /\ day = 0 /\ ops = 0 /\ faults = 0
  /\ last = Nothing /\ wasBlocked = {}

Step(r) ==
  \/ RecordEvent(r) \/ ReadEvents(r) \/ FindCampaign(r) \/ WriteCampaign(r) \/ AddEvidence(r)
  \/ FindByCampaign(r) \/ FindByContract(r) \/ MergeThreat(r) \/ InsertThreat(r)
  \/ CreateAlert(r)
  \/ ReadActions(r) \/ ReadBlocked(r) \/ MarkVerification(r)
  \/ CloseVerified(r)
  \/ ReadCost(r) \/ ReadRest(r) \/ StoreScore(r)

Next ==
  \/ \E r \in Reqs : Step(r) \/ Abandon(r) \/ Swallow(r) \/ MissEvidence(r)
  \/ \E r \in Reqs, s \in Load.signals : Analyse(r, s)
  \/ \E t \in DOMAIN threat : \/ Resolve(t) \/ Dismiss(t)
                              \/ \E a \in Load.actions : RecordAction(t, a)
                              \/ \E r \in Reqs : Verify(r, t)
  \/ \E r \in Reqs : VerifyAll(r) \/ Refresh(r)
  \/ \E c \in Load.contracts : BlockContract(c) \/ UnblockContract(c)
  \/ MarkAlertsRead
  \/ NextDay

Spec == Init /\ [][Next]_vars

-----------------------------------------------------------------------------
Labels == Ingesting \cup Storing
          \cup {"idle", "alert", "actions", "blocked", "mark", "close", "cost", "rest",
                "store"}

(* Tables and locals keep their types; foreign keys name rows that exist,  *)
(* and the stored score is a percentage.                                   *)
TypeOK ==
  /\ v2 \in BOOLEAN /\ crowd \in Crowds
  /\ \A i \in DOMAIN event : event[i].risk \in 1 .. 100 /\ event[i].conf \in 1 .. 100
  /\ \A k \in DOMAIN campaign : campaign[k].risk \in 1 .. 100 /\ campaign[k].conf \in 1 .. 100
  /\ evidence \subseteq (DOMAIN campaign) \X (DOMAIN event)
  /\ \A t \in DOMAIN threat :
        /\ threat[t].campaign \in {0} \cup DOMAIN campaign
        /\ threat[t].status \in {"open", "resolved", "dismissed"}
        /\ threat[t].verification \in {"pending", "verified", "failed", "not_applicable"}
  /\ acted \subseteq (DOMAIN threat) \X Actions
  /\ blocked \subseteq wasBlocked /\ wasBlocked \subseteq Contracts
  /\ score \in 0 .. 100
  /\ \A r \in Reqs : job[r].pc \in Labels

(* "v2 dedupe": a campaign has at most one open threat, and a wallet at     *)
(* most one running campaign of a type, whatever days pass between its      *)
(* events (upsert_open_threat_for_campaign,                                 *)
(* find_recent_open_campaign_by_type).  Both are a SELECT and then a write, *)
(* so this holds as long as requests come one at a time.                    *)
NoDuplicates == crowd = 1 =>
  /\ \A t, u \in OpenThreats :
        threat[t].campaign = threat[u].campaign /\ threat[t].campaign # 0 => t = u
  /\ \A k, l \in { m \in DOMAIN campaign : Recent(campaign[m].seen, CampaignDays) } :
        campaign[k].type = campaign[l].type => k = l

(* Once the analysis of a transaction that found something is done, the    *)
(* finding is an open threat of today: it was never merged into a threat   *)
(* the user had closed, and it belongs to its campaign.  Requests come one  *)
(* at a time: another one may have closed it already.                      *)
FindingIsOpen ==
  crowd = 1 /\ faults = 0 /\ last.did = "found" =>
    \E t \in OpenThreats : /\ threat[t].at = day /\ threat[t].sev = last.sev
                           /\ threat[t].campaign = last.camp \/ last.camp = 0

(* Whoever closed a threat by verification, and whenever other requests    *)
(* came in between: a mitigation of this threat was on record, or its      *)
(* contract was blocked.                                                   *)
ClosedOnEvidence ==
  \A t \in DOMAIN threat :
     threat[t].auto \/ threat[t].verification = "verified" =>
       Mitigated(t) \/ (threat[t].type \in TxTypes /\ threat[t].contract \in wasBlocked)

(* A threat shown as verified is closed, or the request that verified it   *)
(* is about to close it.  Only a request that dies between the two         *)
(* statements leaves it open.                                              *)
VerifiedIsClosed ==
  faults = 0 => \A t \in OpenThreats :
     threat[t].verification = "verified" => \E r \in Reqs : job[r].pc = "close" /\ job[r].tid = t

(* What a verification says of a threat is true of the evidence it read    *)
(* and of the status it leaves, although it reads, marks and closes in     *)
(* three statements.                                                       *)
VerificationIsTrue == ClosedOnEvidence /\ VerifiedIsClosed

(* verify-all leaves no open threat that has a recorded mitigation or, for *)
(* a transaction, a blocked contract; unless it could not read them, or     *)
(* another request went on beside it.                                      *)
VerifyAllIsComplete ==
  crowd = 1 /\ faults = 0 /\ last.did = "verifyAll" =>
    \A t \in OpenThreats :
       ~Mitigated(t) /\ (threat[t].type \in TxTypes => threat[t].contract \notin blocked)

(* After a refresh, alone or at the end of a verification, the stored      *)
(* score is the live one: it already counts what the verification closed.  *)
(* It reads and then writes, so again one request at a time.               *)
RefreshedScoreIsLive ==
  crowd = 1 /\ last.did \in {"verify", "verifyAll", "refresh"} => score = LiveScore

(* No request reopens a threat, whatever it read before. *)
ClosedStaysClosed ==
  [][\A t \in DOMAIN threat : threat[t].status # "open" => threat'[t].status # "open"]_vars
=============================================================================
