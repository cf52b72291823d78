# SenseiFi backend: TLA+ models, checks and proofs

This directory models the SenseiFi backend (Rust, axum, sqlx on Postgres; code under
`src/src`, schema under `src/migrations`). The backend is a set of HTTP handlers that run as
independent tasks. They share one database, hold no lock between two SQL statements, and
open an explicit transaction in one place only (`deduct_xp_for_usage`). Almost everything
that can go wrong therefore happens *between two statements*: in every module here one SQL
statement (or one call to a third party) is one action, and the rest of a handler is the
label its task goes to next.

| Module | Models | Checked by | Proved in |
|---|---|---|---|
| `Accounts` | identity, wallet connection, XP | `MCAccounts`, two configurations | `AccountsProofs` |
| `XpAccount` | what the XP tables promise, abstractly | as the refinement of `Accounts` | `AccountsProofs` |
| `Subscription` | BoomFi checkout and webhooks | `MCSubscription`, two configurations | `SubscriptionProofs` |
| `BillingView` | what the plan page promises, abstractly | as the refinement of `Subscription` | `SubscriptionProofs` |
| `Threats` | correlation, threats, remediation, wallet score | `MCThreats` | `ThreatsProofs` |
| `Verdict` | the scores of a transaction, operators only | through `Protection` and `Intel` | through `ProtectionProofs`, `IntelProofs` |
| `Protection` | settings, lock, rules, analyses, approvals | `MCProtection`, two configurations | `ProtectionProofs` |
| `Intel` | shared threat intelligence, Solana analyses, dApp checks, the feed | `MCIntel`, two configurations | `IntelProofs` |
| `Scoring` | the scores of contracts, programs, sites and graphs, operators only | through `Scans` | `ScansProofs` |
| `Sites` | the crawler and its cache | through `Scans` (same process, same restart) | `ScansProofs` |
| `Scans` | paid scans, their rows and history, and those who read them | `MCScans` | `ScansProofs` |
| `Inbox` | the notification centre | `MCInbox` | `InboxProofs` |
| `Portfolio` | the tokens of a wallet and what they are worth | `MCPortfolio`, with `Accounts` | `PortfolioProofs` |

`EXTENDS` follows the code: `Protection` and `Intel` run the scores of `Verdict`, `Sites` those
of `Scoring`, `Scans` is composed with `Sites` (one process: a restart stops both), `Portfolio` with
`Accounts` (the row of `wallets` a connect makes is what a request about tokens needs). Two variables are history, which no guard and no other variable reads: `alone` of `Accounts`
(the request that has had no other beside it) and `seen` of `Subscription` (what had been answered
when a checkout was started). The `MC` modules give constants their values; one adds the bound of a
search.

## Inventory

| Component | State it keeps | Operations | What is hard | What makes it correct |
|---|---|---|---|---|
| Accounts (`dashboard_user_service`, `wallet_service`, `waitlist_service`, `xp_usage_service`, `wallet_routes`, identity part of `dashboard_routes`) | `dashboard_users`, `wallets`, `wallet_monitoring`, `user_xp_claims`, `xp_usage_events` | connect, disconnect, claim XP, charge XP, dashboard overview | check-then-act across statements, swallowed errors, a row lock, lost clients | XP conserved, e-mail paid once, identity behind XP stable, monitoring follows wallets |
| Subscriptions (`subscription_service`, `subscription_repository`, `subscription_routes`, `plan_catalog`) | `user_subscriptions` | checkout session, BoomFi webhook, status | webhooks lost, repeated and reordered; three reads before an upsert | a report reaches its own user, nobody is active unpaid, a row shows one report, the last report wins once all are in, unless a checkout came after it |
| Threats (`threat_correlation_service`, threat half of `senseiguard_service` and `senseiguard_repository`, the storing half of the analyses) | `threat_events`, `threat_campaigns`, `threats`, `threat_remediation_actions`, `alerts`, the score in `wallet_monitoring` | ingest a signal, resolve, dismiss, record an action, verify, verify-all, block, refresh | select-then-insert, work lists read once, errors dropped one by one | a finding is stored once and stays visible, closed threats stay closed, verified only on evidence, the score is live |
| Protection (`protection_engine`, `protection_routes`) | `user_protection_settings`, `protection_auto_scan`, `wallet_security_rules`, `user_blocked_contracts`, approval alerts | settings, emergency lock and freeze, rules, blocked contracts, analysis of a transaction, ingest of an approval | read-modify-write of a whole row, settings read up to three times in one analysis, three scoring layers on top of each other | what is forbidden is rejected and nothing else is, a save changes only what it was asked to |
| Threat intelligence (`threat_intel_service`, `solana_tx_analysis`, `domain_intel_service`, `external_intel_cache_service`, `goplus_intel_service`, the Solana and dApp half of `protection_engine`) | `scam_reports`, `activity_feed`, `threat_events`, `dapp_connections`, `external_intel_cache`, and the domain feed cached in the process | report, block, telemetry, Solana analysis, dApp check, the feed | what one analysis stores is evidence for the next; each source may fail without a word; two caches of different lifetimes | what is known to be bad is rejected and served, an analysis teaches no more than it found |
| Scans (`scan_service`, `analyzer_service`, `simulation_service`, `scoring_engine`, `reputation_service`, `solana_program_scan`, `website_scan_service`, the screens of `protection_routes`) | `contract_scans`, `wallet_scan_history`, the cache of crawled sites | scan, extension scan, screen, reputation graph, crawl | paid before it runs, every provider may be silent, the score is read again after it was written, casts to eight bits | a score is current and within the bounds of the path it took, a reported contract is shown as one, each scan is paid once and has one line of history |
| Notifications (`notification_service`, `notification_repository`, `notification_routes`) | `notification_read_receipts`, `alerts.read_at`, and five tables of others | list, mark one, mark all | five reads, then one statement per row, while rows arrive, close and move up | the newest are shown, the count is honest, mark-all leaves nothing it saw, nobody marks for another wallet |
| Portfolio (token half of `senseiguard_service` and its repository, `moralis_wallet`, `moralis_solana`) | `wallet_assets` | sync, summary, wallet modal, list | rows deleted and inserted one by one in no transaction while dashboards and other syncs run; pages and chains that fail; a native token that is also a row | what was held stays unless it was sold, no worth is counted twice |
| Scoring (`threat_scoring_v2`, `scoring_engine`) | none | pure scores, caps, bands | thresholds and caps that interact | bands agree with scores; no single stage blocks |
| Elite (`elite_intelligence_service`) | none | `assess_transaction` | a second verdict on top of the first | agrees with what lies below it |
| Clients of third parties (`clients/*`, `ai_insight_service`, the ScamSniffer proxy) | none | requests to providers | they fail or answer nothing | a silent source is not taken for a clean one where the code says so |
| Dashboards (`dashboard_routes`) | none of their own | aggregates; resolve and store a wallet's user; mark all alerts | a read that writes | in `Accounts` and `Inbox` |
| Process (`main`, `db`, hello) | the pool | startup, routing | none | not modelled |

How they interact: all through tables and direct calls. An analysis (Protection, Intel) charges
the XP of Accounts, judges by the settings, rules and blocked contracts, reads what Scans and
Intel have stored, and stores what it found through Threats and in the activity feed, from
which Intel learns; a connect (Accounts) starts the monitoring row whose score Threats stores; a
webhook (Subscriptions) writes the plan of a user Accounts created; alerts of Threats and
Protection appear in the Inbox. Where one module meets another, the other's part is an input:
in `Protection` a charge succeeds or not, in `Threats` the verdict of an analysis is one of a
set of signals, in `Scans` what a provider says is one of a set of facts.

## Plan

The order in which the project was built, most important behaviour first; all of it is done, and
every invariant and action property that a passing run checks is a theorem as well.

1. `Accounts` with `XpAccount`: model, runs, inductive invariant, refinement proved.
2. `Subscription` with `BillingView`: model, runs, inductive invariant, refinement proved.
3. `Threats`: model, runs, theorems about what closes a threat.
4. `Verdict` and `Protection`: model, runs, theorems about what is rejected.
5. `Intel`: model, runs, theorems about what becomes of known evidence.
6. `Scoring`, `Sites`, `Scans`: model, run, theorems about scores and about their readers.
7. `Inbox`: model, run, theorems about who marks what.
8. `Portfolio`, composed with `Accounts`: model, run, theorem about what a sync leaves.

What could be added: the full scan with its own score, the monitor cycle and the watchlist
(the last parts that write).

## Accounts

`Accounts.tla` has the tables as variables (`dashUser`, `wallet`, `monitor`, `claim`,
`billed`, and `issued`, the ids ever drawn), `req`, the locals of every request task, and the
history `alone`. A task is at a label `pc`; each action executes the statement of that label and
goes on.

| Action | Code |
|---|---|
| `DashRead`, `DashUpsert`, `DashReread` | `get_or_create_for_wallet`, `DashboardUserRepository::create` |
| `GrantRead`, `GrantInsert` | `ensure_welcome_xp_claim` |
| `StartConnect`, `LinkRead`, `WalletUpsert`, `MonitorUpdate`, `MonitorInsert`, `Bind` | `connect_wallet` (route and service), `start_monitoring`, `update_wallet_user_id` |
| `StartDisconnect`, `Deactivate`, `StopMonitor` | `disconnect_wallet` |
| `StartClaim`, `ClaimByWallet`, `ClaimByUser`, `ClaimByEmail`, `ClaimRecheck`, `ClaimUpgrade`, `ClaimInsert` | `claim_xp` |
| `StartCharge`, `ChargeByWallet`, `ChargeByRow`, `ChargeByUser`, `Deduct`, `LedgerInsert`, `Commit` | `charge_wallet_usage`, `deduct_xp_for_usage` |
| `StartOverview`, `FallbackRead` | `dashboard_overview`, `resolve_user_id_for_dashboard` |
| `Abandon`, `Swallow` | an error returned, a client that hangs up, a restart; an error the handler logs and ignores |

The database's constraints are guards: the foreign key of `user_xp_claims` (`MayOverwrite`,
`Registered`), the unique e-mail index (`EmailTaken`), `CHECK (xp_spent <= xp)`
(`MayUpgrade`), and the row lock that the UPDATE of an open transaction keeps (`Locked`).

Abstractions. Addresses and e-mails are already normalised. The random 14-character user id
is a fresh id. A user id sent by a client is any id at all, because no code looks it up
(`wallet_routes.rs:134`, `dashboard_routes.rs:321`): a connect may store a user nobody registered,
and its welcome XP then fails on the foreign key, which is only logged. That such an id may also be
one that is drawn later allows more than the code does. The XP of a waitlist
e-mail is a constant (`EntryXp`): the imported waitlist does not change at run time. The row
inserted by the migration for the welcome claim (`waitlist_entry_id` -1) is not an e-mail a
client submits. Display names and chain data are left out.

`XpAccount.tla` is what the XP tables promise without requests: three atomic operations,
`Welcome`, `ClaimEmail` and `Spend`. `Account` maps the tables to its variable and
`ImplementsXpAccount` says that every interleaving and failure of the handlers is one of its
behaviours.

### Runs (module `MCAccounts`)

| Run | Instance | Shows |
|---|---|---|
| `accounts_xp` | 1 wallet, 2 users, a waitlist e-mail worth 1 XP below a welcome bonus of 2, price 1, 2 requests, failures, fairness | what is spent is what was billed, an identity with XP is fixed, the handlers implement `XpAccount`, and every request is answered |
| `accounts_connect` | 2 wallets that may be linked, 2 users, registered or made up by a client, an e-mail, 2 concurrent connects, claims, disconnects or dashboards, failures | an e-mail pays out once, and a connect that runs alone repairs what races and failures before it left (`ConnectRepairs`) |

The resolving of a wallet's user for the dashboard (`resolve`) is in the run `portfolio`, which
contains `Accounts`.

`ConnectRepairs`. Races, lost statements and crashes leave wallets half connected: of two concurrent
first connects the one whose `get_or_create_for_wallet` fails stores NULL (`wallet_routes.rs:172`), a
grant of welcome XP is lost (`:193`), a wallet and its monitoring disagree (`wallet_service.rs:147`).
What the code promises is that the next connect puts it right: `alone` remembers the
request that began when nobody was at work, until another begins or it loses a statement, and a
connect that is answered alone leaves the wallet active and monitored, under a user who is the identity
of the wallet if the connect looked one up, and who has the welcome XP if `dashboard_users` knows
them. A user id that a client made up stays what it is.

Bounds. Two requests give every race of two statements; a third adds no table the first two
do not already contend for. An id is drawn only by a request that found no row for the
wallet, and a row never goes away, so `|Wallet| * |Req|` ids are enough for none to run out in
`accounts_xp`; in `accounts_connect`, with two ids for two wallets, a drawing that finds none left
is one of those that fail. XP stays finite because nothing earns more than `EntryXp`. The
e-mail is worth less than the welcome bonus so that an upgrade lowers the balance under a racing
charge. The requests of `accounts_connect` are without bound: any number of races may precede the
connect that repairs. Its search is bounded by `MCFirstWallet`: disconnects and dashboards are
explored for the first wallet that is connected, before an e-mail is claimed, connects and claims
for both wallets; the theorem `ConnectsRepair` has no such bound.

Fairness. `WF(Step(r))`: the async runtime polls a ready task again. `SF(Deduct \/
ClaimUpgrade)`: Postgres queues the waiters of a row lock, so a waiter that is offered the
lock again and again gets it. Nothing is assumed of clients, and nothing of failures.

### Proofs (module `AccountsProofs`)

For every set of wallets, users, e-mails and requests, every price above zero and every
waitlist, from `AccountsAssumption` alone:

| Theorem | Says |
|---|---|
| `Inductive` | `IInv` is an invariant |
| `TypeCorrect` | `TypeOK` |
| `LedgerCorrect` | spent XP is what the ledger says (`LedgerMatchesSpent`) |
| `Covered` | no account is overdrawn, open transactions included (`NeverOverdrawn`) |
| `SinglePayout` | an e-mail pays out to one user (`EmailClaimedOnce`) |
| `OwnersStay`, `IdentityStays` | identities with XP are registered and fixed (`ClaimOwnerRegistered`, `IdentityFixedByClaim`) |
| `ClaimsAreFinal` | a stored waitlist claim changes only by what is spent (`WaitlistClaimFinal`) |
| `Refinement` | `Spec` implements `XpAccount` (`ImplementsXpAccount`) |
| `ConnectsRepair` | a connect that runs alone leaves its wallet in order, whatever came before (`ConnectRepairs`) |

The properties are not inductive by themselves. `IInv` adds what a task knows at each label
(`Knows`: a claim that is about to be written has a waitlisted e-mail; at `commit` the
ledger row equals the price), that a row lock has one holder (`OneLockHolder`, so that two
transactions never add up against one balance), that a row without claim is empty, and that
the row a task reads again exists. A user without a claim has no open transaction, because
its price would overdraw it (`NoClaimNoLock`): that is why an INSERT of a claim needs no
lock. Statements are grouped by what they write (`OtherSteps`, `DashUpsertStep`,
`GrantInsertStep`, `ClaimStep`, `DeductStep`, `LedgerInsertStep`, `CommitStep`); each lemma
also states the effect that the action properties and the refinement use.

`ConnectsRepair` assumes nothing of the state a connect begins in but `IInv`. `AloneInv` says that
nobody is at work beside the request `alone`, and, of a connect, how far its writes have come
(`ConnectOK`, by label): what it looked up is the identity of its wallet, what it stored is still
there, and its monitoring is on from the statement that wrote it. `LookupLone`, `GrantLone` and
`StoreLone` go through its statements, and `AloneSteps` says of each step what becomes of `alone`.

Proved and not run: `TypeOK`, `NeverOverdrawn`, `ClaimOwnerRegistered`, `WaitlistClaimFinal`,
each a part of what the run's refinement already needs. Only model-checked: `RequestsFinish`
(liveness).

## Subscriptions

`Subscription.tla` has the rows of `user_subscriptions` (`row`), the webhook requests being
handled (`job`) and, because BoomFi is outside the code, what BoomFi knows: the paylinks it
was given (`links`), its subscriptions (`subs`), the reports it has made (`reports`) and those
not yet answered (`open`). The history `seen` has, for each user, the reports that had been answered
when her last checkout was started.

| Action | Code |
|---|---|
| `Checkout` | `create_checkout_session`, with `upsert` of the pending row |
| `Receive`, `Refuse` | `process_boomfi_webhook`: signature and age, then the cases that need no lookup |
| `FindByCustomer`, `FindBySub` | `resolve_user_id_from_webhook`: by customer id, then by subscription id |
| `ReadPlan`, `ReadCycle` | the stored plan and cycle stand in for what a report does not state |
| `Upsert`, `Fail` | the upsert and the 2xx (which may be lost); a database call that fails |
| `Subscribe`, `Pay`, `Unpaid`, `CancelAtPeriodEnd`, `Cancel` | BoomFi (external): the life of a subscription, each change reported |

Assumed of BoomFi, from how the handler reads its events: a customer belongs to one user; a
paylink opens a subscription of the plan it was made for; raw statuses are Active, Pending,
Canceled, Unpaid for subscriptions and Succeeded, Failed for payments; a payment carries no
`current_period_end` and no `cancel_at_period_end`; a report is sent until it is answered 2xx.
`SubForms` and `PayForms` say what a report carries (reference, customer, plan, cycle, plan
id), so that each lookup and each fallback of the handler is needed in some run. Time is the
number of reports made.

`BillingView.tla` is what the plan page promises: it shows a checkout that awaits payment, or
the status, plan and cycle of one report together. `ShowsOneReport` is the refinement.

### Runs (module `MCSubscription`)

| Run | Instance | Shows |
|---|---|---|
| `subs_stated` | 2 users, 2 handlers, 2 plans, 3 reports in any order, repeated, one fault, a tolerance that refuses the oldest, reports named by reference, by customer or by subscription only, all stating plan and cycle one way or the other | a report reaches its own user, nobody is active without having been reported paid, and a row shows one checkout or one report whole |
| `subs_ordered` | 1 user, 2 subscriptions, 2 checkouts, 1 handler, 5 reports one after the other, some payments without plan and cycle, 2 faults, fairness | once all are answered the row shows the latest report, or a checkout started after that was answered, and all are answered |

Bounds. Two subscriptions per user are what one row per user cannot hold; two handlers are
what a race needs; three reports contain every pair of an older and a newer one with one
between; five give a subscription that is opened, paid, canceled, and a second. The bounds
stop the system, so deadlock is not checked. `LatestShown` and `Converges` need reports in
order: the handler compares no timestamps, and no text says it should, so reports that arrive out of
order do leave an older one in the row. A checkout takes an
active subscription out of sight until the next report (`subscription_service.rs:301`). So
`LatestShown` excepts a row that awaits a checkout, but only one started when every report about
the user so far had been answered, which `seen` remembers: a pending row from before a
report excuses nothing, and a report that is answered and dropped is found. `ShowsOneReport` is about
reports that state their plan and cycle. One that does not takes both from the row in two reads, and
may pair the plan of one with the cycle of another (`subscription_service.rs:407`); no property
covers that.

Fairness (`FairSpec`). A handler that has been called finishes (`WF(Handle(w))`: the runtime
polls it), and BoomFi sends what was not answered (`WF` of sending). Nobody has to check out,
pay or cancel.

### Proofs (module `SubscriptionProofs`)

From the assumptions on the constants, for every set of users, plans, workers and forms:
`SubscriptionInductive`, `SubscriptionTypeCorrect`, `RightUser` (`EventsReachTheirUser`),
`NeverActiveUnpaid` (`ActiveWasPaid`), `ShowsOneReportWhole` (`ShowsOneReport`, when every
form of report states its plan and cycle: `AllStated`).

The inductive invariant `Inv` adds to the properties what a handler past its lookups knows
(`JobsOwn`: it holds the user its report is about, and a plan if it no longer reads one). It
is needed because the row a handler writes is found statements before it is written, and the
stored ids it was found by may be replaced meanwhile: what matters is that no row ever holds
the ids of another user. The refinement needs one more (`Whole`: a handler past the lookups
needs no read and carries its report's own plan and cycle).

`LatestHolds` (`LatestShown`) is about `subs_ordered`: under `SentInTurn`, that is, one report after
the other, none refused for its age, and each naming its user by reference. Its invariant
`Turn` says that the reports not yet answered come after all that were, and that at most one
handler is busy, with the first of them and with what it states (`OnFirst`); `UpToDate` says that a
row shows the newest report about its user that was answered, or a checkout started when all that
are answered by now had been. A repeated
report is then one that was stored and whose 2xx was lost, and storing it again changes nothing.

Only model-checked: `Converges` (liveness).

## Threats

`Threats.tla` has the tables as variables (`event`, `campaign`, `evidence`, `threat`, `acted`,
`blocked`, `alert`, `score`) and `job`, the locals of every request.

| Action | Code |
|---|---|
| `Analyse`, `RecordEvent`, `ReadEvents`, `FindCampaign`, `WriteCampaign`, `AddEvidence` | `ingest_signal`, `build_correlation` |
| `FindByCampaign`, `FindByContract`, `MergeThreat`, `InsertThreat`, `CreateAlert` | the storing half of `analyze_tx_and_respond`, `upsert_open_threat_for_campaign`, `create_threat_with_surface` |
| `Resolve`, `Dismiss`, `RecordAction`, `BlockContract`, `UnblockContract`, `MarkAlertsRead` | the endpoints of one statement each |
| `Verify`, `VerifyAll`, `ReadActions`, `ReadBlocked`, `MarkVerification`, `CloseVerified` | `verify_threat_for_wallet`, `verify_all_open_threats_for_wallet`, `verify_single_open_threat` |
| `Refresh`, `ReadCost`, `ReadRest`, `StoreScore` | `refresh_wallet_health`, `compute_live_security_score`, the stored wallet score |
| `Abandon`, `Swallow`, `MissEvidence` | an error returned or a request that dies; an error dropped; evidence that cannot be read |
| `NextDay` | time passes between requests |

Abstractions. The verdict of an analysis is an input (`signals` of `Load`). Entity edges and the
evidence rows that only describe a campaign are displayed and never read back by a decision.
Policy, drainer, risky-token and behavioural threats are known to verification and stored by
no code, so no type of them occurs. The LIMITs of the lists are out of reach of the bounds.
Event ids follow `event_time`. No request takes a day. The rows of approvals and dApps that
share only the score are left out, and so is `run_full_scan`, which computes a score of its
own.

### Run (module `MCThreats`)

How many requests are served at once (`crowd`) is chosen at the start and stays; what so many
ask for (`Asked`) is a bound. The run has two cases:

| Requests at once | Instance | Shows |
|---|---|---|
| one | 2 contracts, a domain, 6 verdicts of both scoring models, 3 days, 4 requests, 1 failure | a finding has one open threat and a type one running campaign, a stored finding is visible, verify-all misses nothing it has evidence for, the stored score is the live one |
| two | 1 contract, 2 verdicts, 4 requests, 1 failure | tables and scores keep their types and bounds, a threat is verified only on evidence for it, a verified one is not open, nothing reopens one that was closed |

Bounds. Four requests give find, act, verify and find again; a lookback within the day, a
campaign of one day and three days of time put an event and a campaign on each side of their
windows; one failure at every statement. What the first line says holds for one request at a
time: two analyses of one campaign can both find it without a threat and insert two. What the
second says is checked in both cases. No fairness is assumed and no liveness is claimed; the
bounds stop the system, so deadlock is not checked.

### Proofs (module `ThreatsProofs`)

For any number of requests at once, any verdicts, clocks and failures: `VerificationHolds`
(`VerificationIsTrue`) with its halves `EvidenceHolds` (`ClosedOnEvidence`) and `VerifiedHolds`
(`VerifiedIsClosed`), and `ClosedHolds` (`ClosedStaysClosed`), from `InvHolds`. A verification reads
the recorded actions, then the blocked contracts, then marks, then closes, one statement each, while
others block, unblock and act. The argument is that the type and contract of a threat, the actions
and the history of blocks only grow (`Grows`), so the evidence a verification has read stays
evidence until it closes the threat (`IsJob`, by place), and that the only statement that writes
"open" inserts a new row.

`TypesHold` (`TypeOK`) needs the invariant `Typed`: the ids a request holds are those of rows that
exist, and what it computed of them is within its bounds. A score is a sum over rows that stays
within 0..100 because each row's share is a number and the sum is cut.

Where requests come one after the other (`crowd` = 1), `AloneHolds` shows `AInv` and from it
`DuplicatesHold` (`NoDuplicates`), `FindingHolds` (`FindingIsOpen`), `VerifyAllHolds`
(`VerifyAllIsComplete`) and `RefreshedHolds` (`RefreshedScoreIsLive`). `Alone` says that one request
runs at most, that a campaign has one open threat and a type of it runs once
(`OneOpen`, `OneRunning`), that what was last answered is still so (`Told`), and, by place, what the
request knows because nobody wrote since it read (`Aware`): that the threat it did not find is not
there, so that inserting one makes no second; that a threat verify-all has passed had no evidence
for it; that the cost it read is the cost there is. Beyond the types of the constants these
theorems assume that there are finitely many requests (`ReqsFinite`).

## Protection and Verdict

`Verdict.tla` has the scores as operators: `V1` adds the weights of a transaction's patterns;
`EvaluateSignals` (v2, by `THREAT_SCORING_V2`) groups signals by campaign, counts each group
once, and lets a score of 80 block only with more than one stage of the kill chain
(`AllowBlock`); `Elite` is the assessment of the extension's endpoint. A transaction is a
record of what they tell apart (destination, kind of calldata, value, signs of a signature
request, risk and age of the page).

`Protection.tla` runs them. Its tables are `settings`, `autoScan`, `rules` and `blocked`;
`user` holds the requests that change them and `analysis` the analyses that read them.

| Action | Code |
|---|---|
| `BeginUpdate`, `BeginLock`, `BeginFreeze`, `Reread`, `Upsert`, `UpsertAutoScan` | `update_settings`, `emergency_lock`, `emergency_freeze`, `upsert_protection_settings_full`, `upsert_protection_auto_scan` |
| `CreateRule`, `ReadRule`, `WriteRule`, `DeleteRule`, `BlockContract`, `UnblockContract` | the rule and blocked-contract endpoints |
| `Analyse`, `Charge`, `ReadOwn`, `Evaluate`, `ReadBlocked`, `ReadRules`, `Rescore`, `Correlate` | `analyze_tx_and_respond`, `evaluate_transaction_v2`, `evaluate_transaction`, `apply_security_rules_tx` |
| `Assess` | `transaction_analyze`, the extension's endpoint, after the analysis |
| `Ingest`, `ReadSpender`, `CreateAlert` | `approvals_ingest`, `evaluate_approval` |
| `Answer` | the answer is sent, and the analysis forgotten |

An analysis reads the settings up to three times, then the blocked contracts, then the rules
(twice in v2), while a user changes them. So that "the transaction was forbidden" has a
meaning, an analysis keeps a history: `held`, the facts that were true all along, `seen`,
those true at some time, and `missed`, that a read failed (the code counts a failed read of
rules or blocked contracts as none). A property then asks for a rejection when a fact held,
and excuses one when it was seen. Settings are found by the address in lower case, rules and
blocked contracts by the spelling a request used, so a request has a `Spelling`.

Abstractions. What other services say to the elite assessment and the risk the correlation
answers are inputs. The XP balance is a choice (the ledger is in `Accounts`). What an analysis
stores as threats is in `Threats`; here its `flag` only says that something was blocked or an
alert stored. A request whose first read fails ends without effect and is left out.

### Runs (module `MCProtection`)

| Run | Instance | Shows |
|---|---|---|
| `protection` | 1 user with 2 requests, 1 analyst, 6 transactions that show every pattern, rule and stage, 2 spellings, both scoring models, 1 failure | what was forbidden all along is rejected, nothing else is, a risky approval, or one under the lock, has its alert if alerts are on, a save changes what it was asked to |
| `protection_extension` | the same with one spelling, two correlated risks and no failures | a finding: the extension's endpoint answers less than a rejection for what the lock or a rule forbids |

Bounds. Two requests create a rule and switch it off, or lock and save; analyses read the same
tables and write none of them, so one analyst shows what every one of them can answer.
`OnlyAskedChanges` is about one user's requests one after the other: two that overlap write back
whole rows and lose updates (`protection_routes.rs:649`). `ApprovalAlerted` leaves one case open, an
approval under the lock with the alerts switched off. There `evaluate_approval` returns before it
reads the switch and an alert is stored, while the function's comment (`protection_engine.rs:551`)
and `docs/PROTECTION_WIRING.md:26` say that with the switch off none is stored; the model does as
the code, and the property decides for neither. Deadlock is not checked because the bounds stop the
system. No fairness, no liveness.

### Proofs (module `ProtectionProofs`)

For every number of users and analyses at once, any transactions, rules, spellings and answers
of the correlation: `TypeHolds` (`TypeOK`), `ForbiddenHolds` (`ForbiddenIsRejected`),
`AlertedHolds` (`ApprovalAlerted`: what was wanted all along with the alerts on is stored, and what
was never wanted is not), from `InvHolds`; and `MergeHolds` (`OnlyAskedChanges`),
under the assumption that there is one request at a time (`User` has one member).

The invariant has two ideas. `Watches`: what an analysis has held as true all along is true
now, and what is true now it has seen, so a read that does not find a fact proves that it did
not hold all along. `Decided` and `Alerted` say, place by place, what an analysis has made of
the reads behind it; the hard place is `rescore`, where v2 forgets the verdict of the rules and
only the flag survives (a contract without other signals scores 0 and stays blocked by it).
`MergeHolds` needs what the request read to be what it overwrites.

`RejectedHolds` (`RejectedForAReason`, nothing else is rejected) goes through every weight and cap
of `Verdict`. Its invariant `Reasoned` follows the score from place to place: the first scoring
never reaches 80 by itself; v2 blocks only on two kinds of signal, which are the reason; and each
later raise, by a blocked contract, a rule or the correlation, leaves what it found in `seen`. It
assumes that calls and signs are those the code tells apart (`TxsAssumption`) and that a correlated
risk is a score (`RisksAssumption`).

## Intel

`Intel.tla` is the intelligence that users share. Its tables are `reported`, `blocked`,
`activity`, `events`, `connections` and `hits` (the positive answers of the external service,
with their time to live); `feedCache` is the list of malicious domains the process keeps;
`task` holds the requests.

| Action | Code |
|---|---|
| `Report`, `Block`, `Unblock`, `Telemetry` | scam report, blocked contract, the extension's event batch |
| `BeginAnalysis`, `BeginCheck`, `BeginFeed` | the Solana analyses of dashboard and extension, the dApp check, the threat feed |
| `Lookup`, `LookupFails`, `SettingsFail` | `get_cached_domain_hit`; the settings `evaluate_dapp_connection` reads and does not use |
| `ReadCache`, `QueryDomains`, `StoreDomains`, `QueryFails` | `get_domain_threat_feed`: cached, or queried and then cached |
| `Site`, `Connect` | `evaluate_dapp_connection` with what the crawl and the external service say; the stored connection |
| `ReadPrograms`, `ContractsFail`, `ServeFeed` | `get_malicious_programs`, `get_multichain_threat_feed`: each source may be lost on its own |
| `Enrich` | the answers of the external service about the programs, stored as hits |
| `Record`, `SendSignals`, `Reply` | `record_solana_analysis_signals`; the answer |
| `Tick`, `Restart` | hits and cache expire; the process loses its requests and its cache |

So that "was known to be bad" has a meaning under concurrency, a request keeps a history:
`kept` is the evidence that was there when it began and still is (`Watch` takes out what an
unblock or the clock takes away), and `missed` says that a read of it failed, which the code
counts as nothing found, or that a source was longer than its LIMIT (`CutShort`). A property
then asks something of requests that missed nothing, for what they kept.

Abstractions. Instructions are counts by kind (closes, transfers, approvals, authorities); a
domain's spelling is a risk (`Lookalike`) and its parents a set (`Covers`); the crawl and the
external service are inputs (`SiteAnswers`), no answer included. Each list of addresses is cut at
`MaxItems` (500) in its order, or anywhere where the query has no order; the LIMITs of 5000 and
2000 on the rows that name domains are left out. The charge of an analysis is in
`Protection` and `Accounts`, the correlation of a signal in `Threats`.

### Runs (module `MCIntel`)

| Run | Instance | Shows |
|---|---|---|
| `intel` | 1 Solana wallet, a known and an unknown program, a contract, a trusted domain and a lookalike, an analysis or check at once with a feed request, one report, block, telemetry event, failure or restart, hits that outlive the cache, lists of one address | a known bad program is rejected and served, a confirmed page stays dangerous whatever is said of it now, a page alone teaches the feed nothing, and a learned domain is missing for no longer than the cache lives |
| `intel_contagion` | the same without telemetry | a finding: a blocked transaction makes the harmless programs it also invokes malicious for everyone |

Bounds. One further operation puts each report, block or failure between any two calls of two
requests; two requests are enough for the second to meet what the first stored. `MaxItems` is
one, so that a transaction of two programs makes a list that is cut; `MaxFeed` equals the number
of domains, so the list of domains is never cut; `HitTtl` > `FeedTtl` as in the code. The
bounds stop the system. No fairness, no liveness.

### Proofs (module `IntelProofs`)

For any wallets, programs, domains, requests and answers, any number of workers, restarts and
failures: `TypeHolds` (`TypeOK`: no risk leaves 0..100), `RejectedHolds`
(`KnownBadIsRejected`), `ConfirmedStaysHolds` (`ConfirmedStays`), `LearnedHolds`
(`PageAloneTeachesNothing`) and `ServedHolds` (`ConfirmedIsServed`), from `InvHolds`. The
argument: what a running request has kept is still evidence (`Knows`), because evidence is lost
by `Unblock` and `Tick` only and both shrink `kept`; so every source it reads without failure
and whole shows it (`EvidenceIsListed`). `Shape` says what each place has made of what it read:
`Warns` of a page (a boost of 60 or a risk of 50 already), `Rejects` of a transaction,
`ServesAll` of the feed. That a page
alone teaches nothing is arithmetic: its risk enters the score with 50 at most, an unknown
program with 40, and 65 is needed to be stored.

`FeedLagHolds` (`FeedLag`) has an invariant of its own, `Lag` (`LagHolds`): a list of domains, in the
cache or in the hands of a request, has every domain learned up to the time of its query, or is
full (`Complete`); a request that goes on with a list has one no older than the cache's lifetime.
That the cut of a list leaves out a domain only when the list is full (`FirstIsFull`) is a fact
about sizes of finite sets: the domains left out are ranked, and before the first of them there are
as many as the limit. The theorem holds for any length of the list, where the run never cuts it.

## Scans, Scoring and Sites

`Scoring.tla` has the scores as operators: privileges, rug-pull level, security, simulation,
reputation and age of an EVM contract and their weighted sum (`ScoringEngine::compute`), the
Solana trust score, what is shown of a score (labels, the screens, token alerts), the risk of
the reputation graph, and the score of a site. Casts to `u8` are `% 256`; a sum of `f64` weights
that lies on a half may be rounded either way.

`Scans.tla` has `scans`, `history`, `reports` and `paid`, and the requests in `task`; `Sites.tla`
has `siteCache` and the crawls in `crawl`.

| Action | Code |
|---|---|
| `Begin` | the charge, then `scan_contract`, the extension's scan, a screen or the graph |
| `AskProviders`, `CountReports`, `CountEarlier`, `Insert`, `RecordHistory` | the calls of `scan_contract`, each of which may fail |
| `ReadTrust`, `ReadReports` | `get_latest_trust_score` and the count of reports, by the extension, the screens and the graph |
| `Answer`, `Report`, `Restart` | the answer; `create_scam_report`; the process stops |
| `StartSite`, `Skip`, `Fetch`, `Finish`, `Serve`, `Pass` | `scan_website`: cached or crawled, one page at a time; time passes |

Which path a scan takes is for the request to say: its `chain_family` overrides what the address
looks like (`Family`; `models/wallet.rs:416`), so a contract may be scanned as a program and the other
way round, and a path that does not fit finds nothing to ask. The bounds of a score are those of the
path. `history` is a sequence, as each row of `wallet_scan_history` has a key of its own: a scan that
was inserted twice would show. The crawler's client follows up to five redirects to any host
(`Reached`), and takes what it reads there for the answer of the URL it asked for: issues and links
are those of the page that was read, resolved against and judged by the URL that was asked (`Base`).

What the models show of the scores, beyond the properties: on the EVM path a score never falls under
28, nor under 52 without a critical flag; "High" as a rug-pull level is unreachable, although
`SCANNER_INTELLIGENCE.md:49` lists it; an unverified contract, or one Etherscan does not answer
for, gets stub privileges that include withdraw, and is shown as a malicious contract; all
simulators failing looks like a harmless simulation; a site that does not answer scores 25,
which is "Safe", and is cached so; rows are found by the exact spelling of an address.

### Run (module `MCScans`)

| Run | Instance | Shows |
|---|---|---|
| `scans` | 1 wallet, an EVM contract with 2 reports and a third one coming, a Solana program, each scanned on the path of its address or the one asked for, facts at both ends of the scale, 2 requests about them, one fault, 2 crawls of a site with a cycle of links, a page that may redirect to another host and links there, fairness of crawls | a reported contract is shown as one though a count fails, history tells the scan and tells it once, the score shown is current, a scan is paid once and lost only in a failure, the bounds of the scores on each path, the bounds of a crawl and its end |

Bounds. A scan at once with a reader is what staleness needs; the third report arrives before,
between or after any of their calls. The facts are the best and the worst a contract can have
(406 hidden calls and 260 info flags are past 255, where the casts to `u8` start again from 0, and
past the caps). One worker asks for the Solana path of either address, the other for the EVM path or
for none. Limits of 1 and of 2 pages put the queue at its bound (six) and keep two entries of the
cache apart. Deadlock is not checked
because the bounds stop the system.

Fairness. `WF(CrawlStep(c))`: a page request ends after its timeout of ten seconds at the latest
and the runtime polls the crawl again. Nothing is assumed of scans.

### Proofs (module `ScansProofs`)

About the operators of `Scoring`, for all arguments: `EvmFloor`, `UnverifiedIsMalicious`,
`RugPullIsNeverHigh`, `ReportedProgramScore`, `ShownRisks`, `GraphRiskBound`. About `Scans`, for
every set of contracts, facts and requests and any reports, failures and restarts: `TypeHolds`
(`TypeOK`), `HistoryHolds` (`HistoryTellsTheScan`), `CurrentHolds` (`ScoreIsCurrent`),
`ReportedHolds` (`ReportedIsShown`), `BoundsHold` (`ScoreBounds`) with its halves `EvmFloorHolds`
and `ReportedProgramHolds`, of the EVM and of the Solana path, from `InvHolds`. The invariant says
what a request has in hand between two calls (`Held`: the reports it counted are at least those it
began with; its own row is flagged or low if it saw reports), that the latest row is what its name
says (`LatestIsLast`), and that a row whose line is still to be written belongs to one request
(`Pending`) and has no line so far, which is why no scan gets two. `PaidHolds` (`PaidIsStored`) adds
a balance of each wallet (`Books`): what was charged is at least the rows and the running scans
together, and exceeds them by one scan of each worker for each failure at most. A stored row takes
its request out of the running ones and a stop takes them all, which is where the workers are
counted; so they are assumed to be finitely many (`ScansAssumption`), and the mark of a worker
without a request not to be a request (`NoTaskAssumption`).

`CrawlsHold` (`CrawlStays`) is about the crawler, for any web of pages and redirects and any limits
that fit the request's `u8` (`SitesAssumption`). It is about what a crawl asks for, not about what
it reads: behind a redirect that may be a page of any host. Its invariant `Crawls` says of a crawl
that its queue stays on the host it was started for, and that queue and visited pages are at most
three times the limit (`Fits`), and of the cache that what it holds for a page and limit is the
result of such a crawl. The links of a page join the queue one by one (`Joined`, the loop of the
code as a recursive function); that each prefix of them leaves the queue within its bound is an
induction over their number. Only model-checked: `CrawlsEnd` (liveness).

## Inbox

`Inbox.tla` has the rows of the five tables the notification centre lists (`items`, by the time they
are listed under), the receipts and the `read_at` of alerts, and the requests.

| Action | Code |
|---|---|
| `Begin`, `ReadReceipts`, `FindWallet`, `ReadTable`, `Reply` | `list_for_wallet`: receipts, wallet, then table by table, each cut at the limit |
| `LookupAgain`, `MarkAlerts`, `MarkNext`, `MarkDone` | `mark_all_read`: one UPDATE for the alerts, then a receipt for each other item of the list it read |
| `MarkRead`, `DashboardMarkAll` | marking one, with the type the client sends; the dashboard's own mark-all |
| `Arrive`, `Close`, `Restart` | rows appear, threats are closed and broadcasts expire; the process stops |
| `Redetect` | `upsert_open_threat_for_campaign` finds an open threat again and sets its `detected_at` to now |

A row keeps the `id` it came with; its place is its time. A threat that is detected again leaves its
place for the last one, so the newest of a list may change under a request that is reading it.

Approval alerts are stored under the address as the client wrote it (`protection_routes.rs:1869`) and
listed by the canonical one (`notification_service.rs:33`): one in another of the `Spellings` is
nobody's, is listed for no wallet and can be marked by none.

Abstractions. Times are the order of rows, and no two are equal. A Solana address is refused by the
service before anything is read, although the routes let it through. A table that cannot be read is
left out of the list; a receipt that cannot be written ends a mark-all half-way.

### Run (module `MCInbox`)

| Run | Instance | Shows |
|---|---|---|
| `inbox` | 2 registered wallets, one without a row and a second spelling of that one, 3 rows and a fourth that arrives or a threat that moves to the top, lists of 1 and a mark-all of 2, 2 requests, one failure | a mark-all leaves nothing unread that it saw and that fits its list, moved threats included, what was read is not counted, what is left out and has kept its place is older than what is shown, nobody's marks reach another wallet |

Bounds. Lists shorter than what there is to show are what the double cut needs; two requests are
a list and a mark-all, or two mark-alls, at once. An item beyond the list's hundred stays unread
after a mark-all, and an alert that arrives between the list and the UPDATE is marked unseen
(`notification_service.rs:181`): `AllIsRead` claims neither. `NewestAreShown` is about the items that
keep their place while the list is read: a threat detected again after its table was read is shown
where it was, and one that was below the cut then is missed until the next request.

### Proofs (module `InboxProofs`)

For every set of wallets, rows and requests: `TypeHolds` (`TypeOK`), `OwnersHold`
(`ReadByItsOwner`), `CountHolds` (`CountIsHonest`) and `AllReadHolds` (`AllIsRead`), from
`InvHolds`. Rows keep their type, owner and `id`, a threat that moves takes all three with it, two
rows of one `id` are one (`Named`), and receipts, read alerts and what was asked only grow
(`Grows`), so what a request knows (`Held`) stays true while others write. `AllReadHolds` says of
each place of a mark-all what it still owes the rows it saw when it began and still sees (`Owed`):
after the UPDATE the alerts are read, and a row of a table it has passed (`Passed`) is read, unread
in its list, or left to mark. That needs the list to have room for all rows of the wallet (`Small`),
because then the newest of them are all of them (`NewestAll`); rows only become more, so what fits
at the end did so all along, and what is shown later was shown before, maybe in another place, or is
new (`Fades`).

`NewestHold` (`NewestAreShown`) is about the double cut: each table is cut at the limit, and then
the list of all of them. `Listed` says of each item that was visible in its place all along and
whose table has been read that the page shows it or has as many newer ones as the limit (`Covers`),
and after the second cut that it is shown or the list is full of newer ones (`Fills`). `CutCovers`
and `CutFills` are the two facts about a cut: it covers what it was made from, and where a page
covers an item, its cut shows the item or is full of newer ones. A wallet that is not registered
lists only the approval alerts under its address and the broadcasts, which is all there is for it:
the `wallet_id` of the other three tables is a foreign key of `wallets`, so `Rows` has no others.

## Portfolio

`Portfolio.tla` has `assets`, the rows of `wallet_assets` per wallet, and `visit`, one request about
tokens per visitor. `synced` is no table: it remembers of each wallet and chain what the last sync
was told, and whether it had a whole answer and the chain to itself.

| Action | Code |
|---|---|
| `Visit` | a sync, the summary, the modal of a wallet or the list begins; a wallet without a row is refused |
| `AskTokens` | `fetch_wallet_tokens` with its pages, `fetch_native_balance` and `fetch_spl_tokens` |
| `ClearChain`, `PutToken` | `delete_indexed_assets_for_chain`, `delete_all_assets_for_chain`, then one `upsert_indexed_token` for each token |
| `ReadSum`, `ReadRows` | `total_asset_usd` and `list_assets`, in the order each dashboard has them |
| `ReadBalances` | `multi_chain_native_aggregate`: the native balances, each of which may be missing |
| `Show` | the answer (`Total`, `Listed`) |
| `Refuse`, `Stop` | a statement fails and its request with it; the process stops |

`PortfolioTotal` and `MergeUsd` are the arithmetic of `portfolio_total_usd_deduped`, `Listed` that of
`merge_live_native_into_assets`.

Abstractions. USD are whole numbers, a price times a balance included. Every row has a contract
(rows without one are older than the sync and no code here writes them). Of what Moralis answers an
item is a token, the native token or spam. `wallets.chain_id` is a constant: a reconnect that
changes it only changes which chains the next sync asks about. Quotes of the modal are left out.

### Run (module `MCPortfolio`)

The run `portfolio` checks two properties. `HoldingsStay`: after a sync the
rows of a chain, with those it is still inserting, are the tokens of its last answer, so what was
sold is gone and a reply that fails, for this chain or another, takes nothing away; where two syncs
wrote at once, at least what every answer has is there. `TotalCountsOnce`: what a dashboard shows an
EVM wallet to be worth is the sum of what it lists, less the smaller of the native and the wrapped
native balance of each chain; in the middle of a sync too, because both come from one read of the
rows. For a Solana wallet it claims nothing: the total is a SUM read apart from the list
(`senseiguard_service.rs:898`).

Bounds. An EVM wallet whose own chain Moralis does not know and whose other chain has three replies
(two tokens; three pages of which the third, which fails, is past `MAX_PAGES` of 2; two pages of
which the second fails), and a Solana wallet with either half of an answer missing. Two requests
about tokens: two syncs at once, or a sync and a dashboard. One failure or stop. They come after the
requests of `Accounts`, connects, disconnects and overviews of one user, while XP is untouched
(`XpUntouched`): they read nothing of `Accounts` but that the wallet has a row, which stays once it
is there, and write nothing of it, so any other order shows the same. The bounds stop the system, so
deadlock is not checked.

### Proofs (module `PortfolioProofs`)

`HoldingsHold` (`HoldingsStay`), for every set of wallets, chains, replies and visitors, any number
of requests, failures and stops, from the assumptions on the constants. The invariant adds that a
sync has a chain left while it works on one, and that what it holds when it deletes is an answer
about that chain. What is stored and what is coming are taken together (`Kept`): inserting moves a
token from one to the other, deleting leaves what is coming, and a request that fails takes away what
it alone was bringing (`Brings`), to a chain that is broken from then on. `AnswersAssumption` says
that an answer is a sequence of tokens; the operators it is built with are folds over sequences,
about which the provers know nothing.

`TotalCounts` (`TotalCountsOnce`) needs of the state only `Worth`: what is stored and what a request
has read are finitely many rows and balances of whole amounts. The rest is adding up, chain by
chain: the total and the overlap that was taken out are together the lines of the list. The sums
are folds over sets; that they add every term once, in whatever order, and split over disjoint
sets is shown by induction over the subsets of a finite set. `PortfolioAssumption` says that the
native balances are of finitely many chains and of whole amounts.

## Findings

`PROJECT.json` lists two, each with the run that shows it.

* `protection_extension`: `docs/PROTECTION_WIRING.md:16` says that the extension's endpoint
  applies rules and the emergency lock; the recommendation it returns is that of the elite
  assessment, which reads neither.
* `intel_contagion`: the feed takes every program of a blocked transaction, although the analysis
  separates the programs "that contributed to elevated risk (for auto-learning feed)".

A third disagreement has no run of its own: with the approval alerts switched off, an approval under
the emergency lock has its alert stored, which `docs/PROTECTION_WIRING.md:26` and the comment at
`protection_engine.rs:551` deny (see `ApprovalAlerted` above).

Behaviour worth knowing that contradicts no text: each source of the threat feed is cut at 500
addresses, so with more reports than that a reported program can fall out of the feed and be let
through (`threat_intel_service.rs:101`); a dashboard read can store a user it read statements ago
over a newer one (`dashboard_routes.rs:368`); two overlapping saves of protection settings lose one
of them; a reported program scanned as `evm` has no cap on its score (`scan_routes.rs:125`); an
approval alert under another spelling of an address is listed for nobody; two concurrent first
connects leave a wallet without a user, and a user id that a client makes up stays on the wallet
without welcome XP (`wallet_routes.rs:193`); with scoring v2 no statement closes a campaign, so
resolving a threat does not end it (`senseiguard_service.rs:454`); connecting a linked wallet and
then claiming can split it off its user (`waitlist_service.rs:262`); a report without
`current_period_end` stores its `updated_at` as the end of the period
(`subscription_service.rs:438`); a Solana wallet of which Moralis answers only the balance or only
the tokens loses the rows of the other half (`senseiguard_service.rs:1549`), and a sync that is cut
off loses those it had not yet inserted; under the emergency lock the score of a transaction is
hidden from the screen, on purpose (`protection_routes.rs:903`).

## What is not modelled

* The full scan with its own score and findings, and the Solana background loop
  (`senseiguard_service`): a second computation over the same tables, with I/O in between.
* The monitor cycle and the watchlist (`protection_engine`, `protection_routes`): lists that one
  request writes and that no decision modelled here reads back.
* Clients of third parties: I/O and parsing. What they may answer is an input of `Intel`, `Scans`
  and `Protection`; no answer is one of the inputs.
* Fingerprints, liquidity, lists of earlier scans, the dashboards that only read and add nothing up,
  prices, texts.
* Wiring of the process: startup, pool, router.
* Outside the reach of the prover: liveness under fairness (`RequestsFinish`, `Converges`,
  `CrawlsEnd`), which is model-checked only.
