----------------------------- MODULE Protection -----------------------------
(***************************************************************************)
(* The protection of one wallet: its settings (with the emergency lock and  *)
(* the whitelist), its security rules, its blocked contracts, the auto-scan *)
(* row its settings drive, and the analyses of transactions and approvals   *)
(* that read them.                                                          *)
(*                                                                         *)
(* Every database call is a step of its own.  A user's request and an       *)
(* analysis interleave between their calls, and an analysis reads the       *)
(* settings up to three times.  The settings are found by the address in    *)
(* lower case; rules, blocked contracts and approval alerts by the spelling *)
(* of the address a request happened to use.                                *)
(***************************************************************************)
EXTENDS Verdict

CONSTANTS
    User,        \* requests that change the settings, at most one each at a time
    Analyst,     \* analyses of transactions and approvals, likewise
    Contract,
    Spelling,    \* spellings of the wallet's address
    RuleId,
    Limits,      \* values of max_usd (0: not set)
    Txs,         \* transactions that are analysed
    Asks,        \* requests of PUT /settings: functions from fields to values
    Ctxs,        \* what other services say to the elite assessment
    CorrelatedRisks,  \* risks the correlation may answer
    MaxChanges,  \* bound: requests of users
    MaxFaults    \* bound: database calls that fail

VARIABLES
    scoringV2,   \* THREAT_SCORING_V2
    settings,    \* user_protection_settings: the wallet's row or None
    autoScan,    \* protection_auto_scan: auto_scan_enabled of its row, or None
    rules,       \* wallet_security_rules: row or None, by id
    blocked,     \* user_blocked_contracts: <<spelling, contract>>
    user,        \* the request of each user, or None
    analysis,    \* the analysis of each analyst, or None
    changes,     \* requests of users so far
    faults       \* failed database calls so far

tables == <<settings, autoScan, rules, blocked>>
vars == <<scoringV2, settings, autoScan, rules, blocked, user, analysis,
          changes, faults>>

Toggles == {"auto", "warn", "appr", "dapp", "block"}
Fields == Toggles \cup {"lock", "white"}

\* default_settings, also what the handlers assume of a wallet without a row.
Default == [f \in Fields |-> IF f = "white" THEN {}
                             ELSE f \in {"auto", "warn", "appr", "dapp"}]

\* What a request may ask of the settings: some of the fields.
IsWish(ask) == /\ DOMAIN ask \subseteq Fields
               /\ \A f \in DOMAIN ask : ask[f] \in (IF f = "white" THEN SUBSET Contract ELSE BOOLEAN)

ASSUME AsksAssumption == \A ask \in Asks : IsWish(ask)
ASSUME TxsAssumption == \A tx \in Txs : tx.call \in Calls /\ tx.sign \subseteq Signs
ASSUME RisksAssumption == CorrelatedRisks \subseteq 0..100
ASSUME NoneAssumption == None \notin BOOLEAN /\ \A white \in SUBSET Contract : white # None

OrDefault(row) == IF row = None THEN Default ELSE row

-----------------------------------------------------------------------------
(* What forbids a transaction.                                             *)

\* The lock lets whitelisted destinations pass, and those without one.
Locked(row, tx) == row.lock /\ tx.to # None /\ tx.to \notin row.white

\* The action of a rule is stored and not read: every enabled rule blocks.
RuleBlocks(rule, tx) ==
    /\ rule.enabled
    /\ \/ rule.kind = "unlimited" /\ tx.call = "unlimited"
       \/ rule.kind = "usd" /\ rule.limit > 0 /\ tx.value > rule.limit

RulesBlock(table, spelling, tx) ==
    \E r \in RuleId : /\ table[r] # None
                      /\ table[r].spelling = spelling
                      /\ RuleBlocks(table[r], tx)

\* What holds of a transaction now, for the history each analysis keeps.
Facts(row, table, contracts, spelling, tx) ==
    {f \in {"lock", "barred", "warn", "appr", "auto", "rule", "contract"} :
       \/ f = "lock" /\ OrDefault(row).lock
       \/ f = "barred" /\ Locked(OrDefault(row), tx)
       \/ f = "warn" /\ OrDefault(row).warn
       \/ f = "appr" /\ OrDefault(row).appr
       \/ f = "auto" /\ OrDefault(row).block
       \/ f = "rule" /\ RulesBlock(table, spelling, tx)
       \/ f = "contract" /\ <<spelling, tx.to>> \in contracts}

FactsNow(spelling, tx) == Facts(settings, rules, blocked, spelling, tx)

\* The analyses after a step of a user: held are the facts that held all along a
\* running one, seen those that held at some time of it.  One that has answered is
\* forgotten: its history ends with its answer.
Watched(t, now) == [t EXCEPT !.held = @ \cap now, !.seen = @ \cup now]

Observe ==
    analysis' = [a \in Analyst |->
        IF analysis[a] = None \/ analysis[a].pc = "done" THEN None
        ELSE Watched(analysis[a], Facts(settings', rules', blocked',
                                        analysis[a].spelling, analysis[a].tx))]

Faulty == faults < MaxFaults /\ faults' = faults + 1

-----------------------------------------------------------------------------
(* Requests of users: settings.  Each handler reads the row, merges its     *)
(* request into what it read and writes the whole row back.                 *)

\* Mutation of Merge: what is not asked for gets its default.
MergeDefault(ask, row) == [f \in Toggles |-> IF f \in DOMAIN ask THEN ask[f] ELSE Default[f]]

\* The toggles a handler writes: those asked for over those it read.
Merge(ask, row) == [f \in Toggles |-> IF f \in DOMAIN ask THEN ask[f] ELSE OrDefault(row)[f]]

Request(u, kind, ask, toggles, lock, white) ==
    /\ user[u] = None /\ changes < MaxChanges
    /\ changes' = changes + 1
    /\ user' = [user EXCEPT ![u] =
          [pc |-> IF lock = None /\ white = None THEN "reread" ELSE "upsert",
           kind |-> kind, ask |-> ask, toggles |-> toggles, lock |-> lock, white |-> white]]
    /\ UNCHANGED <<scoringV2, tables, faults>> /\ Observe

\* PUT /settings: the lock and the whitelist stay open when neither the request
\* nor the row it read has them.
BeginUpdate(u, ask) ==
    LET asked(f) == IF f \in DOMAIN ask THEN ask[f]
                    ELSE IF settings = None THEN None ELSE settings[f]
    IN  Request(u, "update", ask, Merge(ask, settings), asked("lock"), asked("white"))

\* POST /emergency-lock, with or without a new whitelist.
BeginLock(u, lock, white) ==
    LET ask == IF white = None THEN [lock |-> lock] ELSE [lock |-> lock, white |-> white]
    IN  Request(u, "lock", ask, Merge(ask, settings), lock,
                IF white = None THEN OrDefault(settings).white ELSE white)

\* POST /emergency-freeze: a freeze locks and switches auto-block on.
BeginFreeze(u, freeze) ==
    LET ask == IF freeze THEN [lock |-> TRUE, block |-> TRUE] ELSE [lock |-> FALSE]
    IN  Request(u, "freeze", ask, Merge(ask, settings), freeze, OrDefault(settings).white)

At(u, pc) == user[u] # None /\ user[u].pc = pc
Abort(u) == user' = [user EXCEPT ![u] = None]

\* upsert_protection_settings_full reads the row again when it was given neither.
Reread(u) ==
    /\ At(u, "reread")
    /\ \/ /\ user' = [user EXCEPT ![u].pc = "upsert",
                                  ![u].lock = OrDefault(settings).lock,
                                  ![u].white = OrDefault(settings).white]
          /\ UNCHANGED faults
       \/ Faulty /\ Abort(u)
    /\ UNCHANGED <<scoringV2, tables, changes>> /\ Observe

\* The row it writes: a missing lock is off and a missing whitelist empty.
Written(r) == [f \in Fields |-> IF f = "lock" THEN r.lock = TRUE
                                ELSE IF f = "white" THEN IF r.white = None THEN {} ELSE r.white
                                ELSE r.toggles[f]]

Upsert(u) ==
    /\ At(u, "upsert")
    /\ \/ /\ settings' = Written(user[u])
          /\ IF user[u].kind = "update"
             THEN user' = [user EXCEPT ![u].pc = "scan"] ELSE Abort(u)
          /\ UNCHANGED <<autoScan, rules, blocked, faults>>
       \/ Faulty /\ Abort(u) /\ UNCHANGED tables
    /\ Observe
    /\ UNCHANGED <<scoringV2, changes>>

\* A failure here is dropped: the request succeeds without it.
UpsertAutoScan(u) ==
    /\ At(u, "scan")
    /\ \/ autoScan' = user[u].toggles["auto"] /\ UNCHANGED faults
       \/ Faulty /\ UNCHANGED autoScan
    /\ Abort(u)
    /\ UNCHANGED <<scoringV2, settings, rules, blocked, changes>> /\ Observe

-----------------------------------------------------------------------------
(* Requests of users: rules and blocked contracts.                         *)

\* One statement each; a request that fails or finds no row changes nothing.
Change(u) == user[u] = None /\ changes < MaxChanges /\ changes' = changes + 1

CreateRule(u, id, spelling, kind, limit) ==
    /\ Change(u)
    /\ rules[id] = None
    /\ rules' = [rules EXCEPT ![id] = [spelling |-> spelling, kind |-> kind,
                                      limit |-> limit, enabled |-> TRUE]]
    /\ UNCHANGED <<settings, autoScan, blocked>> /\ Observe
    /\ UNCHANGED <<scoringV2, user, faults>>

\* update_security_rule reads the rule, then writes what it merged:
\* to nobody, if the rule was deleted in between.
ReadRule(u, id, spelling, enabled, limit) ==
    /\ Change(u)
    /\ rules[id] # None /\ rules[id].spelling = spelling
    /\ user' = [user EXCEPT ![u] =
          [pc |-> "rule", id |-> id,
           rule |-> [rules[id] EXCEPT !.enabled = IF enabled = None THEN @ ELSE enabled,
                                      !.limit = IF limit = None THEN @ ELSE limit]]]
    /\ UNCHANGED <<scoringV2, tables, faults>> /\ Observe

WriteRule(u) ==
    /\ At(u, "rule")
    /\ \/ /\ rules' = [rules EXCEPT ![user[u].id] = IF @ = None THEN None ELSE user[u].rule]
          /\ UNCHANGED faults
       \/ Faulty /\ UNCHANGED rules
    /\ Abort(u)
    /\ UNCHANGED <<settings, autoScan, blocked>> /\ Observe
    /\ UNCHANGED <<scoringV2, changes>>

DeleteRule(u, id, spelling) ==
    /\ Change(u)
    /\ rules[id] # None /\ rules[id].spelling = spelling
    /\ rules' = [rules EXCEPT ![id] = None]
    /\ UNCHANGED <<settings, autoScan, blocked>> /\ Observe
    /\ UNCHANGED <<scoringV2, user, faults>>

BlockContract(u, spelling, c) ==
    /\ Change(u)
    /\ blocked' = blocked \cup {<<spelling, c>>}
    /\ UNCHANGED <<settings, autoScan, rules>> /\ Observe
    /\ UNCHANGED <<scoringV2, user, faults>>

UnblockContract(u, spelling, c) ==
    /\ Change(u)
    /\ <<spelling, c>> \in blocked
    /\ blocked' = blocked \ {<<spelling, c>>}
    /\ UNCHANGED <<settings, autoScan, rules>> /\ Observe
    /\ UNCHANGED <<scoringV2, user, faults>>

-----------------------------------------------------------------------------
(* The analysis of a transaction.  A request whose answer is an error or    *)
(* "skipped" ends without a record: it says nothing about the transaction.  *)

Nothing == Result(0, "Safe", Proceed)
Forbid(result) == [result EXCEPT !.action = Reject]

Is(a, pc) == analysis[a] # None /\ analysis[a].pc = pc
Set(a, task) == analysis' = [analysis EXCEPT ![a] = task]
Fail(a) == Faulty /\ Set(a, None)

Start(pc, entry, tx, spelling, toggle) ==
    [pc |-> pc, entry |-> entry, tx |-> tx, spelling |-> spelling, out |-> Nothing,
     flag |-> FALSE, first |-> toggle, own |-> None, evaluated |-> FALSE,
     missed |-> FALSE, held |-> FactsNow(spelling, tx), seen |-> FactsNow(spelling, tx)]

\* The endpoints of the dashboard have no page to judge.  Without a row, or with
\* the warnings off, they answer "skipped"; the extension's goes on to its
\* assessment with a score of 0.
Analyse(a, entry, tx, spelling) ==
    LET on == settings # None /\ OrDefault(settings).warn
    IN  /\ analysis[a] = None
        /\ entry = "dashboard" => on /\ tx.lure = 0 /\ ~tx.young
        /\ Set(a, Start(IF on THEN "charge" ELSE "assess", entry, tx, spelling,
                        on /\ OrDefault(settings).block))
        /\ UNCHANGED <<scoringV2, tables, user, changes, faults>>

\* The XP of the analysis: an insufficient balance ends it (the ledger is Accounts').
Charge(a) ==
    /\ Is(a, "charge")
    /\ \/ Set(a, [analysis[a] EXCEPT !.pc = IF scoringV2 THEN "own" ELSE "evaluate"])
       \/ Set(a, None)
    /\ UNCHANGED <<scoringV2, tables, user, changes, faults>>

\* evaluate_transaction_v2 reads settings of its own before the evaluation reads them.
ReadOwn(a) ==
    /\ Is(a, "own")
    /\ \/ /\ Set(a, [analysis[a] EXCEPT !.pc = "evaluate",
                 !.own = [warn |-> OrDefault(settings).warn, block |-> OrDefault(settings).block]])
          /\ UNCHANGED faults
       \/ Fail(a)
    /\ UNCHANGED <<scoringV2, tables, user, changes>>

\* After the evaluation: v2 scores again unless its own settings have warnings off.
AfterBase(t) == IF t.own # None /\ t.own.warn THEN "rescore" ELSE "correlate"
Based(t, result, forbidden) ==
    [t EXCEPT !.pc = AfterBase(t), !.out = result, !.flag = forbidden]

Evaluate(a) ==
    LET t == analysis[a]
        row == OrDefault(settings)
    IN  /\ Is(a, "evaluate")
        /\ \/ /\ Locked(row, t.tx)
              /\ Set(a, [t EXCEPT !.out = Result(100, "Block", Reject),
                          !.pc = IF t.entry = "extension" THEN "assess" ELSE "done"])
              /\ UNCHANGED faults
           \/ /\ ~Locked(row, t.tx) /\ ~row.warn
              /\ Set(a, Based(t, Nothing, FALSE))
              /\ UNCHANGED faults
           \/ /\ ~Locked(row, t.tx) /\ row.warn
              /\ Set(a, [t EXCEPT !.pc = "contract", !.evaluated = row.block])
              /\ UNCHANGED faults
           \/ Fail(a)
        /\ UNCHANGED <<scoringV2, tables, user, changes>>

\* A read of the blocked contracts or of the rules that fails finds none.
ReadBlocked(a) ==
    LET t == analysis[a]
    IN  /\ Is(a, "contract")
        /\ \/ /\ Set(a, IF <<t.spelling, t.tx.to>> \in blocked
                         THEN Based(t, Result(100, "Block", Reject), TRUE)
                         ELSE [t EXCEPT !.pc = "rules"])
              /\ UNCHANGED faults
           \/ Faulty /\ Set(a, [t EXCEPT !.pc = "rules", !.missed = TRUE])
        /\ UNCHANGED <<scoringV2, tables, user, changes>>

\* v1: what is blocked is rejected and keeps the band of its score.
Judged(t, ruled) ==
    LET v1 == V1(t.tx)
        forbidden == ruled \/ (t.evaluated /\ v1.score >= 80)
    IN  Based(t, IF forbidden THEN Forbid(v1) ELSE v1, forbidden)

ReadRules(a) ==
    LET t == analysis[a]
    IN  /\ Is(a, "rules")
        /\ \/ Set(a, Judged(t, RulesBlock(rules, t.spelling, t.tx))) /\ UNCHANGED faults
           \/ Faulty /\ Set(a, [Judged(t, FALSE) EXCEPT !.missed = TRUE])
        /\ UNCHANGED <<scoringV2, tables, user, changes>>

\* Mutation of Rescored: the second score forgets what the first evaluation blocked.
RescoredAfresh(t, ruled) ==
    LET v2 == EvaluateSignals(Signals(t.tx))
        forbidden == ruled \/ (t.own.block /\ v2.score >= 80)
    IN  [t EXCEPT !.pc = "correlate", !.flag = forbidden,
                  !.out = IF forbidden THEN Result(v2.score, "Block", Reject) ELSE v2]

\* v2: the signals are scored, the rules read again, and what is blocked becomes "Block".
Rescored(t, ruled) ==
    LET v2 == EvaluateSignals(Signals(t.tx))
        forbidden == t.flag \/ ruled \/ (t.own.block /\ v2.score >= 80)
    IN  [t EXCEPT !.pc = "correlate", !.flag = forbidden,
                  !.out = IF forbidden THEN Result(v2.score, "Block", Reject) ELSE v2]

Rescore(a) ==
    LET t == analysis[a]
    IN  /\ Is(a, "rescore")
        /\ \/ Set(a, Rescored(t, RulesBlock(rules, t.spelling, t.tx))) /\ UNCHANGED faults
           \/ Faulty /\ Set(a, [Rescored(t, FALSE) EXCEPT !.missed = TRUE])
           \/ (t.tx.lure > 0 \/ t.tx.young) /\ Fail(a)
        /\ UNCHANGED <<scoringV2, tables, user, changes>>

\* The risk the correlation answers, in v2: the band follows the raised score, and
\* the auto-block toggle is the one of the first read.
Correlated(t, risk) ==
    LET score == Max({t.out.score, risk})
    IN  [t.out EXCEPT !.score = score, !.band = Band(score),
                      !.action = IF t.first /\ score >= 80 THEN Reject ELSE @]

Correlate(a) ==
    LET t == analysis[a]
        after(out) == [t EXCEPT !.out = out,
                                !.pc = IF t.entry = "extension" THEN "assess" ELSE "done"]
    IN  /\ Is(a, "correlate")
        /\ \/ Set(a, after(t.out))
           \/ /\ t.out.score > 0 /\ scoringV2
              /\ \E risk \in CorrelatedRisks : Set(a, after(Correlated(t, risk)))
        /\ UNCHANGED <<scoringV2, tables, user, changes, faults>>

\* The extension's endpoint answers what elite makes of the score.
Assess(a, ctx) ==
    LET t == analysis[a]
    IN  /\ Is(a, "assess")
        /\ Set(a, [t EXCEPT !.pc = "done", !.out = Elite(t.out.score, t.tx, ctx)])
        /\ UNCHANGED <<scoringV2, tables, user, changes, faults>>

-----------------------------------------------------------------------------
(* The ingest of an approval: tx.to is the spender.  Its answer is the      *)
(* score, and flag says whether an alert was stored.                        *)

\* Mutation of Ingest: the lock only stops transactions.
IngestUnlocked(a, tx, spelling) ==
    /\ analysis[a] = None
    /\ Set(a, Start("spender", "approval", tx, spelling, OrDefault(settings).appr))
    /\ UNCHANGED <<scoringV2, tables, user, changes, faults>>

\* With the lock on every approval is an alert, whatever the toggle says:
\* evaluate_approval returns before it reads the toggle.
Ingest(a, tx, spelling) ==
    LET row == OrDefault(settings)
        t == Start("spender", "approval", tx, spelling, row.appr)
    IN  /\ analysis[a] = None
        /\ Set(a, IF row.lock
                  THEN [t EXCEPT !.pc = "alert", !.out = [@ EXCEPT !.score = 100]] ELSE t)
        /\ UNCHANGED <<scoringV2, tables, user, changes, faults>>

ApprovalScore(contracts, spelling, tx) ==
    IF <<spelling, tx.to>> \in contracts THEN 100 ELSE IF tx.call = "unlimited" THEN 85 ELSE 40

ReadSpender(a) ==
    LET t == analysis[a]
        scored(contracts) ==
            LET score == ApprovalScore(contracts, t.spelling, t.tx)
            IN  [t EXCEPT !.out = [@ EXCEPT !.score = score],
                          !.pc = IF t.first /\ score >= 50 THEN "alert" ELSE "done"]
    IN  /\ Is(a, "spender")
        /\ \/ Set(a, scored(blocked)) /\ UNCHANGED faults
           \/ Faulty /\ Set(a, [scored({}) EXCEPT !.missed = TRUE])
        /\ UNCHANGED <<scoringV2, tables, user, changes>>

CreateAlert(a) ==
    /\ Is(a, "alert")
    /\ \/ Set(a, [analysis[a] EXCEPT !.pc = "done", !.flag = TRUE]) /\ UNCHANGED faults
       \/ Faulty /\ Set(a, [analysis[a] EXCEPT !.pc = "done", !.missed = TRUE])
    /\ UNCHANGED <<scoringV2, tables, user, changes>>

\* The answer is sent.
Answer(a) ==
    /\ Is(a, "done") /\ Set(a, None)
    /\ UNCHANGED <<scoringV2, tables, user, changes, faults>>

-----------------------------------------------------------------------------
\* The wallet has no settings yet, or saved them once without asking for anything.
Init ==
    /\ scoringV2 \in BOOLEAN
    /\ \/ settings = None /\ autoScan = None
       \/ settings = Default /\ autoScan = TRUE
    /\ rules = [id \in RuleId |-> None] /\ blocked = {}
    /\ user = [u \in User |-> None] /\ analysis = [a \in Analyst |-> None]
    /\ changes = 0 /\ faults = 0

UserStep(u) ==
    \/ \E ask \in Asks : BeginUpdate(u, ask)
    \/ \E lock \in BOOLEAN, white \in {None} \cup SUBSET Contract : BeginLock(u, lock, white)
    \/ \E freeze \in BOOLEAN : BeginFreeze(u, freeze)
    \/ Reread(u) \/ Upsert(u) \/ UpsertAutoScan(u)
    \/ \E id \in RuleId, sp \in Spelling :
         \/ \E kind \in {"unlimited", "usd"}, limit \in Limits : CreateRule(u, id, sp, kind, limit)
         \/ \E enabled \in BOOLEAN \cup {None}, limit \in Limits \cup {None} :
               ReadRule(u, id, sp, enabled, limit)
         \/ DeleteRule(u, id, sp)
    \/ WriteRule(u)
    \/ \E sp \in Spelling, c \in Contract : BlockContract(u, sp, c) \/ UnblockContract(u, sp, c)

AnalysisStep(a) ==
    \/ \E entry \in {"dashboard", "extension"}, tx \in Txs, sp \in Spelling : Analyse(a, entry, tx, sp)
    \/ Charge(a) \/ ReadOwn(a) \/ Evaluate(a) \/ ReadBlocked(a) \/ ReadRules(a)
    \/ Rescore(a) \/ Correlate(a)
    \/ \E ctx \in Ctxs : Assess(a, ctx)
    \/ \E tx \in {t \in Txs : t.to \in Contract /\ t.call # "plain"}, sp \in Spelling : Ingest(a, tx, sp)
    \/ ReadSpender(a) \/ CreateAlert(a) \/ Answer(a)

Next == (\E u \in User : UserStep(u)) \/ (\E a \in Analyst : AnalysisStep(a))

Spec == Init /\ [][Next]_vars

-----------------------------------------------------------------------------
(* Properties.                                                             *)

Rules == [spelling : Spelling, kind : {"unlimited", "usd"}, limit : Limits, enabled : BOOLEAN]
FactNames == {"lock", "barred", "warn", "appr", "auto", "rule", "contract"}

IsSettings(row) == DOMAIN row = Fields /\ IsWish(row)

\* A request that merges settings, and one that merges a rule.
IsMerging(r) ==
    /\ DOMAIN r = {"pc", "kind", "ask", "toggles", "lock", "white"}
    /\ r.pc \in {"reread", "upsert", "scan"} /\ r.kind \in {"update", "lock", "freeze"}
    /\ IsWish(r.ask) /\ r.toggles \in [Toggles -> BOOLEAN]
    /\ r.lock = None \/ r.lock \in BOOLEAN
    /\ r.white = None \/ r.white \in SUBSET Contract

IsRequest(r) == \/ IsMerging(r)
                \/ r \in [pc : {"rule"}, id : RuleId, rule : Rules]

\* The local variables of an analysis.
IsAnalysis(t) ==
    /\ DOMAIN t = {"pc", "entry", "tx", "spelling", "out", "flag", "first", "own", "evaluated",
                   "missed", "held", "seen"}
    /\ t.entry \in {"dashboard", "extension", "approval"}
    /\ t.pc \in (IF t.entry = "approval" THEN {"spender", "alert", "done"}
                 ELSE {"charge", "own", "evaluate", "contract", "rules", "rescore", "correlate", "done"}
                      \cup {pc \in {"assess"} : t.entry = "extension"})
    /\ DOMAIN t.out = {"score", "band", "action"}
    /\ {t.flag, t.missed} \subseteq BOOLEAN
    /\ t.held \subseteq t.seen /\ t.seen \subseteq FactNames

\* Type invariant: every row and every request holds what its table or its handler lets it.
TypeOK ==
    /\ scoringV2 \in BOOLEAN
    /\ settings = None \/ IsSettings(settings)
    /\ autoScan \in BOOLEAN \cup {None}
    /\ rules \in [RuleId -> Rules \cup {None}]
    /\ blocked \subseteq Spelling \X Contract
    /\ user = [u \in User |-> user[u]]
    /\ \A u \in User : user[u] = None \/ IsRequest(user[u])
    /\ analysis = [a \in Analyst |-> analysis[a]]
    /\ \A a \in Analyst : analysis[a] = None \/ IsAnalysis(analysis[a])

Answered(a, entry) == Is(a, "done") /\ analysis[a].entry = entry

\* Something that is to stop the transaction was in the tables throughout the analysis.
Barred(t) == \/ "barred" \in t.held
             \/ "warn" \in t.held /\ ~t.missed /\ {"rule", "contract"} \cap t.held # {}

\* An analysis of the dashboard rejects what a lock, a rule or a blocked contract
\* forbade all along, whichever of its reads saw it, in both scoring models, and
\* whatever the correlation then makes of the score.
ForbiddenIsRejected ==
    \A a \in Analyst : Answered(a, "dashboard") /\ Barred(analysis[a])
                         => analysis[a].out.action = Reject

\* It rejects nothing else than what one of them forbade at some time of it, a high
\* score of a wallet that blocks high risks, and a signature request together with
\* a pattern of the transaction: no single stage of the kill chain blocks alone.
RejectedForAReason ==
    \A a \in Analyst :
        Answered(a, "dashboard") /\ analysis[a].out.action = Reject =>
            LET t == analysis[a]
            IN  \/ {"barred", "rule", "contract"} \cap t.seen # {}
                \/ "auto" \in t.seen /\ t.out.score >= 80
                \/ scoringV2 /\ t.tx.sign # {} /\ Patterns(t.tx) # {}

\* What may make an alert of an approval was there at some time of its ingest.
AlertSeen(t) == \/ "lock" \in t.seen
                \/ "appr" \in t.seen /\ (t.tx.call = "unlimited" \/ "contract" \in t.seen)

\* With the alerts on all along its ingest, an approval that is risky, or locked, all
\* along has its alert; one that was neither risky with the alerts on nor locked at any
\* time has none.  The lock with the alerts off is left open: there the code stores an
\* alert (evaluate_approval returns before it reads the toggle), while its comment
\* ("when OFF no alert") and docs/PROTECTION_WIRING.md:26 say that none is stored.
ApprovalAlerted ==
    \A a \in Analyst :
        Answered(a, "approval") =>
            LET t == analysis[a]
                wanted == "appr" \in t.held
                          /\ (t.tx.call = "unlimited" \/ {"lock", "contract"} \cap t.held # {})
            IN  /\ wanted /\ ~t.missed => t.flag
                /\ t.flag => AlertSeen(t)

\* A write of the settings is the merge of its request into the row it replaces: a
\* toggle, a lock or a whitelist that was not asked for stays.  For requests of one
\* user at a time: overlapping ones lose updates.
OnlyAskedChanges ==
    [][settings' # settings =>
         \E u \in User :
            /\ At(u, "upsert")
            /\ \A f \in Fields : settings'[f] = IF f \in DOMAIN user[u].ask THEN user[u].ask[f]
                                               ELSE OrDefault(settings)[f]]_vars

\* docs/PROTECTION_WIRING.md:16 of the extension's endpoint: with the warnings on, it
\* applies the rules and the emergency lock.
ExtensionAppliesRules ==
    \A a \in Analyst : Answered(a, "extension") /\ "warn" \in analysis[a].held /\ Barred(analysis[a])
                         => analysis[a].out.action = Reject
=============================================================================
