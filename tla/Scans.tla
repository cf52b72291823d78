-------------------------------- MODULE Scans --------------------------------
(***************************************************************************)
(* Scans of contracts and Solana programs, and the readers of what they      *)
(* store.  A scan is paid for, asks its providers, counts the reports and      *)
(* earlier scans of the same address, stores a row and a line of the wallet's  *)
(* history; each of these calls may fail, and only the charge and the row end   *)
(* the request.  The extension, the screen of an analysis and the reputation    *)
(* graph read the latest row and the reports, which other requests add to.       *)
(*                                                                         *)
(* Sites.tla is the crawler of the same process: a restart stops both.         *)
(***************************************************************************)
EXTENDS Sites

CONSTANTS
    Workers,     \* requests about contracts, at most one each at a time
    Serves,      \* the requests of each worker: <<kind, chain_family>>
    Wallets,
    Contracts,   \* addresses, as they are spelled: rows are found by their text
    Programs,    \* those of them that are Solana programs
    Facts,       \* what the providers may say of each contract, by the path of its scan
    Readings,    \* what a reader brings: [tx, policy, touched, refs]
    FirstReports,\* the reports of each contract at the start
    MaxReports,  \* bound: reports that are sent
    MaxRequests, \* bound: requests of the workers and crawls
    MaxFaults,   \* bound: failed calls and restarts
    Apart        \* bound: no crawl runs beside a request; they share nothing but a restart

ASSUME ScansAssumption ==
    /\ IsFiniteSet(Workers)
    /\ Programs \subseteq Contracts
    /\ None \notin Wallets
    /\ FirstReports \in [Contracts -> Nat]
    /\ Apart \in BOOLEAN

AllFacts == UNION {Facts[c].evm \cup Facts[c].solana : c \in Contracts}

\* Counts are what parsers of the answers return: never negative.
Answers(S) == {None} \cup S
TokenFlags == Answers([scam : Nat, info : Nat])

ASSUME FactsAssumption ==
    \A c \in Contracts :
        /\ Facts[c].solana \subseteq
             [bad : BOOLEAN, system : BOOLEAN, token : TokenFlags, feeds : Nat \X Nat]
        /\ Facts[c].evm \subseteq
             [abi : Answers([owner : SUBSET Privileges, unlimited : BOOLEAN, tokens : Nat]),
              days : Answers(Nat), alchemy : Answers([drains : BOOLEAN, hidden : Nat]),
              trace : Answers(Nat), debug : Answers(Nat), token : TokenFlags, feeds : Nat \X Nat]

VARIABLES
    scans,     \* contract_scans, in the order of scanned_at
    history,   \* wallet_scan_history: lines that name a scan by its place, as inserted
    reports,   \* the number of scam_reports of each contract
    paid,      \* how often each wallet was charged for a scan
    task,      \* the request of each worker
    sent, requests, faults

scanVars == <<scans, history, reports, paid, task, sent, requests, faults>>
vars == <<scanVars, siteVars>>

\* A scan of the API or of the action analyze_contract of the extension's screens,
\* the extension's own scan, the screen of an analysis, and the graph.
Kinds == {"scan", "extension", "screen", "graph"}

ScanKinds == {"scan", "extension"}

\* ChainFamily
Families == {"evm", "solana"}

\* resolve_scan_chain_family: what the request asks for, else what the address looks like.
Family(asked, contract) ==
    IF asked # None THEN asked ELSE IF contract \in Programs THEN "solana" ELSE "evm"

\* The calls of each kind of request, in their order.
FirstCall(kind) == IF kind \in ScanKinds THEN "facts" ELSE IF kind = "graph" THEN "reports" ELSE "trust"
NextCall(kind, call) ==
    IF call = "facts" THEN "count"
    ELSE IF call = "count" THEN "earlier"
    ELSE IF call = "earlier" THEN "insert"
    ELSE IF call = "insert" THEN "history"
    ELSE IF call = "history" /\ kind = "extension" THEN "trust"
    ELSE IF call = "trust" /\ kind # "graph" THEN "reports"
    ELSE IF call = "reports" /\ kind = "graph" THEN "trust" ELSE "done"

RowsOf(contract) == {i \in DOMAIN scans : scans[i].contract = contract}

\* Mutation of Latest: the first scan of a contract stays its score.
Earliest(contract) == IF RowsOf(contract) = {} THEN 0 ELSE Min(RowsOf(contract))

\* The place of the latest scan, 0 for none.
Latest(contract) == IF RowsOf(contract) = {} THEN 0 ELSE Max(RowsOf(contract))
Trust(row) == IF row = 0 THEN None ELSE scans[row].trust

\* count_scans_for_wallet_contract
Earlier(wallet, contract) == Cardinality({i \in RowsOf(contract) : scans[i].wallet = wallet})

At(w, call) == task[w] # None /\ task[w].pc = call
Fault == faults < MaxFaults /\ faults' = faults + 1

\* The next call of a request, with what the last one brought.
Continue(w, t) == task' = [task EXCEPT ![w] = [t EXCEPT !.pc = NextCall(t.kind, @)]]

-----------------------------------------------------------------------------
(* create_scam_report: a row for each report, whoever sends it.              *)

Report(contract) ==
    /\ sent < MaxReports /\ sent' = sent + 1
    /\ reports' = [reports EXCEPT ![contract] = @ + 1]
    /\ UNCHANGED <<scans, history, paid, task, requests, faults>>

-----------------------------------------------------------------------------
(* A request and its charge: a scan without a wallet is free.                *)

Task(kind, wallet, contract, family, reading) ==
    [kind |-> kind, wallet |-> wallet, contract |-> contract, family |-> family, reading |-> reading,
     pc |-> FirstCall(kind), before |-> reports[contract], facts |-> None, rep |-> None,
     earlier |-> None, row |-> Latest(contract), seen |-> 0, reports |-> 0, missed |-> {}]

\* Mutation of Charge: only the first scan of a wallet is charged.
ChargeFirst(wallet) == [paid EXCEPT ![wallet] = 1]

Charge(wallet) == [paid EXCEPT ![wallet] = @ + 1]

Begin(w, kind, wallet, contract, asked, reading) ==
    /\ task[w] = None /\ <<kind, asked>> \in Serves[w]
    /\ requests + crawls < MaxRequests /\ requests' = requests + 1
    /\ kind # "scan" => wallet # None
    /\ reading # None <=> kind \in {"screen", "graph"}
    /\ asked # None => kind \in ScanKinds
    /\ task' = [task EXCEPT ![w] = Task(kind, wallet, contract, Family(asked, contract), reading)]
    /\ paid' = IF kind \in ScanKinds /\ wallet # None THEN Charge(wallet) ELSE paid
    /\ UNCHANGED <<scans, history, reports, sent, faults>>

\* A wallet that cannot pay is refused before anything is read: no step.

-----------------------------------------------------------------------------
(* The calls of a scan.                                                     *)

\* Providers that do not answer are part of the facts.
AskProviders(w, facts) ==
    /\ At(w, "facts") /\ facts \in Facts[task[w].contract][task[w].family]
    /\ Continue(w, [task[w] EXCEPT !.facts = facts])
    /\ UNCHANGED <<scans, history, reports, paid, sent, requests, faults>>

\* get_reputation: a count that fails is no report.
CountReports(w) ==
    LET t == task[w]
        rep(count) == Reputation(count, ExternalSignals(t.facts.token, t.facts.feeds))
    IN  /\ At(w, "count")
        /\ \/ Continue(w, [t EXCEPT !.rep = rep(reports[t.contract])]) /\ UNCHANGED faults
           \/ Fault /\ Continue(w, [t EXCEPT !.rep = rep(0), !.missed = @ \cup {"count"}])
        /\ UNCHANGED <<scans, history, reports, paid, sent, requests>>

CountEarlier(w) ==
    LET t == task[w]
        count == IF t.wallet = None THEN None ELSE Earlier(t.wallet, t.contract)
    IN  /\ At(w, "earlier")
        /\ \/ Continue(w, [t EXCEPT !.earlier = count]) /\ UNCHANGED faults
           \/ Fault /\ Continue(w, t)
        /\ UNCHANGED <<scans, history, reports, paid, sent, requests>>

\* The path of a scan is the request's, whatever the address is.
Solana(t) == t.family = "solana"
Scores(t) == IF Solana(t) THEN SolanaScores(t.facts, t.rep, t.earlier)
             ELSE EvmScores(t.facts, t.rep, t.earlier)

Flags(t) == IF Solana(t) THEN SolanaFlags(t.facts, t.rep) ELSE EvmFlags(t.facts, t.rep)

\* create_contract_scan: without the row the request fails, and stays paid.
Insert(w) ==
    LET t == task[w]
        row(trust) == [contract |-> t.contract, wallet |-> t.wallet, family |-> t.family,
                       trust |-> trust, flags |-> Flags(t)]
    IN  /\ At(w, "insert")
        /\ \/ /\ \E trust \in Scores(t) : scans' = Append(scans, row(trust))
              /\ Continue(w, [t EXCEPT !.row = Len(scans'), !.facts = None, !.rep = None])
              /\ UNCHANGED faults
           \/ Fault /\ task' = [task EXCEPT ![w] = None] /\ UNCHANGED scans
        /\ UNCHANGED <<history, reports, paid, sent, requests>>

\* Mutation of OwnScan: the line is about the latest scan of the contract.
LatestScan(t) == Latest(t.contract)

OwnScan(t) == t.row

\* record_wallet_scan_history: a failure is only logged.
RecordHistory(w) ==
    LET t == task[w]
        line == [wallet |-> t.wallet, scan |-> OwnScan(t), risk |-> 100 - Trust(OwnScan(t)),
                 issues |-> scans[OwnScan(t)].flags]
    IN  /\ At(w, "history") /\ Continue(w, t)
        /\ \/ history' = (IF t.wallet = None THEN history ELSE Append(history, line))
              /\ UNCHANGED faults
           \/ Fault /\ UNCHANGED history
        /\ UNCHANGED <<scans, reports, paid, sent, requests>>

-----------------------------------------------------------------------------
(* The calls of a reader.                                                   *)

ReadTrust(w) ==
    LET t == task[w]
    IN  /\ At(w, "trust")
        /\ \/ Continue(w, [t EXCEPT !.seen = Latest(t.contract)]) /\ UNCHANGED faults
           \/ Fault /\ Continue(w, [t EXCEPT !.missed = @ \cup {"trust"}])
        /\ UNCHANGED <<scans, history, reports, paid, sent, requests>>

ReadReports(w) ==
    LET t == task[w]
    IN  /\ At(w, "reports")
        /\ \/ Continue(w, [t EXCEPT !.reports = reports[t.contract]]) /\ UNCHANGED faults
           \/ Fault /\ Continue(w, [t EXCEPT !.missed = @ \cup {"reports"}])
        /\ UNCHANGED <<scans, history, reports, paid, sent, requests>>

Done(w) == At(w, "done")

Answer(w) ==
    /\ Done(w) /\ task' = [task EXCEPT ![w] = None]
    /\ UNCHANGED <<scans, history, reports, paid, sent, requests, faults>>

\* The risk a request shows.
Shown(t) ==
    CASE t.kind = "extension" -> ScanRisk(Trust(t.row), Trust(t.seen), t.reports)
      [] t.kind = "screen" -> ScreenRisk(Trust(t.seen), t.reports, t.reading.tx, t.reading.policy)
      [] t.kind = "graph" -> GraphRisk(t.reports, t.reading.touched, t.reading.refs, Trust(t.seen))
      [] OTHER -> 100 - Trust(t.row)

-----------------------------------------------------------------------------
\* The process stops: requests are lost, the tables are not.
Restart ==
    /\ Fault /\ SiteStop
    /\ task' = [w \in Workers |-> None]
    /\ UNCHANGED <<scans, history, reports, paid, sent, requests>>

Init ==
    /\ scans = <<>> /\ history = <<>>
    /\ reports = FirstReports
    /\ paid = [u \in Wallets |-> 0]
    /\ task = [w \in Workers |-> None]
    /\ sent = 0 /\ requests = 0 /\ faults = 0
    /\ SiteInit

ScanStep(w) ==
    \/ \E kind \in Kinds, wallet \in Wallets \cup {None}, contract \in Contracts,
          asked \in Families \cup {None}, reading \in Readings \cup {None} :
             Begin(w, kind, wallet, contract, asked, reading)
    \/ \E facts \in AllFacts : AskProviders(w, facts)
    \/ CountReports(w) \/ CountEarlier(w) \/ Insert(w) \/ RecordHistory(w)
    \/ ReadTrust(w) \/ ReadReports(w) \/ Answer(w)

ScanNext == (\E w \in Workers : ScanStep(w)) \/ (\E c \in Contracts : Report(c))

Separate == (\A w \in Workers : task[w] = None) \/ (\A c \in Crawlers : crawl[c] = None)

Next == /\ \/ ScanNext /\ UNCHANGED siteVars
           \/ SiteNext /\ UNCHANGED scanVars /\ requests + crawls' <= MaxRequests
           \/ Restart
        /\ Apart => Separate'

Spec == Init /\ [][Next]_vars

\* Crawls go on: each request for a page ends, at the latest after its timeout.
FairSpec == Spec /\ \A c \in Crawlers : WF_vars(CrawlStep(c) /\ UNCHANGED scanVars)

-----------------------------------------------------------------------------
(* Properties.                                                             *)

Places == {"facts", "count", "earlier", "insert", "history", "trust", "reports", "done"}

Row == [contract : Contracts, wallet : Wallets \cup {None}, family : Families,
        trust : Int, flags : Nat]

Line == [wallet : Wallets, scan : Nat, risk : Int, issues : Nat]

Reps == [reported : BOOLEAN, local : Nat, flags : Nat]

Tasks == [kind : Kinds, wallet : Wallets \cup {None}, contract : Contracts,
          family : Families, reading : Readings \cup {None}, pc : Places, before : Nat,
          facts : {None} \cup AllFacts,
          rep : {None} \cup Reps,
          earlier : {None} \cup Nat, row : Nat, seen : Nat, reports : Nat,
          missed : SUBSET {"count", "trust", "reports"}]

ASSUME NoTaskAssumption == None \notin Tasks

\* Type invariant: rows, reports and requests hold what the code's types let them.
TypeOK ==
  /\ scans \in Seq(Row) /\ history \in Seq(Line)
  /\ reports \in [Contracts -> Nat]
  /\ task \in [Workers -> Tasks \cup {None}]

\* A contract that had three reports when the extension asked for its scan is shown
\* as malicious, even if one of the two counts fails; and the graph stops a
\* transaction to it (extension_scan_smart_contract, analyze_reputation_graph).
ReportedIsShown ==
    \A w \in Workers :
        LET t == task[w]
        IN  Done(w) /\ t.before >= 3 =>
                /\ t.kind = "extension" /\ ~({"count", "reports"} \subseteq t.missed)
                     => Malicious(Shown(t), t.reports, scans[t.row].flags)
                /\ t.kind = "graph" /\ "reports" \notin t.missed
                     => GraphStop(t.reports, Shown(t))

\* A line of the history is about a scan of this wallet, with its risk and its flags, and
\* no scan has two lines, however many scans of one contract run at once and whichever of
\* them fail: the table takes any line, with a key of its own (record_wallet_scan_history).
HistoryTellsTheScan ==
    \A i \in DOMAIN history :
        LET scan == scans[history[i].scan]
        IN  /\ scan.wallet = history[i].wallet
            /\ history[i].risk = 100 - scan.trust /\ history[i].issues = scan.flags
            /\ \A j \in DOMAIN history : history[i].scan = history[j].scan => i = j

\* The score a request shows is of a scan at least as late as its own, or as the
\* last one stored when it started (get_latest_trust_score).
ScoreIsCurrent ==
    \A w \in Workers :
        LET t == task[w]
        IN  Done(w) /\ t.kind # "scan" /\ "trust" \notin t.missed
                => t.seen >= t.row

\* Each scan of a wallet is paid for once, when it starts; what is paid and has no
\* row was lost in a failure or a stop, and never comes back (charge_wallet_usage).
PaidIsStored ==
    \A u \in Wallets :
        LET stored  == Cardinality({i \in DOMAIN scans : scans[i].wallet = u})
            running == Cardinality({w \in Workers : \E call \in {"facts", "count", "earlier", "insert"} :
                                                      At(w, call) /\ task[w].wallet = u})
        IN  /\ stored + running <= paid[u]
            /\ paid[u] <= stored + running + faults * Cardinality(Workers)

\* The score of a scan on the EVM path never falls under 28, whatever the providers say,
\* nor under 52 without a critical flag: with nothing but the score, such a scan never
\* reaches the 75 of a malicious contract.  The path is the one the request asked for,
\* which may be the wrong one for the address (ScoringEngine::compute, scan_contract,
\* extension_scan_smart_contract).
EvmScoreFloor ==
    \A i \in DOMAIN scans : scans[i].family = "evm" =>
        scans[i].trust >= (IF scans[i].flags = 0 THEN 52 ELSE 28)

\* On the Solana path, an address with a report of a user never gets more than 37, be it
\* a program or not; on the EVM path there is no such cap
\* (compute_solana_trust_score).
ReportedProgramIsLow ==
    \A w \in Workers :
        At(w, "history") /\ Solana(task[w]) /\ task[w].before > 0 /\ "count" \notin task[w].missed
            => scans[task[w].row].trust <= 37

\* The bounds a reader of the stored scores relies on, each reached through casts to
\* eight bits, a rounded sum and caps.
ScoreBounds == EvmScoreFloor /\ ReportedProgramIsLow
=============================================================================
