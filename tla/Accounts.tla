------------------------------- MODULE Accounts -------------------------------
(***************************************************************************)
(* Identity, wallet connection and XP of the SenseiFi backend: the tables  *)
(* dashboard_users, wallets, wallet_monitoring, user_xp_claims and         *)
(* xp_usage_events, and the request handlers that write them.              *)
(*                                                                         *)
(* Every handler is an independent task.  It holds no lock between two SQL *)
(* statements, so each statement is one action; between them any other     *)
(* request may run.  The only transaction is the one of                    *)
(* deduct_xp_for_usage, whose UPDATE keeps its row locked until COMMIT.    *)
(***************************************************************************)
EXTENDS Integers, FiniteSets

CONSTANTS
    Wallet,       \* wallet addresses, already normalised
    UserId,       \* the ids random_user_id can draw and clients can send
    Email,        \* normalised e-mail addresses a client may submit
    Req,          \* concurrent request tasks
    None,         \* SQL NULL, or an argument the client left out
    Ops,          \* the endpoints the clients call
    WelcomeXp,    \* XP_WELCOME_BONUS
    EntryXp,      \* referral XP of every e-mail on the imported waitlist
    Costs,        \* the XP prices of the billable features
    CanFail       \* may statements fail and clients hang up?

AllOps == {"connect", "disconnect", "claim", "charge", "overview", "resolve"}

\* What the deployment may set these to.  env_i32 drops prices below 1, and a
\* waitlist that was imported has non-negative referral counts.
ASSUME AccountsAssumption ==
    /\ None \notin Wallet \cup UserId \cup Email \cup Req
    /\ Ops \subseteq AllOps
    /\ WelcomeXp \in Int
    /\ DOMAIN EntryXp \subseteq Email
    /\ EntryXp \in [DOMAIN EntryXp -> Nat]
    /\ Costs \subseteq Nat \ {0}
    /\ CanFail \in BOOLEAN

Waitlisted == DOMAIN EntryXp

VARIABLES
    dashUser,     \* dashboard_users: wallet_address -> user_id
    issued,       \* user ids ever drawn (14 random characters never repeat)
    wallet,       \* wallets: status (is_active, or no row) and user_id
    monitor,      \* wallet_monitoring.status, or "absent"
    claim,        \* user_xp_claims by user_id
    billed,       \* SUM(xp_cost) of the committed xp_usage_events of a user
    req,          \* locals of the request tasks
    alone         \* history: the request that began with no other under way and has had none
                  \* beside it since, nor lost a statement; or None

tables == <<dashUser, issued, wallet, monitor, claim, billed>>
vars == <<dashUser, issued, wallet, monitor, claim, billed, req, alone>>

-----------------------------------------------------------------------------
(* Rows and locals *)

WalletRow == [status: {"absent", "active", "inactive"}, user: UserId \cup {None}]

\* kind "welcome" is waitlist_entry_id = WELCOME_WAITLIST_ENTRY_ID; its e-mail
\* is welcome+<user_id>@senseifi.internal, which no client and no other user has.
ClaimRow == [kind: {"none", "welcome", "waitlist"}, wallet: Wallet \cup {None},
             email: Email \cup {None}, xp: Nat, spent: Nat]

NoClaim == [kind |-> "none", wallet |-> None, email |-> None, xp |-> 0, spent |-> 0]

GocLabels == {"dash_read", "dash_upsert", "dash_reread"}
GrantLabels == {"grant_read", "grant_insert", "regrant_read", "regrant_insert"}
TxLabels == {"ledger_insert", "commit"}

Label == {"idle", "link_read", "wallet_upsert", "monitor_update", "monitor_insert",
          "bind", "deactivate", "stop_monitor", "fallback_read",
          "claim_by_wallet", "claim_by_user", "claim_by_email", "claim_recheck",
          "claim_upgrade", "claim_insert", "charge_by_wallet", "charge_by_row",
          "charge_by_user", "deduct"} \cup GocLabels \cup GrantLabels \cup TxLabels

Local == [op: AllOps \cup {"none"}, pc: Label,
          w: Wallet \cup {None},      \* the wallet_address of the request
          t: Wallet \cup {None},      \* the wallet whose identity is looked up
          u: UserId \cup {None},      \* the user_id resolved so far
          e: Email \cup {None},
          via: BOOLEAN,               \* connect_wallet's dashboard_user is Some
          fb: BOOLEAN,                \* inside the single-wallet fallback
          spend: Nat,                 \* price, then the transaction's UPDATE
          row: Nat]                   \* xp_cost of the transaction's INSERT

IdleLocal == [op |-> "none", pc |-> "idle", w |-> None, t |-> None, u |-> None,
              e |-> None, via |-> FALSE, fb |-> FALSE,
              spend |-> 0, row |-> 0]

HasClaim(u) == claim[u].kind # "none"
Registered(u) == \E w \in Wallet : dashUser[w] = u
\* An UPDATE of the row of u waits for the transaction that changed it.
Locked(u) == \E r \in Req : req[r].pc \in TxLabels /\ req[r].u = u

\* Mutation of EmailTaken: the claims of other users are not looked at.
EmailUnread(e) == FALSE

EmailTaken(e) == \E v \in UserId : claim[v].email = e

At(r, l) == req[r].pc = l
Goto(r, l) == req' = [req EXCEPT ![r].pc = l]
Finish(r) == req' = [req EXCEPT ![r] = IdleLocal]

\* No request is under way.
Quiet == \A r \in Req : At(r, "idle")

Begun(r) == alone' = IF Quiet THEN r ELSE None

Init ==
    /\ dashUser = [w \in Wallet |-> None]
    /\ issued = {}
    /\ wallet = [w \in Wallet |-> [status |-> "absent", user |-> None]]
    /\ monitor = [w \in Wallet |-> "absent"]
    /\ claim = [u \in UserId |-> NoClaim]
    /\ billed = [u \in UserId |-> 0]
    /\ req = [r \in Req |-> IdleLocal]
    /\ alone = None

-----------------------------------------------------------------------------
(* get_or_create_for_wallet, a subroutine of connect, claim and overview.  *)

\* Where the caller goes on once it holds an identity.
AfterGoc(op) == CASE op = "connect" -> "wallet_upsert"
                  [] op = "claim" -> "claim_by_wallet"
                  [] OTHER -> "bind"

\* Err: connect_wallet logs it and carries on without a user id, claim_xp
\* returns it, the dashboard turns to its fallback wallet (once).
GocFails(r) ==
    CASE req[r].op = "connect" -> Goto(r, "wallet_upsert")
      [] req[r].op \in {"overview", "resolve"} /\ ~req[r].fb -> Goto(r, "fallback_read")
      [] OTHER -> Finish(r)

DashRead(r) ==
    /\ At(r, "dash_read")
    /\ IF dashUser[req[r].t] # None
       THEN req' = [req EXCEPT ![r].pc = "grant_read", ![r].via = TRUE,
                               ![r].u = dashUser[req[r].t]]
       ELSE Goto(r, "dash_upsert")
    /\ UNCHANGED <<tables, alone>>

\* Mutation of MayOverwrite: user_xp_claims has no foreign key.
OverwriteAlways(u) == u \in UserId \cup {None}

\* ON CONFLICT DO UPDATE replaces the user_id another request stored since
\* DashRead, unless a claim still references the old one (foreign key).
MayOverwrite(u) == u \notin {v \in UserId : HasClaim(v)}

DashUpsert(r) ==
    /\ At(r, "dash_upsert")
    /\ \/ /\ MayOverwrite(dashUser[req[r].t])
          /\ \E fresh \in UserId \ issued :
                /\ issued' = issued \cup {fresh}
                /\ dashUser' = [dashUser EXCEPT ![req[r].t] = fresh]
          /\ Goto(r, "dash_reread")
          /\ UNCHANGED <<alone, wallet, monitor, claim, billed>>
       \/ /\ ~MayOverwrite(dashUser[req[r].t])
          /\ GocFails(r)
          /\ UNCHANGED <<tables, alone>>

DashReread(r) ==
    /\ At(r, "dash_reread")
    /\ req' = [req EXCEPT ![r].pc = "grant_read", ![r].via = TRUE,
                          ![r].u = dashUser[req[r].t]]
    /\ UNCHANGED <<tables, alone>>

-----------------------------------------------------------------------------
(* ensure_welcome_xp_claim: inside get_or_create_for_wallet ("grant") and   *)
(* once more at the end of connect_wallet ("regrant").                     *)

AfterGrant(r) == IF req[r].pc \in {"regrant_read", "regrant_insert"}
                 THEN Finish(r)
                 ELSE Goto(r, AfterGoc(req[r].op))

GrantRead(r) ==
    /\ req[r].pc \in {"grant_read", "regrant_read"}
    /\ IF WelcomeXp <= 0 \/ HasClaim(req[r].u)
       THEN AfterGrant(r)
       ELSE Goto(r, IF At(r, "grant_read") THEN "grant_insert" ELSE "regrant_insert")
    /\ UNCHANGED <<tables, alone>>

\* A duplicate key (a racing grant) or an unknown user_id makes the INSERT
\* fail; both callers log that and go on.
GrantInsert(r) ==
    LET u == req[r].u IN
    /\ req[r].pc \in {"grant_insert", "regrant_insert"}
    /\ IF ~HasClaim(u) /\ Registered(u)
       THEN claim' = [claim EXCEPT ![u] =
                [kind |-> "welcome", wallet |-> req[r].t, email |-> None,
                 xp |-> WelcomeXp, spent |-> 0]]
       ELSE UNCHANGED claim
    /\ AfterGrant(r)
    /\ UNCHANGED <<alone, dashUser, issued, wallet, monitor, billed>>

-----------------------------------------------------------------------------
(* connect_wallet *)

\* The client sends any id at all, which nobody looks up, or the address of a
\* wallet to link with, or neither.
StartConnect(r) ==
    /\ At(r, "idle") /\ "connect" \in Ops
    /\ \E w \in Wallet :
          LET conn == [IdleLocal EXCEPT !.op = "connect", !.w = w, !.t = w] IN
          \/ \E u \in UserId :
                req' = [req EXCEPT ![r] = [conn EXCEPT
                    !.pc = "wallet_upsert", !.u = u]]
          \/ \E link \in Wallet :
                req' = [req EXCEPT ![r] = [conn EXCEPT !.pc = "link_read", !.t = link]]
          \/ req' = [req EXCEPT ![r] = [conn EXCEPT !.pc = "dash_read"]]
    /\ Begun(r) /\ UNCHANGED tables

LinkRead(r) ==
    LET linked == wallet[req[r].t].user IN
    /\ At(r, "link_read")
    /\ req' = [req EXCEPT ![r].t = req[r].w, ![r].u = linked,
                          ![r].pc = IF linked = None THEN "dash_read" ELSE "wallet_upsert"]
    /\ UNCHANGED <<tables, alone>>

WalletUpsert(r) ==
    /\ At(r, "wallet_upsert")
    /\ wallet' = [wallet EXCEPT ![req[r].w] = [status |-> "active", user |-> req[r].u]]
    /\ Goto(r, "monitor_update")
    /\ UNCHANGED <<alone, dashUser, issued, monitor, claim, billed>>

\* Mutation of AfterMonitor: only a user who was looked up is granted the welcome XP.
AfterMonitorViaOnly(r) == IF req[r].via THEN Goto(r, "bind") ELSE Finish(r)

AfterMonitor(r) == IF req[r].via THEN Goto(r, "bind")
                   ELSE IF req[r].u # None THEN Goto(r, "regrant_read")
                   ELSE Finish(r)

MonitorUpdate(r) ==
    /\ At(r, "monitor_update")
    /\ IF monitor[req[r].w] = "absent"
       THEN Goto(r, "monitor_insert") /\ UNCHANGED monitor
       ELSE AfterMonitor(r) /\ monitor' = [monitor EXCEPT ![req[r].w] = "active"]
    /\ UNCHANGED <<alone, dashUser, issued, wallet, claim, billed>>

\* A racing insert makes this one fail on wallet_id; the failure is logged.
MonitorInsert(r) ==
    /\ At(r, "monitor_insert")
    /\ monitor' = [monitor EXCEPT ![req[r].w] = IF @ = "absent" THEN "active" ELSE @]
    /\ AfterMonitor(r)
    /\ UNCHANGED <<alone, dashUser, issued, wallet, claim, billed>>

\* update_wallet_user_id, the last write of claim_xp and of the dashboard, and
\* in connect_wallet the write before the second grant.
BindTarget(r) == IF req[r].op = "resolve" THEN req[r].w ELSE req[r].t

Bind(r) ==
    /\ At(r, "bind")
    /\ wallet' = [w \in Wallet |->
                    IF w = BindTarget(r) /\ wallet[w].status # "absent"
                    THEN [wallet[w] EXCEPT !.user = req[r].u]
                    ELSE wallet[w]]
    /\ IF req[r].op = "connect" THEN Goto(r, "regrant_read") ELSE Finish(r)
    /\ UNCHANGED <<alone, dashUser, issued, monitor, claim, billed>>

-----------------------------------------------------------------------------
(* disconnect_wallet *)

StartDisconnect(r) ==
    /\ At(r, "idle") /\ "disconnect" \in Ops
    /\ \E w \in Wallet :
          /\ wallet[w].status # "absent"
          /\ req' = [req EXCEPT ![r] = [IdleLocal EXCEPT
                        !.op = "disconnect", !.pc = "deactivate", !.w = w, !.t = w]]
    /\ Begun(r) /\ UNCHANGED tables

Deactivate(r) ==
    /\ At(r, "deactivate")
    /\ wallet' = [wallet EXCEPT ![req[r].w].status = "inactive"]
    /\ Goto(r, "stop_monitor")
    /\ UNCHANGED <<alone, dashUser, issued, monitor, claim, billed>>

StopMonitor(r) ==
    /\ At(r, "stop_monitor")
    /\ monitor' = [monitor EXCEPT ![req[r].w] = IF @ = "absent" THEN @ ELSE "inactive"]
    /\ Finish(r)
    /\ UNCHANGED <<alone, dashUser, issued, wallet, claim, billed>>

-----------------------------------------------------------------------------
(* claim_xp *)

StartClaim(r) ==
    /\ At(r, "idle") /\ "claim" \in Ops
    /\ \E w \in Wallet, e \in Email :
          /\ wallet[w].status = "active"
          /\ req' = [req EXCEPT ![r] = [IdleLocal EXCEPT
                        !.op = "claim", !.pc = "dash_read", !.w = w, !.t = w, !.e = e]]
    /\ Begun(r) /\ UNCHANGED tables

\* wallet_address is not unique in user_xp_claims: fetch_optional takes any row.
ClaimsOf(w) == {u \in UserId : HasClaim(u) /\ claim[u].wallet = w}

ClaimByWallet(r) ==
    /\ At(r, "claim_by_wallet")
    /\ \/ ClaimsOf(req[r].w) = {} /\ Goto(r, "claim_by_user")
       \/ \E u \in ClaimsOf(req[r].w) :
             IF claim[u].kind = "waitlist" THEN Finish(r) ELSE Goto(r, "claim_by_user")
    /\ UNCHANGED <<tables, alone>>

ClaimByUser(r) ==
    /\ At(r, "claim_by_user")
    /\ IF claim[req[r].u].kind = "waitlist" THEN Finish(r) ELSE Goto(r, "claim_by_email")
    /\ UNCHANGED <<tables, alone>>

\* EmailNotOnWaitlist, already claimed, or EmailAlreadyClaimed end the request.
ClaimByEmail(r) ==
    /\ At(r, "claim_by_email")
    /\ IF req[r].e \notin Waitlisted \/ EmailTaken(req[r].e)
       THEN Finish(r)
       ELSE Goto(r, "claim_recheck")
    /\ UNCHANGED <<tables, alone>>

ClaimRecheck(r) ==
    /\ At(r, "claim_recheck")
    /\ Goto(r, IF claim[req[r].u].kind = "welcome" THEN "claim_upgrade" ELSE "claim_insert")
    /\ UNCHANGED <<tables, alone>>

\* Mutation of WaitlistRow: the upgrade starts a new balance.
WaitlistRowAfresh(r, spent) ==
    [kind |-> "waitlist", wallet |-> req[r].w, email |-> req[r].e,
     xp |-> EntryXp[req[r].e], spent |-> 0]

WaitlistRow(r, spent) == [kind |-> "waitlist", wallet |-> req[r].w, email |-> req[r].e,
                          xp |-> EntryXp[req[r].e], spent |-> spent]

\* The WHERE clause, the unique e-mail index and CHECK (xp_spent <= xp).
MayUpgrade(u, e) == /\ claim[u].kind = "welcome"
                    /\ ~EmailTaken(e)
                    /\ claim[u].spent <= EntryXp[e]

ClaimUpgrade(r) ==
    LET u == req[r].u IN
    /\ At(r, "claim_upgrade")
    /\ ~Locked(u)
    /\ IF MayUpgrade(u, req[r].e)
       THEN /\ claim' = [claim EXCEPT ![u] = WaitlistRow(r, claim[u].spent)]
            /\ Goto(r, "bind")
       ELSE UNCHANGED claim /\ Finish(r)
    /\ UNCHANGED <<alone, dashUser, issued, wallet, monitor, billed>>

\* The primary key, the unique e-mail index and the foreign key.
MayInsert(u, e) == ~HasClaim(u) /\ ~EmailTaken(e) /\ Registered(u)

ClaimInsert(r) ==
    LET u == req[r].u IN
    /\ At(r, "claim_insert")
    /\ IF MayInsert(u, req[r].e)
       THEN /\ claim' = [claim EXCEPT ![u] = WaitlistRow(r, 0)]
            /\ Goto(r, "bind")
       ELSE UNCHANGED claim /\ Finish(r)
    /\ UNCHANGED <<alone, dashUser, issued, wallet, monitor, billed>>

-----------------------------------------------------------------------------
(* charge_wallet_usage *)

StartCharge(r) ==
    /\ At(r, "idle") /\ "charge" \in Ops
    /\ \E w \in Wallet, cost \in Costs :
          req' = [req EXCEPT ![r] = [IdleLocal EXCEPT !.op = "charge",
                        !.pc = "charge_by_wallet", !.w = w, !.t = w, !.spend = cost]]
    /\ Begun(r) /\ UNCHANGED tables

ChargeByWallet(r) ==
    /\ At(r, "charge_by_wallet")
    /\ \/ ClaimsOf(req[r].w) = {} /\ Goto(r, "charge_by_row")
       \/ \E u \in ClaimsOf(req[r].w) :
             req' = [req EXCEPT ![r].pc = "deduct", ![r].u = u]
    /\ UNCHANGED <<tables, alone>>

\* Without a user the feature is free of charge.
ChargeByRow(r) ==
    LET row == wallet[req[r].w] IN
    /\ At(r, "charge_by_row")
    /\ IF row.status = "active" /\ row.user # None
       THEN req' = [req EXCEPT ![r].pc = "charge_by_user", ![r].u = row.user]
       ELSE Finish(r)
    /\ UNCHANGED <<tables, alone>>

ChargeByUser(r) ==
    /\ At(r, "charge_by_user")
    /\ IF HasClaim(req[r].u) THEN Goto(r, "deduct") ELSE Finish(r)
    /\ UNCHANGED <<tables, alone>>

\* Mutation of Affords: what is already spent is not counted.
AffordsGross(u, cost) == HasClaim(u) /\ claim[u].xp >= cost

\* deduct_xp_for_usage: BEGIN and the guarded UPDATE.  Insufficient: ROLLBACK.
Affords(u, cost) == HasClaim(u) /\ claim[u].xp - claim[u].spent >= cost

\* Mutation of Deduct: an insufficient balance is waited for.
DeductWaits(r) ==
    /\ At(r, "deduct")
    /\ ~Locked(req[r].u)
    /\ Affords(req[r].u, req[r].spend)
    /\ Goto(r, "ledger_insert")
    /\ UNCHANGED <<tables, alone>>

Deduct(r) ==
    /\ At(r, "deduct")
    /\ ~Locked(req[r].u)
    /\ IF Affords(req[r].u, req[r].spend) THEN Goto(r, "ledger_insert") ELSE Finish(r)
    /\ UNCHANGED <<tables, alone>>

LedgerInsert(r) ==
    /\ At(r, "ledger_insert")
    /\ req' = [req EXCEPT ![r].pc = "commit", ![r].row = req[r].spend]
    /\ UNCHANGED <<tables, alone>>

Commit(r) ==
    LET u == req[r].u IN
    /\ At(r, "commit")
    /\ claim' = [claim EXCEPT ![u].spent = @ + req[r].spend]
    /\ billed' = [billed EXCEPT ![u] = @ + req[r].row]
    /\ Finish(r)
    /\ UNCHANGED <<alone, dashUser, issued, wallet, monitor>>

-----------------------------------------------------------------------------
(* dashboard_overview ("overview") and resolve_user_id_for_dashboard        *)
(* ("resolve"): a GET that repairs and rewrites wallets.user_id.  If the    *)
(* first read fails, the wallet counts as unknown.                         *)

\* The wallet has a row, and the row has no user.
LacksUser(w) == wallet[w].status # "absent" /\ wallet[w].user = None

StartOverview(r) ==
    /\ At(r, "idle")
    /\ \E op \in Ops \cap {"overview", "resolve"}, w \in Wallet \cup {None} :
          LET view == [IdleLocal EXCEPT !.op = op, !.w = w, !.t = w] IN
          \/ \E u \in UserId :
                /\ w # None
                /\ req' = [req EXCEPT ![r] = [view EXCEPT
                    !.pc = "bind", !.u = u]]
          \/ /\ w # None
             /\ wallet[w].user # None
             /\ req' = [req EXCEPT ![r] = [view EXCEPT !.pc = "bind", !.u = wallet[w].user]]
          \/ /\ w # None
             /\ LacksUser(w)
             /\ req' = [req EXCEPT ![r] = [view EXCEPT !.pc = "dash_read"]]
          \/ /\ w # None /\ ~CanFail => wallet[w].status = "absent"
             /\ req' = [req EXCEPT ![r] = [view EXCEPT !.pc = "fallback_read"]]
    /\ Begun(r) /\ UNCHANGED tables

\* Any active wallet may be the most recently connected one.
FallbackRead(r) ==
    /\ At(r, "fallback_read")
    /\ \/ (\A w \in Wallet : wallet[w].status # "active") /\ Finish(r)
       \/ \E f \in Wallet :
             /\ wallet[f].status = "active"
             /\ \/ /\ wallet[f].user # None
                   /\ IF req[r].op = "resolve"
                      THEN req' = [req EXCEPT ![r].pc = "bind", ![r].t = f,
                                              ![r].u = wallet[f].user]
                      ELSE Finish(r)
                \/ /\ wallet[f].user = None
                   /\ req' = [req EXCEPT ![r].pc = "dash_read", ![r].t = f, ![r].fb = TRUE]
    /\ UNCHANGED <<tables, alone>>

-----------------------------------------------------------------------------
(* Failures *)

\* The client hangs up, the process restarts or an error is returned: the task
\* is gone and an open transaction rolls back.
Abandon(r) ==
    /\ CanFail /\ ~At(r, "idle")
    /\ Finish(r)
    /\ alone' = None /\ UNCHANGED tables

\* A database error in a statement whose error the handler swallows.
Swallow(r) ==
    /\ CanFail
    /\ \/ /\ At(r, "link_read")
          /\ req' = [req EXCEPT ![r].pc = "dash_read", ![r].t = req[r].w]
       \/ req[r].pc \in GocLabels /\ GocFails(r)
       \/ req[r].pc \in GrantLabels /\ AfterGrant(r)
       \/ req[r].pc \in {"monitor_update", "monitor_insert"} /\ AfterMonitor(r)
       \/ At(r, "bind") /\ req[r].op = "connect" /\ Goto(r, "regrant_read")
    /\ alone' = None /\ UNCHANGED tables

-----------------------------------------------------------------------------

Step(r) ==
    \/ DashRead(r) \/ DashUpsert(r) \/ DashReread(r)
    \/ GrantRead(r) \/ GrantInsert(r)
    \/ LinkRead(r) \/ WalletUpsert(r) \/ MonitorUpdate(r) \/ MonitorInsert(r) \/ Bind(r)
    \/ Deactivate(r) \/ StopMonitor(r)
    \/ ClaimByWallet(r) \/ ClaimByUser(r) \/ ClaimByEmail(r) \/ ClaimRecheck(r)
    \/ ClaimUpgrade(r) \/ ClaimInsert(r)
    \/ ChargeByWallet(r) \/ ChargeByRow(r) \/ ChargeByUser(r)
    \/ Deduct(r) \/ LedgerInsert(r) \/ Commit(r)
    \/ FallbackRead(r)

Start(r) == StartConnect(r) \/ StartDisconnect(r) \/ StartClaim(r)
            \/ StartCharge(r) \/ StartOverview(r)

Next == \E r \in Req : Start(r) \/ Step(r) \/ Abandon(r) \/ Swallow(r)

Spec == Init /\ [][Next]_vars

\* The runtime polls every task; Postgres queues the waiters of a row lock in
\* order, so a waiter is not overtaken for ever.  Clients need not send anything.
Fairness == \A r \in Req : WF_vars(Step(r)) /\ SF_vars(Deduct(r) \/ ClaimUpgrade(r))

FairSpec == Spec /\ Fairness

-----------------------------------------------------------------------------
(* Properties *)

\* Every table and every request local holds a value of its type.
TypeOK ==
    /\ dashUser \in [Wallet -> UserId \cup {None}]
    /\ issued \subseteq UserId
    /\ wallet \in [Wallet -> WalletRow]
    /\ monitor \in [Wallet -> {"absent", "active", "inactive"}]
    /\ claim \in [UserId -> ClaimRow]
    /\ billed \in [UserId -> Nat]
    /\ req \in [Req -> Local]

\* What a user has spent is what the ledger says the user was billed, whatever
\* claims, grants and charges interleave and wherever a request dies
\* (deduct_xp_for_usage, upgrade_welcome_claim_to_waitlist).
LedgerMatchesSpent == \A u \in UserId : claim[u].spent = billed[u]

\* No account is overdrawn, the price an open transaction has already taken
\* included: a claim that replaces the welcome XP cannot slip below it.
NeverOverdrawn ==
    /\ \A u \in UserId : claim[u].spent <= claim[u].xp
    /\ \A r \in Req : req[r].pc \in TxLabels =>
            claim[req[r].u].spent + req[r].spend <= claim[req[r].u].xp

\* One waitlist e-mail pays out to one user, although claim_xp only reads
\* whether the e-mail is taken, several statements before it writes.
EmailClaimedOnce ==
    \A u, v \in UserId : claim[u].email # None /\ claim[u].email = claim[v].email => u = v

\* A user with a claim is the identity of some wallet: no racing upsert of
\* dashboard_users takes the id away from under the claim.
ClaimOwnerRegistered == \A u \in UserId : HasClaim(u) => Registered(u)

\* Once a waitlist claim is stored, only its xp_spent moves, and only up.
WaitlistClaimFinal ==
    [][\A u \in UserId : claim[u].kind = "waitlist" =>
            /\ claim'[u].spent >= claim[u].spent
            /\ claim'[u] = [claim[u] EXCEPT !.spent = claim'[u].spent]]_vars

\* The identity of a wallet never changes once it has XP.
IdentityFixedByClaim ==
    [][\A w \in Wallet : dashUser[w] # None /\ HasClaim(dashUser[w])
            => dashUser'[w] = dashUser[w]]_vars

\* The account of each user, read off the XP tables.
Account == [u \in UserId |-> [kind |-> claim[u].kind, email |-> claim[u].email,
                              earned |-> claim[u].xp, spent |-> claim[u].spent,
                              billed |-> billed[u]]]

\* The XP tables implement the abstract accounts.
Xp == INSTANCE XpAccount WITH account <- Account

\* Grants, claims and charges, however interleaved and wherever they fail, change
\* accounts only as XpAccount allows, each in one step (waitlist_service,
\* xp_usage_service).
ImplementsXpAccount == Xp!Spec

\* Every request is answered: nobody waits for ever on a row lock.
RequestsFinish == \A r \in Req : ~At(r, "idle") ~> At(r, "idle")

\* A step after which the wallet is in use and watched, under the user of the connect
\* p; a user whom the connect looked up is the identity of the wallet, and one whom
\* dashboard_users knows has the welcome XP.
LeavesConnected(p) ==
    /\ wallet'[p.w] = [status |-> "active", user |-> p.u] /\ p.u # None
    /\ monitor'[p.w] = "active"
    /\ p.via => dashUser'[p.w] = p.u
    /\ WelcomeXp > 0 /\ (\E w \in Wallet : dashUser'[w] = p.u) => claim'[p.u].kind # "none"

\* A connect that runs alone and loses no statement repairs what earlier requests left
\* half done: a wallet stored without user, a user without welcome XP, a wallet and its
\* monitoring that disagree (connect_wallet: "Ensure wallet row has user_id").
ConnectRepairs ==
    [][\A r \in Req :
        alone = r /\ req[r].op = "connect" /\ alone' = r /\ At(r, "idle")'
            => LeavesConnected(req[r])]_vars

=============================================================================
