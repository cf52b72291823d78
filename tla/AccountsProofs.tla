---------------------------- MODULE AccountsProofs ----------------------------
(***************************************************************************)
(* Theorems about Accounts, for every set of wallets, users, e-mails and   *)
(* requests and every price: the XP ledger, the single payout of an e-mail *)
(* and the identity behind a claim survive every interleaving and failure. *)
(*                                                                         *)
(* IInv is inductive.  Its parts beyond the safety properties say what the *)
(* locals of a request hold at each statement (LocalOK), that a row lock   *)
(* has one holder (OneLockHolder), and what a row without claim is.        *)
(*                                                                         *)
(* For a connect that runs alone, AloneInv says that nobody else is at     *)
(* work and ConnectOK how far its writes have come, statement by           *)
(* statement; no assumption is made about the state it starts from.        *)
(***************************************************************************)
EXTENDS Accounts, TLAPS

ClaimLabels == {"claim_by_wallet", "claim_by_user", "claim_by_email", "claim_recheck",
                "claim_upgrade", "claim_insert"}

UserLabels == {"grant_read", "grant_insert", "regrant_read", "regrant_insert",
               "charge_by_user", "deduct"} \cup TxLabels \cup ClaimLabels

ChargeLabels == {"charge_by_wallet", "charge_by_row", "charge_by_user", "deduct"}
                \cup TxLabels

\* What the locals q of a request hold when it is about to execute l.
Knows(q, l) ==
    /\ l \in GocLabels \cup {"link_read"} => q.t \in Wallet
    /\ l \in {"link_read", "charge_by_wallet", "charge_by_row"} => q.w \in Wallet
    /\ l \in UserLabels => q.u \in UserId
    /\ q.via => q.u \in UserId
    /\ l = "link_read" => ~q.via
    /\ l = "bind" /\ q.op = "connect" => q.via
    /\ l \in ClaimLabels => q.op # "connect"
    /\ l \in {"grant_insert", "regrant_insert"} => WelcomeXp > 0
    /\ l \in {"claim_recheck", "claim_upgrade", "claim_insert"} => q.e \in Waitlisted
    /\ l \in ChargeLabels => q.spend \in Costs
    /\ l = "commit" => q.row = q.spend

LocalOK(q) == Knows(q, q.pc)

LocalsOK == \A r \in Req : LocalOK(req[r])

\* The row a request is about to read again is there.
RereadFinds == \A r \in Req : At(r, "dash_reread") => dashUser[req[r].t] # None

OneLockHolder ==
    \A r, s \in Req : /\ req[r].pc \in TxLabels /\ req[s].pc \in TxLabels
                      /\ req[r].u = req[s].u
                      => r = s

EmptyRow == \A u \in UserId : ~HasClaim(u) => claim[u] = NoClaim

WelcomeHasNoEmail == \A u \in UserId : claim[u].kind = "welcome" => claim[u].email = None

ClaimInv == /\ EmptyRow /\ WelcomeHasNoEmail
            /\ LedgerMatchesSpent /\ EmailClaimedOnce /\ ClaimOwnerRegistered

IInv == /\ TypeOK /\ LocalsOK /\ RereadFinds /\ OneLockHolder /\ NeverOverdrawn /\ ClaimInv

-----------------------------------------------------------------------------
(* Steps of one request *)

\* Request r, and no other, goes to a state its next statement can start from.
Moves(r) == /\ req' = [req EXCEPT ![r] = req'[r]]
            /\ req'[r] \in Local
            /\ LocalOK(req'[r])

\* ... outside the transaction, and not to the second read of its identity.
MovesFreely(r) == Moves(r) /\ req'[r].pc \notin TxLabels \cup {"dash_reread"}

\* Going to a label keeps every other local.
LEMMA Relabel ==
    ASSUME NEW p \in Local, NEW l \in Label, Knows(p, l)
    PROVE  LET q == [p EXCEPT !.pc = l] IN q \in Local /\ q.pc = l /\ LocalOK(q)
<1> DEFINE q == [p EXCEPT !.pc = l]
<1>1. q \in Local
  BY DEF Local
<1>2. /\ q.pc = l /\ q.op = p.op /\ q.w = p.w /\ q.t = p.t /\ q.u = p.u
      /\ q.e = p.e /\ q.via = p.via /\ q.spend = p.spend /\ q.row = p.row
  BY DEF Local
<1>3. LocalOK(q)
  <2> HIDE DEF q
  <2> QED
    BY <1>2 DEF LocalOK, Knows
<1> QED
  BY <1>1, <1>2, <1>3

LEMMA GotoMoves ==
    ASSUME TypeOK, NEW r \in Req, NEW l \in Label, Goto(r, l), Knows(req[r], l)
    PROVE  Moves(r) /\ (l \notin TxLabels \cup {"dash_reread"} => MovesFreely(r))
<1> DEFINE q == [req[r] EXCEPT !.pc = l]
<1>1. req[r] \in Local
  BY DEF TypeOK
<1>2. q \in Local /\ q.pc = l /\ LocalOK(q)
  BY <1>1, Relabel
<1>3. req' = [req EXCEPT ![r] = q] /\ req'[r] = q
  BY DEF TypeOK, Goto
<1> QED
  <2> HIDE DEF q
  <2> QED
    BY <1>2, <1>3 DEF MovesFreely, Moves

\* A finished request may start anew.
LEMMA FinishMoves ==
    ASSUME TypeOK, AccountsAssumption, NEW r \in Req, Finish(r)
    PROVE  MovesFreely(r)
BY DEF TypeOK, Finish, Local, IdleLocal, MovesFreely, Moves, LocalOK, Knows, Label, AllOps,
       UserLabels, ClaimLabels, ChargeLabels, GocLabels, GrantLabels, TxLabels

\* The subroutines move their caller on, whether they succeed or fail.
LEMMA GocFailsMoves ==
    ASSUME TypeOK, LocalsOK, AccountsAssumption, NEW r \in Req,
           req[r].pc \in GocLabels, GocFails(r)
    PROVE  MovesFreely(r)
<1> USE DEF GocLabels, GrantLabels, TxLabels, UserLabels, ClaimLabels, ChargeLabels
<1>1. CASE Finish(r)
  BY <1>1, FinishMoves
<1>2. ASSUME NEW l \in {"wallet_upsert", "fallback_read"}, Goto(r, l)
      PROVE  MovesFreely(r)
  BY <1>2, GotoMoves DEF LocalsOK, LocalOK, Knows, Label
<1> QED
  BY <1>1, <1>2 DEF GocFails

LEMMA AfterGrantMoves ==
    ASSUME TypeOK, LocalsOK, AccountsAssumption, NEW r \in Req,
           req[r].pc \in GrantLabels, AfterGrant(r)
    PROVE  MovesFreely(r)
<1> USE DEF GocLabels, GrantLabels, TxLabels, UserLabels, ClaimLabels, ChargeLabels
<1>1. CASE Finish(r)
  BY <1>1, FinishMoves
<1>2. CASE Goto(r, AfterGoc(req[r].op))
  <2>1. PICK l \in {"wallet_upsert", "claim_by_wallet", "bind"} : l = AfterGoc(req[r].op)
    BY DEF AfterGoc
  <2>2. l \in {"bind", "claim_by_wallet"} => req[r].op # "connect"
    BY <2>1 DEF AfterGoc
  <2> QED
    BY <1>2, <2>1, <2>2, GotoMoves DEF LocalsOK, LocalOK, Knows, Label
<1> QED
  BY <1>1, <1>2 DEF AfterGrant

LEMMA AfterMonitorMoves ==
    ASSUME TypeOK, LocalsOK, AccountsAssumption, NEW r \in Req,
           req[r].pc \in {"monitor_update", "monitor_insert"}, AfterMonitor(r)
    PROVE  MovesFreely(r)
<1> USE DEF GocLabels, GrantLabels, TxLabels, UserLabels, ClaimLabels, ChargeLabels
<1>1. CASE Finish(r)
  BY <1>1, FinishMoves
<1>2. CASE req[r].via /\ Goto(r, "bind")
  BY <1>2, GotoMoves DEF LocalsOK, LocalOK, Knows, Label
<1>3. CASE req[r].u # None /\ Goto(r, "regrant_read")
  <2>1. req[r].u \in UserId
    BY <1>3 DEF TypeOK, Local
  <2> QED
    BY <1>3, <2>1, GotoMoves DEF LocalsOK, LocalOK, Knows, Label
<1> QED
  BY <1>1, <1>2, <1>3 DEF AfterMonitor

\* Requests begin well.
LEMMA StartMoves ==
    ASSUME TypeOK, AccountsAssumption, NEW r \in Req, Start(r)
    PROVE  MovesFreely(r) /\ UNCHANGED tables
<1> USE DEF GocLabels, GrantLabels, TxLabels, UserLabels, ClaimLabels, ChargeLabels
<1> DEFINE Begins(q) == q \in Local /\ LocalOK(q) /\ q.pc \notin TxLabels \cup {"dash_reread"}
<1>0. ASSUME NEW q, Begins(q), req' = [req EXCEPT ![r] = q]
      PROVE  MovesFreely(r)
  <2>1. req'[r] = q
    BY <1>0 DEF TypeOK
  <2> QED
    BY <1>0, <2>1 DEF MovesFreely, Moves
<1> USE DEF IdleLocal, Local, Label, AllOps, LocalOK, Knows
<1>1. CASE StartConnect(r)
  <2> DEFINE conn(w) == [IdleLocal EXCEPT !.op = "connect", !.w = w, !.t = w]
  <2> PICK w \in Wallet :
        \/ \E u \in UserId : req' = [req EXCEPT ![r] = [conn(w) EXCEPT
                  !.pc = "wallet_upsert", !.u = u]]
        \/ \E link \in Wallet :
              req' = [req EXCEPT ![r] = [conn(w) EXCEPT !.pc = "link_read", !.t = link]]
        \/ req' = [req EXCEPT ![r] = [conn(w) EXCEPT !.pc = "dash_read"]]
    BY <1>1 DEF StartConnect
  <2>1. ASSUME NEW u \in UserId
        PROVE  Begins([conn(w) EXCEPT !.pc = "wallet_upsert", !.u = u])
    BY DEF TypeOK
  <2>2. ASSUME NEW link \in Wallet
        PROVE  Begins([conn(w) EXCEPT !.pc = "link_read", !.t = link])
    OBVIOUS
  <2>3. Begins([conn(w) EXCEPT !.pc = "dash_read"])
    OBVIOUS
  <2>4. UNCHANGED tables
    BY <1>1 DEF StartConnect
  <2> HIDE DEF Begins, conn
  <2> QED
    BY <1>0, <2>1, <2>2, <2>3, <2>4
<1>2. CASE StartDisconnect(r)
  <2>1. ASSUME NEW w \in Wallet
        PROVE  Begins([IdleLocal EXCEPT !.op = "disconnect", !.pc = "deactivate",
                                        !.w = w, !.t = w])
    OBVIOUS
  <2> HIDE DEF Begins
  <2> QED
    BY <1>0, <1>2, <2>1 DEF StartDisconnect
<1>3. CASE StartClaim(r)
  <2>1. ASSUME NEW w \in Wallet, NEW e \in Email
        PROVE  Begins([IdleLocal EXCEPT !.op = "claim", !.pc = "dash_read",
                                        !.w = w, !.t = w, !.e = e])
    OBVIOUS
  <2> HIDE DEF Begins
  <2> QED
    BY <1>0, <1>3, <2>1 DEF StartClaim
<1>4. CASE StartCharge(r)
  <2>1. ASSUME NEW w \in Wallet, NEW cost \in Costs
        PROVE  Begins([IdleLocal EXCEPT !.op = "charge", !.pc = "charge_by_wallet",
                                        !.w = w, !.t = w, !.spend = cost])
    BY DEF AccountsAssumption
  <2> HIDE DEF Begins
  <2> QED
    BY <1>0, <1>4, <2>1 DEF StartCharge
<1>5. CASE StartOverview(r)
  <2> DEFINE view(op, w) == [IdleLocal EXCEPT !.op = op, !.w = w, !.t = w]
  <2> PICK op \in Ops \cap {"overview", "resolve"}, w \in Wallet \cup {None} :
        \/ \E u \in UserId :
              /\ w # None
              /\ req' = [req EXCEPT ![r] = [view(op, w) EXCEPT
                    !.pc = "bind", !.u = u]]
        \/ /\ w # None
           /\ wallet[w].user # None
           /\ req' = [req EXCEPT ![r] = [view(op, w) EXCEPT !.pc = "bind", !.u = wallet[w].user]]
        \/ /\ w # None
           /\ LacksUser(w)
           /\ req' = [req EXCEPT ![r] = [view(op, w) EXCEPT !.pc = "dash_read"]]
        \/ /\ w # None /\ ~CanFail => wallet[w].status = "absent"
           /\ req' = [req EXCEPT ![r] = [view(op, w) EXCEPT !.pc = "fallback_read"]]
    BY <1>5, Zenon DEF StartOverview
  <2>1. ASSUME NEW u \in UserId
        PROVE  Begins([view(op, w) EXCEPT !.pc = "bind", !.u = u])
    BY DEF TypeOK
  <2>2. ASSUME w # None
        PROVE  Begins([view(op, w) EXCEPT !.pc = "bind", !.u = wallet[w].user])
    BY <2>2 DEF TypeOK, WalletRow
  <2>3. ASSUME w # None
        PROVE  Begins([view(op, w) EXCEPT !.pc = "dash_read"])
    BY <2>3
  <2>4. Begins([view(op, w) EXCEPT !.pc = "fallback_read"])
    OBVIOUS
  <2>5. UNCHANGED tables
    BY <1>5 DEF StartOverview
  <2> HIDE DEF Begins, view
  <2> QED
    BY <1>0, <2>1, <2>2, <2>3, <2>4, <2>5
<1> QED
  BY <1>1, <1>2, <1>3, <1>4, <1>5
  DEF Start, StartConnect, StartDisconnect, StartClaim, StartCharge, StartOverview

\* The statements that only read, and failures.
Reads(r) == \/ DashRead(r) \/ DashReread(r) \/ GrantRead(r) \/ LinkRead(r)
            \/ ClaimByWallet(r) \/ ClaimByUser(r) \/ ClaimByEmail(r) \/ ClaimRecheck(r)
            \/ ChargeByWallet(r) \/ ChargeByRow(r) \/ ChargeByUser(r)
            \/ FallbackRead(r) \/ Abandon(r) \/ Swallow(r)

LEMMA ReadMoves ==
    ASSUME TypeOK, LocalsOK, RereadFinds, AccountsAssumption, NEW r \in Req, Reads(r)
    PROVE  MovesFreely(r) /\ UNCHANGED tables
<1> USE DEF GocLabels, GrantLabels, TxLabels, UserLabels, ClaimLabels, ChargeLabels, At
<1>0. UNCHANGED tables
  BY DEF Reads, DashRead, DashReread, GrantRead, LinkRead, ClaimByWallet, ClaimByUser,
         ClaimByEmail, ClaimRecheck, ChargeByWallet, ChargeByRow, ChargeByUser,
         FallbackRead, Abandon, Swallow
<1> SUFFICES MovesFreely(r)
  BY <1>0
<1>a. PICK p \in Local : p = req[r] /\ LocalOK(p)
  BY DEF TypeOK, LocalsOK
<1>b. ASSUME NEW l \in Label \ (TxLabels \cup {"dash_reread"}), Goto(r, l), Knows(p, l)
      PROVE  MovesFreely(r)
  BY <1>a, <1>b, GotoMoves
<1>c. ASSUME NEW q \in Local, LocalOK(q), q.pc \notin TxLabels \cup {"dash_reread"},
             req' = [req EXCEPT ![r] = q]
      PROVE  MovesFreely(r)
  <2>1. req'[r] = q
    BY <1>c DEF TypeOK
  <2> QED
    BY <1>c, <2>1 DEF MovesFreely, Moves
<1>d. ASSUME NEW u \in UserId,
             req' = [req EXCEPT ![r].pc = "grant_read", ![r].via = TRUE, ![r].u = u]
      PROVE  MovesFreely(r)
  <2> DEFINE q == [p EXCEPT !.pc = "grant_read", !.via = TRUE, !.u = u]
  <2>1. q \in Local
    BY DEF Local, Label
  <2>2. q.pc = "grant_read" /\ q.u = u
    BY DEF Local
  <2>3. LocalOK(q)
    BY <2>2 DEF LocalOK, Knows
  <2>4. req' = [req EXCEPT ![r] = q]
    BY <1>a, <1>d
  <2> QED
    BY <1>c, <2>1, <2>2, <2>3, <2>4
<1>1. CASE DashRead(r)
  <2>1. CASE dashUser[req[r].t] # None
    <3>1. dashUser[req[r].t] \in UserId
      BY <1>1, <1>a, <2>1 DEF DashRead, TypeOK, LocalOK, Knows
    <3> QED
      BY <1>1, <1>d, <2>1, <3>1 DEF DashRead
  <2>2. CASE Goto(r, "dash_upsert")
    <3>1. Knows(p, "dash_upsert")
      BY <1>1, <1>a DEF DashRead, LocalOK, Knows
    <3> QED
      BY <1>b, <2>2, <3>1 DEF Label
  <2> QED
    BY <1>1, <2>1, <2>2 DEF DashRead
<1>2. CASE DashReread(r)
  <2>1. dashUser[req[r].t] \in UserId
    BY <1>2, <1>a DEF DashReread, TypeOK, LocalOK, Knows, RereadFinds
  <2> QED
    BY <1>2, <1>d, <2>1 DEF DashReread
<1>3. CASE GrantRead(r)
  <2>1. CASE AfterGrant(r)
    BY <1>3, <2>1, AfterGrantMoves DEF GrantRead
  <2>2. CASE ~AfterGrant(r)
    <3>1. PICK l \in {"grant_insert", "regrant_insert"} : Goto(r, l)
      BY <1>3, <2>2 DEF GrantRead
    <3>2. WelcomeXp > 0
      BY <1>3, <2>2 DEF GrantRead, AccountsAssumption
    <3>3. p.u \in UserId
      BY <1>3, <1>a DEF GrantRead, LocalOK, Knows
    <3>4. Knows(p, l)
      BY <3>2, <3>3, <1>a DEF LocalOK, Knows
    <3> QED
      BY <1>b, <3>1, <3>4 DEF Label
  <2> QED
    BY <2>1, <2>2
<1>4. CASE LinkRead(r)
  <2>1. PICK linked \in UserId \cup {None} : linked = wallet[req[r].t].user
    BY <1>4, <1>a DEF LinkRead, TypeOK, LocalOK, Knows, WalletRow
  <2> PICK l \in {"dash_read", "wallet_upsert"} :
        l = IF linked = None THEN "dash_read" ELSE "wallet_upsert"
    OBVIOUS
  <2> DEFINE q == [p EXCEPT !.t = p.w, !.u = linked, !.pc = l]
  <2>2. q \in Local
    <3>1. p.w \in Wallet \cup {None} /\ l \in Label
      BY DEF Local, Label
    <3> QED
      BY <3>1 DEF Local
  <2>3. q.pc = l /\ q.t = p.w /\ q.w = p.w /\ q.u = linked /\ q.via = p.via
    BY DEF Local
  <2>4. p.w \in Wallet /\ ~p.via
    BY <1>4, <1>a DEF LinkRead, LocalOK, Knows
  <2>5. LocalOK(q)
    <3> HIDE DEF q
    <3> QED
      BY <2>3, <2>4 DEF LocalOK, Knows
  <2>6. req' = [req EXCEPT ![r] = q]
    BY <1>4, <1>a, <2>1 DEF LinkRead
  <2> QED
    BY <1>c, <2>2, <2>3, <2>5, <2>6
<1>5. CASE ClaimByWallet(r)
  <2>1. CASE Finish(r)
    BY <2>1, FinishMoves
  <2>2. CASE Goto(r, "claim_by_user")
    <3>1. Knows(p, "claim_by_user")
      BY <1>5, <1>a DEF ClaimByWallet, LocalOK, Knows
    <3> QED
      BY <1>b, <2>2, <3>1 DEF Label
  <2> QED
    BY <1>5, <2>1, <2>2 DEF ClaimByWallet
<1>6. CASE ClaimByUser(r)
  <2>1. CASE Finish(r)
    BY <2>1, FinishMoves
  <2>2. CASE Goto(r, "claim_by_email")
    <3>1. Knows(p, "claim_by_email")
      BY <1>6, <1>a DEF ClaimByUser, LocalOK, Knows
    <3> QED
      BY <1>b, <2>2, <3>1 DEF Label
  <2> QED
    BY <1>6, <2>1, <2>2 DEF ClaimByUser
<1>7. CASE ClaimByEmail(r)
  <2>1. CASE Finish(r)
    BY <2>1, FinishMoves
  <2>2. CASE req[r].e \in Waitlisted /\ Goto(r, "claim_recheck")
    <3>1. Knows(p, "claim_recheck")
      BY <1>7, <1>a, <2>2 DEF ClaimByEmail, LocalOK, Knows
    <3> QED
      BY <1>b, <2>2, <3>1 DEF Label
  <2> QED
    BY <1>7, <2>1, <2>2 DEF ClaimByEmail
<1>8. CASE ClaimRecheck(r)
  <2>1. PICK l \in {"claim_upgrade", "claim_insert"} : Goto(r, l)
    BY <1>8 DEF ClaimRecheck
  <2>2. Knows(p, l)
    BY <1>8, <1>a DEF ClaimRecheck, LocalOK, Knows
  <2> QED
    BY <1>b, <2>1, <2>2 DEF Label
<1>9. ASSUME NEW u \in UserId, NEW l \in {"deduct", "charge_by_user"}, p.spend \in Costs,
             req' = [req EXCEPT ![r].pc = l, ![r].u = u]
      PROVE  MovesFreely(r)
  <2> DEFINE q == [p EXCEPT !.pc = l, !.u = u]
  <2>1. q \in Local
    BY DEF Local, Label
  <2>2. q.pc = l /\ q.u = u /\ q.spend = p.spend
    BY DEF Local
  <2>3. LocalOK(q)
    <3> HIDE DEF q
    <3> QED
      BY <1>9, <2>2 DEF LocalOK, Knows
  <2>4. req' = [req EXCEPT ![r] = q]
    BY <1>a, <1>9
  <2> QED
    BY <1>c, <2>1, <2>2, <2>3, <2>4
<1>10. CASE ChargeByWallet(r)
  <2>1. p.w \in Wallet /\ p.spend \in Costs
    BY <1>10, <1>a DEF ChargeByWallet, LocalOK, Knows
  <2>2. CASE Goto(r, "charge_by_row")
    <3>1. Knows(p, "charge_by_row")
      BY <1>10, <1>a, <2>1 DEF ChargeByWallet, LocalOK, Knows
    <3> QED
      BY <1>b, <2>2, <3>1 DEF Label
  <2>3. CASE \E u \in UserId : req' = [req EXCEPT ![r].pc = "deduct", ![r].u = u]
    BY <1>9, <2>1, <2>3
  <2> QED
    BY <1>10, <2>2, <2>3 DEF ChargeByWallet, ClaimsOf
<1>11. CASE ChargeByRow(r)
  <2>1. p.w \in Wallet /\ p.spend \in Costs
    BY <1>11, <1>a DEF ChargeByRow, LocalOK, Knows
  <2>2. CASE Finish(r)
    BY <2>2, FinishMoves
  <2>3. CASE wallet[req[r].w].user # None /\ ~Finish(r)
    <3>1. wallet[req[r].w].user \in UserId
      BY <1>a, <2>1, <2>3 DEF TypeOK, WalletRow
    <3> QED
      BY <1>9, <1>11, <2>1, <2>3, <3>1 DEF ChargeByRow
  <2> QED
    BY <1>11, <2>2, <2>3 DEF ChargeByRow
<1>12. CASE ChargeByUser(r)
  <2>1. CASE Finish(r)
    BY <2>1, FinishMoves
  <2>2. CASE Goto(r, "deduct")
    <3>1. Knows(p, "deduct")
      BY <1>12, <1>a DEF ChargeByUser, LocalOK, Knows
    <3> QED
      BY <1>b, <2>2, <3>1 DEF Label
  <2> QED
    BY <1>12, <2>1, <2>2 DEF ChargeByUser
<1>13. CASE FallbackRead(r)
  <2>1. CASE Finish(r)
    BY <2>1, FinishMoves
  <2>2. ASSUME NEW f \in Wallet, wallet[f].user # None, req[r].op = "resolve",
               req' = [req EXCEPT ![r].pc = "bind", ![r].t = f, ![r].u = wallet[f].user]
        PROVE  MovesFreely(r)
    <3>1. PICK u \in UserId : u = wallet[f].user
      BY <2>2 DEF TypeOK, WalletRow
    <3> DEFINE q == [p EXCEPT !.pc = "bind", !.t = f, !.u = u]
    <3>2. q \in Local
      BY DEF Local, Label
    <3>3. q.pc = "bind" /\ q.u = u /\ q.op = p.op
      BY DEF Local
    <3>4. LocalOK(q)
      <4> HIDE DEF q
      <4> QED
        BY <1>a, <2>2, <3>3 DEF LocalOK, Knows
    <3>5. req' = [req EXCEPT ![r] = q]
      BY <1>a, <2>2, <3>1
    <3> QED
      BY <1>c, <3>2, <3>3, <3>4, <3>5
  <2>3. ASSUME NEW f \in Wallet,
               req' = [req EXCEPT ![r].pc = "dash_read", ![r].t = f, ![r].fb = TRUE]
        PROVE  MovesFreely(r)
    <3> DEFINE q == [p EXCEPT !.pc = "dash_read", !.t = f, !.fb = TRUE]
    <3>1. q \in Local
      BY DEF Local, Label
    <3>2. q.pc = "dash_read" /\ q.t = f /\ q.u = p.u /\ q.via = p.via
      BY DEF Local
    <3>3. LocalOK(q)
      <4> HIDE DEF q
      <4> QED
        BY <1>a, <3>2 DEF LocalOK, Knows
    <3>4. req' = [req EXCEPT ![r] = q]
      BY <1>a, <2>3
    <3> QED
      BY <1>c, <3>1, <3>2, <3>3, <3>4
  <2> QED
    BY <1>13, <2>1, <2>2, <2>3 DEF FallbackRead
<1>14. CASE Abandon(r)
  BY <1>14, FinishMoves DEF Abandon
<1>15. CASE Swallow(r)
  <2>1. ASSUME At(r, "link_read"),
               req' = [req EXCEPT ![r].pc = "dash_read", ![r].t = req[r].w]
        PROVE  MovesFreely(r)
    <3> DEFINE q == [p EXCEPT !.pc = "dash_read", !.t = p.w]
    <3>1. q \in Local
      BY DEF Local, Label
    <3>2. q.pc = "dash_read" /\ q.t = p.w /\ q.u = p.u /\ q.via = p.via
      BY DEF Local
    <3>3. p.w \in Wallet /\ ~p.via
      BY <1>a, <2>1 DEF LocalOK, Knows
    <3>4. LocalOK(q)
      <4> HIDE DEF q
      <4> QED
        BY <3>2, <3>3 DEF LocalOK, Knows
    <3>5. req' = [req EXCEPT ![r] = q]
      BY <1>a, <2>1
    <3> QED
      BY <1>c, <3>1, <3>2, <3>4, <3>5
  <2>2. CASE At(r, "bind") /\ req[r].op = "connect" /\ Goto(r, "regrant_read")
    <3>1. Knows(p, "regrant_read")
      BY <1>a, <2>2 DEF LocalOK, Knows
    <3> QED
      BY <1>b, <2>2, <3>1 DEF Label
  <2> QED
    BY <1>15, <2>1, <2>2, GocFailsMoves, AfterGrantMoves, AfterMonitorMoves DEF Swallow
<1> QED
  BY <1>1, <1>2, <1>3, <1>4, <1>5, <1>6, <1>7, <1>8, <1>10, <1>11, <1>12, <1>13,
     <1>14, <1>15
  DEF Reads

\* The statements that write wallets and wallet_monitoring.
WalletWrites(r) == \/ WalletUpsert(r) \/ MonitorUpdate(r) \/ MonitorInsert(r) \/ Bind(r)
                   \/ Deactivate(r) \/ StopMonitor(r)

LEMMA WalletWriteMoves ==
    ASSUME TypeOK, LocalsOK, AccountsAssumption, NEW r \in Req, WalletWrites(r)
    PROVE  /\ MovesFreely(r)
           /\ wallet' \in [Wallet -> WalletRow]
           /\ monitor' \in [Wallet -> {"absent", "active", "inactive"}]
           /\ UNCHANGED <<dashUser, issued, claim, billed>>
<1> USE DEF GocLabels, GrantLabels, TxLabels, UserLabels, ClaimLabels, ChargeLabels, At
<1>a. LocalOK(req[r]) /\ req[r] \in Local
  BY DEF TypeOK, LocalsOK
<1>1. CASE WalletUpsert(r)
  <2>1. MovesFreely(r)
    BY <1>1, <1>a, GotoMoves DEF WalletUpsert, LocalOK, Knows, Label
  <2>2. [status |-> "active", user |-> req[r].u] \in WalletRow
    BY <1>a DEF Local, WalletRow
  <2> QED
    BY <1>1, <2>1, <2>2 DEF WalletUpsert, TypeOK
<1>2. CASE MonitorUpdate(r)
  <2>1. CASE Goto(r, "monitor_insert")
    BY <1>2, <1>a, <2>1, GotoMoves DEF MonitorUpdate, LocalOK, Knows, Label, TypeOK
  <2>2. CASE AfterMonitor(r)
    BY <1>2, <2>2, AfterMonitorMoves DEF MonitorUpdate, TypeOK
  <2> QED
    BY <1>2, <2>1, <2>2 DEF MonitorUpdate
<1>3. CASE MonitorInsert(r)
  BY <1>3, AfterMonitorMoves DEF MonitorInsert, TypeOK
<1>4. CASE Bind(r)
  <2>1. MovesFreely(r)
    <3>1. CASE Finish(r)
      BY <3>1, FinishMoves
    <3>2. CASE req[r].op = "connect" /\ Goto(r, "regrant_read")
      BY <1>4, <1>a, <3>2, GotoMoves DEF Bind, LocalOK, Knows, Label
    <3> QED
      BY <1>4, <3>1, <3>2 DEF Bind
  <2>2. ASSUME NEW w \in Wallet
        PROVE  [wallet[w] EXCEPT !.user = req[r].u] \in WalletRow
    BY <1>a DEF Local, WalletRow, TypeOK
  <2> QED
    BY <1>4, <2>1, <2>2 DEF Bind, TypeOK
<1>5. CASE Deactivate(r)
  <2>1. MovesFreely(r)
    BY <1>5, <1>a, GotoMoves DEF Deactivate, LocalOK, Knows, Label
  <2> QED
    BY <1>5, <2>1 DEF Deactivate, TypeOK, WalletRow
<1>6. CASE StopMonitor(r)
  BY <1>6, FinishMoves DEF StopMonitor, TypeOK
<1> QED
  BY <1>1, <1>2, <1>3, <1>4, <1>5, <1>6 DEF WalletWrites

-----------------------------------------------------------------------------
(* The invariant, one group of statements at a time *)

LEMMA MovesKeepLocals ==
    ASSUME TypeOK, LocalsOK, NEW r \in Req, Moves(r)
    PROVE  req' \in [Req -> Local] /\ LocalsOK'
BY DEF TypeOK, LocalsOK, Moves

LEMMA FreeMovesKeepLocks ==
    ASSUME TypeOK, OneLockHolder, NEW r \in Req, MovesFreely(r)
    PROVE  /\ OneLockHolder'
           /\ \A s \in Req : req'[s].pc \in TxLabels => s # r /\ req'[s] = req[s]
BY DEF TypeOK, OneLockHolder, Moves, MovesFreely

LEMMA FreeMovesKeepReread ==
    ASSUME TypeOK, RereadFinds, NEW r \in Req, MovesFreely(r), UNCHANGED dashUser
    PROVE  RereadFinds'
BY DEF TypeOK, RereadFinds, Moves, MovesFreely, At

\* Whatever leaves the XP tables and the identities alone.
LEMMA OtherSteps ==
    ASSUME IInv, AccountsAssumption, NEW r \in Req,
           Reads(r) \/ Start(r) \/ WalletWrites(r)
    PROVE  IInv' /\ UNCHANGED <<dashUser, claim, billed>>
<1>1. /\ MovesFreely(r)
      /\ wallet' \in [Wallet -> WalletRow]
      /\ monitor' \in [Wallet -> {"absent", "active", "inactive"}]
      /\ UNCHANGED <<dashUser, issued, claim, billed>>
  BY ReadMoves, StartMoves, WalletWriteMoves DEF IInv, TypeOK, tables
<1>2. TypeOK' /\ LocalsOK'
  BY <1>1, MovesKeepLocals DEF IInv, TypeOK, MovesFreely
<1>3. RereadFinds' /\ OneLockHolder'
  BY <1>1, FreeMovesKeepReread, FreeMovesKeepLocks DEF IInv
<1>4. NeverOverdrawn'
  BY <1>1, FreeMovesKeepLocks DEF IInv, NeverOverdrawn
<1>5. ClaimInv'
  BY <1>1 DEF IInv, ClaimInv, EmptyRow, WelcomeHasNoEmail, LedgerMatchesSpent,
              EmailClaimedOnce, ClaimOwnerRegistered, HasClaim, Registered
<1> QED
  BY <1>1, <1>2, <1>3, <1>4, <1>5 DEF IInv

LEMMA DashUpsertStep ==
    ASSUME IInv, AccountsAssumption, NEW r \in Req, DashUpsert(r)
    PROVE  /\ IInv'
           /\ UNCHANGED <<claim, billed>>
           /\ \A w \in Wallet : dashUser[w] # None /\ HasClaim(dashUser[w])
                    => dashUser'[w] = dashUser[w]
<1> USE DEF GocLabels, GrantLabels, TxLabels, UserLabels, ClaimLabels, ChargeLabels, At
<1>a. LocalOK(req[r]) /\ req[r] \in Local /\ req[r].t \in Wallet
  BY DEF IInv, TypeOK, LocalsOK, LocalOK, Knows, DashUpsert
<1>1. CASE GocFails(r) /\ UNCHANGED tables
  <2>1. MovesFreely(r)
    BY <1>1, GocFailsMoves DEF IInv, DashUpsert
  <2>2. TypeOK' /\ LocalsOK'
    BY <1>1, <2>1, MovesKeepLocals DEF IInv, TypeOK, MovesFreely, tables
  <2>3. RereadFinds' /\ OneLockHolder' /\ NeverOverdrawn'
    BY <1>1, <2>1, FreeMovesKeepReread, FreeMovesKeepLocks DEF IInv, tables, NeverOverdrawn
  <2>4. ClaimInv'
    BY <1>1 DEF IInv, ClaimInv, EmptyRow, WelcomeHasNoEmail, LedgerMatchesSpent, tables,
                EmailClaimedOnce, ClaimOwnerRegistered, HasClaim, Registered
  <2> QED
    BY <1>1, <2>2, <2>3, <2>4 DEF IInv, tables
<1>2. ASSUME NEW fresh \in UserId \ issued,
             MayOverwrite(dashUser[req[r].t]),
             issued' = issued \cup {fresh},
             dashUser' = [dashUser EXCEPT ![req[r].t] = fresh],
             Goto(r, "dash_reread"),
             UNCHANGED <<wallet, monitor, claim, billed>>
      PROVE  /\ IInv'
             /\ UNCHANGED <<claim, billed>>
             /\ \A w \in Wallet : dashUser[w] # None /\ HasClaim(dashUser[w])
                      => dashUser'[w] = dashUser[w]
  <2>1. Moves(r)
    BY <1>a, <1>2, GotoMoves DEF IInv, LocalOK, Knows, Label
  <2>2. \A s \in Req : s # r => req'[s] = req[s]
    BY <1>2 DEF IInv, TypeOK, Goto
  <2>3. req'[r].pc = "dash_reread" /\ req'[r].t = req[r].t
    BY <1>a, <1>2 DEF IInv, TypeOK, Goto, Local
  <2>4. TypeOK' /\ LocalsOK'
    BY <1>2, <2>1, MovesKeepLocals DEF IInv, TypeOK
  <2>5. fresh # None
    BY DEF AccountsAssumption
  <2>6. RereadFinds'
    BY <1>2, <1>a, <2>2, <2>3, <2>5 DEF IInv, RereadFinds, TypeOK
  <2>7. OneLockHolder' /\ NeverOverdrawn'
    BY <1>2, <2>2, <2>3 DEF IInv, OneLockHolder, NeverOverdrawn
  <2>8. \A w \in Wallet : dashUser[w] # None /\ HasClaim(dashUser[w])
              => dashUser'[w] = dashUser[w]
    BY <1>2 DEF IInv, TypeOK, MayOverwrite
  <2>9. ClaimOwnerRegistered'
    <3> SUFFICES ASSUME NEW u \in UserId, HasClaim(u)
                 PROVE  \E w \in Wallet : dashUser'[w] = u
      BY <1>2 DEF ClaimOwnerRegistered, HasClaim, Registered
    <3>1. PICK w \in Wallet : dashUser[w] = u
      BY DEF IInv, ClaimInv, ClaimOwnerRegistered, Registered
    <3> QED
      BY <2>8, <3>1 DEF AccountsAssumption
  <2>10. ClaimInv'
    BY <1>2, <2>9 DEF IInv, ClaimInv, EmptyRow, WelcomeHasNoEmail, LedgerMatchesSpent,
                      EmailClaimedOnce, HasClaim
  <2> QED
    BY <1>2, <2>4, <2>6, <2>7, <2>8, <2>10 DEF IInv
<1> QED
  <2>1. CASE GocFails(r) /\ UNCHANGED tables
    BY <1>1, <2>1 DEF tables
  <2> QED
    BY <1>1, <1>2, <2>1 DEF DashUpsert, tables

\* Replacing the row of u by one that spends no more than it earns, when no
\* transaction holds it, keeps accounts covered.
LEMMA NewClaimKeepsCover ==
    ASSUME IInv, NEW r \in Req, MovesFreely(r), NEW u \in UserId, NEW row \in ClaimRow,
           ~Locked(u), claim' = [claim EXCEPT ![u] = row], row.spent <= row.xp
    PROVE  NeverOverdrawn'
<1>1. \A s \in Req : req'[s].pc \in TxLabels => req'[s] = req[s] /\ req[s].u # u
  BY FreeMovesKeepLocks DEF IInv, Locked
<1>2. \A s \in Req : req[s].pc \in TxLabels => req[s].u \in UserId
  BY DEF IInv, LocalsOK, LocalOK, Knows, UserLabels, ClaimLabels
<1>3. \A v \in UserId : claim'[v] = IF v = u THEN row ELSE claim[v]
  BY DEF IInv, TypeOK
<1> QED
  BY <1>1, <1>2, <1>3 DEF IInv, NeverOverdrawn

\* A user without a claim has no open transaction: it would be overdrawn.
LEMMA NoClaimNoLock ==
    ASSUME IInv, AccountsAssumption, NEW u \in UserId, ~HasClaim(u)
    PROVE  ~Locked(u)
<1> SUFFICES ASSUME NEW s \in Req, req[s].pc \in TxLabels, req[s].u = u
             PROVE  FALSE
  BY DEF Locked
<1>1. req[s].spend \in Nat \ {0}
  BY DEF IInv, LocalsOK, LocalOK, Knows, ChargeLabels, AccountsAssumption
<1>2. claim[u].spent = 0 /\ claim[u].xp = 0
  BY DEF IInv, ClaimInv, EmptyRow, NoClaim
<1> QED
  BY <1>1, <1>2 DEF IInv, NeverOverdrawn

\* What every statement that stores a claim relies on.
LEMMA StoreClaim ==
    ASSUME IInv, AccountsAssumption, NEW r \in Req, MovesFreely(r),
           NEW u \in UserId, NEW row \in ClaimRow,
           claim' = [claim EXCEPT ![u] = row],
           UNCHANGED <<dashUser, issued, wallet, monitor, billed>>,
           ~Locked(u), Registered(u),
           row.kind # "none", row.kind = "welcome" => row.email = None,
           row.spent = claim[u].spent, row.spent <= row.xp,
           row.email # None => ~EmailTaken(row.email)
    PROVE  IInv'
<1>1. \A v \in UserId : claim'[v] = IF v = u THEN row ELSE claim[v]
  BY DEF IInv, TypeOK
<1>2. TypeOK' /\ LocalsOK'
  BY MovesKeepLocals DEF IInv, TypeOK, MovesFreely
<1>3. RereadFinds' /\ OneLockHolder'
  BY FreeMovesKeepReread, FreeMovesKeepLocks DEF IInv
<1>4. NeverOverdrawn'
  BY NewClaimKeepsCover
<1>5. EmptyRow' /\ WelcomeHasNoEmail' /\ LedgerMatchesSpent'
  BY <1>1 DEF IInv, ClaimInv, EmptyRow, WelcomeHasNoEmail, LedgerMatchesSpent, HasClaim
<1>6. EmailClaimedOnce'
  BY <1>1 DEF IInv, ClaimInv, EmailClaimedOnce, EmailTaken
<1>7. ClaimOwnerRegistered'
  BY <1>1 DEF IInv, ClaimInv, ClaimOwnerRegistered, Registered, HasClaim
<1> QED
  BY <1>2, <1>3, <1>4, <1>5, <1>6, <1>7 DEF IInv, ClaimInv

\* A welcome grant stores a first claim or changes nothing.
LEMMA GrantInsertStep ==
    ASSUME IInv, AccountsAssumption, NEW r \in Req, GrantInsert(r)
    PROVE  /\ IInv'
           /\ UNCHANGED <<dashUser, billed>>
           /\ \/ UNCHANGED claim
              \/ \E u \in UserId, w \in Wallet \cup {None} :
                    /\ WelcomeXp > 0 /\ ~HasClaim(u)
                    /\ claim' = [claim EXCEPT ![u] =
                           [kind |-> "welcome", wallet |-> w, email |-> None,
                            xp |-> WelcomeXp, spent |-> 0]]
<1> USE DEF GrantLabels
<1>1. /\ req[r].u \in UserId /\ req[r].t \in Wallet \cup {None}
      /\ WelcomeXp \in Nat /\ WelcomeXp > 0
  BY DEF IInv, TypeOK, Local, LocalsOK, LocalOK, Knows, UserLabels, GrantInsert,
         AccountsAssumption
<1> PICK u \in UserId, w \in Wallet \cup {None} : u = req[r].u /\ w = req[r].t
  BY <1>1
<1> DEFINE row == [kind |-> "welcome", wallet |-> w, email |-> None,
                   xp |-> WelcomeXp, spent |-> 0]
<1>2. MovesFreely(r)
  BY AfterGrantMoves DEF IInv, GrantInsert
<1>3. CASE UNCHANGED claim
  <2>1. TypeOK' /\ LocalsOK'
    BY <1>2, <1>3, MovesKeepLocals DEF IInv, TypeOK, MovesFreely, GrantInsert
  <2>2. RereadFinds' /\ OneLockHolder' /\ NeverOverdrawn'
    BY <1>2, <1>3, FreeMovesKeepReread, FreeMovesKeepLocks
    DEF IInv, NeverOverdrawn, GrantInsert
  <2>3. ClaimInv'
    BY <1>3 DEF IInv, ClaimInv, EmptyRow, WelcomeHasNoEmail, LedgerMatchesSpent,
                EmailClaimedOnce, ClaimOwnerRegistered, HasClaim, Registered, GrantInsert
  <2> QED
    BY <1>3, <2>1, <2>2, <2>3 DEF IInv, GrantInsert
<1>4. CASE ~HasClaim(u) /\ Registered(u) /\ claim' = [claim EXCEPT ![u] = row]
  <2>1. /\ row \in ClaimRow /\ row.kind = "welcome" /\ row.email = None
        /\ row.spent = 0 /\ row.spent <= row.xp
    BY <1>1 DEF ClaimRow
  <2>2. claim[u].spent = row.spent
    BY <1>4, <2>1 DEF IInv, ClaimInv, EmptyRow, NoClaim
  <2>3. ~Locked(u)
    BY <1>1, <1>4, NoClaimNoLock
  <2>4. UNCHANGED <<dashUser, issued, wallet, monitor, billed>>
    BY DEF GrantInsert
  <2>5. IInv'
    <3> HIDE DEF row
    <3> QED
      BY <1>2, <1>4, <2>1, <2>2, <2>3, <2>4, StoreClaim
  <2> QED
    BY <1>1, <1>4, <2>4, <2>5
<1> QED
  BY <1>3, <1>4 DEF GrantInsert

\* A waitlist claim replaces no claim or the welcome claim, keeps what was spent,
\* and takes an e-mail nobody has.
ClaimsEmail(r) ==
    LET u == req[r].u IN
    /\ u \in UserId /\ req[r].e \in Waitlisted
    /\ claim[u].kind # "waitlist" /\ ~EmailTaken(req[r].e)
    /\ claim[u].spent <= EntryXp[req[r].e]
    /\ claim' = [claim EXCEPT ![u] = WaitlistRow(r, claim[u].spent)]

LEMMA ClaimStep ==
    ASSUME IInv, AccountsAssumption, NEW r \in Req, ClaimUpgrade(r) \/ ClaimInsert(r)
    PROVE  /\ IInv'
           /\ UNCHANGED <<dashUser, billed>>
           /\ UNCHANGED claim \/ ClaimsEmail(r)
<1>a. /\ LocalOK(req[r]) /\ req[r] \in Local /\ req[r].w \in Wallet \cup {None}
      /\ req[r].u \in UserId /\ req[r].e \in Waitlisted
  BY DEF IInv, TypeOK, Local, LocalsOK, LocalOK, Knows, UserLabels, ClaimLabels,
         ClaimUpgrade, ClaimInsert, At
<1> PICK u \in UserId, e \in Waitlisted, w \in Wallet \cup {None} :
        u = req[r].u /\ e = req[r].e /\ w = req[r].w
  BY <1>a
<1> DEFINE row == [kind |-> "waitlist", wallet |-> w, email |-> e,
                   xp |-> EntryXp[e], spent |-> claim[u].spent]
<1>b. UNCHANGED <<dashUser, issued, wallet, monitor, billed>>
  BY DEF ClaimUpgrade, ClaimInsert
<1>1. MovesFreely(r)
  <2>1. CASE Finish(r)
    BY <2>1, FinishMoves DEF IInv
  <2>2. CASE Goto(r, "bind")
    <3>1. Knows(req[r], "bind")
      <4>1. req[r].pc \in {"claim_upgrade", "claim_insert"}
        BY DEF ClaimUpgrade, ClaimInsert, At
      <4> QED
        BY <4>1, <1>a DEF LocalOK, Knows, GocLabels, UserLabels, ClaimLabels, TxLabels, ChargeLabels
    <3> QED
      BY <2>2, <3>1, GotoMoves DEF IInv, Label, TxLabels
  <2> QED
    BY <2>1, <2>2 DEF ClaimUpgrade, ClaimInsert
<1>2. CASE UNCHANGED claim
  <2>1. TypeOK' /\ LocalsOK'
    BY <1>b, <1>1, <1>2, MovesKeepLocals DEF IInv, TypeOK, MovesFreely
  <2>2. RereadFinds' /\ OneLockHolder' /\ NeverOverdrawn'
    BY <1>b, <1>1, <1>2, FreeMovesKeepReread, FreeMovesKeepLocks DEF IInv, NeverOverdrawn
  <2>3. ClaimInv'
    BY <1>b, <1>2 DEF IInv, ClaimInv, EmptyRow, WelcomeHasNoEmail, LedgerMatchesSpent,
                EmailClaimedOnce, ClaimOwnerRegistered, HasClaim, Registered
  <2> QED
    BY <1>b, <1>2, <2>1, <2>2, <2>3 DEF IInv
<1>3. ASSUME /\ claim[u].kind # "waitlist" /\ ~EmailTaken(e) /\ ~Locked(u) /\ Registered(u)
             /\ claim[u].spent <= EntryXp[e]
             /\ claim' = [claim EXCEPT ![u] = row]
      PROVE  IInv' /\ ClaimsEmail(r)
  <2>1. claim[u].spent \in Nat /\ EntryXp[e] \in Nat /\ e \in Email
    BY DEF IInv, TypeOK, ClaimRow, AccountsAssumption, Waitlisted
  <2>2. /\ row \in ClaimRow /\ row.kind = "waitlist" /\ row.email = e
        /\ row.spent = claim[u].spent /\ row.xp = EntryXp[e]
    BY <2>1 DEF ClaimRow
  <2>3. ClaimsEmail(r)
    BY <1>3 DEF ClaimsEmail, WaitlistRow
  <2>4. IInv'
    <3> HIDE DEF row
    <3> QED
      BY <1>b, <1>1, <1>3, <2>1, <2>2, StoreClaim
  <2> QED
    BY <2>3, <2>4
<1>4. CASE ClaimUpgrade(r) /\ MayUpgrade(u, e)
  <2>1. Registered(u)
    BY <1>4 DEF IInv, ClaimInv, ClaimOwnerRegistered, HasClaim, MayUpgrade
  <2>2. claim' = [claim EXCEPT ![u] = row]
    BY <1>4 DEF ClaimUpgrade, WaitlistRow
  <2> QED
    BY <1>3, <1>4, <1>b, <2>1, <2>2 DEF ClaimUpgrade, MayUpgrade
<1>5. CASE ClaimInsert(r) /\ MayInsert(u, e)
  <2>1. claim[u].spent = 0 /\ claim[u].kind = "none"
    BY <1>5 DEF IInv, ClaimInv, EmptyRow, NoClaim, MayInsert, HasClaim
  <2>2. ~Locked(u)
    BY <1>5, NoClaimNoLock DEF MayInsert
  <2>3. claim' = [claim EXCEPT ![u] = row]
    BY <1>5, <2>1 DEF ClaimInsert, WaitlistRow
  <2>4. 0 <= EntryXp[e]
    BY DEF AccountsAssumption, Waitlisted
  <2> QED
    BY <1>3, <1>5, <1>b, <2>1, <2>2, <2>3, <2>4 DEF MayInsert
<1> QED
  BY <1>2, <1>4, <1>5, <1>b DEF ClaimUpgrade, ClaimInsert

\* The guarded UPDATE opens a transaction for an amount the balance covers.
LEMMA DeductStep ==
    ASSUME IInv, AccountsAssumption, NEW r \in Req, Deduct(r)
    PROVE  IInv' /\ UNCHANGED <<dashUser, claim, billed>>
<1>a. /\ LocalOK(req[r]) /\ req[r] \in Local /\ req[r].pc = "deduct"
      /\ req[r].u \in UserId /\ req[r].spend \in Nat
      /\ UNCHANGED tables
  BY DEF IInv, TypeOK, Local, LocalsOK, LocalOK, Knows, UserLabels, Deduct, At
<1>1. CASE Finish(r)
  <2>1. MovesFreely(r)
    BY <1>1, FinishMoves DEF IInv
  <2>2. TypeOK' /\ LocalsOK'
    BY <1>a, <2>1, MovesKeepLocals DEF IInv, TypeOK, MovesFreely, tables
  <2>3. RereadFinds' /\ OneLockHolder' /\ NeverOverdrawn'
    BY <1>a, <2>1, FreeMovesKeepReread, FreeMovesKeepLocks DEF IInv, tables, NeverOverdrawn
  <2>4. ClaimInv'
    BY <1>a DEF IInv, ClaimInv, EmptyRow, WelcomeHasNoEmail, LedgerMatchesSpent, tables,
                EmailClaimedOnce, ClaimOwnerRegistered, HasClaim, Registered
  <2> QED
    BY <1>a, <2>2, <2>3, <2>4 DEF IInv, tables
<1>2. CASE /\ ~Locked(req[r].u) /\ Affords(req[r].u, req[r].spend)
           /\ Goto(r, "ledger_insert")
  <2>1. Knows(req[r], "ledger_insert")
    BY <1>a DEF LocalOK, Knows, GocLabels, UserLabels, ClaimLabels, ChargeLabels, TxLabels
  <2>2. Moves(r)
    BY <1>2, <2>1, GotoMoves DEF IInv, Label, TxLabels
  <2>3. /\ \A s \in Req : s # r => req'[s] = req[s]
        /\ req'[r].pc = "ledger_insert" /\ req'[r].u = req[r].u
        /\ req'[r].spend = req[r].spend
    BY <1>a, <1>2 DEF IInv, TypeOK, Goto, Local
  <2>4. TypeOK' /\ LocalsOK'
    BY <1>a, <2>2, MovesKeepLocals DEF IInv, TypeOK, tables
  <2>5. RereadFinds'
    BY <1>a, <2>3 DEF IInv, RereadFinds, At, tables
  <2>6. OneLockHolder'
    BY <1>2, <2>3 DEF IInv, OneLockHolder, Locked
  <2>7. NeverOverdrawn'
    <3>1. claim[req[r].u].spent + req[r].spend <= claim[req[r].u].xp
      BY <1>a, <1>2 DEF IInv, TypeOK, ClaimRow, Affords
    <3> QED
      BY <1>a, <2>3, <3>1 DEF IInv, NeverOverdrawn, tables
  <2>8. ClaimInv'
    BY <1>a DEF IInv, ClaimInv, EmptyRow, WelcomeHasNoEmail, LedgerMatchesSpent, tables,
                EmailClaimedOnce, ClaimOwnerRegistered, HasClaim, Registered
  <2> QED
    BY <1>a, <2>4, <2>5, <2>6, <2>7, <2>8 DEF IInv, tables
<1> QED
  BY <1>1, <1>2 DEF Deduct

LEMMA LedgerInsertStep ==
    ASSUME IInv, NEW r \in Req, LedgerInsert(r)
    PROVE  IInv' /\ UNCHANGED <<dashUser, claim, billed>>
<1> PICK p \in Local : p = req[r] /\ LocalOK(p) /\ p.pc = "ledger_insert"
  BY DEF IInv, TypeOK, LocalsOK, LedgerInsert, At
<1> DEFINE q == [p EXCEPT !.pc = "commit", !.row = p.spend]
<1>1. q \in Local
  <2>1. p.spend \in Nat /\ "commit" \in Label
    BY DEF Local, Label, TxLabels
  <2> QED
    BY <2>1 DEF Local
<1>2. /\ q.pc = "commit" /\ q.row = p.spend /\ q.spend = p.spend /\ q.u = p.u
      /\ q.t = p.t /\ q.w = p.w /\ q.e = p.e /\ q.via = p.via /\ q.op = p.op
  BY DEF Local
<1>3. LocalOK(q)
  <2> HIDE DEF q
  <2> QED
    BY <1>2 DEF LocalOK, Knows, GocLabels, UserLabels, ClaimLabels, ChargeLabels, TxLabels
<1>4. req' = [req EXCEPT ![r] = q] /\ req'[r] = q
  BY DEF LedgerInsert, IInv, TypeOK
<1> HIDE DEF q
<1>5. Moves(r) /\ \A s \in Req : s # r => req'[s] = req[s]
  BY <1>1, <1>3, <1>4 DEF Moves, IInv, TypeOK
<1>6. UNCHANGED tables
  BY DEF LedgerInsert
<1>7. TypeOK' /\ LocalsOK'
  BY <1>5, <1>6, MovesKeepLocals DEF IInv, TypeOK, tables
<1>8. RereadFinds' /\ OneLockHolder' /\ NeverOverdrawn'
  BY <1>2, <1>4, <1>5, <1>6
  DEF IInv, RereadFinds, OneLockHolder, NeverOverdrawn, At, TxLabels, tables
<1>9. ClaimInv'
  BY <1>6 DEF IInv, ClaimInv, EmptyRow, WelcomeHasNoEmail, LedgerMatchesSpent, tables,
              EmailClaimedOnce, ClaimOwnerRegistered, HasClaim, Registered
<1> QED
  BY <1>6, <1>7, <1>8, <1>9 DEF IInv, tables

\* COMMIT makes the UPDATE and the ledger row visible together.
LEMMA CommitStep ==
    ASSUME IInv, AccountsAssumption, NEW r \in Req, Commit(r)
    PROVE  /\ IInv'
           /\ UNCHANGED dashUser
           /\ \E u \in UserId, cost \in Costs :
                 /\ claim[u].spent + cost <= claim[u].xp
                 /\ claim' = [claim EXCEPT ![u].spent = @ + cost]
                 /\ billed' = [billed EXCEPT ![u] = @ + cost]
<1>a. /\ req[r].pc = "commit" /\ req[r].u \in UserId /\ req[r].spend \in Costs
      /\ req[r].row = req[r].spend
  BY DEF IInv, LocalsOK, LocalOK, Knows, UserLabels, ChargeLabels, TxLabels, Commit, At
<1> PICK u \in UserId, cost \in Costs : u = req[r].u /\ cost = req[r].spend
  BY <1>a
<1>b. cost \in Nat /\ \A v \in UserId : /\ claim[v].spent \in Nat /\ claim[v].xp \in Nat
                                        /\ claim[v] \in ClaimRow /\ billed[v] \in Nat
  BY DEF AccountsAssumption, IInv, TypeOK, ClaimRow
<1>1. /\ claim' = [claim EXCEPT ![u].spent = @ + cost]
      /\ billed' = [billed EXCEPT ![u] = @ + cost]
      /\ UNCHANGED <<dashUser, issued, wallet, monitor>>
  BY <1>a DEF Commit
<1>2. claim[u].spent + cost <= claim[u].xp
  BY <1>a DEF IInv, NeverOverdrawn, TxLabels
<1>3. MovesFreely(r)
  BY FinishMoves DEF IInv, Commit
<1>4. \A v \in UserId : /\ claim'[v].spent = IF v = u THEN claim[v].spent + cost
                                                      ELSE claim[v].spent
                        /\ billed'[v] = IF v = u THEN billed[v] + cost ELSE billed[v]
                        /\ v # u => claim'[v] = claim[v]
                        /\ claim'[v].kind = claim[v].kind
                        /\ claim'[v].email = claim[v].email
                        /\ claim'[v].xp = claim[v].xp
                        /\ claim'[v] \in ClaimRow
  <2>1. /\ claim'[u] = [claim[u] EXCEPT !.spent = claim[u].spent + cost]
        /\ billed'[u] = billed[u] + cost
        /\ \A v \in UserId \ {u} : claim'[v] = claim[v] /\ billed'[v] = billed[v]
    BY <1>1 DEF IInv, TypeOK
  <2>2. /\ claim'[u].spent = claim[u].spent + cost
        /\ claim'[u].kind = claim[u].kind /\ claim'[u].email = claim[u].email
        /\ claim'[u].xp = claim[u].xp /\ claim'[u] \in ClaimRow
    BY <2>1, <1>b DEF ClaimRow
  <2> QED
    BY <2>1, <2>2, <1>b
<1>5. /\ claim' \in [UserId -> ClaimRow] /\ billed' \in [UserId -> Nat]
  BY <1>1, <1>4, <1>b DEF IInv, TypeOK
<1>6. TypeOK' /\ LocalsOK'
  BY <1>1, <1>3, <1>5, MovesKeepLocals DEF IInv, TypeOK, MovesFreely
<1>7. RereadFinds' /\ OneLockHolder'
  BY <1>1, <1>3, FreeMovesKeepReread, FreeMovesKeepLocks DEF IInv
<1>8. NeverOverdrawn'
  <2>1. \A s \in Req : req'[s].pc \in TxLabels =>
            req'[s] = req[s] /\ req[s].u # u /\ req[s].u \in UserId
    <3>1. \A s \in Req : req'[s].pc \in TxLabels => s # r /\ req'[s] = req[s]
      BY <1>3, FreeMovesKeepLocks DEF IInv
    <3> QED
      BY <1>a, <3>1 DEF IInv, OneLockHolder, LocalsOK, LocalOK, Knows, UserLabels, TxLabels
  <2> QED
    BY <1>2, <1>4, <1>b, <2>1 DEF IInv, NeverOverdrawn
<1>9. HasClaim(u)
  <2>1. cost # 0
    BY DEF AccountsAssumption
  <2> QED
    BY <1>2, <1>b, <2>1 DEF IInv, ClaimInv, EmptyRow, NoClaim
<1>10. ClaimInv'
  BY <1>1, <1>4, <1>9, <1>b
  DEF IInv, ClaimInv, EmptyRow, WelcomeHasNoEmail, LedgerMatchesSpent, EmailClaimedOnce,
      ClaimOwnerRegistered, HasClaim, Registered
<1> QED
  BY <1>1, <1>2, <1>6, <1>7, <1>8, <1>10 DEF IInv

-----------------------------------------------------------------------------
(* The theorems *)

LEMMA InitInv == ASSUME AccountsAssumption, Init PROVE IInv
<1> USE DEF Init
<1>1. TypeOK
  <2>1. NoClaim \in ClaimRow
    BY DEF NoClaim, ClaimRow
  <2>2. IdleLocal \in Local
    BY DEF IdleLocal, Local, Label
  <2>3. [status |-> "absent", user |-> None] \in WalletRow
    BY DEF WalletRow
  <2> QED
    BY <2>1, <2>2, <2>3 DEF TypeOK
<1>2. \A r \in Req : req[r] = IdleLocal
  OBVIOUS
<1>3. LocalsOK /\ RereadFinds /\ OneLockHolder
  BY <1>2 DEF LocalsOK, LocalOK, Knows, IdleLocal, RereadFinds, OneLockHolder, At,
              GocLabels, UserLabels, ClaimLabels, ChargeLabels, TxLabels
<1>4. NeverOverdrawn
  BY <1>2 DEF NeverOverdrawn, NoClaim, IdleLocal, TxLabels
<1>5. ClaimInv
  BY DEF ClaimInv, EmptyRow, WelcomeHasNoEmail, LedgerMatchesSpent, EmailClaimedOnce,
         ClaimOwnerRegistered, HasClaim, NoClaim
<1> QED
  BY <1>1, <1>3, <1>4, <1>5 DEF IInv

\* Every step is of one of these kinds.
LEMMA StepKinds ==
    ASSUME Next
    PROVE  \E r \in Req : \/ Reads(r) \/ Start(r) \/ WalletWrites(r) \/ DashUpsert(r)
                          \/ GrantInsert(r) \/ ClaimUpgrade(r) \/ ClaimInsert(r)
                          \/ Deduct(r) \/ LedgerInsert(r) \/ Commit(r)
BY DEF Next, Step, Reads, WalletWrites

LEMMA NextInv == ASSUME AccountsAssumption, IInv, Next PROVE IInv'
BY StepKinds, OtherSteps, DashUpsertStep, GrantInsertStep, ClaimStep, DeductStep,
   LedgerInsertStep, CommitStep

LEMMA StutterInv == ASSUME IInv, UNCHANGED vars PROVE IInv'
BY DEF IInv, vars, TypeOK, LocalsOK, LocalOK, Knows, RereadFinds, OneLockHolder, NeverOverdrawn, At,
       ClaimInv, EmptyRow, WelcomeHasNoEmail, LedgerMatchesSpent, EmailClaimedOnce,
       ClaimOwnerRegistered, HasClaim, Registered

\* The invariant holds in every reachable state.
THEOREM Inductive == Spec => []IInv
<1>1. Init => IInv
  BY InitInv, AccountsAssumption
<1>2. IInv /\ [Next]_vars => IInv'
  BY NextInv, StutterInv, AccountsAssumption
<1> QED
  BY <1>1, <1>2, PTL DEF Spec

\* Every table row and every local keeps its type.
THEOREM TypeCorrect == Spec => []TypeOK
<1>1. IInv => TypeOK
  BY DEF IInv
<1> QED
  BY <1>1, Inductive, PTL

\* The ledger accounts for every XP ever spent.
THEOREM LedgerCorrect == Spec => []LedgerMatchesSpent
<1>1. IInv => LedgerMatchesSpent
  BY DEF IInv, ClaimInv
<1> QED
  BY <1>1, Inductive, PTL

\* Nobody spends XP twice.
THEOREM Covered == Spec => []NeverOverdrawn
<1>1. IInv => NeverOverdrawn
  BY DEF IInv
<1> QED
  BY <1>1, Inductive, PTL

\* An e-mail pays out once.
THEOREM SinglePayout == Spec => []EmailClaimedOnce
<1>1. IInv => EmailClaimedOnce
  BY DEF IInv, ClaimInv
<1> QED
  BY <1>1, Inductive, PTL

\* No claim loses the wallet behind it.
THEOREM OwnersStay == Spec => []ClaimOwnerRegistered
<1>1. IInv => ClaimOwnerRegistered
  BY DEF IInv, ClaimInv
<1> QED
  BY <1>1, Inductive, PTL

\* A wallet whose identity has XP keeps it.
THEOREM IdentityStays == Spec => IdentityFixedByClaim
<1>1. IInv /\ [Next]_vars =>
        [\A w \in Wallet : dashUser[w] # None /\ HasClaim(dashUser[w])
            => dashUser'[w] = dashUser[w]]_vars
  <2> SUFFICES ASSUME IInv, Next
               PROVE  \A w \in Wallet : dashUser[w] # None /\ HasClaim(dashUser[w])
                          => dashUser'[w] = dashUser[w]
    OBVIOUS
  <2> QED
    BY StepKinds, OtherSteps, DashUpsertStep, GrantInsertStep, ClaimStep, DeductStep,
       LedgerInsertStep, CommitStep, AccountsAssumption
<1> QED
  BY <1>1, Inductive, PTL DEF Spec, IdentityFixedByClaim

\* A step that leaves the claim of u alone, or, if it is a waitlist claim, spends of it.
OnlySpends(u) == claim[u].kind = "waitlist" =>
                    /\ claim'[u].spent >= claim[u].spent
                    /\ claim'[u] = [claim[u] EXCEPT !.spent = claim'[u].spent]
Final == \A u \in UserId : OnlySpends(u)

\* A stored waitlist claim changes only by what is spent of it.
THEOREM ClaimsAreFinal == Spec => WaitlistClaimFinal
<1>0. ASSUME IInv, NEW u \in UserId, claim'[u] = claim[u]
      PROVE  OnlySpends(u)
  <2>1. claim[u] \in ClaimRow
    BY <1>0 DEF IInv, TypeOK
  <2>2. claim[u].spent >= claim[u].spent /\ claim[u] = [claim[u] EXCEPT !.spent = claim[u].spent]
    BY <2>1 DEF ClaimRow
  <2> QED
    BY <1>0, <2>2 DEF OnlySpends
<1>1. ASSUME IInv, UNCHANGED claim PROVE Final
  BY <1>0, <1>1 DEF Final
<1>2. ASSUME IInv, NEW u \in UserId, NEW row, claim[u].kind # "waitlist",
             claim' = [claim EXCEPT ![u] = row]
      PROVE  Final
  <2>1. \A v \in UserId \ {u} : claim'[v] = claim[v]
    BY <1>2 DEF IInv, TypeOK
  <2> QED
    BY <1>0, <1>2, <2>1 DEF Final, OnlySpends
<1>3. ASSUME IInv, NEW u \in UserId, NEW cost \in Costs,
             claim' = [claim EXCEPT ![u].spent = @ + cost]
      PROVE  Final
  <2>1. cost \in Nat /\ claim[u] \in ClaimRow /\ claim[u].spent \in Nat
    BY <1>3, AccountsAssumption DEF AccountsAssumption, IInv, TypeOK, ClaimRow
  <2>2. /\ claim'[u] = [claim[u] EXCEPT !.spent = claim[u].spent + cost]
        /\ \A v \in UserId \ {u} : claim'[v] = claim[v]
    BY <1>3 DEF IInv, TypeOK
  <2>3. claim'[u].spent = claim[u].spent + cost
    BY <2>1, <2>2 DEF ClaimRow
  <2>4. OnlySpends(u)
    BY <2>1, <2>2, <2>3 DEF OnlySpends
  <2> QED
    BY <1>0, <1>3, <2>2, <2>4 DEF Final
<1>4. ASSUME IInv, Next PROVE Final
  <2> PICK r \in Req : \/ Reads(r) \/ Start(r) \/ WalletWrites(r) \/ DashUpsert(r)
                       \/ GrantInsert(r) \/ ClaimUpgrade(r) \/ ClaimInsert(r)
                       \/ Deduct(r) \/ LedgerInsert(r) \/ Commit(r)
    BY <1>4, StepKinds
  <2>1. CASE UNCHANGED claim
    BY <1>1, <1>4, <2>1
  <2>2. CASE GrantInsert(r)
    <3>1. ASSUME NEW u \in UserId, NEW row, ~HasClaim(u), claim' = [claim EXCEPT ![u] = row]
          PROVE  Final
      BY <1>2, <1>4, <3>1 DEF HasClaim
    <3> QED
      BY <1>4, <2>1, <2>2, <3>1, GrantInsertStep, AccountsAssumption
  <2>3. CASE ClaimsEmail(r)
    BY <1>2, <1>4, <2>3 DEF ClaimsEmail
  <2>4. CASE Commit(r)
    BY <1>3, <1>4, <2>4, CommitStep, AccountsAssumption
  <2> QED
    BY <1>4, <2>1, <2>2, <2>3, <2>4, OtherSteps, DashUpsertStep, ClaimStep, DeductStep,
       LedgerInsertStep, AccountsAssumption
<1>5. IInv /\ [Next]_vars => [Final]_vars
  BY <1>4
<1> QED
  BY <1>5, Inductive, PTL DEF Spec, WaitlistClaimFinal, Final, OnlySpends

-----------------------------------------------------------------------------
(* Refinement: a step of Accounts is a step of XpAccount or changes no account *)

LEMMA WelcomeRefines ==
    ASSUME IInv, NEW u \in UserId, NEW w, WelcomeXp > 0, ~HasClaim(u), UNCHANGED billed,
           claim' = [claim EXCEPT ![u] = [kind |-> "welcome", wallet |-> w, email |-> None,
                                          xp |-> WelcomeXp, spent |-> 0]]
    PROVE  Xp!Welcome(u)
<1>1. claim[u] = NoClaim /\ billed[u] = 0
  BY DEF IInv, ClaimInv, EmptyRow, LedgerMatchesSpent, NoClaim
<1>2. Account[u] = Xp!NoAccount
  BY <1>1 DEF Account, Xp!NoAccount, NoClaim
<1>3. Account' = [Account EXCEPT ![u] = [kind |-> "welcome", email |-> None,
                        earned |-> WelcomeXp, spent |-> 0, billed |-> 0]]
  BY <1>1 DEF Account, IInv, TypeOK
<1> QED
  BY <1>2, <1>3 DEF Xp!Welcome

LEMMA ClaimRefines ==
    ASSUME IInv, AccountsAssumption, NEW r \in Req, ClaimsEmail(r), UNCHANGED billed
    PROVE  Xp!Next
<1> PICK u \in UserId, e \in DOMAIN EntryXp : u = req[r].u /\ e = req[r].e
  BY DEF ClaimsEmail, Waitlisted
<1>1. Account' = [Account EXCEPT ![u].kind = "waitlist", ![u].email = e,
                                 ![u].earned = EntryXp[e]]
  BY DEF Account, ClaimsEmail, WaitlistRow, IInv, TypeOK
<1>2. Xp!ClaimEmail(u, e)
  BY <1>1 DEF Account, ClaimsEmail, EmailTaken, Xp!ClaimEmail
<1> QED
  BY <1>2 DEF Xp!Next

LEMMA CommitRefines ==
    ASSUME IInv, NEW u \in UserId, NEW cost \in Costs,
           claim[u].spent + cost <= claim[u].xp,
           claim' = [claim EXCEPT ![u].spent = @ + cost],
           billed' = [billed EXCEPT ![u] = @ + cost]
    PROVE  Xp!Next
<1>1. \A v \in UserId : claim[v] \in ClaimRow
  BY DEF IInv, TypeOK
<1>2. Account' = [Account EXCEPT ![u].spent = @ + cost, ![u].billed = @ + cost]
  <2>1. DOMAIN claim = UserId /\ DOMAIN billed = UserId
    BY DEF IInv, TypeOK
  <2>2. \A v \in UserId : DOMAIN claim[v] = {"kind", "wallet", "email", "xp", "spent"}
    BY <1>1 DEF ClaimRow
  <2>3. \A v \in UserId \ {u} : claim'[v] = claim[v] /\ billed'[v] = billed[v]
    BY <2>1
  <2>4. /\ claim'[u].kind = claim[u].kind /\ claim'[u].email = claim[u].email
        /\ claim'[u].xp = claim[u].xp /\ claim'[u].spent = claim[u].spent + cost
        /\ billed'[u] = billed[u] + cost
    BY <2>1, <2>2
  <2>5. \A v \in UserId \ {u} : Account'[v] = Account[v]
    BY <2>3 DEF Account
  <2>6. Account'[u] = [Account[u] EXCEPT !.spent = @ + cost, !.billed = @ + cost]
    <3>1. PICK a : a = Account[u]
      OBVIOUS
    <3>2. PICK n : n = Account'[u]
      OBVIOUS
    <3>3. /\ DOMAIN a = {"kind", "email", "earned", "spent", "billed"}
          /\ a = [i \in DOMAIN a |-> a[i]] /\ n = [i \in DOMAIN a |-> n[i]]
      BY <3>1, <3>2 DEF Account
    <3>4. /\ n.kind = a.kind /\ n.email = a.email /\ n.earned = a.earned
          /\ n.spent = a.spent + cost /\ n.billed = a.billed + cost
      BY <2>4, <3>1, <3>2 DEF Account
    <3>5. [a EXCEPT !.spent = @ + cost, !.billed = @ + cost] = n
      BY ONLY <3>3, <3>4
    <3> QED BY ONLY <3>1, <3>2, <3>5
  <2>7. /\ Account = [v \in UserId |-> Account[v]]
        /\ Account' = [v \in UserId |-> Account'[v]]
    BY DEF Account
  <2> HIDE DEF Account
  <2> QED BY <2>5, <2>6, <2>7
<1>3. Xp!Spend(u, cost)
  BY <1>2 DEF Account, Xp!Spend
<1> QED
  BY <1>3 DEF Xp!Next

\* The tables and their handlers implement the abstract accounts.
THEOREM Refinement == Spec => ImplementsXpAccount
<1>1. Init => Xp!Init
  BY DEF Init, Xp!Init, Account, Xp!NoAccount, NoClaim
<1>2. ASSUME IInv, UNCHANGED <<claim, billed>> PROVE UNCHANGED Account
  BY <1>2 DEF Account
<1>3. ASSUME IInv, Next PROVE Xp!Next \/ UNCHANGED Account
  <2> PICK r \in Req : \/ Reads(r) \/ Start(r) \/ WalletWrites(r) \/ DashUpsert(r)
                       \/ GrantInsert(r) \/ ClaimUpgrade(r) \/ ClaimInsert(r)
                       \/ Deduct(r) \/ LedgerInsert(r) \/ Commit(r)
    BY <1>3, StepKinds
  <2>1. CASE UNCHANGED <<claim, billed>>
    BY <1>2, <1>3, <2>1
  <2>2. CASE GrantInsert(r)
    <3>1. ASSUME NEW u \in UserId, Xp!Welcome(u) PROVE Xp!Next
      BY <3>1 DEF Xp!Next
    <3> QED
      BY <1>3, <2>1, <2>2, <3>1, GrantInsertStep, WelcomeRefines, AccountsAssumption
  <2>3. CASE ClaimUpgrade(r) \/ ClaimInsert(r)
    BY <1>3, <2>1, <2>3, ClaimStep, ClaimRefines, AccountsAssumption
  <2>4. CASE Commit(r)
    BY <1>3, <2>4, CommitStep, CommitRefines, AccountsAssumption
  <2> QED
    BY <1>3, <2>1, <2>2, <2>3, <2>4, OtherSteps, DashUpsertStep, DeductStep,
       LedgerInsertStep, AccountsAssumption
<1>4. IInv /\ [Next]_vars => [Xp!Next]_Account
  BY <1>2, <1>3 DEF vars
<1> QED
  BY <1>1, <1>4, Inductive, PTL DEF Spec, ImplementsXpAccount, Xp!Spec

-----------------------------------------------------------------------------
(* A connect with nobody beside it: what it leaves behind                   *)

LookupLabels == {"link_read", "dash_read"} \cup GocLabels \cup {"grant_read", "grant_insert"}

StoredLabels == {"monitor_update", "monitor_insert", "bind", "regrant_read", "regrant_insert"}

\* How far a connect p has come that found nobody at work: what it looked up is the
\* identity of its wallet, and what it stored is still there.
ConnectOK(p) ==
    /\ p.pc \in LookupLabels \cup {"wallet_upsert"} \cup StoredLabels
    /\ p.w \in Wallet
    /\ p.pc # "link_read" => p.t = p.w
    /\ p.pc = "dash_upsert" => dashUser[p.w] = None
    /\ p.pc \in {"grant_read", "grant_insert"} => p.via
    /\ p.pc \notin LookupLabels => p.u # None
    /\ p.via => p.u = dashUser[p.w]
    /\ p.pc \in StoredLabels => wallet[p.w] = [status |-> "active", user |-> p.u]
    /\ p.pc = "monitor_insert" => monitor[p.w] = "absent"
    /\ p.pc \in {"bind", "regrant_read", "regrant_insert"} => monitor[p.w] = "active"

LoneOK(r) == req[r].op = "connect" => ConnectOK(req[r])

\* Nobody is at work beside the request alone, and a connect among those does well.
AloneInv ==
    /\ alone \in Req \cup {None}
    /\ alone \in Req => /\ \A s \in Req \ {alone} : At(s, "idle")
                        /\ LoneOK(alone)

\* Going to a label changes no other local.
LEMMA GotoKeeps ==
    ASSUME TypeOK, NEW r \in Req, NEW l, Goto(r, l)
    PROVE  /\ req'[r].pc = l /\ req'[r].op = req[r].op /\ req'[r].w = req[r].w
           /\ req'[r].t = req[r].t /\ req'[r].u = req[r].u /\ req'[r].via = req[r].via
BY DEF TypeOK, Local, Goto

\* A finished request asks for nothing.
LEMMA FinishKeeps ==
    ASSUME TypeOK, NEW r \in Req, Finish(r)
    PROVE  req'[r].pc = "idle" /\ req'[r].op = "none"
BY DEF TypeOK, Finish, IdleLocal

\* The lookups of a connect end with the identity of its wallet.
LEMMA LookupLone ==
    ASSUME TypeOK, LocalsOK, RereadFinds, AccountsAssumption, NEW r \in Req,
           req[r].op = "connect", ConnectOK(req[r]),
           LinkRead(r) \/ DashRead(r) \/ DashUpsert(r) \/ DashReread(r)
    PROVE  ConnectOK(req[r])' /\ ~At(r, "idle")'
<1>1. PICK p \in Local : p = req[r]
  BY DEF TypeOK
<1>2. p.w \in Wallet /\ p.t \in Wallet /\ None \notin UserId
  BY <1>1 DEF ConnectOK, LinkRead, DashRead, DashUpsert, DashReread, At, LocalsOK, LocalOK, Knows,
              GocLabels, AccountsAssumption
<1>3. CASE LinkRead(r)
  <2>1. /\ req'[r].w = p.w /\ req'[r].t = p.w /\ req'[r].via = p.via
        /\ req'[r].u = wallet[p.t].user
        /\ req'[r].pc = IF wallet[p.t].user = None THEN "dash_read" ELSE "wallet_upsert"
    BY <1>1, <1>3 DEF LinkRead, TypeOK, Local
  <2>2. ~p.via
    BY <1>1, <1>3 DEF LinkRead, At, LocalsOK, LocalOK, Knows
  <2> QED
    BY <1>2, <2>1, <2>2 DEF ConnectOK, LookupLabels, GocLabels, StoredLabels, At
<1>4. CASE DashRead(r) /\ dashUser[p.t] = None
  <2>1. Goto(r, "dash_upsert") /\ p.pc = "dash_read" /\ UNCHANGED tables
    BY <1>1, <1>4 DEF DashRead, At
  <2> QED
    BY <1>1, <1>4, <2>1, GotoKeeps DEF ConnectOK, LookupLabels, GocLabels, StoredLabels, At, tables
<1>5. CASE DashReread(r) \/ (DashRead(r) /\ dashUser[p.t] # None)
  <2>1. /\ p.pc \in {"dash_read", "dash_reread"} /\ UNCHANGED tables
        /\ req' = [req EXCEPT ![r].pc = "grant_read", ![r].via = TRUE, ![r].u = dashUser[p.t]]
    BY <1>1, <1>5 DEF DashRead, DashReread, At
  <2>2. /\ req'[r].pc = "grant_read" /\ req'[r].via /\ req'[r].u = dashUser[p.t]
        /\ req'[r].w = p.w /\ req'[r].t = p.t
    BY <1>1, <2>1 DEF TypeOK, Local
  <2>3. p.t = p.w
    BY <1>1, <2>1 DEF ConnectOK
  <2> QED
    BY <1>2, <2>1, <2>2, <2>3 DEF ConnectOK, LookupLabels, GocLabels, StoredLabels, At, tables
<1>6. CASE DashUpsert(r)
  <2>1. p.pc = "dash_upsert" /\ dashUser[p.w] = None /\ p.t = p.w
    BY <1>1, <1>6 DEF DashUpsert, At, ConnectOK
  <2>2. MayOverwrite(dashUser[req[r].t])
    BY <1>1, <1>2, <2>1 DEF MayOverwrite
  <2>3. Goto(r, "dash_reread")
    BY <1>6, <2>2 DEF DashUpsert
  <2>4. /\ req'[r].pc = "dash_reread" /\ req'[r].w = p.w /\ req'[r].t = p.w
        /\ req'[r].via = p.via
    BY <1>1, <2>1, <2>3, GotoKeeps
  <2>5. ~p.via
    BY <1>1, <1>2, <2>1 DEF ConnectOK, LocalsOK, LocalOK, Knows
  <2> QED
    BY <1>2, <2>4, <2>5 DEF ConnectOK, LookupLabels, GocLabels, StoredLabels, At
<1> QED
  BY <1>1, <1>3, <1>4, <1>5, <1>6

\* A user of the wallet is granted the welcome XP if he lacks it and is registered.
LEMMA GrantLone ==
    ASSUME TypeOK, LocalsOK, AccountsAssumption, NEW r \in Req,
           req[r].op = "connect", ConnectOK(req[r]), GrantRead(r) \/ GrantInsert(r)
    PROVE  \/ ConnectOK(req[r])' /\ ~At(r, "idle")'
           \/ LeavesConnected(req[r]) /\ req'[r].op = "none"
<1>1. PICK p \in Local : p = req[r]
  BY DEF TypeOK
<1>2. /\ p.pc \in GrantLabels /\ p.u \in UserId /\ p.w \in Wallet /\ None \notin UserId
      /\ UNCHANGED <<dashUser, issued, wallet, monitor, billed>>
  BY <1>1 DEF GrantRead, GrantInsert, GrantLabels, At, LocalsOK, LocalOK, Knows, UserLabels, tables,
              ConnectOK, AccountsAssumption
<1>3. CASE GrantRead(r) /\ ~AfterGrant(r)
  <2>1. PICK l \in {"grant_insert", "regrant_insert"} :
          Goto(r, l) /\ (l = "grant_insert" <=> p.pc = "grant_read")
    BY <1>1, <1>3 DEF GrantRead, At
  <2>2. p.pc = IF l = "grant_insert" THEN "grant_read" ELSE "regrant_read"
    BY <1>1, <1>3, <2>1 DEF GrantRead
  <2> QED
    BY <1>1, <1>2, <2>1, <2>2, GotoKeeps
    DEF ConnectOK, LookupLabels, GocLabels, StoredLabels, At
<1>4. CASE AfterGrant(r) /\ p.pc \in {"grant_read", "grant_insert"}
  <2>1. Goto(r, "wallet_upsert")
    BY <1>1, <1>4 DEF AfterGrant, AfterGoc
  <2> QED
    BY <1>1, <1>2, <1>4, <2>1, GotoKeeps
    DEF ConnectOK, LookupLabels, GocLabels, StoredLabels, At
<1>5. CASE AfterGrant(r) /\ p.pc \in {"regrant_read", "regrant_insert"}
  <2>1. Finish(r)
    BY <1>1, <1>5 DEF AfterGrant
  <2>2. WelcomeXp > 0 /\ (\E w \in Wallet : dashUser'[w] = p.u) => claim'[p.u].kind # "none"
    <3>1. CASE GrantRead(r)
      <4>1. WelcomeXp <= 0 \/ HasClaim(p.u)
        <5>1. ~Goto(r, "regrant_insert")
          BY <2>1, FinishKeeps, GotoKeeps
        <5> QED
          BY <1>1, <1>5, <3>1, <5>1 DEF GrantRead, At
      <4>2. UNCHANGED claim /\ WelcomeXp \in Int
        BY <3>1 DEF GrantRead, tables, AccountsAssumption
      <4> QED
        BY <4>1, <4>2 DEF HasClaim
    <3>2. CASE GrantInsert(r)
      BY <1>1, <1>2, <3>2 DEF GrantInsert, HasClaim, Registered, TypeOK
    <3> QED
      BY <3>1, <3>2
  <2>3. /\ wallet'[p.w] = [status |-> "active", user |-> p.u] /\ p.u # None
        /\ monitor'[p.w] = "active" /\ (p.via => dashUser'[p.w] = p.u)
    BY <1>1, <1>2, <1>5 DEF ConnectOK, StoredLabels
  <2> QED
    BY <1>1, <2>1, <2>2, <2>3, FinishKeeps DEF LeavesConnected
<1> QED
  BY <1>1, <1>2, <1>3, <1>4, <1>5 DEF GrantLabels, GrantInsert

\* The wallet is stored with that user, monitored, and bound to him once more.
LEMMA StoreLone ==
    ASSUME TypeOK, LocalsOK, AccountsAssumption, NEW r \in Req,
           req[r].op = "connect", ConnectOK(req[r]),
           WalletUpsert(r) \/ MonitorUpdate(r) \/ MonitorInsert(r) \/ Bind(r)
    PROVE  ConnectOK(req[r])' /\ ~At(r, "idle")'
<1>1. PICK p \in Local : p = req[r]
  BY DEF TypeOK
<1>2. /\ p.pc \in {"wallet_upsert", "monitor_update", "monitor_insert", "bind"}
      /\ p.u # None /\ p.w \in Wallet /\ p.t = p.w /\ UNCHANGED dashUser
  BY <1>1 DEF WalletUpsert, MonitorUpdate, MonitorInsert, Bind, At, ConnectOK, LookupLabels, GocLabels
<1>3. CASE WalletUpsert(r)
  <2>1. Goto(r, "monitor_update") /\ wallet'[p.w] = [status |-> "active", user |-> p.u]
    BY <1>1, <1>2, <1>3 DEF WalletUpsert, TypeOK
  <2> QED
    BY <1>1, <1>2, <2>1, GotoKeeps DEF ConnectOK, LookupLabels, GocLabels, StoredLabels, At
<1>4. CASE MonitorUpdate(r) /\ monitor[p.w] = "absent"
  <2>1. Goto(r, "monitor_insert") /\ UNCHANGED <<wallet, monitor>> /\ p.pc = "monitor_update"
    BY <1>1, <1>4 DEF MonitorUpdate, At
  <2> QED
    BY <1>1, <1>2, <1>4, <2>1, GotoKeeps DEF ConnectOK, LookupLabels, GocLabels, StoredLabels, At
<1>5. CASE MonitorInsert(r) \/ (MonitorUpdate(r) /\ monitor[p.w] # "absent")
  <2>1. /\ p.pc \in {"monitor_update", "monitor_insert"} /\ UNCHANGED wallet
        /\ AfterMonitor(r) /\ monitor'[p.w] = "active"
    BY <1>1, <1>2, <1>5 DEF MonitorUpdate, MonitorInsert, At, ConnectOK, TypeOK
  <2>2. PICK l \in {"bind", "regrant_read"} : Goto(r, l)
    BY <1>1, <1>2, <2>1 DEF AfterMonitor
  <2> QED
    BY <1>1, <1>2, <2>1, <2>2, GotoKeeps DEF ConnectOK, LookupLabels, GocLabels, StoredLabels, At
<1>6. CASE Bind(r)
  <2>1. p.pc = "bind" /\ Goto(r, "regrant_read") /\ UNCHANGED monitor
    BY <1>1, <1>6 DEF Bind, At
  <2>2. wallet[p.w] = [status |-> "active", user |-> p.u]
    BY <1>1, <2>1 DEF ConnectOK, StoredLabels
  <2>3. wallet'[p.w] = [wallet[p.w] EXCEPT !.user = p.u]
    BY <1>1, <1>2, <1>6, <2>2 DEF Bind, BindTarget
  <2>4. wallet'[p.w] = wallet[p.w]
    BY <2>2, <2>3
  <2> QED
    BY <1>1, <1>2, <2>1, <2>2, <2>4, GotoKeeps
    DEF ConnectOK, LookupLabels, GocLabels, StoredLabels, At
<1> QED
  BY <1>1, <1>3, <1>4, <1>5, <1>6

\* A request that takes a step is at work, and moves no other.
LEMMA StepIsOwn ==
    ASSUME TypeOK, NEW r \in Req, Step(r)
    PROVE  /\ ~At(r, "idle")
           /\ \A s \in Req \ {r} : req'[s] = req[s]
           /\ req'[r].op \in {req[r].op, "none"}
<1> DEFINE Own == /\ ~At(r, "idle")
                  /\ \A s \in Req \ {r} : req'[s] = req[s]
                  /\ req'[r].op \in {req[r].op, "none"}
<1> SUFFICES Own
  OBVIOUS
<1> USE DEF TypeOK, Local, Goto, Finish, IdleLocal, At, GrantLabels
<1>1. CASE DashRead(r) \/ DashUpsert(r) \/ DashReread(r)
  BY <1>1 DEF DashRead, DashUpsert, DashReread, GocFails
<1>2. CASE GrantRead(r) \/ GrantInsert(r)
  BY <1>2 DEF GrantRead, GrantInsert, AfterGrant
<1>3. CASE LinkRead(r) \/ WalletUpsert(r) \/ MonitorUpdate(r) \/ MonitorInsert(r) \/ Bind(r)
  BY <1>3 DEF LinkRead, WalletUpsert, MonitorUpdate, MonitorInsert, Bind, AfterMonitor
<1>4. CASE Deactivate(r) \/ StopMonitor(r)
  BY <1>4 DEF Deactivate, StopMonitor
<1>5. CASE ClaimByWallet(r) \/ ClaimByUser(r) \/ ClaimByEmail(r) \/ ClaimRecheck(r)
  BY <1>5 DEF ClaimByWallet, ClaimByUser, ClaimByEmail, ClaimRecheck
<1>6. CASE ClaimUpgrade(r) \/ ClaimInsert(r)
  BY <1>6 DEF ClaimUpgrade, ClaimInsert
<1>7. CASE ChargeByWallet(r) \/ ChargeByRow(r) \/ ChargeByUser(r)
  BY <1>7 DEF ChargeByWallet, ChargeByRow, ChargeByUser
<1>8. CASE Deduct(r) \/ LedgerInsert(r) \/ Commit(r)
  BY <1>8 DEF Deduct, LedgerInsert, Commit
<1>9. CASE FallbackRead(r)
  <2>1. PICK f \in Wallet \cup {None} :
          \/ req' = [req EXCEPT ![r] = IdleLocal]
          \/ req' = [req EXCEPT ![r].pc = "bind", ![r].t = f, ![r].u = wallet[f].user]
          \/ req' = [req EXCEPT ![r].pc = "dash_read", ![r].t = f, ![r].fb = TRUE]
    BY <1>9, Zenon DEF FallbackRead
  <2>2. req[r].pc = "fallback_read"
    BY <1>9 DEF FallbackRead
  <2> QED
    BY <2>1, <2>2
<1> HIDE DEF Own, TypeOK, Local, Goto, Finish, IdleLocal, At, GrantLabels
<1> QED
  BY <1>1, <1>2, <1>3, <1>4, <1>5, <1>6, <1>7, <1>8, <1>9 DEF Step

\* Every step of a lone connect: it goes on well, or leaves the wallet connected.
LEMMA StepLone ==
    ASSUME IInv, AccountsAssumption, NEW r \in Req, LoneOK(r), Step(r)
    PROVE  /\ LoneOK(r)'
           /\ req[r].op = "connect" /\ At(r, "idle")' => LeavesConnected(req[r])
<1>1. CASE req[r].op # "connect"
  BY <1>1, StepIsOwn DEF IInv, LoneOK
<1>2. CASE req[r].op = "connect"
  <2>1. ConnectOK(req[r]) /\ TypeOK /\ LocalsOK /\ RereadFinds
    BY <1>2 DEF LoneOK, IInv
  <2>2. req[r].pc \in LookupLabels \cup {"wallet_upsert"} \cup StoredLabels
    BY <2>1 DEF ConnectOK
  <2>3. \/ LinkRead(r) \/ DashRead(r) \/ DashUpsert(r) \/ DashReread(r)
        \/ GrantRead(r) \/ GrantInsert(r)
        \/ WalletUpsert(r) \/ MonitorUpdate(r) \/ MonitorInsert(r) \/ Bind(r)
    BY <2>2 DEF Step, At, LookupLabels, GocLabels, StoredLabels, Deactivate, StopMonitor,
                ClaimByWallet, ClaimByUser, ClaimByEmail, ClaimRecheck, ClaimUpgrade, ClaimInsert,
                ChargeByWallet, ChargeByRow, ChargeByUser, Deduct, LedgerInsert, Commit, FallbackRead
  <2>4. \/ ConnectOK(req[r])' /\ ~At(r, "idle")'
        \/ LeavesConnected(req[r]) /\ req'[r].op = "none"
    BY <1>2, <2>1, <2>3, LookupLone, GrantLone, StoreLone
  <2> QED
    BY <2>4 DEF LoneOK
<1> QED
  BY <1>1, <1>2

\* A dashboard is no connect.
LEMMA OverviewLone ==
    ASSUME TypeOK, NEW r \in Req, StartOverview(r)
    PROVE  /\ req'[r].op # "connect" /\ req[r].pc = "idle" /\ req'[r].pc # "idle"
           /\ \A s \in Req \ {r} : req'[s] = req[s]
<1> DEFINE view(op, w) == [IdleLocal EXCEPT !.op = op, !.w = w, !.t = w]
           Views(q) == q.op # "connect" /\ q.pc # "idle"
<1>1. PICK op \in {"overview", "resolve"}, w \in Wallet \cup {None} :
        \/ \E u \in UserId : req' = [req EXCEPT ![r] = [view(op, w) EXCEPT !.pc = "bind", !.u = u]]
        \/ req' = [req EXCEPT ![r] = [view(op, w) EXCEPT !.pc = "bind", !.u = wallet[w].user]]
        \/ req' = [req EXCEPT ![r] = [view(op, w) EXCEPT !.pc = "dash_read"]]
        \/ req' = [req EXCEPT ![r] = [view(op, w) EXCEPT !.pc = "fallback_read"]]
  BY Zenon DEF StartOverview
<1>2. ASSUME NEW q, Views(q), req' = [req EXCEPT ![r] = q]
      PROVE  /\ req'[r].op # "connect" /\ req'[r].pc # "idle"
             /\ \A s \in Req \ {r} : req'[s] = req[s]
  BY <1>2 DEF TypeOK
<1>3. \A u : Views([view(op, w) EXCEPT !.pc = "bind", !.u = u])
  BY DEF IdleLocal
<1>4. /\ Views([view(op, w) EXCEPT !.pc = "dash_read"])
      /\ Views([view(op, w) EXCEPT !.pc = "fallback_read"])
  BY DEF IdleLocal
<1>5. req[r].pc = "idle"
  BY DEF StartOverview, At
<1> HIDE DEF Views, view
<1> QED
  BY <1>1, <1>2, <1>3, <1>4, <1>5

\* A connect starts with a user it was given, or with a lookup.
LEMMA StartLone ==
    ASSUME TypeOK, AccountsAssumption, NEW r \in Req, Start(r)
    PROVE  /\ LoneOK(r)' /\ At(r, "idle") /\ ~At(r, "idle")'
           /\ \A s \in Req \ {r} : req'[s] = req[s]
<1> DEFINE Own == /\ LoneOK(r)' /\ At(r, "idle") /\ ~At(r, "idle")'
                  /\ \A s \in Req \ {r} : req'[s] = req[s]
<1> SUFFICES Own
  OBVIOUS
<1> USE DEF TypeOK, Local, IdleLocal, At, LoneOK
<1>1. CASE StartConnect(r)
  <2> DEFINE conn(w) == [IdleLocal EXCEPT !.op = "connect", !.w = w, !.t = w]
             Begins(q) == /\ q.w \in Wallet /\ ~q.via
                          /\ \/ q.pc = "wallet_upsert" /\ q.u \in UserId /\ q.t = q.w
                             \/ q.pc = "link_read"
                             \/ q.pc = "dash_read" /\ q.t = q.w
  <2> PICK w \in Wallet :
        \/ \E u \in UserId : req' = [req EXCEPT ![r] = [conn(w) EXCEPT
                  !.pc = "wallet_upsert", !.u = u]]
        \/ \E link \in Wallet :
              req' = [req EXCEPT ![r] = [conn(w) EXCEPT !.pc = "link_read", !.t = link]]
        \/ req' = [req EXCEPT ![r] = [conn(w) EXCEPT !.pc = "dash_read"]]
    BY <1>1 DEF StartConnect
  <2>1. Begins(req'[r])
    <3>1. ASSUME NEW u \in UserId
          PROVE  Begins([conn(w) EXCEPT !.pc = "wallet_upsert", !.u = u])
      OBVIOUS
    <3>2. ASSUME NEW link \in Wallet
          PROVE  Begins([conn(w) EXCEPT !.pc = "link_read", !.t = link])
      OBVIOUS
    <3>3. Begins([conn(w) EXCEPT !.pc = "dash_read"])
      OBVIOUS
    <3>4. ASSUME NEW q, req' = [req EXCEPT ![r] = q]
          PROVE  req'[r] = q
      BY <3>4
    <3> HIDE DEF Begins, conn, TypeOK, Local, IdleLocal, At, LoneOK
    <3> QED
      BY <3>1, <3>2, <3>3, <3>4
  <2>2. ConnectOK(req[r])'
    BY <2>1 DEF ConnectOK, LookupLabels, GocLabels, StoredLabels, AccountsAssumption
  <2> QED
    BY <1>1, <2>1, <2>2 DEF StartConnect
<1>2. CASE StartDisconnect(r)
  BY <1>2 DEF StartDisconnect
<1>3. CASE StartClaim(r)
  BY <1>3 DEF StartClaim
<1>4. CASE StartCharge(r)
  BY <1>4 DEF StartCharge
<1>5. CASE StartOverview(r)
  BY <1>5, OverviewLone
<1> HIDE DEF Own, TypeOK, Local, IdleLocal, At, LoneOK
<1> QED
  BY <1>1, <1>2, <1>3, <1>4, <1>5 DEF Start

\* What each kind of step makes of alone.
LEMMA AloneSteps ==
    ASSUME NEW r \in Req
    PROVE  /\ Start(r) => alone' = IF Quiet THEN r ELSE None
           /\ Step(r) => UNCHANGED alone
           /\ Abandon(r) \/ Swallow(r) => alone' = None
<1>1. Start(r) => alone' = IF Quiet THEN r ELSE None
  BY DEF Start, StartConnect, StartDisconnect, StartClaim, StartCharge, StartOverview, Begun
<1>2. ASSUME Step(r) PROVE UNCHANGED alone
  <2>1. CASE DashRead(r) \/ DashUpsert(r) \/ DashReread(r) \/ GrantRead(r) \/ GrantInsert(r)
    BY <2>1 DEF DashRead, DashUpsert, DashReread, GrantRead, GrantInsert
  <2>2. CASE LinkRead(r) \/ WalletUpsert(r) \/ MonitorUpdate(r) \/ MonitorInsert(r) \/ Bind(r)
    BY <2>2 DEF LinkRead, WalletUpsert, MonitorUpdate, MonitorInsert, Bind
  <2>3. CASE Deactivate(r) \/ StopMonitor(r) \/ FallbackRead(r)
    BY <2>3 DEF Deactivate, StopMonitor, FallbackRead
  <2>4. CASE \/ ClaimByWallet(r) \/ ClaimByUser(r) \/ ClaimByEmail(r) \/ ClaimRecheck(r)
             \/ ClaimUpgrade(r) \/ ClaimInsert(r)
    BY <2>4 DEF ClaimByWallet, ClaimByUser, ClaimByEmail, ClaimRecheck, ClaimUpgrade, ClaimInsert
  <2>5. CASE \/ ChargeByWallet(r) \/ ChargeByRow(r) \/ ChargeByUser(r)
             \/ Deduct(r) \/ LedgerInsert(r) \/ Commit(r)
    BY <2>5 DEF ChargeByWallet, ChargeByRow, ChargeByUser, Deduct, LedgerInsert, Commit
  <2> QED
    BY <1>2, <2>1, <2>2, <2>3, <2>4, <2>5 DEF Step
<1>3. Abandon(r) \/ Swallow(r) => alone' = None
  BY DEF Abandon, Swallow
<1> QED
  BY <1>1, <1>2, <1>3

\* Every step keeps the invariant, and a lone connect that ends leaves all in order.
LEMMA AloneKeeps ==
    ASSUME IInv, AccountsAssumption, AloneInv, Next
    PROVE  /\ AloneInv'
           /\ \A r \in Req : alone = r /\ req[r].op = "connect" /\ alone' = r /\ At(r, "idle")'
                                => LeavesConnected(req[r])
<1>1. PICK r \in Req : \/ Start(r) /\ alone' = IF Quiet THEN r ELSE None
                       \/ Step(r) /\ UNCHANGED alone
                       \/ (Abandon(r) \/ Swallow(r)) /\ alone' = None
  BY AloneSteps DEF Next
<1>2. TypeOK /\ None \notin Req
  BY DEF IInv, AccountsAssumption
<1>3. CASE alone' = None
  BY <1>2, <1>3 DEF AloneInv
<1>4. CASE Start(r) /\ Quiet /\ alone' = r
  <2>1. LoneOK(r)' /\ ~At(r, "idle")' /\ \A s \in Req \ {r} : req'[s] = req[s]
    BY <1>2, <1>4, StartLone
  <2> QED
    BY <1>4, <2>1 DEF AloneInv, Quiet, At, LoneOK, ConnectOK
<1>5. CASE Step(r) /\ UNCHANGED alone
  <2>1. CASE alone = None
    BY <1>2, <1>5, <2>1 DEF AloneInv
  <2>2. CASE alone \in Req
    <3>1. alone = r
      BY <1>2, <1>5, <2>2, StepIsOwn DEF AloneInv
    <3>2. /\ LoneOK(r)'
          /\ req[r].op = "connect" /\ At(r, "idle")' => LeavesConnected(req[r])
      BY <1>5, <2>2, <3>1, StepLone DEF AloneInv
    <3>3. \A s \in Req \ {r} : req'[s] = req[s]
      BY <1>2, <1>5, StepIsOwn
    <3> QED
      BY <1>5, <3>1, <3>2, <3>3 DEF AloneInv, At, LoneOK, ConnectOK
  <2> QED
    BY <2>1, <2>2 DEF AloneInv
<1> QED
  BY <1>1, <1>3, <1>4, <1>5

\* Whatever races, crashes and failed statements have left behind, the next connect that
\* runs alone and loses no statement puts the wallet in order.
THEOREM ConnectsRepair == Spec => ConnectRepairs
<1>1. Init => AloneInv
  BY AccountsAssumption DEF Init, AloneInv
<1>2. IInv /\ AloneInv /\ [Next]_vars => AloneInv'
  <2>1. ASSUME AloneInv, UNCHANGED vars PROVE AloneInv'
    BY <2>1 DEF AloneInv, vars, LoneOK, ConnectOK, At
  <2> QED
    BY <2>1, AloneKeeps, AccountsAssumption
<1>3. Spec => []IInv
  BY Inductive
<1>4. IInv /\ AloneInv /\ [Next]_vars =>
        [\A r \in Req :
            alone = r /\ req[r].op = "connect" /\ alone' = r /\ At(r, "idle")'
                => LeavesConnected(req[r])]_vars
  BY AloneKeeps, AccountsAssumption
<1> QED
  BY <1>1, <1>2, <1>3, <1>4, PTL DEF Spec, ConnectRepairs

=============================================================================
