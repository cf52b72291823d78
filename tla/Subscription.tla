---------------------------- MODULE Subscription ----------------------------
(***************************************************************************)
(* Paid plans: SubscriptionService and SubscriptionRepository.             *)
(*                                                                         *)
(* The backend keeps one row of user_subscriptions per dashboard user.     *)
(* POST /checkout writes the plan asked for as "checkout_pending" and      *)
(* hands out a BoomFi paylink; POST /webhook writes what BoomFi reports.   *)
(* A webhook handler is several database calls (find the user, read the    *)
(* stored plan, read the stored billing cycle, upsert), so each call is    *)
(* an action and handlers and checkouts interleave.                        *)
(*                                                                         *)
(* BoomFi is external.  It is modelled by what the handler reads of its    *)
(* events: a subscription is opened through a paylink, paid, canceled, and *)
(* every change is reported.  A report is delivered until the backend      *)
(* answers 2xx, in the order BoomFi made it when InOrder holds, otherwise  *)
(* in any order; an answer may be lost, and the report then comes again.   *)
(***************************************************************************)
EXTENDS Integers, Sequences, FiniteSets

CONSTANTS
  Users,          \* rows of dashboard_users
  Workers,        \* webhook requests the server handles at a time
  Plans, Cycles,  \* "basic", "pro", "premium"; "monthly", "annual"
  DefaultPlan, DefaultCycle,
  PlanIds,        \* <<plan, cycle>> pairs with a BOOMFI_PLAN_* id configured
  SubForms,       \* what a Subscription.* report carries
  PayForms,       \* what a Payment.Updated report carries
  None,           \* SQL NULL, an absent JSON key
  InOrder,        \* BoomFi sends a report only after the one before it was answered
  Tolerance,      \* WEBHOOK_TOLERANCE_SECONDS, in reports made since
  MaxSubs,        \* bound: BoomFi subscriptions per user
  MaxReports,     \* bound: reports BoomFi makes
  MaxCheckouts,   \* bound: checkouts started
  MaxFaults       \* bound: requests that fail, or whose answer is lost

(* What a report may carry: the customer.reference the paylink was given,  *)
(* the customer's id (at the top level, inside "customer", or not at all), *)
(* metadata.plan, metadata.billing_cycle, and the BoomFi plan id.          *)
Forms == [ref : BOOLEAN, customer : {"top", "nested", "none"},
          plan : BOOLEAN, cycle : BOOLEAN, id : BOOLEAN]

(* A BoomFi subscription is named by its user and its place among the      *)
(* user's subscriptions; a customer by the user it was created for.        *)
SubIds == Users \X (1 .. MaxSubs)

ASSUME DefaultsOffered == DefaultPlan \in Plans /\ DefaultCycle \in Cycles
ASSUME FormsKnown == SubForms \subseteq Forms /\ PayForms \subseteq Forms
ASSUME PlanIdsKnown == PlanIds \subseteq Plans \X Cycles
ASSUME NoneApart == None \notin Users \cup Plans \cup Cycles \cup SubIds
ASSUME BoundsNat == /\ {MaxSubs, MaxReports, MaxCheckouts, MaxFaults} \subseteq Nat
                    /\ Tolerance \in Nat /\ InOrder \in BOOLEAN

VARIABLES
  row,        \* user_subscriptions, by user_id
  job,        \* the webhook request each worker handles
  links,      \* paylinks handed to each user, as <<plan, cycle>>
  subs,       \* BoomFi: the subscriptions of each user, oldest first
  reports,    \* BoomFi: every report made, oldest first
  open,       \* BoomFi: reports (by position) not yet answered 2xx
  checkouts, faults,
  seen        \* history: the reports about each user answered when she last started a checkout

backend == <<row, job>>
boomfi  == <<links, subs, reports>>
vars    == <<row, job, links, subs, reports, open, checkouts, faults, seen>>

NoRow == [plan |-> None]
Idle  == [pc |-> "idle"]

PendingIsActive(raw) ==
  IF raw \in {"Active", "Succeeded", "Pending"} THEN "active"
  ELSE IF raw = "Canceled" THEN "canceled"
  ELSE "past_due"

(* normalize_boomfi_status *)
Normalised(raw) ==
  IF raw \in {"Active", "Succeeded"} THEN "active"
  ELSE IF raw = "Pending" THEN "checkout_pending"
  ELSE IF raw = "Canceled" THEN "canceled"
  ELSE "past_due"    \* "Unpaid", "Failed"

Statuses == {"active", "checkout_pending", "canceled", "past_due"}

Coalesce(a, b) == IF a # None THEN a ELSE b

-----------------------------------------------------------------------------
(* SubscriptionRepository *)

HasRow(u) == row[u] # NoRow

(* The UNIQUE constraints on boomfi_customer_id and                        *)
(* boomfi_subscription_id: the upsert of u fails.                          *)
Conflict(u, in) ==
  \E v \in Users \ {u} :
     /\ HasRow(v)
     /\ \/ in.customer # None /\ row[v].customer = in.customer
        \/ in.sub # None /\ row[v].sub = in.sub

KeepsPlan(u, in) ==
  IF ~HasRow(u) THEN in
  ELSE [in EXCEPT !.customer = Coalesce(in.customer, row[u].customer),
                  !.sub = Coalesce(in.sub, row[u].sub),
                  !.planId = Coalesce(in.planId, row[u].planId),
                  !.end = Coalesce(in.end, row[u].end),
                  !.plan = row[u].plan, !.cycle = row[u].cycle]

StickyCancel(u, in) ==
  IF ~HasRow(u) THEN in
  ELSE [in EXCEPT !.customer = Coalesce(in.customer, row[u].customer),
                  !.sub = Coalesce(in.sub, row[u].sub),
                  !.planId = Coalesce(in.planId, row[u].planId),
                  !.end = Coalesce(in.end, row[u].end),
                  !.cancel = @ \/ row[u].cancel]

(* INSERT ... ON CONFLICT (user_id) DO UPDATE *)
Upserted(u, in) ==
  IF ~HasRow(u) THEN in
  ELSE [in EXCEPT !.customer = Coalesce(in.customer, row[u].customer),
                  !.sub      = Coalesce(in.sub, row[u].sub),
                  !.planId   = Coalesce(in.planId, row[u].planId),
                  !.end      = Coalesce(in.end, row[u].end)]

-----------------------------------------------------------------------------
(* create_checkout_session *)

Pending(p, c) ==
  [plan |-> p, cycle |-> c, status |-> "checkout_pending",
   customer |-> None, sub |-> None,
   planId |-> IF <<p, c>> \in PlanIds THEN <<p, c>> ELSE None,
   end |-> None, cancel |-> FALSE]

About(u) == { i \in DOMAIN reports : reports[i].sub[1] = u }

Answered(u) == About(u) \ open

Checkout(u, p, c) ==
  /\ checkouts < MaxCheckouts
  /\ checkouts' = checkouts + 1
  /\ row' = [row EXCEPT ![u] = Upserted(u, Pending(p, c))]
  /\ links' = [links EXCEPT ![u] = @ \cup {<<p, c>>}]
  /\ seen' = [seen EXCEPT ![u] = Answered(u)]
  /\ UNCHANGED <<job, subs, reports, open, faults>>

-----------------------------------------------------------------------------
(* BoomFi *)

(* The report of a change of subscription s, now in state b.  A payment    *)
(* has no current_period_end and no cancel_at_period_end, which the        *)
(* handler reads as FALSE.                                                 *)
Report(kind, s, b, raw, form) ==
  [kind |-> kind, sub |-> s, plan |-> b.plan, cycle |-> b.cycle, status |-> raw,
   cancel |-> kind = "Subscription" /\ b.cancel,
   end |-> IF kind = "Subscription" THEN b.end ELSE None,
   form |-> form]

Reports(s, b, raw) == { Report("Subscription", s, b, raw, f) : f \in SubForms }
Payments(s, b, raw) == { Report("Payment", s, b, raw, f) : f \in PayForms }

Tell(ms) ==
  /\ Len(reports) + Len(ms) <= MaxReports
  /\ reports' = reports \o ms
  /\ open' = open \cup (Len(reports) + 1 .. Len(reports) + Len(ms))
  /\ UNCHANGED <<row, job, links, checkouts, seen, faults>>

(* The user opens a paylink; BoomFi makes a subscription of it. *)
Subscribe(u) ==
  \E l \in links[u] :
     LET b == [status |-> "Pending", plan |-> l[1], cycle |-> l[2],
               cancel |-> FALSE, end |-> None]
         s == <<u, Len(subs[u]) + 1>>
     IN  /\ Len(subs[u]) < MaxSubs
         /\ subs' = [subs EXCEPT ![u] = Append(@, b)]
         /\ \E m \in Reports(s, b, "Pending") : Tell(<<m>>)

(* A charge goes through, the first or a renewal.  The payment and the     *)
(* subscription are both reported, in either order; the period paid for    *)
(* ends MaxReports ticks from now, later than any instant of the run.      *)
Pay(u, n) ==
  LET b == [subs[u][n] EXCEPT !.status = "Active",
                              !.end = Len(reports) + MaxReports]
  IN  /\ subs[u][n].status # "Canceled"
      /\ subs' = [subs EXCEPT ![u][n] = b]
      /\ \E m \in Reports(<<u, n>>, b, "Active"), k \in Payments(<<u, n>>, b, "Succeeded") :
            Tell(<<m, k>>) \/ Tell(<<k, m>>)

Unpaid(u, n) ==
  LET b == [subs[u][n] EXCEPT !.status = "Unpaid"]
  IN  /\ subs[u][n].status = "Active"
      /\ subs' = [subs EXCEPT ![u][n] = b]
      /\ \E m \in Reports(<<u, n>>, b, "Unpaid") \cup Payments(<<u, n>>, b, "Failed") :
            Tell(<<m>>)

CancelAtPeriodEnd(u, n) ==
  LET b == [subs[u][n] EXCEPT !.cancel = TRUE]
  IN  /\ subs[u][n].status = "Active" /\ ~subs[u][n].cancel
      /\ subs' = [subs EXCEPT ![u][n] = b]
      /\ \E m \in Reports(<<u, n>>, b, "Active") : Tell(<<m>>)

Cancel(u, n) ==
  LET b == [subs[u][n] EXCEPT !.status = "Canceled"]
  IN  /\ subs[u][n].status # "Canceled"
      /\ subs' = [subs EXCEPT ![u][n] = b]
      /\ \E m \in Reports(<<u, n>>, b, "Canceled") : Tell(<<m>>)

-----------------------------------------------------------------------------
(* process_boomfi_webhook *)

Busy(w) == job[w] # Idle

(* The reports BoomFi may send now. *)
Sendable ==
  IF InOrder
  THEN { i \in open : (\A k \in open : i <= k) /\ \A w \in Workers : ~Busy(w) }
  ELSE { i \in open : \A w \in Workers : Busy(w) => job[w].i # i }

Fresh(i) == Len(reports) - i <= Tolerance

(* The plan and the cycle a report states: its metadata, else the          *)
(* configured meaning of its plan id, else nothing.                        *)
KnownId(m) == m.form.id /\ <<m.plan, m.cycle>> \in PlanIds
StatedPlan(m)  == IF m.form.plan  \/ KnownId(m) THEN m.plan  ELSE None
StatedCycle(m) == IF m.form.cycle \/ KnownId(m) THEN m.cycle ELSE None

AfterResolve(p, c) == IF p = None THEN "readPlan" ELSE IF c = None THEN "readCycle" ELSE "upsert"

Resolved(i, u) ==
  LET p == StatedPlan(reports[i])
      c == StatedCycle(reports[i])
  IN  [pc |-> AfterResolve(p, c), i |-> i, user |-> u, plan |-> p, cycle |-> c]

Finding(i, pc) == [pc |-> pc, i |-> i, user |-> None, plan |-> None, cycle |-> None]

BySub(i) == IF reports[i].kind = "Subscription" THEN Finding(i, "bySub") ELSE Idle

AnswersFirst(w, i) ==
  LET m == reports[i]
      j == IF m.form.ref THEN Resolved(i, m.sub[1])
           ELSE IF m.form.customer = "top" THEN Finding(i, "byCustomer")
           ELSE BySub(i)
  IN  /\ ~Busy(w) /\ Fresh(i)
      /\ job' = [job EXCEPT ![w] = j]
      /\ open' = open \ {i}
      /\ UNCHANGED <<row, boomfi, checkouts, seen, faults>>

(* The signature and its age are checked, and the reference BoomFi echoes  *)
(* names the user; without one the handler goes on to look the ids up.     *)
(* A Payment.Updated that carries no id is answered 2xx and dropped.       *)
Receive(w, i) ==
  LET m == reports[i]
      j == IF m.form.ref THEN Resolved(i, m.sub[1])
           ELSE IF m.form.customer = "top" THEN Finding(i, "byCustomer")
           ELSE BySub(i)
  IN  /\ ~Busy(w) /\ Fresh(i)
      /\ job' = [job EXCEPT ![w] = j]
      /\ open' = IF j = Idle THEN open \ {i} ELSE open
      /\ UNCHANGED <<row, boomfi, checkouts, seen, faults>>

(* A delivery older than the tolerance is refused however often it is      *)
(* repeated; BoomFi gives it up.                                           *)
Refuse(i) ==
  /\ ~Fresh(i)
  /\ open' = open \ {i}
  /\ UNCHANGED <<backend, boomfi, checkouts, seen, faults>>

(* One database call of the handler finds the user or moves on; a report   *)
(* nobody is found for is answered 2xx.                                    *)
Lookup(w, rows, next) ==
  LET i == job[w].i
      j == IF rows = {} THEN next ELSE Resolved(i, CHOOSE v \in rows : TRUE)
  IN  /\ job' = [job EXCEPT ![w] = j]
      /\ open' = IF j = Idle THEN open \ {i} ELSE open
      /\ UNCHANGED <<row, boomfi, checkouts, seen, faults>>

AnyCustomer(c) == { v \in Users : HasRow(v) /\ row[v].customer # None }
RowsOfCustomer(c) == { v \in Users : HasRow(v) /\ row[v].customer = c }
RowsOfSub(s)      == { v \in Users : HasRow(v) /\ row[v].sub = s }

FindByCustomer(w) ==
  /\ job[w].pc = "byCustomer"
  /\ Lookup(w, RowsOfCustomer(reports[job[w].i].sub[1]), BySub(job[w].i))

FindBySub(w) ==
  /\ job[w].pc = "bySub"
  /\ Lookup(w, RowsOfSub(reports[job[w].i].sub), Idle)

(* The plan, then the cycle, of the stored row stand in for what the       *)
(* report does not state: two reads.                                       *)
ReadPlan(w) ==
  LET u == job[w].user
      p == IF HasRow(u) THEN row[u].plan ELSE DefaultPlan
  IN  /\ job[w].pc = "readPlan"
      /\ job' = [job EXCEPT ![w].plan = p, ![w].pc = AfterResolve(p, job[w].cycle)]
      /\ UNCHANGED <<row, boomfi, open, checkouts, seen, faults>>

ReadCycle(w) ==
  LET u == job[w].user
      c == IF HasRow(u) THEN row[u].cycle ELSE DefaultCycle
  IN  /\ job[w].pc = "readCycle"
      /\ job' = [job EXCEPT ![w].cycle = c, ![w].pc = "upsert"]
      /\ UNCHANGED <<row, boomfi, open, checkouts, seen, faults>>

(* What the handler writes: a report's own period end, or the instant of   *)
(* the report (updated_at) when it has none.                               *)
Input(w) ==
  LET m == reports[job[w].i]
  IN  [plan |-> job[w].plan, cycle |-> job[w].cycle,
       status |-> Normalised(m.status),
       customer |-> IF m.form.customer = "none" THEN None ELSE m.sub[1],
       sub |-> IF m.kind = "Subscription" THEN m.sub ELSE None,
       planId |-> IF m.form.id THEN <<m.plan, m.cycle>> ELSE None,
       end |-> Coalesce(m.end, job[w].i),
       cancel |-> m.cancel]

(* The write, then the 2xx, which may be lost on its way. *)
Upsert(w) ==
  LET u == job[w].user
  IN  /\ job[w].pc = "upsert" /\ ~Conflict(u, Input(w))
      /\ row' = [row EXCEPT ![u] = Upserted(u, Input(w))]
      /\ job' = [job EXCEPT ![w] = Idle]
      /\ \/ open' = open \ {job[w].i} /\ UNCHANGED faults
         \/ faults < MaxFaults /\ faults' = faults + 1 /\ UNCHANGED open
      /\ UNCHANGED <<boomfi, checkouts, seen>>

(* A database call of the handler fails: 400, and BoomFi sends again. *)
Fail(w) ==
  /\ Busy(w) /\ faults < MaxFaults
  /\ faults' = faults + 1
  /\ job' = [job EXCEPT ![w] = Idle]
  /\ UNCHANGED <<row, boomfi, open, checkouts, seen>>

-----------------------------------------------------------------------------
Init ==
  /\ row = [u \in Users |-> NoRow]
  /\ job = [w \in Workers |-> Idle]
  /\ links = [u \in Users |-> {}]
  /\ subs = [u \in Users |-> << >>]
  /\ reports = << >>
  /\ open = {}
  /\ checkouts = 0 /\ faults = 0
  /\ seen = [u \in Users |-> {}]

Handle(w) == FindByCustomer(w) \/ FindBySub(w) \/ ReadPlan(w) \/ ReadCycle(w) \/ Upsert(w)

Next ==
  \/ \E u \in Users, p \in Plans, c \in Cycles : Checkout(u, p, c)
  \/ \E u \in Users : Subscribe(u)
  \/ \E u \in Users : \E n \in DOMAIN subs[u] :
        Pay(u, n) \/ Unpaid(u, n) \/ CancelAtPeriodEnd(u, n) \/ Cancel(u, n)
  \/ \E i \in Sendable : Refuse(i) \/ \E w \in Workers : Receive(w, i)
  \/ \E w \in Workers : Handle(w) \/ Fail(w)

Spec == Init /\ [][Next]_vars

(* A handler that has been called finishes, and BoomFi sends what was not  *)
(* answered; nobody has to check out, pay or cancel.                       *)
Fairness ==
  /\ \A w \in Workers : WF_vars(Handle(w))
  /\ WF_vars(\E i \in Sendable : Refuse(i) \/ \E w \in Workers : Receive(w, i))

FairSpec == Spec /\ Fairness

-----------------------------------------------------------------------------
(* Properties *)

Row == [plan : Plans, cycle : Cycles, status : Statuses,
        customer : Users \cup {None}, sub : SubIds \cup {None},
        planId : (Plans \X Cycles) \cup {None}, end : Nat \cup {None},
        cancel : BOOLEAN]

Job == [pc : {"byCustomer", "bySub", "readPlan", "readCycle", "upsert"},
        i : 1 .. MaxReports, user : Users \cup {None},
        plan : Plans \cup {None}, cycle : Cycles \cup {None}]

Subscribed == [status : {"Pending", "Active", "Unpaid", "Canceled"}, plan : Plans,
               cycle : Cycles, cancel : BOOLEAN, end : Nat \cup {None}]

Message == [kind : {"Subscription", "Payment"}, sub : SubIds, plan : Plans, cycle : Cycles,
            status : {"Pending", "Active", "Succeeded", "Unpaid", "Failed", "Canceled"},
            cancel : BOOLEAN, end : Nat \cup {None}, form : Forms]

(* Every variable keeps its type; a handler that is about to write knows   *)
(* its user, plan and cycle, and has a report to answer.                   *)
TypeOK ==
  /\ row \in [Users -> Row \cup {NoRow}]
  /\ job \in [Workers -> Job \cup {Idle}]
  /\ subs \in [Users -> Seq(Subscribed)] /\ \A u \in Users : Len(subs[u]) <= MaxSubs
  /\ reports \in Seq(Message) /\ Len(reports) <= MaxReports
  /\ \A w \in Workers : Busy(w) => job[w].i <= Len(reports)
  /\ \A w \in Workers : job[w].pc = "upsert" => None \notin {job[w].user, job[w].plan, job[w].cycle}
  /\ links \in [Users -> SUBSET (Plans \X Cycles)]
  /\ open \subseteq 1 .. Len(reports) /\ checkouts \in Nat /\ faults \in Nat
  /\ seen \in [Users -> SUBSET Nat]

Said(i) == Normalised(reports[i].status)
Paid(i) == reports[i].status \in {"Active", "Succeeded"}

(* However a report names its user, by the echoed reference or only by ids *)
(* stored earlier, it is written into the row of the user who subscribed:  *)
(* no row ever holds another user's customer or subscription.              *)
(* (resolve_user_id_from_webhook, and COALESCE in the upsert)              *)
EventsReachTheirUser ==
  \A u \in Users : HasRow(u) =>
     /\ row[u].customer \in {None, u}
     /\ row[u].sub # None => row[u].sub[1] = u

(* A row is "active" only if BoomFi reported that user's subscription or   *)
(* payment as paid, whatever is repeated, reordered, lost or pending.      *)
ActiveWasPaid ==
  \A u \in Users : HasRow(u) /\ row[u].status = "active" =>
     \E i \in About(u) : Paid(i)

ViewOf(r) == IF r = NoRow THEN None ELSE <<r.status, r.plan, r.cycle>>

View == INSTANCE BillingView WITH
          shown <- [u \in Users |-> ViewOf(row[u])],
          said  <- [u \in Users |-> { <<Said(i), reports[i].plan, reports[i].cycle>> : i \in About(u) }]

(* When every report states its plan and cycle, each row shows a checkout  *)
(* or one report whole, in every order of deliveries.                      *)
ShowsOneReport == View!Spec

(* No report about u is unanswered or being handled. *)
Settled(u) == \A i \in About(u) : i \notin open /\ \A w \in Workers : Busy(w) => job[w].i # i

Latest(u) == CHOOSE i \in About(u) : \A k \in About(u) : k <= i

(* The row is a checkout's, started after every report about u so far had  *)
(* been answered.                                                          *)
AwaitsCheckout(u) ==
  HasRow(u) /\ row[u].status = "checkout_pending" /\ About(u) \subseteq seen[u]

States(m) == KnownId(m) \/ (m.form.plan /\ m.form.cycle)

(* Once everything BoomFi reported is answered, a row shows its latest     *)
(* report, unless the user has started a checkout since that was answered; *)
(* plan and cycle when the report states them.                             *)
(* (process_boomfi_webhook, create_checkout_session)                       *)
LatestShown ==
  \A u \in Users : Settled(u) /\ About(u) # {} =>
     \/ AwaitsCheckout(u)
     \/ /\ HasRow(u)
        /\ row[u].status = Said(Latest(u))
        /\ States(reports[Latest(u)]) =>
             <<row[u].plan, row[u].cycle>> = <<reports[Latest(u)].plan, reports[Latest(u)].cycle>>
        /\ row[u].cancel = reports[Latest(u)].cancel

(* Whatever fails or is sent again on the way, the rows come to show what  *)
(* BoomFi last reported, and stay so when it reports nothing more.         *)
(* (the 400 of boomfi_webhook makes BoomFi send the report again)          *)
Converges == <>[](\A u \in Users : Settled(u)) /\ <>[]LatestShown
=============================================================================
