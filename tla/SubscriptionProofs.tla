-------------------------- MODULE SubscriptionProofs --------------------------
(***************************************************************************)
(* Theorems about Subscription, for every set of users, plans, cycles and  *)
(* workers, every form of report, and any order, repetition, loss and      *)
(* failure of deliveries.                                                  *)
(*                                                                         *)
(* Inv is inductive.  Its part beyond the properties, JobsOwn, says that a *)
(* handler past the lookups holds the user its report is about and what    *)
(* its next call needs.                                                    *)
(*                                                                         *)
(* Where BoomFi sends its reports in turn (SentInTurn), Turn says that the  *)
(* first report not answered is the one at work, and UpToDate that a row   *)
(* shows the last one answered, or that first one when it was written and   *)
(* its answer lost, or a checkout started when all those answered had been. *)
(***************************************************************************)
EXTENDS Subscription, SequenceTheorems, TLAPS

Looking(w) == job[w].pc \in {"byCustomer", "bySub"}

JobsOwn ==
  \A w \in Workers : Busy(w) /\ ~Looking(w) =>
     /\ job[w].user = reports[job[w].i].sub[1]
     /\ job[w].pc \in {"readCycle", "upsert"} => job[w].plan # None

Inv == TypeOK /\ JobsOwn /\ EventsReachTheirUser /\ ActiveWasPaid

-----------------------------------------------------------------------------
(* Records and rows *)

\* A stored row is told from the absent one.
LEMMA RowApart == NoRow \notin Row /\ \A r \in Row : r # NoRow
BY NoneApart DEF NoRow, Row

\* A row that is there has the fields of one.
LEMMA RowThere ==
  ASSUME row \in [Users -> Row \cup {NoRow}], NEW u \in Users
  PROVE  HasRow(u) <=> row[u] \in Row
BY RowApart DEF HasRow

\* The upsert writes a row.
LEMMA UpsertedRow ==
  ASSUME row \in [Users -> Row \cup {NoRow}], NEW u \in Users, NEW in \in Row
  PROVE  Upserted(u, in) \in Row
<1>1. CASE ~HasRow(u)  BY <1>1 DEF Upserted
<1>2. CASE HasRow(u)
  <2>1. row[u] \in Row  BY <1>2, RowThere
  <2>2. /\ Coalesce(in.customer, row[u].customer) \in Users \cup {None}
        /\ Coalesce(in.sub, row[u].sub) \in SubIds \cup {None}
        /\ Coalesce(in.planId, row[u].planId) \in (Plans \X Cycles) \cup {None}
        /\ Coalesce(in.end, row[u].end) \in Nat \cup {None}
    BY <2>1 DEF Row, Coalesce
  <2> QED  BY <1>2, <2>2 DEF Upserted, Row
<1> QED  BY <1>1, <1>2

\* What the upsert keeps, and what it replaces.
LEMMA UpsertedFields ==
  ASSUME row \in [Users -> Row \cup {NoRow}], NEW u \in Users, NEW in \in Row
  PROVE  /\ Upserted(u, in).status = in.status
         /\ Upserted(u, in).plan = in.plan
         /\ Upserted(u, in).cycle = in.cycle
         /\ Upserted(u, in).cancel = in.cancel
         /\ Upserted(u, in).customer # in.customer =>
              HasRow(u) /\ Upserted(u, in).customer = row[u].customer
         /\ Upserted(u, in).sub # in.sub => HasRow(u) /\ Upserted(u, in).sub = row[u].sub
<1>1. CASE ~HasRow(u)  BY <1>1 DEF Upserted
<1>2. CASE HasRow(u)   BY <1>2 DEF Upserted, Row, Coalesce
<1> QED  BY <1>1, <1>2

\* Every raw status BoomFi sends is stored as one of the statuses.
LEMMA NormalisedStatus ==
  ASSUME NEW raw \in {"Pending", "Active", "Succeeded", "Unpaid", "Failed", "Canceled"}
  PROVE  Normalised(raw) \in Statuses
BY DEF Normalised, Statuses

\* Only a paid subscription or payment is stored as active.
LEMMA NormalisedActive ==
  ASSUME NEW raw \in {"Pending", "Active", "Succeeded", "Unpaid", "Failed", "Canceled"},
         Normalised(raw) = "active"
  PROVE  raw \in {"Active", "Succeeded"}
BY DEF Normalised

\* A checkout writes a row of nobody's.
LEMMA PendingRow ==
  ASSUME NEW p \in Plans, NEW c \in Cycles
  PROVE  /\ Pending(p, c) \in Row
         /\ Pending(p, c).status = "checkout_pending"
         /\ Pending(p, c).customer = None /\ Pending(p, c).sub = None
         /\ Pending(p, c).plan = p /\ Pending(p, c).cycle = c
BY DEF Pending, Row, Statuses

-----------------------------------------------------------------------------
(* The handler's locals *)

\* The report a busy worker answers is one BoomFi made.
LEMMA BusyJob ==
  ASSUME TypeOK, NEW w \in Workers, job[w].pc # "idle"
  PROVE  /\ job[w] \in Job /\ Busy(w)
         /\ job[w].i \in DOMAIN reports /\ reports[job[w].i] \in Message
<1>1. job[w] \in Job /\ Busy(w)  BY DEF TypeOK, Idle, Busy
<1>2. job[w].i \in DOMAIN reports  BY <1>1 DEF TypeOK, Job
<1> QED  BY <1>1, <1>2 DEF TypeOK

\* Past the lookups a handler holds the user its report is about.
LEMMA ResolvedJob ==
  ASSUME TypeOK, NEW i \in DOMAIN reports, NEW u \in Users
  PROVE  /\ Resolved(i, u) \in Job
         /\ Resolved(i, u).i = i /\ Resolved(i, u).user = u
         /\ Resolved(i, u).pc \in {"readPlan", "readCycle", "upsert"}
         /\ Resolved(i, u).pc \in {"readCycle", "upsert"} => Resolved(i, u).plan # None
         /\ Resolved(i, u).pc = "upsert" => Resolved(i, u).cycle # None
<1>1. reports[i] \in Message /\ i \in 1 .. MaxReports  BY BoundsNat DEF TypeOK
<1> DEFINE p == StatedPlan(reports[i])
           c == StatedCycle(reports[i])
<1>2. p \in Plans \cup {None} /\ c \in Cycles \cup {None}
  BY <1>1 DEF StatedPlan, StatedCycle, Message
<1>3. AfterResolve(p, c) \in {"readPlan", "readCycle", "upsert"}
      /\ (AfterResolve(p, c) \in {"readCycle", "upsert"} => p # None)
      /\ (AfterResolve(p, c) = "upsert" => c # None)
  BY DEF AfterResolve
<1>4. Resolved(i, u) = [pc |-> AfterResolve(p, c), i |-> i, user |-> u, plan |-> p, cycle |-> c]
  BY DEF Resolved
<1> HIDE DEF p, c
<1> QED  BY <1>1, <1>2, <1>3, <1>4 DEF Job

\* A lookup still to do is a job of that report.
LEMMA FindingJob ==
  ASSUME TypeOK, NEW i \in DOMAIN reports, NEW pc \in {"byCustomer", "bySub"}
  PROVE  Finding(i, pc) \in Job /\ Finding(i, pc).i = i /\ Finding(i, pc).pc = pc
<1>1. i \in 1 .. MaxReports  BY BoundsNat DEF TypeOK
<1> QED  BY <1>1 DEF Finding, Job

\* What a handler writes is a row, of the user its report is about.
LEMMA InputRow ==
  ASSUME TypeOK, NEW w \in Workers, job[w].pc = "upsert"
  PROVE  LET m == reports[job[w].i] IN
         /\ Input(w) \in Row
         /\ Input(w).status = Normalised(m.status)
         /\ Input(w).customer \in {None, m.sub[1]}
         /\ Input(w).sub \in {None, m.sub}
         /\ Input(w).plan = job[w].plan /\ Input(w).cycle = job[w].cycle
         /\ Input(w).cancel = m.cancel
<1>1. PICK j \in Job : j = job[w]  BY BusyJob
<1>2. PICK m \in Message : m = reports[job[w].i]  BY BusyJob
<1>3. j.plan \in Plans /\ j.cycle \in Cycles /\ j.i \in Nat
  <2>1. j.i \in DOMAIN reports /\ DOMAIN reports \subseteq Nat
    BY <1>1, BusyJob DEF TypeOK
  <2>2. j.plan # None /\ j.cycle # None
    BY <1>1 DEF TypeOK
  <2>3. j.plan \in Plans \cup {None} /\ j.cycle \in Cycles \cup {None}
    BY DEF Job
  <2> QED BY <2>1, <2>2, <2>3
<1>4. /\ m.sub \in SubIds /\ m.sub[1] \in Users
      /\ Normalised(m.status) \in Statuses
      /\ <<m.plan, m.cycle>> \in Plans \X Cycles
      /\ m.cancel \in BOOLEAN
      /\ Coalesce(m.end, j.i) \in Nat \cup {None}
  BY <1>3, NormalisedStatus DEF Message, SubIds, Coalesce
<1>5. Input(w) = [plan |-> j.plan, cycle |-> j.cycle, status |-> Normalised(m.status),
                  customer |-> IF m.form.customer = "none" THEN None ELSE m.sub[1],
                  sub |-> IF m.kind = "Subscription" THEN m.sub ELSE None,
                  planId |-> IF m.form.id THEN <<m.plan, m.cycle>> ELSE None,
                  end |-> Coalesce(m.end, j.i), cancel |-> m.cancel]
  BY <1>1, <1>2 DEF Input
<1>6. Input(w) \in Row  BY <1>3, <1>4, <1>5 DEF Row
<1> QED  BY <1>1, <1>2, <1>5, <1>6

-----------------------------------------------------------------------------
(* BoomFi's steps *)

BoomFi(u) ==
  \/ Subscribe(u)
  \/ \E n \in DOMAIN subs[u] : Pay(u, n) \/ Unpaid(u, n) \/ CancelAtPeriodEnd(u, n) \/ Cancel(u, n)

SubsTyped(f) == f \in [Users -> Seq(Subscribed)] /\ \A u \in Users : Len(f[u]) <= MaxSubs

\* What was reported stays, and the rest of reports' are the new ones.
LEMMA TellAppends ==
  ASSUME TypeOK, NEW ms \in Seq(Message), Tell(ms)
  PROVE  /\ reports' \in Seq(Message) /\ Len(reports') <= MaxReports
         /\ open' \subseteq 1 .. Len(reports')
         /\ \A i \in DOMAIN reports : i \in DOMAIN reports' /\ reports'[i] = reports[i]
         /\ \A i \in DOMAIN reports' : i \in DOMAIN reports \/ reports'[i] \in Range(ms)
<1>1. reports \in Seq(Message) /\ reports' = reports \o ms  BY DEF TypeOK, Tell
<1>2. /\ reports' \in Seq(Message)
      /\ Len(reports') = Len(reports) + Len(ms)
      /\ \A i \in 1 .. Len(reports) + Len(ms) :
            reports'[i] = IF i <= Len(reports) THEN reports[i] ELSE ms[i - Len(reports)]
  BY <1>1, ConcatProperties
<1>3. Len(reports) \in Nat /\ Len(ms) \in Nat /\ DOMAIN ms = 1 .. Len(ms)
      /\ DOMAIN reports = 1 .. Len(reports) /\ DOMAIN reports' = 1 .. Len(reports')
  BY <1>1, <1>2, LenProperties
<1>4. open' \subseteq 1 .. Len(reports')
  <2>1. open \subseteq 1 .. Len(reports)  BY DEF TypeOK
  <2>2. open' = open \cup (Len(reports) + 1 .. Len(reports) + Len(ms))  BY DEF Tell
  <2>3. \A a, b \in Nat : 1 .. a \cup (a + 1 .. a + b) \subseteq 1 .. a + b  OBVIOUS
  <2>4. 1 .. Len(reports) \cup (Len(reports) + 1 .. Len(reports) + Len(ms))
          \subseteq 1 .. Len(reports) + Len(ms)
    BY <1>3, <2>3
  <2>5. Len(reports') = Len(reports) + Len(ms)  BY <1>2
  <2> QED  BY <2>1, <2>2, <2>4, <2>5, Zenon
<1>5. \A i \in DOMAIN reports : i \in DOMAIN reports' /\ reports'[i] = reports[i]
  BY <1>2, <1>3
<1>6. ASSUME NEW i \in DOMAIN reports', i \notin DOMAIN reports
      PROVE  reports'[i] \in Range(ms)
  <2>1. i - Len(reports) \in DOMAIN ms /\ reports'[i] = ms[i - Len(reports)]
    BY <1>2, <1>3, <1>6
  <2> QED  BY <2>1 DEF Range
<1> QED  BY <1>2, <1>4, <1>5, <1>6 DEF Tell

\* A report of a well-formed subscription is well formed, and about its user.
LEMMA ReportTyped ==
  ASSUME NEW s \in SubIds, NEW b \in Subscribed,
         NEW raw \in {"Pending", "Active", "Succeeded", "Unpaid", "Failed", "Canceled"},
         NEW m \in Reports(s, b, raw) \cup Payments(s, b, raw)
  PROVE  m \in Message /\ m.sub = s /\ m.form \in SubForms \cup PayForms
<1>1. PICK kind \in {"Subscription", "Payment"}, form \in SubForms \cup PayForms : m = Report(kind, s, b, raw, form)
  BY DEF Reports, Payments
<1>2. /\ (kind = "Subscription" /\ b.cancel) \in BOOLEAN
      /\ (IF kind = "Subscription" THEN b.end ELSE None) \in Nat \cup {None}
  BY DEF Subscribed
<1>3. form \in Forms  BY FormsKnown
<1> QED  BY <1>1, <1>2, <1>3 DEF Report, Message, Subscribed

\* Each of BoomFi's steps tells of one user and keeps her subscriptions typed.
LEMMA BoomFiTells ==
  ASSUME TypeOK, NEW u \in Users, BoomFi(u)
  PROVE  /\ SubsTyped(subs')
         /\ \E ms \in Seq(Message) : Tell(ms) /\ \A m \in Range(ms) : m.sub[1] = u /\ m.form \in SubForms \cup PayForms
<1> DEFINE Told == \E ms \in Seq(Message) : Tell(ms) /\ \A m \in Range(ms) : m.sub[1] = u /\ m.form \in SubForms \cup PayForms
<1>0. /\ subs \in [Users -> Seq(Subscribed)] /\ \A v \in Users : Len(subs[v]) <= MaxSubs
      /\ links[u] \in SUBSET (Plans \X Cycles) /\ Len(reports) \in Nat
  BY DEF TypeOK
<1>1. ASSUME NEW m \in Message, m.sub[1] = u, m.form \in SubForms \cup PayForms, Tell(<<m>>)
      PROVE  Told
  <2>1. <<m>> \in Seq(Message) /\ Range(<<m>>) = {m}  BY DEF Range
  <2> QED  BY <1>1, <2>1
<1>2. ASSUME NEW m \in Message, NEW k \in Message, m.sub[1] = u, k.sub[1] = u,
             {m.form, k.form} \subseteq SubForms \cup PayForms, Tell(<<m, k>>)
      PROVE  Told
  <2>1. <<m, k>> \in Seq(Message) /\ Range(<<m, k>>) = {m, k}  BY DEF Range
  <2> QED  BY <1>2, <2>1
<1>3. CASE Subscribe(u)
  <2>1. PICK l \in links[u] :
           LET b == [status |-> "Pending", plan |-> l[1], cycle |-> l[2],
                     cancel |-> FALSE, end |-> None]
               s == <<u, Len(subs[u]) + 1>>
           IN  /\ Len(subs[u]) < MaxSubs
               /\ subs' = [subs EXCEPT ![u] = Append(@, b)]
               /\ \E m \in Reports(s, b, "Pending") : Tell(<<m>>)
    BY <1>3 DEF Subscribe
  <2> DEFINE b == [status |-> "Pending", plan |-> l[1], cycle |-> l[2],
                   cancel |-> FALSE, end |-> None]
             s == <<u, Len(subs[u]) + 1>>
  <2>2. b \in Subscribed  BY <1>0 DEF Subscribed
  <2>3. s \in SubIds  BY <1>0, <2>1, BoundsNat DEF SubIds
  <2>4. PICK m \in Reports(s, b, "Pending") : Tell(<<m>>)  BY <2>1
  <2>5. m \in Message /\ m.sub = s /\ m.form \in SubForms \cup PayForms  BY <2>2, <2>3, <2>4, ReportTyped
  <2>6. /\ Append(subs[u], b) \in Seq(Subscribed)
        /\ Len(Append(subs[u], b)) = Len(subs[u]) + 1
    BY <1>0, <2>2, AppendProperties
  <2>7. SubsTyped(subs')  BY <1>0, <2>1, <2>6, BoundsNat DEF SubsTyped
  <2> QED  BY <2>4, <2>5, <2>7, <1>1
<1>4. ASSUME NEW n \in DOMAIN subs[u], NEW b \in Subscribed,
             subs' = [subs EXCEPT ![u][n] = b]
      PROVE  SubsTyped(subs') /\ <<u, n>> \in SubIds
  <2>1. [subs[u] EXCEPT ![n] = b] \in Seq(Subscribed)
        /\ Len([subs[u] EXCEPT ![n] = b]) = Len(subs[u])
    BY <1>0, <1>4, ExceptSeq
  <2>2. n \in 1 .. MaxSubs  BY <1>0, BoundsNat
  <2> QED  BY <1>0, <1>4, <2>1, <2>2 DEF SubsTyped, SubIds
<1>5. ASSUME NEW n \in DOMAIN subs[u], Pay(u, n)
      PROVE  SubsTyped(subs') /\ Told
  <2> DEFINE b == [subs[u][n] EXCEPT !.status = "Active", !.end = Len(reports) + MaxReports]
  <2>0. PICK a \in Subscribed : a = subs[u][n]  BY <1>0
  <2>01. Len(reports) + MaxReports \in Nat  BY <1>0, BoundsNat
  <2>1. b \in Subscribed  BY <2>0, <2>01 DEF Subscribed
  <2>2. SubsTyped(subs') /\ <<u, n>> \in SubIds  BY <1>4, <1>5, <2>1 DEF Pay
  <2>3. PICK m \in Reports(<<u, n>>, b, "Active"), k \in Payments(<<u, n>>, b, "Succeeded") :
           Tell(<<m, k>>) \/ Tell(<<k, m>>)
    BY <1>5 DEF Pay
  <2>4. /\ m \in Message /\ k \in Message /\ m.sub = <<u, n>> /\ k.sub = <<u, n>>
        /\ {m.form, k.form} \subseteq SubForms \cup PayForms
    BY <2>1, <2>2, <2>3, ReportTyped
  <2> QED  BY <1>2, <2>2, <2>3, <2>4
<1>6. ASSUME NEW n \in DOMAIN subs[u], Unpaid(u, n)
      PROVE  SubsTyped(subs') /\ Told
  <2> DEFINE b == [subs[u][n] EXCEPT !.status = "Unpaid"]
  <2>0. PICK a \in Subscribed : a = subs[u][n]  BY <1>0
  <2>1. b \in Subscribed  BY <1>0, <2>0, BoundsNat DEF Subscribed
  <2>2. SubsTyped(subs') /\ <<u, n>> \in SubIds  BY <1>4, <1>6, <2>1 DEF Unpaid
  <2>3. PICK m \in Reports(<<u, n>>, b, "Unpaid") \cup Payments(<<u, n>>, b, "Failed") : Tell(<<m>>)
    BY <1>6 DEF Unpaid
  <2>4. m \in Message /\ m.sub = <<u, n>> /\ m.form \in SubForms \cup PayForms
    BY <2>1, <2>2, <2>3, ReportTyped
  <2> QED  BY <1>1, <2>2, <2>3, <2>4
<1>7. ASSUME NEW n \in DOMAIN subs[u], CancelAtPeriodEnd(u, n)
      PROVE  SubsTyped(subs') /\ Told
  <2> DEFINE b == [subs[u][n] EXCEPT !.cancel = TRUE]
  <2>0. PICK a \in Subscribed : a = subs[u][n]  BY <1>0
  <2>1. b \in Subscribed  BY <1>0, <2>0, BoundsNat DEF Subscribed
  <2>2. SubsTyped(subs') /\ <<u, n>> \in SubIds  BY <1>4, <1>7, <2>1 DEF CancelAtPeriodEnd
  <2>3. PICK m \in Reports(<<u, n>>, b, "Active") : Tell(<<m>>)  BY <1>7 DEF CancelAtPeriodEnd
  <2>4. m \in Message /\ m.sub = <<u, n>> /\ m.form \in SubForms \cup PayForms
    BY <2>1, <2>2, <2>3, ReportTyped
  <2> QED  BY <1>1, <2>2, <2>3, <2>4
<1>8. ASSUME NEW n \in DOMAIN subs[u], Cancel(u, n)
      PROVE  SubsTyped(subs') /\ Told
  <2> DEFINE b == [subs[u][n] EXCEPT !.status = "Canceled"]
  <2>0. PICK a \in Subscribed : a = subs[u][n]  BY <1>0
  <2>1. b \in Subscribed  BY <1>0, <2>0, BoundsNat DEF Subscribed
  <2>2. SubsTyped(subs') /\ <<u, n>> \in SubIds  BY <1>4, <1>8, <2>1 DEF Cancel
  <2>3. PICK m \in Reports(<<u, n>>, b, "Canceled") : Tell(<<m>>)  BY <1>8 DEF Cancel
  <2>4. m \in Message /\ m.sub = <<u, n>> /\ m.form \in SubForms \cup PayForms
    BY <2>1, <2>2, <2>3, ReportTyped
  <2> QED  BY <1>1, <2>2, <2>3, <2>4
<1> QED  BY <1>3, <1>5, <1>6, <1>7, <1>8 DEF BoomFi

-----------------------------------------------------------------------------
(* Inv is inductive *)

\* Inv holds before any request.
LEMMA InitInv == Init => Inv
<1> SUFFICES ASSUME Init PROVE Inv  OBVIOUS
<1>1. \A w \in Workers : ~Busy(w) /\ job[w].pc = "idle"  BY DEF Init, Busy, Idle
<1>2. \A u \in Users : ~HasRow(u)  BY DEF Init, HasRow
<1>3. TypeOK
  <2>1. Idle.pc = "idle"  BY DEF Idle
  <2> QED  BY <1>1, <2>1, BoundsNat DEF Init, TypeOK
<1> QED  BY <1>1, <1>2, <1>3 DEF Inv, JobsOwn, EventsReachTheirUser, ActiveWasPaid

\* A step of one worker that leaves the rows: its new locals are its own.
LEMMA JobStep ==
  ASSUME Inv, NEW w \in Workers, NEW j \in Job \cup {Idle}, job' = [job EXCEPT ![w] = j],
         open' \subseteq 1 .. Len(reports), UNCHANGED <<row, links, subs, reports, checkouts, seen>>,
         faults' \in Nat,
         j # Idle => /\ j.i \in DOMAIN reports
                     /\ j.pc \notin {"byCustomer", "bySub"} => j.user = reports[j.i].sub[1]
                     /\ j.pc \in {"readCycle", "upsert"} => j.plan # None
                     /\ j.pc = "upsert" => j.cycle # None
  PROVE  Inv'
<1>1. /\ job \in [Workers -> Job \cup {Idle}]
      /\ job' \in [Workers -> Job \cup {Idle}]
      /\ job'[w] = j /\ \A v \in Workers \ {w} : job'[v] = job[v]
  BY DEF Inv, TypeOK
<1>2. reports \in Seq(Message) /\ DOMAIN reports = 1 .. Len(reports)
  BY DEF Inv, TypeOK
<1>3. j # Idle => \/ j.pc \in {"byCustomer", "bySub"}
                  \/ j.user = reports[j.i].sub[1] /\ j.user \in Users
  <2> SUFFICES ASSUME j # Idle PROVE j.pc \in {"byCustomer", "bySub"} \/ (j.user = reports[j.i].sub[1] /\ j.user \in Users)
    OBVIOUS
  <2>1. PICK m \in Message : m = reports[j.i]  BY <1>2
  <2>2. m.sub[1] \in Users  BY DEF Message, SubIds
  <2> QED  BY <2>1, <2>2
<1>4. JobsOwn'  BY <1>1 DEF Inv, JobsOwn, Busy, Looking
<1>5. TypeOK'
  <2>1. ASSUME NEW v \in Workers, Busy(v)'
        PROVE  job'[v].i <= Len(reports')
    BY <1>1, <1>2, <2>1 DEF Inv, TypeOK, Busy
  <2>2. ASSUME NEW v \in Workers, job'[v].pc = "upsert"
        PROVE  None \notin {job'[v].user, job'[v].plan, job'[v].cycle}
    <3>1. CASE v = w
      <4>1. j # Idle /\ j.pc = "upsert"  BY <1>1, <2>2, <3>1 DEF Idle
      <4> QED  BY <1>1, <1>3, <3>1, <4>1, NoneApart
    <3>2. CASE v # w  BY <1>1, <2>2, <3>2 DEF Inv, TypeOK
    <3> QED  BY <3>1, <3>2
  <2> QED  BY <1>1, <2>1, <2>2 DEF Inv, TypeOK
<1>6. EventsReachTheirUser' /\ ActiveWasPaid'
  BY DEF Inv, EventsReachTheirUser, ActiveWasPaid, HasRow, About, Paid
<1> QED  BY <1>4, <1>5, <1>6 DEF Inv

\* A step that writes the row of u, from a report about u or a checkout.
LEMMA RowStep ==
  ASSUME Inv, NEW u \in Users, NEW in \in Row, row' = [row EXCEPT ![u] = Upserted(u, in)],
         UNCHANGED <<subs, reports>>, TypeOK', JobsOwn',
         in.customer \in {None, u}, in.sub # None => in.sub[1] = u,
         in.status = "active" => \E i \in About(u) : Paid(i)
  PROVE  Inv'
<1>1. /\ row \in [Users -> Row \cup {NoRow}] /\ Upserted(u, in) \in Row
      /\ row'[u] = Upserted(u, in) /\ \A v \in Users \ {u} : row'[v] = row[v]
  BY UpsertedRow DEF Inv, TypeOK
<1>2. PICK r \in Row : r = Upserted(u, in)  BY <1>1
<1>3. /\ r.status = in.status
      /\ r.customer # in.customer => HasRow(u) /\ r.customer = row[u].customer
      /\ r.sub # in.sub => HasRow(u) /\ r.sub = row[u].sub
  BY <1>1, <1>2, UpsertedFields
<1>4. EventsReachTheirUser'
  <2>1. r.customer \in {None, u} /\ (r.sub # None => r.sub[1] = u)
    BY <1>3 DEF Inv, EventsReachTheirUser
  <2> QED  BY <1>1, <1>2, <2>1 DEF Inv, EventsReachTheirUser, HasRow
<1>5. ActiveWasPaid'
  <2>1. r.status = "active" => \E i \in About(u) : Paid(i)  BY <1>3
  <2>2. \A v \in Users : About(v)' = About(v) /\ \A i \in About(v) : Paid(i)' <=> Paid(i)
    BY DEF About, Paid
  <2> QED  BY <1>1, <1>2, <2>1, <2>2 DEF Inv, ActiveWasPaid, HasRow
<1> QED  BY <1>4, <1>5 DEF Inv

\* A checkout names no customer and no subscription, and is not active.
LEMMA CheckoutInv ==
  ASSUME Inv, NEW u \in Users, NEW p \in Plans, NEW c \in Cycles, Checkout(u, p, c)
  PROVE  Inv'
<1>1. PICK in \in Row : in = Pending(p, c)  BY PendingRow
<1>2. in.status = "checkout_pending" /\ in.customer = None /\ in.sub = None
  BY <1>1, PendingRow
<1>3. row' = [row EXCEPT ![u] = Upserted(u, in)] /\ UNCHANGED <<job, subs, reports, open, faults>>
  BY <1>1 DEF Checkout
<1>4. Upserted(u, in) \in Row  BY UpsertedRow DEF Inv, TypeOK
<1>5. TypeOK'
  <2>1. row' \in [Users -> Row \cup {NoRow}]  BY <1>3, <1>4 DEF Inv, TypeOK
  <2>2. links' \in [Users -> SUBSET (Plans \X Cycles)] /\ checkouts' \in Nat
    BY DEF Inv, TypeOK, Checkout
  <2>3. seen' \in [Users -> SUBSET Nat]
    <3>1. Answered(u) \in SUBSET Nat  BY DEF Inv, TypeOK, Answered, About
    <3> QED  BY <3>1 DEF Inv, TypeOK, Checkout
  <2> QED  BY <1>3, <2>1, <2>2, <2>3 DEF Inv, TypeOK, Busy
<1>6. JobsOwn'  BY <1>3 DEF Inv, JobsOwn, Busy, Looking
<1> HIDE DEF Inv
<1> QED  BY <1>2, <1>3, <1>5, <1>6, RowStep

\* The handler's write: a row of the report's user, active if it says paid.
LEMMA UpsertInv ==
  ASSUME Inv, NEW w \in Workers, Upsert(w)
  PROVE  Inv'
<1>1. job[w].pc = "upsert"  BY DEF Upsert
<1>2. TypeOK  BY DEF Inv
<1>3. PICK m \in Message : m = reports[job[w].i] /\ job[w].i \in DOMAIN reports /\ Busy(w)
  BY <1>1, <1>2, BusyJob
<1>4. PICK u \in Users : u = job[w].user /\ u = m.sub[1]
  <2>1. job[w].user = m.sub[1]  BY <1>1, <1>3 DEF Inv, JobsOwn, Looking
  <2>2. m.sub[1] \in Users  BY DEF Message, SubIds
  <2> QED  BY <2>1, <2>2
<1>5. PICK in \in Row : in = Input(w)  BY <1>1, <1>2, InputRow
<1>6. in.status = Normalised(m.status) /\ in.customer \in {None, u} /\ in.sub \in {None, m.sub}
  BY <1>1, <1>2, <1>3, <1>4, <1>5, InputRow
<1>7. /\ row' = [row EXCEPT ![u] = Upserted(u, in)] /\ job' = [job EXCEPT ![w] = Idle]
      /\ UNCHANGED <<links, subs, reports, checkouts, seen>>
  BY <1>4, <1>5 DEF Upsert, boomfi
<1>8. Upserted(u, in) \in Row  BY <1>2, UpsertedRow DEF TypeOK
<1>9. TypeOK'
  <2>1. row' \in [Users -> Row \cup {NoRow}]  BY <1>2, <1>7, <1>8 DEF TypeOK
  <2>2. /\ job' \in [Workers -> Job \cup {Idle}] /\ job'[w] = Idle
        /\ \A v \in Workers \ {w} : job'[v] = job[v]
    BY <1>2, <1>7 DEF TypeOK
  <2>3. /\ \A v \in Workers : Busy(v)' => job'[v].i <= Len(reports')
        /\ \A v \in Workers : job'[v].pc = "upsert" =>
              None \notin {job'[v].user, job'[v].plan, job'[v].cycle}
    BY <1>2, <1>7, <2>2 DEF TypeOK, Busy, Idle
  <2>4. open' \subseteq 1 .. Len(reports') /\ faults' \in Nat
    <3>1. open' \subseteq open /\ faults' \in {faults, faults + 1}  BY DEF Upsert
    <3>2. open \subseteq 1 .. Len(reports) /\ faults \in Nat  BY <1>2 DEF TypeOK
    <3>3. Len(reports') = Len(reports)  BY <1>7
    <3>4. faults' \in Nat  BY <3>1, <3>2
    <3> QED  BY <3>1, <3>2, <3>3, <3>4
  <2> QED  BY <1>2, <1>7, <2>1, <2>2, <2>3, <2>4 DEF TypeOK
<1>10. JobsOwn'  BY <1>2, <1>7 DEF Inv, JobsOwn, Busy, Looking, Idle, TypeOK
<1>11. in.status = "active" => \E i \in About(u) : Paid(i)
  <2> SUFFICES ASSUME in.status = "active" PROVE Paid(job[w].i) /\ job[w].i \in About(u)
    OBVIOUS
  <2>1. m.status \in {"Active", "Succeeded"}  BY <1>6, NormalisedActive DEF Message
  <2> QED  BY <1>3, <1>4, <2>1 DEF About, Paid
<1> HIDE DEF Inv
<1> QED  BY <1>4, <1>6, <1>7, <1>9, <1>10, <1>11, RowStep

\* What BoomFi does changes no row and no job.
LEMMA BoomFiInv ==
  ASSUME Inv, NEW u \in Users, BoomFi(u)
  PROVE  Inv'
<1>1. TypeOK  BY DEF Inv
<1>2. SubsTyped(subs')  BY <1>1, BoomFiTells
<1>3. PICK ms \in Seq(Message) : Tell(ms)  BY <1>1, BoomFiTells
<1>4. /\ reports' \in Seq(Message) /\ Len(reports') <= MaxReports
      /\ open' \subseteq 1 .. Len(reports')
      /\ \A i \in DOMAIN reports : i \in DOMAIN reports' /\ reports'[i] = reports[i]
  BY <1>1, <1>3, TellAppends
<1>5. UNCHANGED <<row, job, links, checkouts, seen, faults>>  BY <1>3 DEF Tell
<1>6. \A w \in Workers : Busy(w) => job[w].i \in DOMAIN reports
  BY <1>1 DEF TypeOK, Job, Busy
<1>7. TypeOK'
  <2>1. \A w \in Workers : Busy(w)' => job'[w].i <= Len(reports')
    BY <1>4, <1>5, <1>6 DEF Busy
  <2> QED  BY <1>1, <1>2, <1>4, <1>5, <2>1 DEF TypeOK, SubsTyped
<1>8. JobsOwn'  BY <1>4, <1>5, <1>6 DEF Inv, JobsOwn, Busy, Looking
<1>9. EventsReachTheirUser'  BY <1>5 DEF Inv, EventsReachTheirUser, HasRow
<1>10. ActiveWasPaid'
  <2>1. ASSUME NEW v \in Users, NEW i \in About(v), Paid(i)
        PROVE  i \in About(v)' /\ Paid(i)'
    BY <1>4, <2>1 DEF About, Paid
  <2> QED  BY <1>5, <2>1 DEF Inv, ActiveWasPaid, HasRow
<1> QED  BY <1>7, <1>8, <1>9, <1>10 DEF Inv

\* The handler's first call, with the user it already knows or still looks for.
LEMMA ReceiveInv ==
  ASSUME Inv, NEW i \in Sendable, NEW w \in Workers, Receive(w, i)
  PROVE  Inv'
<1>1. TypeOK  BY DEF Inv
<1>2. i \in DOMAIN reports  BY <1>1 DEF Sendable, TypeOK
<1>3. PICK m \in Message : m = reports[i]  BY <1>1, <1>2 DEF TypeOK
<1>4. m.sub[1] \in Users  BY DEF Message, SubIds
<1>5. PICK j : /\ j \in {Resolved(i, m.sub[1]), Finding(i, "byCustomer"), Finding(i, "bySub"), Idle}
               /\ job' = [job EXCEPT ![w] = j]
               /\ open' = IF j = Idle THEN open \ {i} ELSE open
               /\ UNCHANGED <<row, links, subs, reports, checkouts, seen, faults>>
  BY <1>3 DEF Receive, BySub, boomfi
<1>6. j \in Job \cup {Idle} /\
      (j # Idle => /\ j.i = i
                   /\ j.pc \notin {"byCustomer", "bySub"} => j.user = m.sub[1]
                   /\ j.pc \in {"readCycle", "upsert"} => j.plan # None
                   /\ j.pc = "upsert" => j.cycle # None)
  <2>1. CASE j = Resolved(i, m.sub[1])  BY <1>1, <1>2, <1>4, <2>1, ResolvedJob
  <2>2. CASE j \in {Finding(i, "byCustomer"), Finding(i, "bySub")}
    BY <1>1, <1>2, <2>2, FindingJob
  <2>3. CASE j = Idle  BY <2>3
  <2> QED  BY <1>5, <2>1, <2>2, <2>3
<1>7. open' \subseteq 1 .. Len(reports) /\ faults' \in Nat  BY <1>1, <1>5 DEF TypeOK
<1>8. j # Idle => /\ j.i \in DOMAIN reports
                  /\ j.pc \notin {"byCustomer", "bySub"} => j.user = reports[j.i].sub[1]
                  /\ j.pc \in {"readCycle", "upsert"} => j.plan # None
                  /\ j.pc = "upsert" => j.cycle # None
  BY <1>2, <1>3, <1>6
<1>9. j \in Job \cup {Idle}  BY <1>6
<1> HIDE DEF Inv
<1> QED  BY <1>5, <1>7, <1>8, <1>9, JobStep

\* A lookup finds the user the report is about, if it finds one.
LEMMA LookupInv ==
  ASSUME Inv, NEW w \in Workers, Looking(w), NEW rows \in SUBSET Users,
         \A v \in rows : v = reports[job[w].i].sub[1],
         NEW next \in {Idle, Finding(job[w].i, "bySub")}, Lookup(w, rows, next)
  PROVE  Inv'
<1>1. TypeOK  BY DEF Inv
<1>2. PICK i \in DOMAIN reports : i = job[w].i  BY <1>1, BusyJob DEF Looking
<1>3. PICK j : /\ j = IF rows = {} THEN next ELSE Resolved(i, CHOOSE v \in rows : TRUE)
               /\ job' = [job EXCEPT ![w] = j]
               /\ open' = IF j = Idle THEN open \ {i} ELSE open
               /\ UNCHANGED <<row, links, subs, reports, checkouts, seen, faults>>
  BY <1>2 DEF Lookup, boomfi
<1>4. j \in Job \cup {Idle} /\
      (j # Idle => /\ j.i = i
                   /\ j.pc \notin {"byCustomer", "bySub"} => j.user = reports[i].sub[1]
                   /\ j.pc \in {"readCycle", "upsert"} => j.plan # None
                   /\ j.pc = "upsert" => j.cycle # None)
  <2>1. CASE rows = {}  BY <1>1, <1>2, <1>3, <2>1, FindingJob
  <2>2. CASE rows # {}
    <3>1. PICK v \in rows : v = CHOOSE x \in rows : TRUE  BY <2>2
    <3>2. j = Resolved(i, v)  BY <1>3, <2>2, <3>1
    <3>3. v \in Users /\ v = reports[i].sub[1]  BY <1>2, <3>1
    <3> QED  BY <1>1, <3>2, <3>3, ResolvedJob
  <2> QED  BY <2>1, <2>2
<1>5. open' \subseteq 1 .. Len(reports) /\ faults' \in Nat  BY <1>1, <1>3 DEF TypeOK
<1>6. j # Idle => /\ j.i \in DOMAIN reports
                  /\ j.pc \notin {"byCustomer", "bySub"} => j.user = reports[j.i].sub[1]
                  /\ j.pc \in {"readCycle", "upsert"} => j.plan # None
                  /\ j.pc = "upsert" => j.cycle # None
  BY <1>2, <1>4
<1>7. j \in Job \cup {Idle}  BY <1>4
<1> HIDE DEF Inv
<1> QED  BY <1>3, <1>5, <1>6, <1>7, JobStep

\* The rows a lookup finds are those of the report's user.
LEMMA FindInv ==
  ASSUME Inv, NEW w \in Workers, FindByCustomer(w) \/ FindBySub(w)
  PROVE  Inv'
<1>1. Looking(w)  BY DEF FindByCustomer, FindBySub, Looking
<1>2. TypeOK  BY DEF Inv
<1>3. PICK m \in Message : m = reports[job[w].i]  BY <1>1, <1>2, BusyJob DEF Looking
<1>4. m.sub[1] \in Users /\ m.sub \in SubIds  BY DEF Message, SubIds
<1>5. /\ RowsOfCustomer(m.sub[1]) \in SUBSET Users
      /\ \A v \in RowsOfCustomer(m.sub[1]) : v = m.sub[1]
  BY <1>4, NoneApart DEF Inv, EventsReachTheirUser, RowsOfCustomer
<1>6. /\ RowsOfSub(m.sub) \in SUBSET Users
      /\ \A v \in RowsOfSub(m.sub) : v = m.sub[1]
  <2>1. m.sub # None  BY <1>4, NoneApart
  <2> QED  BY <2>1 DEF Inv, EventsReachTheirUser, RowsOfSub
<1>7. BySub(job[w].i) \in {Idle, Finding(job[w].i, "bySub")}  BY DEF BySub
<1> HIDE DEF Inv
<1>8. CASE FindByCustomer(w)
  BY <1>1, <1>3, <1>5, <1>7, <1>8, LookupInv DEF FindByCustomer
<1>9. CASE FindBySub(w)
  BY <1>1, <1>3, <1>6, <1>9, LookupInv DEF FindBySub
<1> QED  BY <1>8, <1>9

\* Plan and cycle of a stored row, or the defaults, fill in for the report.
LEMMA ReadInv ==
  ASSUME Inv, NEW w \in Workers, ReadPlan(w) \/ ReadCycle(w)
  PROVE  Inv'
<1>1. TypeOK /\ job[w].pc \in {"readPlan", "readCycle"}  BY DEF Inv, ReadPlan, ReadCycle
<1>2. PICK j \in Job : j = job[w] /\ j.i \in DOMAIN reports
                      /\ j.user = reports[j.i].sub[1] /\ j.user \in Users
                      /\ (j.pc = "readCycle" => j.plan # None)
  <2>1. /\ job[w] \in Job /\ Busy(w) /\ job[w].i \in DOMAIN reports
        /\ reports[job[w].i] \in Message
    BY <1>1, BusyJob
  <2>2. reports[job[w].i].sub[1] \in Users  BY <2>1 DEF Message, SubIds
  <2> QED  BY <1>1, <2>1, <2>2 DEF Inv, JobsOwn, Looking
<1>3. HasRow(j.user) => row[j.user].plan \in Plans /\ row[j.user].cycle \in Cycles
  <2>1. row \in [Users -> Row \cup {NoRow}]  BY <1>1 DEF TypeOK
  <2> QED  BY <1>2, <2>1, RowThere DEF Row
<1>4. CASE ReadPlan(w)
  <2>1. PICK p \in Plans : /\ job' = [job EXCEPT ![w].plan = p, ![w].pc = AfterResolve(p, job[w].cycle)]
                          /\ UNCHANGED <<row, links, subs, reports, open, checkouts, seen, faults>>
    BY <1>2, <1>3, <1>4, DefaultsOffered DEF ReadPlan, boomfi
  <2>2. PICK k : k = [j EXCEPT !.plan = p, !.pc = AfterResolve(p, j.cycle)]  OBVIOUS
  <2>3. AfterResolve(p, j.cycle) \in {"readCycle", "upsert"}
        /\ (AfterResolve(p, j.cycle) = "upsert" => j.cycle # None)
    BY NoneApart DEF AfterResolve
  <2>4. /\ k \in Job /\ k.i = j.i /\ k.user = j.user /\ k.plan # None
        /\ (k.pc = "upsert" => k.cycle # None)
    BY <2>2, <2>3, NoneApart DEF Job
  <2>5. job' = [job EXCEPT ![w] = k]  BY <1>1, <1>2, <2>1, <2>2 DEF TypeOK
  <2>6. open' \subseteq 1 .. Len(reports) /\ faults' \in Nat  BY <1>1, <2>1 DEF TypeOK
  <2>7. k \in Job \cup {Idle} /\ k.i \in DOMAIN reports /\ k.user = reports[k.i].sub[1]
    BY <1>2, <2>4
  <2> HIDE DEF Inv
  <2> QED  BY <2>1, <2>4, <2>5, <2>6, <2>7, JobStep
<1>5. CASE ReadCycle(w)
  <2>1. PICK c \in Cycles : /\ job' = [job EXCEPT ![w].cycle = c, ![w].pc = "upsert"]
                           /\ UNCHANGED <<row, links, subs, reports, open, checkouts, seen, faults>>
    BY <1>2, <1>3, <1>5, DefaultsOffered DEF ReadCycle, boomfi
  <2>2. PICK k : k = [j EXCEPT !.cycle = c, !.pc = "upsert"]  OBVIOUS
  <2>3. k \in Job /\ k.i = j.i /\ k.user = j.user /\ k.plan # None /\ k.cycle # None
    BY <1>2, <1>5, <2>2, NoneApart DEF Job, ReadCycle
  <2>4. job' = [job EXCEPT ![w] = k]  BY <1>1, <1>2, <2>1, <2>2 DEF TypeOK
  <2>5. open' \subseteq 1 .. Len(reports) /\ faults' \in Nat  BY <1>1, <2>1 DEF TypeOK
  <2>6. k \in Job \cup {Idle} /\ k.i \in DOMAIN reports /\ k.user = reports[k.i].sub[1]
    BY <1>2, <2>3
  <2> HIDE DEF Inv
  <2> QED  BY <2>1, <2>3, <2>4, <2>5, <2>6, JobStep
<1> QED  BY <1>4, <1>5

\* A failed request forgets its locals.
LEMMA FailInv ==
  ASSUME Inv, NEW w \in Workers, Fail(w)
  PROVE  Inv'
<1>1. open' \subseteq 1 .. Len(reports) /\ faults' \in Nat  BY DEF Inv, TypeOK, Fail
<1>2. job' = [job EXCEPT ![w] = Idle] /\ UNCHANGED <<row, links, subs, reports, checkouts, seen>>
  BY DEF Fail, boomfi
<1> HIDE DEF Inv
<1> QED  BY <1>1, <1>2, JobStep

\* A refused or repeated delivery, and a step that changes nothing.
LEMMA RefuseInv ==
  ASSUME Inv, open' \subseteq open, UNCHANGED <<row, job, links, subs, reports, checkouts, seen, faults>>
  PROVE  Inv'
BY DEF Inv, TypeOK, JobsOwn, EventsReachTheirUser, ActiveWasPaid,
       Busy, Looking, HasRow, About, Paid

\* Every step keeps Inv.
LEMMA NextInv == Inv /\ [Next]_vars => Inv'
<1> SUFFICES ASSUME Inv, [Next]_vars PROVE Inv'  OBVIOUS
<1>1. ASSUME NEW u \in Users, NEW p \in Plans, NEW c \in Cycles, Checkout(u, p, c)
      PROVE  Inv'
  BY <1>1, CheckoutInv
<1>2. ASSUME NEW u \in Users, BoomFi(u)
      PROVE  Inv'
  BY <1>2, BoomFiInv
<1>3. ASSUME NEW i \in Sendable, Refuse(i)
      PROVE  Inv'
  BY <1>3, RefuseInv DEF Refuse, backend, boomfi
<1>4. ASSUME NEW i \in Sendable, NEW w \in Workers, Receive(w, i)
      PROVE  Inv'
  BY <1>4, ReceiveInv
<1>5. ASSUME NEW w \in Workers, Handle(w)
      PROVE  Inv'
  BY <1>5, FindInv, ReadInv, UpsertInv DEF Handle
<1>6. ASSUME NEW w \in Workers, Fail(w)
      PROVE  Inv'
  BY <1>6, FailInv
<1>7. CASE UNCHANGED vars
  BY <1>7, RefuseInv DEF vars
<1> HIDE DEF Inv
<1> QED  BY <1>1, <1>2, <1>3, <1>4, <1>5, <1>6, <1>7 DEF Next, BoomFi

\* Inv holds in every reachable state.
THEOREM SubscriptionInductive == Spec => []Inv
<1>1. Init => Inv  BY InitInv
<1>2. Inv /\ [Next]_vars => Inv'  BY NextInv
<1> QED  BY <1>1, <1>2, PTL DEF Spec

\* Every variable keeps its type, and a handler that writes knows the user,
\* the plan and the cycle it writes.
THEOREM SubscriptionTypeCorrect == Spec => []TypeOK
<1>1. Inv => TypeOK  BY DEF Inv
<1> QED  BY <1>1, SubscriptionInductive, PTL

\* However a report names its user, by the echoed reference or by ids stored
\* from earlier reports, it is written into that user's row and no other
\* (resolve_user_id_from_webhook).
THEOREM RightUser == Spec => []EventsReachTheirUser
<1>1. Inv => EventsReachTheirUser  BY DEF Inv
<1> QED  BY <1>1, SubscriptionInductive, PTL

\* A row is "active" only after BoomFi reported that user's subscription or
\* payment as paid, in every order of deliveries (normalize_boomfi_status,
\* process_boomfi_webhook).
THEOREM NeverActiveUnpaid == Spec => []ActiveWasPaid
<1>1. Inv => ActiveWasPaid  BY DEF Inv
<1> QED  BY <1>1, SubscriptionInductive, PTL

-----------------------------------------------------------------------------
(* The row shows one report whole *)

\* Every report states its plan and its cycle, in metadata or by a plan id
\* that is configured.
AllStated ==
  \A f \in SubForms \cup PayForms : (f.plan /\ f.cycle) \/ (f.id /\ PlanIds = Plans \X Cycles)

\* A handler past the lookups needs no read and writes its report's own plan.
Whole ==
  /\ \A i \in DOMAIN reports : reports[i].form \in SubForms \cup PayForms
  /\ \A w \in Workers : Busy(w) /\ ~Looking(w) =>
        /\ job[w].pc = "upsert"
        /\ job[w].plan = reports[job[w].i].plan /\ job[w].cycle = reports[job[w].i].cycle

\* A resolved report that states everything is written without a read.
LEMMA ResolvedWhole ==
  ASSUME AllStated, TypeOK, Whole, NEW i \in DOMAIN reports, NEW u \in Users
  PROVE  /\ Resolved(i, u).pc = "upsert"
         /\ Resolved(i, u).plan = reports[i].plan /\ Resolved(i, u).cycle = reports[i].cycle
<1>1. PICK m \in Message : m = reports[i] /\ m.form \in SubForms \cup PayForms
  BY DEF TypeOK, Whole
<1>2. m.plan \in Plans /\ m.cycle \in Cycles  BY DEF Message
<1>3. StatedPlan(m) = m.plan /\ StatedCycle(m) = m.cycle
  BY <1>1, <1>2 DEF AllStated, StatedPlan, StatedCycle, KnownId
<1>4. AfterResolve(m.plan, m.cycle) = "upsert"  BY <1>2, NoneApart DEF AfterResolve
<1> QED  BY <1>1, <1>3, <1>4 DEF Resolved

\* A step of one worker to such a job keeps Whole.
LEMMA WholeJob ==
  ASSUME Whole, TypeOK, NEW w \in Workers, NEW j, job' = [job EXCEPT ![w] = j], UNCHANGED reports,
         \/ j = Idle \/ j.pc \in {"byCustomer", "bySub"}
         \/ j.pc = "upsert" /\ j.plan = reports[j.i].plan /\ j.cycle = reports[j.i].cycle
  PROVE  Whole'
<1>1. job'[w] = j /\ \A v \in Workers \ {w} : job'[v] = job[v]  BY DEF TypeOK
<1> QED  BY <1>1 DEF Whole, Busy, Looking

\* Every step keeps Whole.
LEMMA NextWhole ==
  ASSUME AllStated
  PROVE  Inv /\ Whole /\ [Next]_vars => Whole'
<1> SUFFICES ASSUME Inv, Whole, [Next]_vars PROVE Whole'  OBVIOUS
<1>0. TypeOK  BY DEF Inv
<1>1. ASSUME NEW u \in Users, NEW p \in Plans, NEW c \in Cycles, Checkout(u, p, c)
      PROVE  Whole'
  BY <1>1 DEF Checkout, Whole, Busy, Looking
<1>2. ASSUME NEW u \in Users, BoomFi(u)
      PROVE  Whole'
  <2>1. PICK ms \in Seq(Message) :
          Tell(ms) /\ \A m \in Range(ms) : m.sub[1] = u /\ m.form \in SubForms \cup PayForms
    BY <1>0, <1>2, BoomFiTells
  <2>2. /\ \A i \in DOMAIN reports : i \in DOMAIN reports' /\ reports'[i] = reports[i]
        /\ \A i \in DOMAIN reports' : i \in DOMAIN reports \/ reports'[i] \in Range(ms)
    BY <1>0, <2>1, TellAppends
  <2>3. \A w \in Workers : Busy(w) => job[w].i \in DOMAIN reports
    BY <1>0 DEF TypeOK, Job, Busy
  <2>4. job' = job  BY <2>1 DEF Tell
  <2> QED  BY <2>1, <2>2, <2>3, <2>4 DEF Whole, Busy, Looking
<1>3. ASSUME NEW i \in Sendable, Refuse(i)
      PROVE  Whole'
  BY <1>3 DEF Refuse, backend, boomfi, Whole, Busy, Looking
<1>4. ASSUME NEW i \in Sendable, NEW w \in Workers, Receive(w, i)
      PROVE  Whole'
  <2>1. i \in DOMAIN reports  BY <1>0 DEF Sendable, TypeOK
  <2>2. PICK m \in Message : m = reports[i]  BY <1>0, <2>1 DEF TypeOK
  <2>3. m.sub[1] \in Users  BY DEF Message, SubIds
  <2>4. PICK j : /\ j \in {Resolved(i, m.sub[1]), Finding(i, "byCustomer"), Finding(i, "bySub"), Idle}
                 /\ job' = [job EXCEPT ![w] = j] /\ UNCHANGED reports
    BY <1>4, <2>2 DEF Receive, BySub, boomfi
  <2>5. CASE j = Resolved(i, m.sub[1])
    <3>1. j.pc = "upsert" /\ j.plan = reports[i].plan /\ j.cycle = reports[i].cycle /\ j.i = i
      BY <1>0, <2>1, <2>3, <2>5, ResolvedWhole, ResolvedJob
    <3> HIDE DEF Whole
    <3> QED  BY <1>0, <2>4, <3>1, WholeJob
  <2>6. CASE j \in {Finding(i, "byCustomer"), Finding(i, "bySub")}
    BY <1>0, <2>1, <2>4, <2>6, FindingJob, WholeJob
  <2> QED  BY <1>0, <2>4, <2>5, <2>6, WholeJob
<1>5. ASSUME NEW w \in Workers, FindByCustomer(w) \/ FindBySub(w)
      PROVE  Whole'
  <2>1. Looking(w)  BY <1>5 DEF FindByCustomer, FindBySub, Looking
  <2>2. PICK i \in DOMAIN reports : i = job[w].i  BY <1>0, <2>1, BusyJob DEF Looking
  <2>3. PICK rows \in SUBSET Users :
          \E j : /\ rows # {} => j = Resolved(i, CHOOSE v \in rows : TRUE)
                 /\ rows = {} => j \in {Idle, Finding(i, "bySub")}
                 /\ job' = [job EXCEPT ![w] = j] /\ UNCHANGED reports
    BY <1>5, <2>2 DEF FindByCustomer, FindBySub, Lookup, BySub, RowsOfCustomer, RowsOfSub, boomfi
  <2>4. PICK j : /\ rows # {} => j = Resolved(i, CHOOSE v \in rows : TRUE)
                 /\ rows = {} => j \in {Idle, Finding(i, "bySub")}
                 /\ job' = [job EXCEPT ![w] = j] /\ UNCHANGED reports
    BY <2>3
  <2>5. CASE rows = {}
    BY <1>0, <2>4, <2>5, FindingJob, WholeJob
  <2>6. CASE rows # {}
    <3>1. PICK v \in Users : v = CHOOSE x \in rows : TRUE  BY <2>6
    <3>2. j = Resolved(i, v)  BY <2>4, <2>6, <3>1
    <3>3. j.pc = "upsert" /\ j.plan = reports[i].plan /\ j.cycle = reports[i].cycle /\ j.i = i
      BY <1>0, <3>2, ResolvedWhole, ResolvedJob
    <3> HIDE DEF Whole
    <3> QED  BY <1>0, <2>4, <3>3, WholeJob
  <2> QED  BY <2>5, <2>6
<1>6. ASSUME NEW w \in Workers, ReadPlan(w) \/ ReadCycle(w)
      PROVE  FALSE
  <2>1. job[w].pc \in {"readPlan", "readCycle"}  BY <1>6 DEF ReadPlan, ReadCycle
  <2>2. Busy(w)  BY <1>0, <2>1, BusyJob
  <2> QED  BY <2>1, <2>2 DEF Whole, Looking
<1>7. ASSUME NEW w \in Workers, Upsert(w) \/ Fail(w)
      PROVE  Whole'
  <2>1. job' = [job EXCEPT ![w] = Idle] /\ UNCHANGED reports  BY <1>7 DEF Upsert, Fail, boomfi
  <2> QED  BY <1>0, <2>1, WholeJob
<1>8. CASE UNCHANGED vars
  BY <1>8 DEF vars, Whole, Busy, Looking
<1> HIDE DEF Inv, Whole
<1> QED  BY <1>1, <1>2, <1>3, <1>4, <1>5, <1>6, <1>7, <1>8 DEF Next, BoomFi, Handle

\* The initial rows show nothing.
LEMMA ViewInit == Init => View!Init
<1> SUFFICES ASSUME Init PROVE View!Init  OBVIOUS
<1>1. \A u \in Users : ViewOf(row[u]) = None  BY DEF Init, ViewOf
<1>2. \A u \in Users : About(u) = {}  BY DEF Init, About
<1> QED  BY <1>1, <1>2 DEF View!Init

\* What BoomFi said about u.
Views(u) == { <<Said(i), reports[i].plan, reports[i].cycle>> : i \in About(u) }

\* Writing a row of u changes what u is shown, and nobody else.
LEMMA ShownAfter ==
  ASSUME TypeOK, NEW u \in Users, NEW in \in Row, row' = [row EXCEPT ![u] = Upserted(u, in)]
  PROVE  [v \in Users |-> ViewOf(row[v])]' =
           [[v \in Users |-> ViewOf(row[v])] EXCEPT ![u] = <<in.status, in.plan, in.cycle>>]
<1>1. Upserted(u, in) \in Row  BY UpsertedRow DEF TypeOK
<1>2. PICK r \in Row : r = Upserted(u, in)  BY <1>1
<1>3. r.status = in.status /\ r.plan = in.plan /\ r.cycle = in.cycle
  BY <1>2, UpsertedFields DEF TypeOK
<1>4. ViewOf(r) = <<in.status, in.plan, in.cycle>>  BY <1>3, RowApart DEF ViewOf
<1>5. row'[u] = r /\ \A v \in Users \ {u} : row'[v] = row[v]  BY <1>2 DEF TypeOK
<1>6. ViewOf(row[u])' = <<in.status, in.plan, in.cycle>>  BY <1>4, <1>5 DEF ViewOf
<1>7. \A v \in Users \ {u} : ViewOf(row[v])' = ViewOf(row[v])  BY <1>5 DEF ViewOf
<1> QED  BY <1>6, <1>7

\* Without a new report nothing new is said.
LEMMA SaidSame ==
  ASSUME UNCHANGED reports
  PROVE  [u \in Users |-> Views(u)]' = [u \in Users |-> Views(u)]
BY DEF Views, About, Said

\* A checkout is Choose of the view.
LEMMA CheckoutChooses ==
  ASSUME TypeOK, NEW u \in Users, NEW p \in Plans, NEW c \in Cycles, Checkout(u, p, c)
  PROVE  View!Choose(u, p, c)
<1>1. PICK in \in Row : in = Pending(p, c)  BY PendingRow
<1>2. in.status = "checkout_pending" /\ in.plan = p /\ in.cycle = c  BY <1>1, PendingRow
<1>3. row' = [row EXCEPT ![u] = Upserted(u, in)] /\ UNCHANGED reports  BY <1>1 DEF Checkout
<1> QED  BY <1>2, <1>3, ShownAfter, SaidSame DEF View!Choose, Views

\* The handler's write is Show of the view.
LEMMA UpsertShows ==
  ASSUME Inv, Whole, NEW w \in Workers, Upsert(w)
  PROVE  \E u \in Users : View!Show(u)
<1>1. TypeOK /\ job[w].pc = "upsert"  BY DEF Inv, Upsert
<1>2. PICK i \in DOMAIN reports : i = job[w].i /\ Busy(w)  BY <1>1, BusyJob
<1>3. PICK m \in Message : m = reports[i]  BY <1>1 DEF TypeOK
<1>4. PICK in \in Row : in = Input(w)  BY <1>1, InputRow
<1>5. in.status = Said(i) /\ in.plan = m.plan /\ in.cycle = m.cycle
  BY <1>1, <1>2, <1>3, <1>4, InputRow DEF Whole, Looking, Said
<1>6. PICK u \in Users : u = job[w].user /\ u = m.sub[1]
  <2>1. job[w].user = m.sub[1]  BY <1>1, <1>2, <1>3 DEF Inv, JobsOwn, Looking
  <2>2. m.sub[1] \in Users  BY DEF Message, SubIds
  <2> QED  BY <2>1, <2>2
<1>7. row' = [row EXCEPT ![u] = Upserted(u, in)] /\ UNCHANGED reports
  BY <1>4, <1>6 DEF Upsert, boomfi
<1>8. <<in.status, in.plan, in.cycle>> \in Views(u)  BY <1>3, <1>5, <1>6 DEF Views, About
<1>9. View!Show(u)  BY <1>1, <1>7, <1>8, ShownAfter, SaidSame DEF View!Show, Views
<1> QED  BY <1>9

\* A change at BoomFi is Say of the view.
LEMMA BoomFiSays ==
  ASSUME TypeOK, TypeOK', NEW u \in Users, BoomFi(u)
  PROVE  View!Say(u)
<1>1. PICK ms \in Seq(Message) :
        Tell(ms) /\ \A m \in Range(ms) : m.sub[1] = u /\ m.form \in SubForms \cup PayForms
  BY BoomFiTells
<1>2. /\ \A i \in DOMAIN reports : i \in DOMAIN reports' /\ reports'[i] = reports[i]
      /\ \A i \in DOMAIN reports' : i \in DOMAIN reports \/ reports'[i] \in Range(ms)
  BY <1>1, TellAppends
<1>3. \A v \in Users : Views(v) \subseteq Views(v)'  BY <1>2 DEF Views, About, Said
<1>4. \A v \in Users \ {u} : Views(v)' = Views(v)  BY <1>1, <1>2 DEF Views, About, Said
<1>5. \A v \in Users : Views(v)' \subseteq View!Views
  <2> SUFFICES ASSUME NEW v \in Users, NEW i \in About(v)'
               PROVE  <<Said(i)', reports'[i].plan, reports'[i].cycle>> \in View!Views
    BY DEF Views
  <2>1. PICK m \in Message : m = reports'[i]  BY DEF TypeOK, About
  <2>2. Normalised(m.status) \in Statuses /\ m.plan \in Plans /\ m.cycle \in Cycles
    BY NormalisedStatus DEF Message
  <2> QED  BY <2>1, <2>2 DEF Said, View!Views
<1>6. UNCHANGED row  BY <1>1 DEF Tell
<1> DEFINE saidNow == [v \in Users |-> Views(v)]
<1>7. saidNow' = [saidNow EXCEPT ![u] = @ \cup saidNow'[u]]  BY <1>3, <1>4
<1>8. saidNow'[u] \in SUBSET View!Views  BY <1>5
<1> QED  BY <1>6, <1>7, <1>8 DEF View!Say, Views

\* Every step is a step of the view or leaves it.
LEMMA NextView ==
  ASSUME AllStated
  PROVE  Inv /\ Inv' /\ Whole /\ [Next]_vars => [View!Next]_View!vars
<1> SUFFICES ASSUME Inv, Inv', Whole, [Next]_vars
             PROVE  View!Next \/ UNCHANGED View!vars
  OBVIOUS
<1>0. TypeOK /\ TypeOK'  BY DEF Inv
<1>1. ASSUME UNCHANGED <<row, reports>>
      PROVE  UNCHANGED View!vars
  BY <1>1, SaidSame DEF View!vars, Views
<1>2. ASSUME NEW u \in Users, NEW p \in Plans, NEW c \in Cycles, Checkout(u, p, c)
      PROVE  View!Next
  BY <1>0, <1>2, CheckoutChooses DEF View!Next
<1>3. ASSUME NEW u \in Users, BoomFi(u)
      PROVE  View!Next
  BY <1>0, <1>3, BoomFiSays DEF View!Next
<1>4. ASSUME NEW w \in Workers, Upsert(w)
      PROVE  View!Next
  BY <1>4, UpsertShows DEF View!Next
<1>5. ASSUME NEW i \in Sendable, Refuse(i) \/ \E w \in Workers : Receive(w, i)
      PROVE  UNCHANGED View!vars
  BY <1>1, <1>5 DEF Refuse, Receive, backend, boomfi
<1>6. ASSUME NEW w \in Workers, \/ FindByCustomer(w) \/ FindBySub(w)
                                \/ ReadPlan(w) \/ ReadCycle(w) \/ Fail(w)
      PROVE  UNCHANGED View!vars
  BY <1>1, <1>6 DEF FindByCustomer, FindBySub, Lookup, ReadPlan, ReadCycle, Fail, boomfi
<1>7. CASE UNCHANGED vars
  BY <1>1, <1>7 DEF vars
<1> HIDE DEF Inv, Whole
<1> QED  BY <1>2, <1>3, <1>4, <1>5, <1>6, <1>7 DEF Next, BoomFi, Handle

\* When every report states its plan and cycle, a row shows a checkout that
\* awaits payment or one report whole, however deliveries are ordered,
\* repeated or lost: Subscription implements BillingView (the upsert of
\* process_boomfi_webhook, against create_checkout_session).
THEOREM ShowsOneReportWhole ==
  ASSUME AllStated
  PROVE  Spec => ShowsOneReport
<1>1. Init => Whole  BY DEF Init, Whole, Busy, Idle
<1>2. Inv /\ Whole /\ [Next]_vars => Whole'  BY NextWhole
<1>3. Init => View!Init  BY ViewInit
<1>4. Inv /\ Inv' /\ Whole /\ [Next]_vars => [View!Next]_View!vars  BY NextView
<1> QED  BY <1>1, <1>2, <1>3, <1>4, SubscriptionInductive, PTL DEF Spec, ShowsOneReport, View!Spec

-----------------------------------------------------------------------------
(* The row shows the latest report *)

\* BoomFi sends a report only once the one before it is answered, none gets too old to be
\* accepted, and each echoes the reference the paylink was given.
SentInTurn ==
  InOrder /\ MaxReports <= Tolerance /\ \A f \in SubForms \cup PayForms : f.ref

First(i) == i \in open /\ \A k \in open : i <= k

\* A handler of the first report not answered, that holds what it states.
OnFirst(j) ==
  /\ First(j.i) /\ j.pc \notin {"byCustomer", "bySub"}
  /\ States(reports[j.i]) =>
        j.pc = "upsert" /\ j.plan = reports[j.i].plan /\ j.cycle = reports[j.i].cycle

\* What is answered came before what is not, and one handler at a time is at work.
Turn ==
  /\ \A i \in DOMAIN reports : reports[i].form \in SubForms \cup PayForms
  /\ \A i \in DOMAIN reports, k \in open : k <= i => i \in open
  /\ \A v, w \in Workers : Busy(v) /\ Busy(w) => v = w
  /\ \A w \in Workers : Busy(w) => OnFirst(job[w])

\* The row of u shows what report i says.
Shows(u, i) ==
  /\ HasRow(u) /\ row[u].status = Said(i) /\ row[u].cancel = reports[i].cancel
  /\ States(reports[i]) => <<row[u].plan, row[u].cycle>> = <<reports[i].plan, reports[i].cycle>>

\* The row of u is the checkout's, started when all that is answered now had been.
CheckedOut(u) ==
  HasRow(u) /\ row[u].status = "checkout_pending" /\ Answered(u) \subseteq seen[u]

\* The report to show is the last one answered, or the first that is not when it was
\* written already and its answer was lost.
Newest(u, i) == i \in About(u) /\ (i \notin open \/ First(i)) /\ \A k \in Answered(u) : k <= i

\* Each row shows that report, unless its user has started a checkout since.
UpToDate ==
  \A u \in Users : \/ CheckedOut(u) \/ Answered(u) = {}
                   \/ \E i \in About(u) : Shows(u, i) /\ Newest(u, i)

\* New reports are open, and come after all others.
LEMMA TellOpens ==
  ASSUME TypeOK, NEW ms \in Seq(Message), Tell(ms)
  PROVE  /\ open' = open \cup (DOMAIN reports' \ DOMAIN reports)
         /\ \A i \in DOMAIN reports' \ DOMAIN reports, k \in DOMAIN reports : k < i
<1>1. reports \in Seq(Message) /\ reports' = reports \o ms  BY DEF TypeOK, Tell
<1>2. Len(reports') = Len(reports) + Len(ms) /\ reports' \in Seq(Message)
  BY <1>1, ConcatProperties
<1>3. PICK n \in Nat : n = Len(reports)  BY <1>1, LenProperties
<1>4. PICK k \in Nat : k = Len(ms)  BY LenProperties
<1>5. DOMAIN reports = 1 .. n /\ DOMAIN reports' = 1 .. n + k
  BY <1>1, <1>2, <1>3, <1>4, LenProperties
<1>6. open' = open \cup (n + 1 .. n + k)  BY <1>3, <1>4 DEF Tell
<1>7. (1 .. n + k) \ (1 .. n) = n + 1 .. n + k  OBVIOUS
<1>8. \A i \in n + 1 .. n + k, j \in 1 .. n : j < i  OBVIOUS
<1> QED  BY <1>5, <1>6, <1>7, <1>8

\* A report that echoes the reference needs no lookup, and no read of what it states.
LEMMA ResolvedInTurn ==
  ASSUME TypeOK, NEW i \in DOMAIN reports, NEW u \in Users
  PROVE  /\ Resolved(i, u) # Idle /\ Resolved(i, u).i = i
         /\ Resolved(i, u).pc \in {"readPlan", "readCycle", "upsert"}
         /\ States(reports[i]) => /\ Resolved(i, u).pc = "upsert"
                                  /\ Resolved(i, u).plan = reports[i].plan
                                  /\ Resolved(i, u).cycle = reports[i].cycle
<1>1. PICK m \in Message : m = reports[i]  BY DEF TypeOK
<1>2. /\ Resolved(i, u).i = i
      /\ Resolved(i, u).pc \in {"readPlan", "readCycle", "upsert"}
  BY ResolvedJob
<1>3. Resolved(i, u) # Idle  BY <1>2 DEF Idle
<1>4. ASSUME States(m)
      PROVE  /\ Resolved(i, u).pc = "upsert"
             /\ Resolved(i, u).plan = m.plan /\ Resolved(i, u).cycle = m.cycle
  <2>1. StatedPlan(m) = m.plan /\ StatedCycle(m) = m.cycle
    BY <1>4 DEF States, StatedPlan, StatedCycle
  <2>2. m.plan # None /\ m.cycle # None  BY NoneApart DEF Message
  <2>3. AfterResolve(m.plan, m.cycle) = "upsert"  BY <2>2 DEF AfterResolve
  <2> QED  BY <1>1, <2>1, <2>3 DEF Resolved
<1> QED  BY <1>1, <1>2, <1>3, <1>4

\* A step of one handler, which stays with the first open report or ends.
LEMMA TurnJob ==
  ASSUME Turn, TypeOK, NEW w \in Workers, NEW j, job' = [job EXCEPT ![w] = j],
         UNCHANGED <<reports, open>>,
         j = Idle \/ \A v \in Workers : Busy(v) => v = w,
         j # Idle => OnFirst(j)
  PROVE  Turn'
<1>1. job'[w] = j /\ \A v \in Workers \ {w} : job'[v] = job[v]  BY DEF TypeOK
<1>2. \A v \in Workers : Busy(v)' => (v = w /\ j # Idle) \/ (v # w /\ Busy(v))  BY <1>1 DEF Busy
<1>3. ASSUME NEW k, OnFirst(k) PROVE OnFirst(k)'
  BY <1>3 DEF OnFirst, First
<1>4. ASSUME NEW v \in Workers, Busy(v)' PROVE OnFirst(job[v])'
  <2>1. PICK k : k = job'[v]  OBVIOUS
  <2>2. OnFirst(k)
    <3>1. CASE v = w  BY <1>1, <1>2, <1>4, <2>1, <3>1
    <3>2. CASE v # w  BY <1>1, <1>2, <1>4, <2>1, <3>2 DEF Turn
    <3> QED  BY <3>1, <3>2
  <2>3. OnFirst(k)'  BY <1>3, <2>2
  <2> QED  BY <2>1, <2>3 DEF OnFirst, First
<1>5. \A u, v \in Workers : Busy(u)' /\ Busy(v)' => u = v  BY <1>2 DEF Turn
<1> QED  BY <1>4, <1>5 DEF Turn

\* A step that writes no row and makes or answers no report leaves what is shown.
LEMMA ShownSame ==
  ASSUME UpToDate, UNCHANGED <<row, reports, open, seen>>
  PROVE  UpToDate'
<1>1. \A u \in Users : /\ About(u)' = About(u) /\ Answered(u)' = Answered(u)
                       /\ CheckedOut(u)' = CheckedOut(u)
  BY DEF About, Answered, CheckedOut, HasRow
<1>2. \A u \in Users : \A i : (Shows(u, i)' <=> Shows(u, i)) /\ (Newest(u, i)' <=> Newest(u, i))
  BY <1>1 DEF Shows, HasRow, Said, Newest, First
<1> QED  BY <1>1, <1>2 DEF UpToDate

\* What BoomFi reports is open, and after what is shown.
LEMMA TurnTold ==
  ASSUME SentInTurn, Inv, Turn, UpToDate, NEW u \in Users, BoomFi(u)
  PROVE  Turn' /\ UpToDate'
<1>0. TypeOK  BY DEF Inv
<1>1. PICK ms \in Seq(Message) :
        Tell(ms) /\ \A m \in Range(ms) : m.sub[1] = u /\ m.form \in SubForms \cup PayForms
  BY <1>0, BoomFiTells
<1>2. /\ \A i \in DOMAIN reports : i \in DOMAIN reports' /\ reports'[i] = reports[i]
      /\ \A i \in DOMAIN reports' : i \in DOMAIN reports \/ reports'[i] \in Range(ms)
  BY <1>0, <1>1, TellAppends
<1>3. /\ open' = open \cup (DOMAIN reports' \ DOMAIN reports)
      /\ \A i \in DOMAIN reports' \ DOMAIN reports, k \in DOMAIN reports : k < i
  BY <1>0, <1>1, TellOpens
<1>4. UNCHANGED <<row, job, seen>>  BY <1>1 DEF Tell
<1>5. open \subseteq DOMAIN reports /\ DOMAIN reports \subseteq Nat /\ DOMAIN reports' \subseteq Nat
  BY <1>0, <1>1, TellAppends DEF TypeOK
<1>6. ASSUME NEW i, First(i) PROVE First(i)'
  <2>1. i \in DOMAIN reports /\ i \in open'  BY <1>3, <1>5, <1>6 DEF First
  <2>2. ASSUME NEW k \in open' PROVE i <= k
    <3>1. CASE k \in open  BY <1>6, <3>1 DEF First
    <3>2. CASE k \notin open
      <4>1. i < k /\ i \in Nat /\ k \in Nat  BY <1>3, <1>5, <2>1, <3>2
      <4> QED  BY <4>1
    <3> QED  BY <3>1, <3>2
  <2> QED  BY <2>1, <2>2 DEF First
<1>7. Turn'
  <2>1. \A i \in DOMAIN reports' : reports'[i].form \in SubForms \cup PayForms
    BY <1>1, <1>2 DEF Turn
  <2>2. ASSUME NEW i \in DOMAIN reports', NEW k \in open', k <= i PROVE i \in open'
    <3>1. CASE i \notin DOMAIN reports  BY <1>3, <3>1
    <3>2. CASE i \in DOMAIN reports
      <4>1. k \in open
        <5>1. k \notin open => i < k /\ k \in Nat /\ i \in Nat  BY <1>3, <1>5, <3>2
        <5> QED  BY <2>2, <5>1
      <4> QED  BY <1>3, <2>2, <3>2, <4>1 DEF Turn
    <3> QED  BY <3>1, <3>2
  <2>3. \A w \in Workers : Busy(w) => job[w].i \in DOMAIN reports
    BY <1>0 DEF TypeOK, Job, Busy
  <2>4. ASSUME NEW w \in Workers, Busy(w)' PROVE OnFirst(job[w])'
    <3>1. PICK k : k = job[w] /\ k = job'[w] /\ Busy(w)  BY <1>4, <2>4 DEF Busy
    <3>2. reports'[k.i] = reports[k.i]  BY <1>2, <2>3, <3>1
    <3>3. OnFirst(k)  BY <3>1 DEF Turn
    <3>4. First(k.i)'  BY <1>6, <3>3 DEF OnFirst
    <3>5. OnFirst(k)'  BY <3>2, <3>3, <3>4 DEF OnFirst
    <3> QED  BY <3>1, <3>5 DEF OnFirst, First
  <2>5. \A v, w \in Workers : Busy(v)' /\ Busy(w)' => v = w  BY <1>4 DEF Turn, Busy
  <2> QED  BY <2>1, <2>2, <2>4, <2>5 DEF Turn
<1>8. ASSUME NEW v \in Users
      PROVE  \/ CheckedOut(v)' \/ Answered(v)' = {}
             \/ \E i \in About(v)' : Shows(v, i)' /\ Newest(v, i)'
  <2>1. Answered(v)' = Answered(v)  BY <1>2, <1>3, <1>5 DEF Answered, About
  <2>2. CheckedOut(v)' = CheckedOut(v)  BY <1>4, <2>1 DEF CheckedOut, HasRow
  <2>3. ASSUME NEW i \in About(v), Shows(v, i), Newest(v, i)
        PROVE  i \in About(v)' /\ Shows(v, i)' /\ Newest(v, i)'
    <3>1. i \in DOMAIN reports /\ reports'[i] = reports[i] /\ i \in About(v)'
      BY <1>2, <2>3 DEF About
    <3>2. Shows(v, i)'  BY <1>4, <2>3, <3>1 DEF Shows, HasRow, Said
    <3>3. i \notin open => i \notin open'  BY <1>3, <3>1
    <3> QED  BY <1>6, <2>1, <2>3, <3>1, <3>2, <3>3 DEF Newest
  <2> QED  BY <2>1, <2>2, <2>3 DEF UpToDate
<1> QED  BY <1>7, <1>8 DEF UpToDate

\* A checkout awaits its payment, and leaves the other rows.
LEMMA TurnCheckout ==
  ASSUME Inv, Turn, UpToDate, NEW u \in Users, NEW p \in Plans, NEW c \in Cycles, Checkout(u, p, c)
  PROVE  Turn' /\ UpToDate'
<1>1. TypeOK  BY DEF Inv
<1>2. UNCHANGED <<job, reports, open>>  BY DEF Checkout
<1>3. Turn'  BY <1>2 DEF Turn, OnFirst, First, Busy
<1>4. PICK in \in Row : in = Pending(p, c) /\ in.status = "checkout_pending"  BY PendingRow
<1>5. row' = [row EXCEPT ![u] = Upserted(u, in)]  BY <1>4 DEF Checkout
<1>6. PICK r \in Row : r = Upserted(u, in)  BY <1>1, UpsertedRow DEF TypeOK
<1>7. r.status = "checkout_pending" /\ r # NoRow
  BY <1>1, <1>4, <1>6, UpsertedFields, RowApart DEF TypeOK
<1>8. row'[u] = r /\ \A v \in Users \ {u} : row'[v] = row[v]  BY <1>1, <1>5, <1>6 DEF TypeOK
<1>9. CheckedOut(u)'
  <2>1. Answered(u)' = Answered(u)  BY <1>2 DEF Answered, About
  <2>2. seen'[u] = Answered(u)  BY <1>1 DEF TypeOK, Checkout
  <2> QED  BY <1>7, <1>8, <2>1, <2>2 DEF CheckedOut, HasRow
<1>10. ASSUME NEW v \in Users \ {u}
       PROVE  \/ CheckedOut(v)' \/ Answered(v)' = {}
              \/ \E i \in About(v)' : Shows(v, i)' /\ Newest(v, i)'
  <2>0. Answered(v)' = Answered(v) /\ About(v)' = About(v)  BY <1>2 DEF Answered, About
  <2>1. CheckedOut(v)' = CheckedOut(v)
    <3>1. seen'[v] = seen[v]  BY <1>1 DEF TypeOK, Checkout
    <3> QED  BY <1>8, <2>0, <3>1 DEF CheckedOut, HasRow
  <2>2. \A i : (Shows(v, i)' <=> Shows(v, i)) /\ (Newest(v, i)' <=> Newest(v, i))
    BY <1>2, <1>8, <2>0 DEF Shows, HasRow, Said, Newest, First
  <2> QED  BY <2>0, <2>1, <2>2 DEF UpToDate
<1> QED  BY <1>3, <1>9, <1>10 DEF UpToDate

\* The first open report is received when no handler is at work; the reference it echoes
\* names its user.
LEMMA TurnReceive ==
  ASSUME SentInTurn, Inv, Turn, UpToDate, NEW w \in Workers, NEW i \in Sendable, Receive(w, i)
  PROVE  Turn' /\ UpToDate'
<1>1. TypeOK  BY DEF Inv
<1>2. First(i) /\ \A v \in Workers : ~Busy(v)  BY DEF SentInTurn, Sendable, First
<1>3. i \in DOMAIN reports  BY <1>1, <1>2 DEF First, TypeOK
<1>4. PICK m \in Message : m = reports[i]  BY <1>1, <1>3 DEF TypeOK
<1>5. m.form.ref /\ m.sub[1] \in Users
  <2>1. m.form \in SubForms \cup PayForms  BY <1>3, <1>4 DEF Turn
  <2> QED  BY <2>1 DEF SentInTurn, Message, SubIds
<1>6. PICK j : j = Resolved(i, m.sub[1])  OBVIOUS
<1>7. /\ j # Idle /\ j.i = i /\ j.pc \in {"readPlan", "readCycle", "upsert"}
      /\ States(m) => j.pc = "upsert" /\ j.plan = m.plan /\ j.cycle = m.cycle
  BY <1>1, <1>3, <1>4, <1>5, <1>6, ResolvedInTurn
<1>8. job' = [job EXCEPT ![w] = j] /\ UNCHANGED <<row, reports, open, seen>>
  BY <1>4, <1>5, <1>6, <1>7 DEF Receive, boomfi
<1>9. OnFirst(j)  BY <1>2, <1>4, <1>7 DEF OnFirst
<1>10. Turn'  BY <1>1, <1>2, <1>8, <1>9, TurnJob
<1> QED  BY <1>8, <1>10, ShownSame

\* A handler reads what its report does not state.
LEMMA TurnRead ==
  ASSUME Inv, Turn, UpToDate, NEW w \in Workers, ReadPlan(w) \/ ReadCycle(w)
  PROVE  Turn' /\ UpToDate'
<1>1. TypeOK  BY DEF Inv
<1>2. job[w].pc \in {"readPlan", "readCycle"} /\ job[w] \in Job /\ Busy(w)
  BY <1>1, BusyJob DEF ReadPlan, ReadCycle
<1>3. PICK k \in Job : k = job[w]  BY <1>2
<1>4. OnFirst(k) /\ \A v \in Workers : Busy(v) => v = w  BY <1>2, <1>3 DEF Turn
<1>5. UNCHANGED <<row, reports, open, seen>>  BY DEF ReadPlan, ReadCycle, boomfi
<1>6. ASSUME NEW j, j.i = k.i, j.pc \in {"readPlan", "readCycle", "upsert"},
             job' = [job EXCEPT ![w] = j]
      PROVE  Turn'
  <2>1. ~States(reports[k.i])  BY <1>2, <1>3, <1>4 DEF OnFirst
  <2>2. OnFirst(j)  BY <1>4, <1>6, <2>1 DEF OnFirst
  <2> QED  BY <1>1, <1>4, <1>5, <1>6, <2>2, TurnJob
<1>7. ASSUME ReadPlan(w) PROVE Turn'
  <2>1. PICK p, pc : job' = [job EXCEPT ![w].plan = p, ![w].pc = pc] /\ pc = AfterResolve(p, k.cycle)
    BY <1>3, <1>7 DEF ReadPlan
  <2>2. PICK j : j = [k EXCEPT !.plan = p, !.pc = pc]  OBVIOUS
  <2>3. job' = [job EXCEPT ![w] = j]  BY <1>1, <1>3, <2>1, <2>2 DEF TypeOK
  <2>4. j.i = k.i /\ j.pc = pc  BY <2>2 DEF Job
  <2> QED  BY <1>6, <2>1, <2>3, <2>4 DEF AfterResolve
<1>8. ASSUME ReadCycle(w) PROVE Turn'
  <2>1. PICK c : job' = [job EXCEPT ![w].cycle = c, ![w].pc = "upsert"]
    BY <1>8 DEF ReadCycle
  <2>2. PICK j : j = [k EXCEPT !.cycle = c, !.pc = "upsert"]  OBVIOUS
  <2>3. job' = [job EXCEPT ![w] = j]  BY <1>1, <1>3, <2>1, <2>2 DEF TypeOK
  <2>4. j.i = k.i /\ j.pc = "upsert"  BY <2>2 DEF Job
  <2> QED  BY <1>6, <2>3, <2>4
<1>9. UpToDate'  BY <1>5, ShownSame
<1> QED  BY <1>7, <1>8, <1>9

\* The write shows the first open report, which is answered or comes again.
LEMMA TurnUpsert ==
  ASSUME Inv, Turn, UpToDate, NEW w \in Workers, Upsert(w)
  PROVE  Turn' /\ UpToDate'
<1>1. TypeOK /\ job[w].pc = "upsert"  BY DEF Inv, Upsert
<1>2. PICK i \in DOMAIN reports : i = job[w].i /\ Busy(w)  BY <1>1, BusyJob
<1>3. PICK m \in Message : m = reports[i]  BY <1>1 DEF TypeOK
<1>4. PICK k : k = job[w]  OBVIOUS
<1>5. OnFirst(k) /\ k.i = i /\ \A v \in Workers : Busy(v) => v = w  BY <1>2, <1>4 DEF Turn
<1>6. PICK in \in Row : in = Input(w)  BY <1>1, InputRow
<1>7. in.status = Said(i) /\ in.plan = k.plan /\ in.cycle = k.cycle /\ in.cancel = m.cancel
  BY <1>1, <1>2, <1>3, <1>4, <1>6, InputRow DEF Said
<1>8. PICK u \in Users : u = job[w].user /\ u = m.sub[1]
  <2>1. job[w].user = m.sub[1]  BY <1>1, <1>2, <1>3 DEF Inv, JobsOwn, Looking
  <2>2. m.sub[1] \in Users  BY DEF Message, SubIds
  <2> QED  BY <2>1, <2>2
<1>9. /\ row' = [row EXCEPT ![u] = Upserted(u, in)] /\ UNCHANGED <<reports, seen>>
      /\ job' = [job EXCEPT ![w] = Idle] /\ open' \in {open, open \ {i}}
  BY <1>2, <1>6, <1>8 DEF Upsert, boomfi
<1>10. PICK r \in Row : r = Upserted(u, in)  BY <1>1, UpsertedRow DEF TypeOK
<1>11. /\ r # NoRow /\ r.status = Said(i) /\ r.plan = k.plan /\ r.cycle = k.cycle /\ r.cancel = m.cancel
  BY <1>1, <1>7, <1>10, UpsertedFields, RowApart DEF TypeOK
<1>12. row'[u] = r /\ \A v \in Users \ {u} : row'[v] = row[v]  BY <1>1, <1>9, <1>10 DEF TypeOK
<1>13. First(i) /\ i \in About(u)  BY <1>3, <1>5, <1>8 DEF OnFirst, About
<1>14. DOMAIN reports \subseteq Nat /\ open \subseteq DOMAIN reports  BY <1>1 DEF TypeOK
<1>15. Turn'
  <2>1. \A v \in Workers : ~Busy(v)'
    <3>1. job'[w] = Idle /\ \A v \in Workers \ {w} : job'[v] = job[v]  BY <1>1, <1>9 DEF TypeOK
    <3> QED  BY <1>5, <3>1 DEF Busy
  <2>2. ASSUME NEW n \in DOMAIN reports, NEW l \in open', l <= n PROVE n \in open'
    <3>1. n \in open  BY <1>9, <2>2 DEF Turn
    <3>2. CASE n = i
      <4>1. i <= l /\ l \in Nat /\ i \in Nat  BY <1>9, <1>13, <1>14 DEF First
      <4> QED  BY <2>2, <3>2, <4>1
    <3>3. CASE n # i  BY <1>9, <3>1, <3>3
    <3> QED  BY <3>2, <3>3
  <2> QED  BY <1>9, <2>1, <2>2 DEF Turn
<1>16. Shows(u, i)'
  <2>1. States(m) => k.plan = m.plan /\ k.cycle = m.cycle  BY <1>3, <1>5 DEF OnFirst
  <2> QED  BY <1>3, <1>9, <1>11, <1>12, <2>1 DEF Shows, HasRow, Said
<1>17. About(u)' = About(u) /\ \A v \in Users : About(v)' = About(v)  BY <1>9 DEF About
<1>18. Newest(u, i)'
  <2>1. ASSUME NEW n \in Answered(u)' PROVE n <= i
    <3>1. n \in DOMAIN reports /\ (n \notin open \/ n = i)  BY <1>9, <1>17 DEF Answered, About
    <3>2. n \notin open => ~(i <= n)  BY <1>13, <3>1 DEF Turn, First
    <3> QED  BY <1>14, <3>1, <3>2
  <2>2. i \notin open' \/ First(i)'  BY <1>9, <1>13 DEF First
  <2> QED  BY <1>13, <1>17, <2>1, <2>2 DEF Newest
<1>19. ASSUME NEW v \in Users \ {u}
       PROVE  \/ CheckedOut(v)' \/ Answered(v)' = {}
              \/ \E n \in About(v)' : Shows(v, n)' /\ Newest(v, n)'
  <2>1. i \notin About(v)  BY <1>3, <1>8 DEF About
  <2>2. Answered(v)' = Answered(v) /\ CheckedOut(v)' = CheckedOut(v)
    BY <1>9, <1>12, <1>17, <2>1 DEF Answered, CheckedOut, HasRow
  <2>3. ASSUME NEW n \in About(v), Shows(v, n), Newest(v, n) PROVE Shows(v, n)' /\ Newest(v, n)'
    <3>1. Shows(v, n)'  BY <1>9, <1>12, <2>3 DEF Shows, HasRow, Said
    <3>2. n \notin open
      <4>1. SUFFICES ASSUME First(n) PROVE FALSE  BY <2>3 DEF Newest
      <4>2. n <= i /\ i <= n /\ n \in Nat /\ i \in Nat  BY <1>13, <1>14, <4>1 DEF First
      <4> QED  BY <2>1, <4>2
    <3>3. n \notin open'  BY <1>9, <3>2
    <3> QED  BY <1>17, <2>2, <2>3, <3>1, <3>3 DEF Newest
  <2> QED  BY <1>17, <2>2, <2>3 DEF UpToDate
<1>20. \E n \in About(u)' : Shows(u, n)' /\ Newest(u, n)'  BY <1>13, <1>16, <1>17, <1>18
<1> QED  BY <1>15, <1>19, <1>20 DEF UpToDate

\* Every step keeps the turn, and what is shown.
LEMMA NextTurn ==
  ASSUME SentInTurn
  PROVE  Inv /\ Turn /\ UpToDate /\ [Next]_vars => Turn' /\ UpToDate'
<1> SUFFICES ASSUME Inv, Turn, UpToDate, [Next]_vars PROVE Turn' /\ UpToDate'  OBVIOUS
<1>0. TypeOK  BY DEF Inv
<1>1. ASSUME NEW u \in Users, NEW p \in Plans, NEW c \in Cycles, Checkout(u, p, c)
      PROVE  Turn' /\ UpToDate'
  BY <1>1, TurnCheckout
<1>2. ASSUME NEW u \in Users, BoomFi(u)
      PROVE  Turn' /\ UpToDate'
  BY <1>2, TurnTold
<1>3. ASSUME NEW i \in Sendable, Refuse(i)
      PROVE  FALSE
  <2>1. i \in 1 .. Len(reports) /\ Len(reports) <= MaxReports  BY <1>0 DEF Sendable, TypeOK
  <2>2. Len(reports) \in Nat /\ MaxReports \in Nat /\ Tolerance \in Nat  BY <1>0, BoundsNat DEF TypeOK
  <2>3. Len(reports) - i <= Tolerance  BY <2>1, <2>2 DEF SentInTurn
  <2> QED  BY <1>3, <2>3 DEF Refuse, Fresh
<1>4. ASSUME NEW i \in Sendable, NEW w \in Workers, Receive(w, i)
      PROVE  Turn' /\ UpToDate'
  BY <1>4, TurnReceive
<1>5. ASSUME NEW w \in Workers, FindByCustomer(w) \/ FindBySub(w)
      PROVE  FALSE
  <2>1. Looking(w)  BY <1>5 DEF FindByCustomer, FindBySub, Looking
  <2>2. Busy(w)  BY <1>0, <2>1, BusyJob DEF Looking
  <2> QED  BY <2>1, <2>2 DEF Turn, OnFirst, Looking
<1>6. ASSUME NEW w \in Workers, ReadPlan(w) \/ ReadCycle(w)
      PROVE  Turn' /\ UpToDate'
  BY <1>6, TurnRead
<1>7. ASSUME NEW w \in Workers, Upsert(w)
      PROVE  Turn' /\ UpToDate'
  BY <1>7, TurnUpsert
<1>8. ASSUME NEW w \in Workers, Fail(w)
      PROVE  Turn' /\ UpToDate'
  <2>1. job' = [job EXCEPT ![w] = Idle] /\ UNCHANGED <<row, reports, open, seen>>
    BY <1>8 DEF Fail, boomfi
  <2> HIDE DEF Inv, Turn, UpToDate
  <2> QED  BY <1>0, <1>8, <2>1, TurnJob, ShownSame
<1>9. CASE UNCHANGED vars
  <2>1. UNCHANGED <<row, reports, open, job, seen>>  BY <1>9 DEF vars
  <2>2. Turn'  BY <2>1 DEF Turn, OnFirst, First, Busy
  <2> QED  BY <2>1, <2>2, ShownSame
<1> HIDE DEF Inv, Turn, UpToDate
<1> QED  BY <1>1, <1>2, <1>3, <1>4, <1>5, <1>6, <1>7, <1>8, <1>9 DEF Next, BoomFi, Handle

\* When BoomFi sends its reports in turn, each row comes to show the latest report about its
\* user, whatever fails, is lost and sent again on the way, unless a checkout was started
\* after every one of them had been answered (process_boomfi_webhook).
THEOREM LatestHolds ==
  ASSUME SentInTurn
  PROVE  Spec => []LatestShown
<1>1. Init => Turn /\ UpToDate
  <2> SUFFICES ASSUME Init PROVE Turn /\ UpToDate  OBVIOUS
  <2>1. \A w \in Workers : ~Busy(w)  BY DEF Init, Busy
  <2>2. DOMAIN reports = {} /\ open = {}  BY DEF Init
  <2>3. \A u \in Users : Answered(u) = {}  BY <2>2 DEF Answered, About
  <2> QED  BY <2>1, <2>2, <2>3 DEF Turn, UpToDate
<1>2. Inv /\ Turn /\ UpToDate => LatestShown
  <2> SUFFICES ASSUME Inv, Turn, UpToDate, NEW u \in Users, Settled(u), About(u) # {},
                      ~AwaitsCheckout(u)
               PROVE  Shows(u, Latest(u))
    BY DEF LatestShown, Shows
  <2>1. Answered(u) = About(u)  BY DEF Settled, Answered
  <2>2. PICK i \in About(u) : Shows(u, i) /\ Newest(u, i)
    BY <2>1 DEF UpToDate, CheckedOut, AwaitsCheckout
  <2>3. \A n \in About(u) : n <= i  BY <2>1, <2>2 DEF Newest
  <2>4. About(u) \subseteq Nat  BY DEF Inv, TypeOK, About
  <2>5. \A n \in About(u) : (\A l \in About(u) : l <= n) => n = i
    <3>1. \A n \in About(u) : n \in Nat /\ i \in Nat /\ n <= i  BY <2>3, <2>4
    <3> QED  BY <3>1
  <2>6. Latest(u) = i  BY <2>3, <2>5, Zenon DEF Latest
  <2> QED  BY <2>2, <2>6
<1>3. Inv /\ Turn /\ UpToDate /\ [Next]_vars => Turn' /\ UpToDate'  BY NextTurn
<1> QED  BY <1>1, <1>2, <1>3, SubscriptionInductive, PTL DEF Spec

=============================================================================
