-------------------------------- MODULE Inbox --------------------------------
(***************************************************************************)
(* The notification centre: one list per wallet over five tables, and what    *)
(* of it is read.  An alert has its own read_at; a row of the other tables    *)
(* is read when the wallet has a receipt for it.  A list is a chain of        *)
(* queries, and marking all of it reads the list first: rows arrive, close,   *)
(* are detected again and are marked in between.                            *)
(***************************************************************************)
EXTENDS Integers, FiniteSets, FiniteSetsExt, Sequences

CONSTANTS
    None,
    Wallets,      \* EVM addresses; a Solana address is refused before anything is read
    Spellings,    \* other spellings of addresses, under which approval alerts may be stored
    Registered,   \* those with a row of wallets
    Workers,      \* requests, at most one each at a time
    FirstItems,   \* the rows at the start
    Arrivals,     \* what may still arrive: [type, owner]
    Limits,       \* lengths of list a caller may ask for
    AllLimit,     \* the length of list that mark_all_read reads
    MaxItems,     \* bound: rows, and threats detected again
    MaxRequests,  \* bound: requests
    MaxFaults     \* bound: failed statements and restarts

ASSUME WalletsAssumption ==
    Registered \subseteq Wallets /\ None \notin Wallets \cup Spellings /\ Wallets \cap Spellings = {}
ASSUME LimitAssumption == AllLimit \in Nat \ {0} /\ Limits \subseteq Nat \ {0}

VARIABLES
    items,     \* the rows of the five tables, by the time they are listed under: a
               \* threat detected again leaves its place for the last one
    receipts,  \* notification_read_receipts: <<wallet, type, row>>
    readAt,    \* the alerts whose read_at is set; an alert keeps its place
    request,   \* the request of each worker
    asked,     \* who asked to mark what: <<wallet, row>>, row 0 for everything
    requests, faults

vars == <<items, receipts, readAt, request, asked, requests, faults>>

\* The tables in the order they are read; the three in the middle need the wallet's id.
Types == <<"broadcast", "alert", "activity", "threat", "approval_alert">>
TypeSet == {Types[k] : k \in DOMAIN Types}

\* Broadcasts belong to all, each other row to a wallet: the three by the wallet's id,
\* an approval alert by the address as the client wrote it.
Rows == {i \in [type : TypeSet, owner : Wallets \cup Spellings \cup {None}, on : BOOLEAN, id : Nat] :
            /\ i.owner = None <=> i.type = "broadcast"
            /\ i.type \in {"alert", "activity", "threat"} => i.owner \in Registered}

\* A row is named by the place it first had.
Row(type, owner, id) == [type |-> type, owner |-> owner, on |-> TRUE, id |-> id]

ASSUME ItemsAssumption ==
    /\ FirstItems \in Seq(Rows) /\ \A i \in DOMAIN FirstItems : FirstItems[i].id = i
    /\ \A a \in Arrivals : Row(a.type, a.owner, 1) \in Rows

-----------------------------------------------------------------------------
\* An item is on while a broadcast's window is open or a threat is open, in the last
\* place a threat was given; the others are always on.  An approval alert is looked
\* for under the canonical address: one stored in another spelling is nobody's.
OfWallet(u, i) == items[i].owner = None \/ items[i].owner = u
Visible(u) == {i \in DOMAIN items : items[i].on /\ OfWallet(u, i)}
Table(u, type) == {i \in Visible(u) : items[i].type = type}

\* Mutation of Newest: the limit takes the oldest.
Oldest(S, limit) == {i \in S : Cardinality({j \in S : j < i}) < limit}

\* ORDER BY created_at or, of threats, detected_at DESC LIMIT; the same of the merged list.
Newest(S, limit) == {i \in S : Cardinality({j \in S : j > i}) < limit}

IsRead(u, i) == \/ <<u, items[i].type, items[i].id>> \in receipts
                \/ items[i].type = "alert" /\ i \in readAt

Same(i, j) == items[i].id = items[j].id

\* The read items of a wallet, hidden ones included.
ReadItems(u) == {i \in DOMAIN items : OfWallet(u, i) /\ IsRead(u, i)}

-----------------------------------------------------------------------------
(* Rows that appear, and rows that are shown no longer or only now.          *)

Arrive(type, owner) ==
    /\ Len(items) < MaxItems /\ [type |-> type, owner |-> owner] \in Arrivals
    /\ items' = Append(items, Row(type, owner, Len(items) + 1))
    /\ UNCHANGED <<receipts, readAt, request, asked, requests, faults>>

\* A threat is closed, or a broadcast expires; each happens once in the model.
Close(i) ==
    /\ items[i].on /\ items[i].type \in {"threat", "broadcast"}
    /\ items' = [items EXCEPT ![i].on = FALSE]
    /\ UNCHANGED <<receipts, readAt, request, asked, requests, faults>>

\* upsert_open_threat_for_campaign: an open threat is found again, detected_at is now.
Redetect(i) ==
    /\ Len(items) < MaxItems /\ items[i].on /\ items[i].type = "threat"
    /\ items' = Append([items EXCEPT ![i].on = FALSE], Row("threat", items[i].owner, items[i].id))
    /\ UNCHANGED <<receipts, readAt, request, asked, requests, faults>>

-----------------------------------------------------------------------------
Count == requests < MaxRequests /\ requests' = requests + 1
Fault == faults < MaxFaults /\ faults' = faults + 1
At(w, pc) == request[w] # None /\ request[w].pc = pc
Continue(w, r) == request' = [request EXCEPT ![w] = r]
Stop(w) == request' = [request EXCEPT ![w] = None]

Begin(w, kind, u, limit) ==
    /\ request[w] = None /\ Count
    /\ limit \in (IF kind = "all" THEN {AllLimit} ELSE Limits)
    /\ Continue(w, [kind |-> kind, wallet |-> u, limit |-> limit, pc |-> "receipts",
                    receipts |-> {}, page |-> {}, unread |-> {}, left |-> {}, missed |-> FALSE,
                    visible |-> Visible(u), read |-> ReadItems(u)])
    /\ asked' = (IF kind = "all" THEN asked \cup {<<u, 0>>} ELSE asked)
    /\ UNCHANGED <<items, receipts, readAt, faults>>

\* list_read_source_ids: without it the request fails.
ReadReceipts(w) ==
    LET r == request[w]
        mine == {x \in TypeSet \X DOMAIN items : <<r.wallet, x[1], x[2]>> \in receipts}
    IN  /\ At(w, "receipts")
        /\ \/ Continue(w, [r EXCEPT !.receipts = mine, !.pc = "broadcast"]) /\ UNCHANGED faults
           \/ Fault /\ Stop(w)
        /\ UNCHANGED <<items, receipts, readAt, asked, requests>>

\* What follows the query of a table: a wallet without a row has two of them.
NextPc(r) ==
    IF r.pc = "broadcast" THEN "wallet"
    ELSE IF r.pc = "wallet" /\ r.wallet \in Registered THEN "alert"
    ELSE IF r.pc = "alert" THEN "activity"
    ELSE IF r.pc = "activity" THEN "threat"
    ELSE IF r.pc \in {"wallet", "threat"} THEN "approval_alert"
    ELSE IF r.kind = "all" THEN "lookup" ELSE "done"

\* get_wallet_by_address: a failure is taken for a wallet without a row.
FindWallet(w) ==
    LET r == request[w]
    IN  /\ At(w, "wallet")
        /\ \/ Continue(w, [r EXCEPT !.pc = NextPc(r)]) /\ UNCHANGED faults
           \/ Fault /\ Continue(w, [r EXCEPT !.pc = "approval_alert", !.missed = TRUE])
        /\ UNCHANGED <<items, receipts, readAt, asked, requests>>

\* Mutation of ShownRead: only the receipts count.
ReceiptOnly(r, i) == <<items[i].type, items[i].id>> \in r.receipts

\* The receipts are those read at the start, read_at is the row's own.
ShownRead(r, i) == \/ <<items[i].type, items[i].id>> \in r.receipts
                   \/ items[i].type = "alert" /\ i \in readAt

\* Mutation of ToMark: a threat stays unread as long as it is open.
NoThreats(unread) == {i \in unread : items[i].type \notin {"alert", "threat"}}

\* What mark_all_read marks row by row.
ToMark(unread) == {i \in unread : items[i].type # "alert"}

\* Sort, truncate, and count the unread; before the last table nothing is cut.
Merge(r) ==
    LET page   == Newest(r.page, r.limit)
        unread == r.unread \cap page
    IN  IF r.pc # "approval_alert" THEN r
        ELSE [r EXCEPT !.page = page, !.unread = unread, !.receipts = {},
                       !.left = IF r.kind = "all" THEN ToMark(unread) ELSE {}]

\* One table; a failure leaves it out.
ReadTable(w) ==
    LET r    == request[w]
        rows == Newest(Table(r.wallet, r.pc), r.limit)
        full == [r EXCEPT !.page = @ \cup rows,
                          !.unread = @ \cup {i \in rows : ~ShownRead(r, i)}]
        next(s) == [Merge(s) EXCEPT !.pc = NextPc(r)]
    IN  /\ r # None /\ r.pc \in TypeSet
        /\ \/ Continue(w, next(full)) /\ UNCHANGED faults
           \/ Fault /\ Continue(w, next([r EXCEPT !.missed = TRUE]))
        /\ UNCHANGED <<items, receipts, readAt, asked, requests>>

-----------------------------------------------------------------------------
(* Marking.  Of a wallet's alerts all become read, listed or not.            *)

\* mark_all_read looks the wallet up again: without a row it ends here.
LookupAgain(w) ==
    LET r == request[w]
    IN  /\ At(w, "lookup")
        /\ IF r.wallet \in Registered
           THEN \/ Continue(w, [r EXCEPT !.pc = "alerts"]) /\ UNCHANGED faults
                \/ Fault /\ Stop(w)
           ELSE Stop(w) /\ UNCHANGED faults
        /\ UNCHANGED <<items, receipts, readAt, asked, requests>>

\* Mutation of AlertsOf: the statement does not ask whose they are.
AllAlerts(u) == {i \in DOMAIN items : items[i].type = "alert"}

\* WHERE wallet_id = $1
AlertsOf(u) == {i \in DOMAIN items : items[i].type = "alert" /\ items[i].owner = u}

MarkAlerts(w) ==
    LET r == request[w]
    IN  /\ At(w, "alerts")
        /\ \/ readAt' = readAt \cup AlertsOf(r.wallet)
              /\ Continue(w, [r EXCEPT !.pc = "marks"]) /\ UNCHANGED faults
           \/ Fault /\ Stop(w) /\ UNCHANGED readAt
        /\ UNCHANGED <<items, receipts, asked, requests>>

\* mark_sources_read: a statement for each row, the newest first; one that fails
\* ends the request and leaves what was marked.
MarkNext(w) ==
    LET r == request[w]
        i == Max(r.left)
    IN  /\ At(w, "marks") /\ r.left # {}
        /\ \/ receipts' = receipts \cup {<<r.wallet, items[i].type, items[i].id>>}
              /\ Continue(w, [r EXCEPT !.left = @ \ {i}]) /\ UNCHANGED faults
           \/ Fault /\ Stop(w) /\ UNCHANGED receipts
        /\ UNCHANGED <<items, readAt, asked, requests>>

MarkDone(w) ==
    /\ At(w, "marks") /\ request[w].left = {}
    /\ Continue(w, [request[w] EXCEPT !.pc = "done"])
    /\ UNCHANGED <<items, receipts, readAt, asked, requests, faults>>

Reply(w) ==
    /\ At(w, "done") /\ Stop(w)
    /\ UNCHANGED <<items, receipts, readAt, asked, requests, faults>>

\* mark_read: an alert must be the wallet's own.  Of any other type the row is not
\* looked up, the pair is stored as it was sent.
MarkRead(u, type, i) ==
    /\ Count /\ asked' = asked \cup {<<u, i>>}
    /\ IF type = "alert"
       THEN /\ readAt' = (IF u \in Registered THEN readAt \cup ({i} \cap AlertsOf(u)) ELSE readAt)
            /\ UNCHANGED receipts
       ELSE receipts' = receipts \cup {<<u, type, i>>} /\ UNCHANGED readAt
    /\ UNCHANGED <<items, request, faults>>

\* mark_all_alerts_read of the dashboard: the alerts only.
DashboardMarkAll(u) ==
    /\ Count /\ u \in Registered
    /\ asked' = asked \cup {<<u, 0>>} /\ readAt' = readAt \cup AlertsOf(u)
    /\ UNCHANGED <<items, receipts, request, faults>>

\* The process stops: requests are lost between two statements.
Restart ==
    /\ Fault /\ request' = [w \in Workers |-> None]
    /\ UNCHANGED <<items, receipts, readAt, asked, requests>>

-----------------------------------------------------------------------------
Init ==
    /\ items = FirstItems
    /\ receipts = {} /\ readAt = {} /\ asked = {}
    /\ request = [w \in Workers |-> None]
    /\ requests = 0 /\ faults = 0

Step(w) == ReadReceipts(w) \/ FindWallet(w) \/ ReadTable(w) \/ LookupAgain(w)
           \/ MarkAlerts(w) \/ MarkNext(w) \/ MarkDone(w) \/ Reply(w)

Next ==
    \/ \E a \in Arrivals : Arrive(a.type, a.owner)
    \/ \E i \in DOMAIN items : Close(i) \/ Redetect(i)
    \/ \E w \in Workers, kind \in {"list", "all"}, u \in Wallets, limit \in Limits \cup {AllLimit} :
          Begin(w, kind, u, limit)
    \/ \E w \in Workers : Step(w)
    \/ \E u \in Wallets, type \in TypeSet, i \in DOMAIN items : MarkRead(u, type, i)
    \/ \E u \in Wallets : DashboardMarkAll(u)
    \/ Restart

Spec == Init /\ [][Next]_vars

-----------------------------------------------------------------------------
(* Properties.                                                             *)

Pcs == TypeSet \cup {"receipts", "wallet", "lookup", "alerts", "marks", "done"}

Requests == [kind : {"list", "all"}, wallet : Wallets, limit : Limits \cup {AllLimit}, pc : Pcs,
             receipts : SUBSET (TypeSet \X Nat), page : SUBSET Nat, unread : SUBSET Nat,
             left : SUBSET Nat, missed : BOOLEAN, visible : SUBSET Nat, read : SUBSET Nat]

\* Type invariant: rows and requests hold what the tables and the code's types let them.
TypeOK ==
    items \in Seq(Rows) /\ request \in [Workers -> Requests \cup {None}]

\* A mark-all that answers well leaves read every row the wallet saw when it began and
\* still sees, at whatever place, if its rows all fit on the list, and each of its alerts
\* that were there even if they do not; whatever arrives, closes, is detected again or
\* is marked meanwhile, and whatever an earlier mark-all that failed half-way left
\* (mark_all_read).
AllIsRead ==
    \A w \in Workers :
        LET r   == request[w]
            own == {j \in DOMAIN items : OfWallet(r.wallet, j)}
        IN  At(w, "done") /\ r.kind = "all" /\ ~r.missed =>
                \A i \in r.visible, j \in Visible(r.wallet) :
                    Same(i, j) =>
                        \/ IsRead(r.wallet, j)
                        \/ items[j].type # "alert" /\ Cardinality({items[k].id : k \in own}) > r.limit

\* An item that was read when the request began is not counted as unread, and an item
\* that is shown as read is read, though the receipts are older than the rows, and a
\* threat may have moved since (list_for_wallet, map_alert).
CountIsHonest ==
    \A w \in Workers :
        LET r == request[w]
        IN  At(w, "done") =>
                /\ \A i \in r.unread, j \in r.read : ~Same(i, j)
                /\ \A i \in r.page \ r.unread : IsRead(r.wallet, i)

\* What the list leaves out is older than what it holds: an item that was visible when
\* the request began and still is, in the same place, is on it, or the list is full of
\* newer ones, though each table is cut before they are merged.  A threat detected
\* again after its table was read is shown where it was, or not at all
\* (list_for_wallet).
NewestAreShown ==
    \A w \in Workers :
        LET r == request[w]
        IN  At(w, "done") /\ ~r.missed =>
                \A i \in (r.visible \cap Visible(r.wallet)) \ r.page :
                    /\ Cardinality(r.page) = r.limit
                    /\ \A j \in r.page : j > i

\* An item is read for a wallet only if that wallet asked for it, or for everything: no
\* marking of another wallet, of a broadcast all share, or of an id sent with
\* the wrong type changes what it sees (mark_alert_read, mark_all_alerts_read).
ReadByItsOwner ==
    \A u \in Wallets : \A i \in ReadItems(u) : {<<u, items[i].id>>, <<u, 0>>} \cap asked # {}
=============================================================================
