----------------------------- MODULE InboxProofs -----------------------------
(***************************************************************************)
(* Theorems about Inbox, for every set of wallets, rows and requests, and any *)
(* number of rows, failed statements and restarts.                           *)
(*                                                                         *)
(* The argument: rows keep their type, owner and name wherever they move, a row  *)
(* is shown in one place (Named), and receipts, read alerts and what was asked   *)
(* only grow (Grows), so what a request knows (Held) stays true while others    *)
(* write.  What a mark-all still has to do for the rows it saw is said step by    *)
(* step (Owed), up to its answer, where nothing is left.                        *)
(* In the same way, what a list covers of the tables it has read (Listed): a     *)
(* table, and then the list, is cut only where there are enough newer rows.      *)
(***************************************************************************)
EXTENDS Inbox, FiniteSetTheorems, WellFoundedInduction, TLAPS

Asked(u, i) == <<u, i>> \in asked \/ <<u, 0>> \in asked

\* What is marked was asked for, by the wallet it is marked for.
ReceiptsAsked == \A u, type, i : <<u, type, i>> \in receipts => Asked(u, i)
AlertsAsked == \A i \in readAt : /\ i \in DOMAIN items
                                 /\ items[i].type = "alert" /\ items[i].owner \in Wallets
                                 /\ Asked(items[i].owner, i)

\* A name is the first place of its row: none but a threat has another, and no row is
\* shown in two.
Named == \A i, j \in DOMAIN items :
  /\ items[i].id \in DOMAIN items
  /\ items[i].type # "threat" => items[i].id = i
  /\ Same(i, j) => /\ items[i].type = items[j].type /\ items[i].owner = items[j].owner
                   /\ items[i].on /\ items[j].on => i = j

Tables == items \in Seq(Rows) /\ Named

\* What a request knows: it holds none but real receipts, and each item that was read
\* when it began is read, and shown so while it lists the tables.
Held(r) ==
  /\ r.kind = "all" => <<r.wallet, 0>> \in asked
  /\ r.pc \in {"lookup", "alerts", "marks"} => r.kind = "all"
  /\ r.page \subseteq DOMAIN items /\ r.read \subseteq DOMAIN items /\ r.unread \subseteq DOMAIN items
  /\ \A type, i : <<type, i>> \in r.receipts => <<r.wallet, type, i>> \in receipts
  /\ \A i \in r.read : /\ IsRead(r.wallet, i)
                       /\ r.pc \in TypeSet \cup {"wallet"} => ShownRead(r, i)
  /\ \A i \in r.unread, j \in r.read : ~Same(i, j)
  /\ \A i \in r.page : i \in r.unread \/ IsRead(r.wallet, i)

AllHeld == \A w \in Workers : request[w] # None => Held(request[w])

Inv == TypeOK /\ Named /\ ReceiptsAsked /\ AlertsAsked /\ AllHeld

-----------------------------------------------------------------------------
(* What every step leaves true *)

\* No step takes a mark back, or changes what an item is and whose.
Grows == /\ DOMAIN items \subseteq DOMAIN items'
         /\ \A i \in DOMAIN items : /\ items'[i].type = items[i].type /\ items'[i].id = items[i].id
                                    /\ items'[i].owner = items[i].owner
         /\ receipts \subseteq receipts' /\ readAt \subseteq readAt' /\ asked \subseteq asked'

\* No step shows again what is closed: what is shown is new, or was shown, maybe in
\* another place.
Fades == /\ \A i \in DOMAIN items : items'[i].on => items[i].on
         /\ \A j \in DOMAIN items' : items'[j].on =>
              \/ items'[j].id \notin DOMAIN items
              \/ \E k \in DOMAIN items : /\ items[k].on /\ items[k].id = items'[j].id
                                         /\ items[k].type = items'[j].type
                                         /\ items[k].owner = items'[j].owner

\* The five tables.
LEMMA FiveTypes ==
  TypeSet = {"broadcast", "alert", "activity", "threat", "approval_alert"}
BY DEF TypeSet, Types

\* What a request knows stays true.
LEMMA HeldStays ==
  ASSUME Grows, NEW r, Held(r)
  PROVE  Held(r)'
<1>1. \A i \in DOMAIN items : IsRead(r.wallet, i) => IsRead(r.wallet, i)'
  BY DEF Grows, IsRead
<1>2. \A i \in DOMAIN items : ShownRead(r, i) => ShownRead(r, i)'
  BY DEF Grows, ShownRead
<1>3. \A i, j \in DOMAIN items : Same(i, j)' => Same(i, j)
  BY DEF Grows, Same
<1> QED BY <1>1, <1>2, <1>3 DEF Grows, Held

\* A step that keeps the tables keeps the invariant, if the request it moves knows
\* what it has to.
LEMMA Kept ==
  ASSUME Inv, Grows, Tables', ReceiptsAsked', AlertsAsked',
         request' \in [Workers -> Requests \cup {None}],
         \A w \in Workers : \/ request'[w] \in {request[w], None}
                            \/ Held(request[w])'
  PROVE  Inv'
<1>1. AllHeld'
  <2>1. ASSUME NEW w \in Workers, request'[w] # None PROVE Held(request[w])'
    <3>1. CASE request'[w] = request[w]
      <4>1. PICK r : r = request[w]
        OBVIOUS
      <4>2. Held(r)
        BY <2>1, <3>1, <4>1 DEF Inv, AllHeld
      <4>3. Held(r)'
        BY <4>2, HeldStays
      <4> QED BY <3>1, <4>1, <4>3
    <3> QED BY <2>1, <3>1
  <2> QED BY <2>1 DEF AllHeld
<1> QED BY <1>1 DEF Inv, Tables, TypeOK

\* Rows that no step touches.
LEMMA TablesStay ==
  ASSUME Inv, UNCHANGED items
  PROVE  Tables'
<1>1. items \in Seq(Rows) /\ Named
  BY DEF Inv, TypeOK
<1> QED BY <1>1 DEF Tables, Named, Same

\* The same for a step that writes nothing but its own request.
LEMMA Moved ==
  ASSUME Inv, NEW w \in Workers, NEW r, UNCHANGED <<items, receipts, readAt, asked>>,
         request' = [request EXCEPT ![w] = r],
         r # None => r \in Requests /\ Held(r)
  PROVE  Inv'
<1>1. Grows
  BY DEF Grows
<1>2. ReceiptsAsked' /\ AlertsAsked' /\ Tables'
  BY TablesStay DEF Inv, ReceiptsAsked, AlertsAsked, Asked
<1>3. request' \in [Workers -> Requests \cup {None}]
  BY DEF Inv, TypeOK
<1>4. \A v \in Workers : request'[v] = IF v = w THEN r ELSE request[v]
  BY DEF Inv, TypeOK
<1>5. ASSUME NEW v \in Workers PROVE request'[v] \in {request[v], None} \/ Held(request[v])'
  <2>1. CASE v = w /\ r # None
    <3>1. Held(r)'
      BY <1>1, <2>1, HeldStays
    <3> QED BY <1>4, <2>1, <3>1
  <2> QED BY <1>4, <2>1
<1> QED BY <1>1, <1>2, <1>3, <1>5, Kept

-----------------------------------------------------------------------------
(* The steps of a list *)

\* A request that has a call to make, and what it knows.
LEMMA Current ==
  ASSUME Inv, NEW w \in Workers, request[w] # None
  PROVE  request[w] \in Requests /\ Held(request[w])
BY DEF Inv, TypeOK, AllHeld

LEMMA BeginKeeps ==
  ASSUME Inv, NEW w \in Workers, NEW kind \in {"list", "all"}, NEW u \in Wallets,
         NEW limit \in Limits \cup {AllLimit}, Begin(w, kind, u, limit)
  PROVE  Inv'
<1>1. PICK r : r = [kind |-> kind, wallet |-> u, limit |-> limit, pc |-> "receipts",
                    receipts |-> {}, page |-> {}, unread |-> {}, left |-> {}, missed |-> FALSE,
                    visible |-> Visible(u), read |-> ReadItems(u)]
  OBVIOUS
<1>2. /\ request' = [request EXCEPT ![w] = r]
      /\ UNCHANGED <<items, receipts, readAt>>
      /\ asked' = IF kind = "all" THEN asked \cup {<<u, 0>>} ELSE asked
  BY <1>1 DEF Begin, Continue
<1>3. DOMAIN items \subseteq Nat
  BY DEF Inv, TypeOK
<1>4. Visible(u) \in SUBSET Nat /\ ReadItems(u) \in SUBSET Nat
  BY <1>3 DEF Visible, ReadItems
<1>5. r \in Requests
  BY <1>1, <1>4 DEF Requests, Pcs
<1>6. Grows
  BY <1>2 DEF Grows
<1>7. ReceiptsAsked' /\ AlertsAsked' /\ Tables'
  BY <1>2, TablesStay DEF Inv, ReceiptsAsked, AlertsAsked, Asked
<1>8. \A v \in Workers : request'[v] = IF v = w THEN r ELSE request[v]
  BY <1>2 DEF Inv, TypeOK
<1>9. Held(r)'
  <2>1. \A i \in ReadItems(u) : i \in DOMAIN items /\ IsRead(u, i)
    BY DEF ReadItems
  <2>2. \A i \in ReadItems(u) : IsRead(u, i)'
    BY <1>2, <2>1 DEF IsRead
  <2>3. /\ r.kind = kind /\ r.wallet = u /\ r.pc = "receipts" /\ r.receipts = {} /\ r.page = {}
        /\ r.unread = {} /\ r.read = ReadItems(u)
    BY <1>1
  <2> QED BY <1>2, <2>1, <2>2, <2>3, FiveTypes DEF Held
<1>10. request' \in [Workers -> Requests \cup {None}]
  BY <1>2, <1>5 DEF Inv, TypeOK
<1>11. \A v \in Workers : request'[v] \in {request[v], None} \/ Held(request[v])'
  BY <1>8, <1>9
<1> QED BY <1>6, <1>7, <1>10, <1>11, Kept

LEMMA ReadReceiptsKeeps ==
  ASSUME Inv, NEW w \in Workers, ReadReceipts(w)
  PROVE  Inv'
<1>1. PICK r : r = request[w]
  OBVIOUS
<1>2. r \in Requests /\ Held(r) /\ r.pc = "receipts"
  BY <1>1, Current DEF ReadReceipts, At
<1>3. UNCHANGED <<items, receipts, readAt, asked>>
  BY DEF ReadReceipts
<1>4. CASE Stop(w)
  BY <1>3, <1>4, Moved DEF Stop
<1> DEFINE mine == {x \in TypeSet \X DOMAIN items : <<r.wallet, x[1], x[2]>> \in receipts}
<1>5. CASE Continue(w, [r EXCEPT !.receipts = mine, !.pc = "broadcast"])
  <2>1. PICK t : t = [r EXCEPT !.receipts = mine, !.pc = "broadcast"]
    OBVIOUS
  <2>2. DOMAIN items \subseteq Nat /\ \A i \in DOMAIN items : items[i].type \in TypeSet
    <3>1. items \in Seq(Rows)
      BY DEF Inv, TypeOK
    <3>2. DOMAIN items \subseteq Nat /\ \A i \in DOMAIN items : items[i] \in Rows
      BY <3>1
    <3> QED BY <3>2 DEF Rows
  <2>3. mine \in SUBSET (TypeSet \X Nat) /\ "broadcast" \in Pcs
    BY <2>2, FiveTypes DEF Pcs
  <2>4. t \in Requests
    BY <1>2, <2>1, <2>3 DEF Requests
  <2>5. /\ t.kind = r.kind /\ t.wallet = r.wallet /\ t.pc = "broadcast" /\ t.receipts = mine
        /\ t.page = r.page /\ t.unread = r.unread /\ t.read = r.read
    BY <1>2, <2>1 DEF Requests
  <2>6. \A type, i : <<type, i>> \in mine => <<r.wallet, type, i>> \in receipts
    OBVIOUS
  <2>7. \A i \in r.read : ShownRead(t, i)
    <3>1. \A i \in r.read : i \in DOMAIN items /\ IsRead(r.wallet, i)
      BY <1>2 DEF Held
    <3>2. \A i \in DOMAIN items : items[i].id \in DOMAIN items
      BY DEF Inv, Named
    <3>3. \A i \in DOMAIN items : <<r.wallet, items[i].type, items[i].id>> \in receipts
                                    => <<items[i].type, items[i].id>> \in mine
      BY <2>2, <3>2
    <3> QED BY <2>5, <3>1, <3>3 DEF ShownRead, IsRead
  <2> HIDE DEF mine
  <2>8. Held(t)
    BY <1>2, <2>5, <2>6, <2>7 DEF Held
  <2> QED BY <1>3, <1>5, <2>1, <2>4, <2>8, Moved DEF Continue
<1> QED BY <1>1, <1>4, <1>5 DEF ReadReceipts

\* A step of a request that changes no more than its place, and that it missed a table.
LEMMA PlaceMoved ==
  ASSUME Inv, NEW w \in Workers, NEW r, r = request[w], r # None,
         UNCHANGED <<items, receipts, readAt, asked>>,
         NEW pc \in Pcs, NEW missed \in BOOLEAN,
         pc \in {"lookup", "alerts", "marks"} => r.kind = "all",
         pc \in TypeSet \cup {"wallet"} => r.pc \in TypeSet \cup {"wallet"},
         request' = [request EXCEPT ![w] = [r EXCEPT !.pc = pc, !.missed = missed]]
  PROVE  Inv'
<1>1. r \in Requests /\ Held(r)
  BY Current
<1>2. PICK t : t = [r EXCEPT !.pc = pc, !.missed = missed]
  OBVIOUS
<1>3. t \in Requests
  BY <1>1, <1>2 DEF Requests
<1>4. /\ t.kind = r.kind /\ t.wallet = r.wallet /\ t.pc = pc /\ t.receipts = r.receipts
      /\ t.page = r.page /\ t.unread = r.unread /\ t.read = r.read
  BY <1>1, <1>2 DEF Requests
<1>5. \A i : ShownRead(r, i) => ShownRead(t, i)
  BY <1>4 DEF ShownRead
<1>6. Held(t)
  BY <1>1, <1>4, <1>5 DEF Held
<1> QED BY <1>2, <1>3, <1>6, Moved

\* The place after the queries: only a request that marks looks the wallet up.
LEMMA NextPcs ==
  ASSUME NEW r
  PROVE  NextPc(r) \in Pcs /\ NextPc(r) \notin {"alerts", "marks"}
         /\ (NextPc(r) = "lookup" => r.kind = "all")
BY FiveTypes DEF NextPc, Pcs

LEMMA FindWalletKeeps ==
  ASSUME Inv, NEW w \in Workers, FindWallet(w)
  PROVE  Inv'
<1>1. PICK r : r = request[w]
  OBVIOUS
<1>2. r \in Requests /\ r # None /\ r.pc = "wallet"
  BY <1>1, Current DEF FindWallet, At
<1>3. UNCHANGED <<items, receipts, readAt, asked>>
  BY DEF FindWallet
<1>4. CASE Continue(w, [r EXCEPT !.pc = NextPc(r)])
  <2>1. PICK pc : pc = NextPc(r)
    OBVIOUS
  <2>2. [r EXCEPT !.pc = pc] = [r EXCEPT !.pc = pc, !.missed = r.missed] /\ r.missed \in BOOLEAN
    BY <1>2 DEF Requests
  <2>3. pc \in Pcs /\ pc \notin {"alerts", "marks"} /\ (pc = "lookup" => r.kind = "all")
    BY <2>1, NextPcs
  <2>4. request' = [request EXCEPT ![w] = [r EXCEPT !.pc = pc, !.missed = r.missed]]
    BY <1>4, <2>1, <2>2 DEF Continue
  <2> QED BY <1>1, <1>2, <1>3, <2>2, <2>3, <2>4, PlaceMoved
<1>5. CASE Continue(w, [r EXCEPT !.pc = "approval_alert", !.missed = TRUE])
  <2>1. "approval_alert" \in Pcs
    BY FiveTypes DEF Pcs
  <2> QED BY <1>1, <1>2, <1>3, <1>5, <2>1, PlaceMoved DEF Continue
<1> QED BY <1>1, <1>4, <1>5 DEF FindWallet

LEMMA LookupKeeps ==
  ASSUME Inv, NEW w \in Workers, LookupAgain(w)
  PROVE  Inv'
<1>1. PICK r : r = request[w]
  OBVIOUS
<1>2. r \in Requests /\ Held(r) /\ r # None /\ r.pc = "lookup" /\ r.kind = "all" /\ r.missed \in BOOLEAN
  BY <1>1, Current DEF LookupAgain, At, Held, Requests
<1>3. UNCHANGED <<items, receipts, readAt, asked>>
  BY DEF LookupAgain
<1>4. CASE Stop(w)
  BY <1>3, <1>4, Moved DEF Stop
<1>5. CASE Continue(w, [r EXCEPT !.pc = "alerts"])
  <2>1. [r EXCEPT !.pc = "alerts"] = [r EXCEPT !.pc = "alerts", !.missed = r.missed]
    BY <1>2 DEF Requests
  <2>2. "alerts" \in Pcs /\ "alerts" \notin TypeSet \cup {"wallet"}
    BY FiveTypes DEF Pcs
  <2>3. request' = [request EXCEPT ![w] = [r EXCEPT !.pc = "alerts", !.missed = r.missed]]
    BY <1>5, <2>1 DEF Continue
  <2> QED BY <1>1, <1>2, <1>3, <2>2, <2>3, PlaceMoved
<1> QED BY <1>1, <1>4, <1>5 DEF LookupAgain

LEMMA MarkDoneKeeps ==
  ASSUME Inv, NEW w \in Workers, MarkDone(w)
  PROVE  Inv'
<1>1. PICK r : r = request[w]
  OBVIOUS
<1>2. r \in Requests /\ r # None /\ r.missed \in BOOLEAN
  BY <1>1, Current DEF MarkDone, At, Requests
<1>3. [r EXCEPT !.pc = "done"] = [r EXCEPT !.pc = "done", !.missed = r.missed]
  BY <1>2 DEF Requests
<1>4. "done" \in Pcs /\ "done" \notin TypeSet \cup {"wallet"}
  BY FiveTypes DEF Pcs
<1>5. UNCHANGED <<items, receipts, readAt, asked>>
  BY DEF MarkDone
<1>6. request' = [request EXCEPT ![w] = [r EXCEPT !.pc = "done", !.missed = r.missed]]
  BY <1>1, <1>3 DEF MarkDone, Continue
<1> QED BY <1>1, <1>2, <1>4, <1>5, <1>6, PlaceMoved

LEMMA ReplyKeeps ==
  ASSUME Inv, NEW w \in Workers, Reply(w)
  PROVE  Inv'
BY Moved DEF Reply, Stop

\* The end of a query: the list is cut, and with it what is unread of it.
LEMMA Merged ==
  ASSUME NEW s \in Requests
  PROVE  LET t == [Merge(s) EXCEPT !.pc = NextPc(s)]
         IN  /\ t \in Requests /\ t.pc = NextPc(s)
             /\ t.kind = s.kind /\ t.wallet = s.wallet /\ t.read = s.read
             /\ t.page \subseteq s.page /\ t.unread \subseteq s.unread
             /\ \A i \in t.page : i \in s.unread => i \in t.unread
             /\ t.receipts \subseteq s.receipts
             /\ NextPc(s) \in TypeSet \cup {"wallet"} => t.receipts = s.receipts
<1> DEFINE t == [Merge(s) EXCEPT !.pc = NextPc(s)]
<1>1. PICK pc : pc = NextPc(s)
  OBVIOUS
<1>2. pc \in Pcs
  BY <1>1, NextPcs
<1>3. CASE s.pc # "approval_alert"
  <2>1. t = [s EXCEPT !.pc = pc]
    BY <1>1, <1>3 DEF Merge
  <2> QED BY <1>1, <1>2, <2>1 DEF Requests
<1>4. CASE s.pc = "approval_alert"
  <2>1. PICK page : page = Newest(s.page, s.limit)
    OBVIOUS
  <2>2. page \subseteq s.page
    BY <2>1 DEF Newest
  <2>3. PICK left : left = IF s.kind = "all" THEN ToMark(s.unread \cap page) ELSE {}
    OBVIOUS
  <2>4. left \subseteq s.unread
    BY <2>3 DEF ToMark
  <2>5. t = [s EXCEPT !.page = page, !.unread = s.unread \cap page, !.receipts = {}, !.left = left,
                      !.pc = pc]
    BY <1>1, <1>4, <2>1, <2>3 DEF Merge, Requests
  <2>6. pc \notin TypeSet \cup {"wallet"}
    BY <1>1, <1>4, FiveTypes DEF NextPc
  <2>7. s.unread \in SUBSET Nat /\ s.page \in SUBSET Nat
    BY DEF Requests
  <2>8. page \in SUBSET Nat /\ left \in SUBSET Nat /\ s.unread \cap page \in SUBSET Nat
    BY <2>2, <2>4, <2>7
  <2>9. /\ t \in Requests /\ t.pc = pc /\ t.kind = s.kind /\ t.wallet = s.wallet /\ t.read = s.read
        /\ t.page = page /\ t.unread = s.unread \cap page /\ t.receipts = {}
    BY <1>2, <2>5, <2>8 DEF Requests
  <2> HIDE DEF t
  <2>10. /\ t.page \subseteq s.page /\ t.unread \subseteq s.unread /\ t.receipts \subseteq s.receipts
         /\ \A i \in t.page : i \in s.unread => i \in t.unread
    BY <2>2, <2>9
  <2> QED BY <1>1, <2>6, <2>9, <2>10 DEF t
<1> QED BY <1>3, <1>4

LEMMA ReadTableKeeps ==
  ASSUME Inv, NEW w \in Workers, ReadTable(w)
  PROVE  Inv'
<1>1. PICK r : r = request[w]
  OBVIOUS
<1>2. r \in Requests /\ Held(r) /\ r.pc \in TypeSet
  BY <1>1, Current DEF ReadTable
<1>3. UNCHANGED <<items, receipts, readAt, asked>>
  BY DEF ReadTable
<1>4. PICK rows : rows = Newest(Table(r.wallet, r.pc), r.limit)
  OBVIOUS
<1>5. rows \subseteq DOMAIN items /\ DOMAIN items \subseteq Nat
  BY <1>4 DEF Newest, Table, Visible, Inv, TypeOK
<1>6. PICK fresh : fresh = {i \in rows : ~ShownRead(r, i)}
  OBVIOUS
<1>7. ASSUME NEW s \in Requests, s.kind = r.kind, s.wallet = r.wallet, s.pc = r.pc, s.read = r.read,
             s.receipts = r.receipts, s.page \subseteq r.page \cup rows,
             s.unread \subseteq r.unread \cup fresh,
             \A i \in s.page : i \in s.unread \/ IsRead(r.wallet, i),
             Continue(w, [Merge(s) EXCEPT !.pc = NextPc(r)])
      PROVE  Inv'
  <2>1. NextPc(r) = NextPc(s)
    BY <1>7 DEF NextPc
  <2>2. PICK t : t = [Merge(s) EXCEPT !.pc = NextPc(s)]
    OBVIOUS
  <2>3. PICK pc : pc = NextPc(s)
    OBVIOUS
  <2>4. /\ t \in Requests /\ t.pc = pc
        /\ t.kind = r.kind /\ t.wallet = r.wallet /\ t.read = r.read
        /\ t.page \subseteq s.page /\ t.unread \subseteq s.unread
        /\ \A i \in t.page : i \in s.unread => i \in t.unread
        /\ t.receipts \subseteq r.receipts
        /\ pc \in TypeSet \cup {"wallet"} => t.receipts = r.receipts
    BY <1>7, <2>2, <2>3, Merged
  <2>5. pc \notin {"alerts", "marks"} /\ (pc = "lookup" => r.kind = "all")
    BY <1>7, <2>3, NextPcs
  <2>6. \A i \in r.read : /\ IsRead(r.wallet, i) /\ ShownRead(r, i) /\ i \in DOMAIN items
                          /\ \A j \in r.unread : ~Same(j, i)
    BY <1>2 DEF Held
  <2>7. ASSUME NEW i \in fresh, NEW j \in r.read, Same(i, j) PROVE FALSE
    <3>1. i \in DOMAIN items /\ j \in DOMAIN items /\ ShownRead(r, j) /\ ~ShownRead(r, i)
      BY <1>5, <1>6, <2>6
    <3>2. items[i].type = items[j].type /\ items[i].id = items[j].id
      BY <2>7, <3>1 DEF Inv, Named, Same
    <3>3. items[j].type = "alert" => i = j
      BY <3>1, <3>2 DEF Inv, Named
    <3> QED BY <3>1, <3>2, <3>3 DEF ShownRead
  <2>8. \A i \in t.page : i \in t.unread \/ IsRead(r.wallet, i)
    BY <1>7, <2>4
  <2>9. \A i \in r.read : pc \in TypeSet \cup {"wallet"} => ShownRead(t, i)
    BY <2>4, <2>6 DEF ShownRead
  <2>10. t.page \subseteq DOMAIN items /\ t.unread \subseteq DOMAIN items
    BY <1>2, <1>5, <1>6, <1>7, <2>4 DEF Held
  <2>11. \A i \in t.unread, j \in t.read : ~Same(i, j)
    BY <1>7, <2>4, <2>6, <2>7
  <2>12. \A type, i : <<type, i>> \in t.receipts => <<t.wallet, type, i>> \in receipts
    BY <1>2, <2>4 DEF Held
  <2>13. t.kind = "all" => <<t.wallet, 0>> \in asked
    BY <1>2, <2>4 DEF Held
  <2>14. Held(t)
    BY <2>4, <2>5, <2>6, <2>8, <2>9, <2>10, <2>11, <2>12, <2>13 DEF Held
  <2>15. request' = [request EXCEPT ![w] = t]
    BY <1>7, <2>1, <2>2 DEF Continue
  <2> QED BY <1>3, <2>4, <2>14, <2>15, Moved
<1>8. CASE Continue(w, [Merge([r EXCEPT !.page = @ \cup rows, !.unread = @ \cup fresh])
                         EXCEPT !.pc = NextPc(r)])
  <2>1. PICK s : s = [r EXCEPT !.page = @ \cup rows, !.unread = @ \cup fresh]
    OBVIOUS
  <2>2. r.page \cup rows \in SUBSET Nat /\ r.unread \cup fresh \in SUBSET Nat
    BY <1>2, <1>5, <1>6 DEF Requests
  <2>3. s \in Requests /\ s.kind = r.kind /\ s.wallet = r.wallet /\ s.pc = r.pc /\ s.read = r.read
        /\ s.receipts = r.receipts /\ s.page = r.page \cup rows /\ s.unread = r.unread \cup fresh
    BY <1>2, <2>1, <2>2 DEF Requests
  <2>4. Continue(w, [Merge(s) EXCEPT !.pc = NextPc(r)])
    BY <1>8, <2>1
  <2>5. \A i \in rows : i \in fresh \/ IsRead(r.wallet, i)
    <3>1. \A type, i : <<type, i>> \in r.receipts => <<r.wallet, type, i>> \in receipts
      BY <1>2 DEF Held
    <3> QED BY <1>6, <3>1 DEF ShownRead, IsRead
  <2>6. \A i \in s.page : i \in s.unread \/ IsRead(r.wallet, i)
    BY <1>2, <2>3, <2>5 DEF Held
  <2> QED BY <1>7, <2>3, <2>4, <2>6
<1>9. CASE Continue(w, [Merge([r EXCEPT !.missed = TRUE]) EXCEPT !.pc = NextPc(r)])
  <2>1. PICK s : s = [r EXCEPT !.missed = TRUE]
    OBVIOUS
  <2>2. s \in Requests /\ s.kind = r.kind /\ s.wallet = r.wallet /\ s.pc = r.pc /\ s.read = r.read
        /\ s.receipts = r.receipts /\ s.page = r.page /\ s.unread = r.unread
    BY <1>2, <2>1 DEF Requests
  <2>3. Continue(w, [Merge(s) EXCEPT !.pc = NextPc(r)])
    BY <1>9, <2>1
  <2>4. \A i \in s.page : i \in s.unread \/ IsRead(r.wallet, i)
    BY <1>2, <2>2 DEF Held
  <2> QED BY <1>7, <2>2, <2>3, <2>4
<1> QED BY <1>1, <1>4, <1>6, <1>8, <1>9 DEF ReadTable

-----------------------------------------------------------------------------
(* The steps that write *)

LEMMA MarkAlertsKeeps ==
  ASSUME Inv, NEW w \in Workers, MarkAlerts(w)
  PROVE  Inv'
<1>1. PICK r : r = request[w]
  OBVIOUS
<1>2. r \in Requests /\ Held(r) /\ r.pc = "alerts" /\ r.kind = "all" /\ r.wallet \in Wallets
      /\ <<r.wallet, 0>> \in asked
  BY <1>1, Current DEF MarkAlerts, At, Held, Requests
<1>3. UNCHANGED <<items, receipts, asked>>
  BY DEF MarkAlerts
<1>4. CASE Stop(w) /\ UNCHANGED readAt
  BY <1>3, <1>4, Moved DEF Stop
<1>5. CASE readAt' = readAt \cup AlertsOf(r.wallet) /\ Continue(w, [r EXCEPT !.pc = "marks"])
  <2>1. PICK t : t = [r EXCEPT !.pc = "marks"]
    OBVIOUS
  <2>2. "marks" \in Pcs /\ "marks" \notin TypeSet \cup {"wallet"}
    BY FiveTypes DEF Pcs
  <2>3. t \in Requests
    BY <1>2, <2>1, <2>2 DEF Requests
  <2>4. /\ t.kind = r.kind /\ t.wallet = r.wallet /\ t.pc = "marks" /\ t.receipts = r.receipts
        /\ t.page = r.page /\ t.unread = r.unread /\ t.read = r.read
    BY <1>2, <2>1 DEF Requests
  <2>5. Held(t)
    BY <1>2, <2>2, <2>4 DEF Held
  <2>6. Grows
    BY <1>3, <1>5 DEF Grows
  <2>7. Held(t)'
    BY <2>5, <2>6, HeldStays
  <2>8. AlertsAsked'
    BY <1>2, <1>3, <1>5 DEF Inv, AlertsAsked, AlertsOf, Asked
  <2>9. ReceiptsAsked' /\ Tables'
    BY <1>3, TablesStay DEF Inv, ReceiptsAsked, Asked
  <2>10. request' = [request EXCEPT ![w] = t]
    BY <1>5, <2>1 DEF Continue
  <2>11. request' \in [Workers -> Requests \cup {None}]
         /\ \A v \in Workers : request'[v] = IF v = w THEN t ELSE request[v]
    BY <2>3, <2>10 DEF Inv, TypeOK
  <2>12. \A v \in Workers : request'[v] \in {request[v], None} \/ Held(request[v])'
    BY <2>7, <2>11
  <2> QED BY <2>6, <2>8, <2>9, <2>11, <2>12, Kept
<1> QED BY <1>1, <1>4, <1>5 DEF MarkAlerts

LEMMA MarkNextKeeps ==
  ASSUME Inv, NEW w \in Workers, MarkNext(w)
  PROVE  Inv'
<1>1. PICK r : r = request[w]
  OBVIOUS
<1>2. r \in Requests /\ Held(r) /\ r.pc = "marks" /\ r.kind = "all" /\ r.wallet \in Wallets
      /\ <<r.wallet, 0>> \in asked
  BY <1>1, Current DEF MarkNext, At, Held, Requests
<1>3. UNCHANGED <<items, readAt, asked>>
  BY DEF MarkNext
<1>4. CASE Stop(w) /\ UNCHANGED receipts
  BY <1>3, <1>4, Moved DEF Stop
<1>5. ASSUME NEW i, receipts' = receipts \cup {<<r.wallet, items[i].type, items[i].id>>},
             Continue(w, [r EXCEPT !.left = @ \ {i}])
      PROVE  Inv'
  <2>1. PICK t : t = [r EXCEPT !.left = @ \ {i}]
    OBVIOUS
  <2>2. t \in Requests
    BY <1>2, <2>1 DEF Requests
  <2>3. /\ t.kind = r.kind /\ t.wallet = r.wallet /\ t.pc = "marks" /\ t.receipts = r.receipts
        /\ t.page = r.page /\ t.unread = r.unread /\ t.read = r.read
    BY <1>2, <2>1 DEF Requests
  <2>4. Held(t)
    BY <1>2, <2>3, FiveTypes DEF Held
  <2>5. Grows
    BY <1>3, <1>5 DEF Grows
  <2>6. Held(t)'
    BY <2>4, <2>5, HeldStays
  <2>7. ReceiptsAsked'
    BY <1>2, <1>3, <1>5 DEF Inv, ReceiptsAsked, Asked
  <2>8. AlertsAsked' /\ Tables'
    BY <1>3, TablesStay DEF Inv, AlertsAsked, Asked
  <2>9. request' = [request EXCEPT ![w] = t]
    BY <1>5, <2>1 DEF Continue
  <2>10. request' \in [Workers -> Requests \cup {None}]
         /\ \A v \in Workers : request'[v] = IF v = w THEN t ELSE request[v]
    BY <2>2, <2>9 DEF Inv, TypeOK
  <2>11. \A v \in Workers : request'[v] \in {request[v], None} \/ Held(request[v])'
    BY <2>6, <2>10
  <2> QED BY <2>5, <2>7, <2>8, <2>10, <2>11, Kept
<1> QED BY <1>1, <1>4, <1>5 DEF MarkNext

\* A step of no request: the tables grow, and what is marked was asked for.
LEMMA Outside ==
  ASSUME Inv, Grows, Tables', ReceiptsAsked', AlertsAsked', UNCHANGED request
  PROVE  Inv'
<1>1. request' \in [Workers -> Requests \cup {None}]
  BY DEF Inv, TypeOK
<1> QED BY <1>1, Kept

LEMMA MarkReadKeeps ==
  ASSUME Inv, NEW u \in Wallets, NEW type, NEW i, MarkRead(u, type, i)
  PROVE  Inv'
<1>1. UNCHANGED <<items, request>> /\ asked' = asked \cup {<<u, i>>}
  BY DEF MarkRead
<1>2. Asked(u, i)' /\ \A v, j : Asked(v, j) => Asked(v, j)'
  BY <1>1 DEF Asked
<1>3. Tables'
  BY <1>1, TablesStay
<1>4. CASE UNCHANGED readAt /\ receipts' = receipts \cup {<<u, type, i>>}
  <2>1. Grows
    BY <1>1, <1>4 DEF Grows
  <2>2. ReceiptsAsked'
    BY <1>2, <1>4 DEF Inv, ReceiptsAsked
  <2>3. AlertsAsked'
    BY <1>1, <1>2, <1>4 DEF Inv, AlertsAsked
  <2> QED BY <1>1, <1>3, <2>1, <2>2, <2>3, Outside
<1>5. CASE UNCHANGED receipts /\ readAt' \in {readAt, readAt \cup ({i} \cap AlertsOf(u))}
  <2>1. Grows
    BY <1>1, <1>5 DEF Grows
  <2>2. ReceiptsAsked'
    BY <1>2, <1>5 DEF Inv, ReceiptsAsked
  <2>3. AlertsAsked'
    BY <1>1, <1>2, <1>5 DEF Inv, AlertsAsked, AlertsOf
  <2> QED BY <1>1, <1>3, <2>1, <2>2, <2>3, Outside
<1> QED BY <1>4, <1>5 DEF MarkRead

LEMMA DashboardKeeps ==
  ASSUME Inv, NEW u \in Wallets, DashboardMarkAll(u)
  PROVE  Inv'
<1>1. /\ UNCHANGED <<items, receipts, request>> /\ asked' = asked \cup {<<u, 0>>}
      /\ readAt' = readAt \cup AlertsOf(u)
  BY DEF DashboardMarkAll
<1>2. (\A i : Asked(u, i)') /\ \A v, j : Asked(v, j) => Asked(v, j)'
  BY <1>1 DEF Asked
<1>3. Grows /\ Tables'
  BY <1>1, TablesStay DEF Grows
<1>4. ReceiptsAsked'
  BY <1>1, <1>2 DEF Inv, ReceiptsAsked
<1>5. AlertsAsked'
  BY <1>1, <1>2 DEF Inv, AlertsAsked, AlertsOf
<1> QED BY <1>1, <1>3, <1>4, <1>5, Outside

LEMMA ArriveKeeps ==
  ASSUME Inv, NEW type, NEW owner, Arrive(type, owner)
  PROVE  Inv' /\ Grows /\ Fades
<1>1. PICK n : n = Len(items) + 1
  OBVIOUS
<1>2. PICK row : row = Row(type, owner, n)
  OBVIOUS
<1>3. /\ UNCHANGED <<receipts, readAt, request, asked>> /\ items' = Append(items, row)
      /\ [type |-> type, owner |-> owner] \in Arrivals
  BY <1>1, <1>2 DEF Arrive
<1>4. items \in Seq(Rows) /\ Named /\ n \in Nat
  BY <1>1 DEF Inv, TypeOK
<1>5. row \in Rows /\ row.type = type /\ row.id = n
  <2>1. PICK a \in Arrivals : a = [type |-> type, owner |-> owner]
    BY <1>3
  <2>2. a.type = type /\ a.owner = owner
    BY <2>1
  <2>3. Row(type, owner, 1) \in Rows
    BY <2>2, ItemsAssumption
  <2> QED BY <1>2, <1>4, <2>3 DEF Row, Rows
<1>6. /\ items' \in Seq(Rows) /\ DOMAIN items' = DOMAIN items \cup {n} /\ n \notin DOMAIN items
      /\ items'[n] = row /\ \A i \in DOMAIN items : items'[i] = items[i]
  BY <1>1, <1>3, <1>4, <1>5
<1>7. Grows
  BY <1>3, <1>6 DEF Grows
<1>8. Fades
  BY <1>5, <1>6 DEF Fades
<1>9. Tables'
  <2>1. \A i \in DOMAIN items : items[i].id \in DOMAIN items
    BY <1>4 DEF Named
  <2> QED BY <1>4, <1>5, <1>6, <2>1 DEF Tables, Named, Same
<1>10. ReceiptsAsked' /\ AlertsAsked'
  BY <1>3, <1>6 DEF Inv, ReceiptsAsked, AlertsAsked, Asked
<1> QED BY <1>3, <1>7, <1>8, <1>9, <1>10, Outside

LEMMA CloseKeeps ==
  ASSUME Inv, NEW i \in DOMAIN items, Close(i)
  PROVE  Inv' /\ Grows /\ Fades
<1>1. UNCHANGED <<receipts, readAt, request, asked>> /\ items' = [items EXCEPT ![i].on = FALSE]
  BY DEF Close
<1>2. items \in Seq(Rows) /\ Named /\ \A j \in DOMAIN items : items[j] \in Rows
  BY DEF Inv, TypeOK
<1>3. PICK row : row = [items[i] EXCEPT !.on = FALSE]
  OBVIOUS
<1>4. /\ row \in Rows /\ row.type = items[i].type /\ row.owner = items[i].owner
      /\ row.id = items[i].id /\ ~row.on
  BY <1>2, <1>3 DEF Rows
<1>5. items' = [items EXCEPT ![i] = row]
  BY <1>1, <1>3
<1>6. /\ items' \in Seq(Rows) /\ DOMAIN items' = DOMAIN items
      /\ \A j \in DOMAIN items : items'[j] = IF j = i THEN row ELSE items[j]
  BY <1>2, <1>4, <1>5
<1>7. Grows /\ Fades
  BY <1>1, <1>4, <1>6 DEF Grows, Fades
<1>8. Tables'
  <2>1. \A j, k \in DOMAIN items :
           /\ items[j].id \in DOMAIN items
           /\ items[j].type # "threat" => items[j].id = j
           /\ Same(j, k) => /\ items[j].type = items[k].type
                            /\ items[j].owner = items[k].owner
                            /\ items[j].on /\ items[k].on => j = k
    BY <1>2 DEF Named
  <2>2. \A j \in DOMAIN items : /\ items'[j].type = items[j].type /\ items'[j].id = items[j].id
                                /\ items'[j].owner = items[j].owner
                                /\ items'[j].on => items[j].on
    BY <1>7 DEF Grows, Fades
  <2>3. \A j \in DOMAIN items : items'[j].type # "threat" => items'[j].id = j
    BY <2>1, <2>2
  <2>4. ASSUME NEW j \in DOMAIN items, NEW k \in DOMAIN items, items'[j].id = items'[k].id
        PROVE  /\ items'[j].type = items'[k].type /\ items'[j].owner = items'[k].owner
               /\ items'[j].on /\ items'[k].on => j = k
    <3>1. Same(j, k)
      BY <2>2, <2>4 DEF Same
    <3>2. items[j].type = items[k].type /\ items[j].owner = items[k].owner
      BY <2>1, <3>1
    <3>3. items[j].on /\ items[k].on => j = k
      BY <2>1, <3>1
    <3> QED BY <2>2, <3>2, <3>3
  <2>5. Named'
    BY <1>6, <2>1, <2>2, <2>3, <2>4 DEF Named, Same
  <2> QED BY <1>6, <2>5 DEF Tables
<1>9. ReceiptsAsked' /\ AlertsAsked'
  BY <1>1, <1>4, <1>6 DEF Inv, ReceiptsAsked, AlertsAsked, Asked
<1> QED BY <1>1, <1>7, <1>8, <1>9, Outside

\* A threat that is detected again moves, and keeps its name.
LEMMA RedetectKeeps ==
  ASSUME Inv, NEW i \in DOMAIN items, Redetect(i)
  PROVE  Inv' /\ Grows /\ Fades
<1>1. PICK off : off = [items[i] EXCEPT !.on = FALSE]
  OBVIOUS
<1>2. PICK row : row = Row("threat", items[i].owner, items[i].id)
  OBVIOUS
<1>3. PICK n : n = Len(items) + 1
  OBVIOUS
<1>4. /\ UNCHANGED <<receipts, readAt, request, asked>> /\ items[i].on /\ items[i].type = "threat"
      /\ items' = Append([items EXCEPT ![i] = off], row)
  BY <1>1, <1>2 DEF Redetect
<1>5. items \in Seq(Rows) /\ Named /\ items[i] \in Rows
  BY DEF Inv, TypeOK
<1>6. /\ off \in Rows /\ off.type = "threat" /\ off.owner = items[i].owner /\ off.id = items[i].id
      /\ ~off.on
  BY <1>1, <1>4, <1>5 DEF Rows
<1>7. /\ row \in Rows /\ row.type = "threat" /\ row.owner = items[i].owner /\ row.id = items[i].id
      /\ row.on
  BY <1>2, <1>4, <1>5 DEF Rows, Row
<1>8. /\ items' \in Seq(Rows) /\ DOMAIN items' = DOMAIN items \cup {n} /\ n \notin DOMAIN items
      /\ items'[n] = row /\ items'[i] = off
      /\ \A j \in DOMAIN items : j # i => items'[j] = items[j]
  <2>1. PICK rest : rest = [items EXCEPT ![i] = off]
    OBVIOUS
  <2>2. /\ rest \in Seq(Rows) /\ DOMAIN rest = DOMAIN items /\ Len(rest) = Len(items)
        /\ rest[i] = off /\ \A j \in DOMAIN items : j # i => rest[j] = items[j]
    BY <1>5, <1>6, <2>1
  <2> QED BY <1>3, <1>4, <1>7, <2>1, <2>2
<1>9. Grows
  BY <1>4, <1>6, <1>8 DEF Grows
<1>10. Fades
  BY <1>4, <1>6, <1>7, <1>8 DEF Fades
<1>11. Named'
  <2> SUFFICES ASSUME NEW j \in DOMAIN items', NEW k \in DOMAIN items'
               PROVE  /\ items'[j].id \in DOMAIN items'
                      /\ items'[j].type # "threat" => items'[j].id = j
                      /\ items'[j].id = items'[k].id =>
                           /\ items'[j].type = items'[k].type /\ items'[j].owner = items'[k].owner
                           /\ items'[j].on /\ items'[k].on => j = k
    BY DEF Named, Same
  <2>1. \A l \in DOMAIN items' :
          \E m \in DOMAIN items :
             /\ items'[l].id = items[m].id /\ items'[l].type = items[m].type
             /\ items'[l].owner = items[m].owner
             /\ m = IF l = n THEN i ELSE l
    BY <1>4, <1>6, <1>7, <1>8
  <2>2. \A l, m \in DOMAIN items : items[l].id = items[m].id =>
           /\ items[l].type = items[m].type /\ items[l].owner = items[m].owner
           /\ items[l].on /\ items[m].on => l = m
    BY <1>5 DEF Named, Same
  <2>3. \A l \in DOMAIN items : items[l].id \in DOMAIN items
                               /\ (items[l].type # "threat" => items[l].id = l)
    BY <1>5 DEF Named
  <2>4. items'[j].id \in DOMAIN items'
    BY <1>8, <2>1, <2>3
  <2>5. items'[j].type # "threat" => items'[j].id = j
    <3>1. CASE j = n
      BY <1>7, <1>8, <3>1
    <3>2. CASE j # n
      <4>1. j \in DOMAIN items
        BY <1>8, <3>2
      <4>2. items'[j].type = items[j].type /\ items'[j].id = items[j].id
        BY <1>9, <4>1 DEF Grows
      <4> QED BY <2>3, <4>1, <4>2
    <3> QED BY <3>1, <3>2
  <2>6. items'[j].id = items'[k].id =>
           items'[j].type = items'[k].type /\ items'[j].owner = items'[k].owner
    BY <2>1, <2>2
  <2>7. ASSUME items'[j].id = items'[k].id, items'[j].on, items'[k].on PROVE j = k
    <3>1. \A l \in DOMAIN items : items'[l].on => l # i /\ items[l].on
      BY <1>6, <1>8
    <3>2. \A l \in DOMAIN items : items'[l].on => items'[l].id # items[i].id
      BY <1>4, <1>8, <2>2, <3>1
    <3>3. CASE j = n
      BY <1>7, <1>8, <2>7, <3>2, <3>3
    <3>4. CASE k = n
      BY <1>7, <1>8, <2>7, <3>2, <3>4
    <3>5. CASE j # n /\ k # n
      BY <1>8, <2>2, <2>7, <3>1, <3>5
    <3> QED BY <3>3, <3>4, <3>5
  <2> QED BY <2>4, <2>5, <2>6, <2>7
<1>12. Tables'
  BY <1>8, <1>11 DEF Tables
<1>13. ReceiptsAsked' /\ AlertsAsked'
  <2>1. DOMAIN items \subseteq DOMAIN items' /\ receipts' = receipts /\ readAt' = readAt /\ asked' = asked
    BY <1>4, <1>8
  <2>2. \A j \in DOMAIN items : items'[j].type = items[j].type /\ items'[j].owner = items[j].owner
    BY <1>9 DEF Grows
  <2> QED BY <2>1, <2>2 DEF Inv, ReceiptsAsked, AlertsAsked, Asked
<1> QED BY <1>4, <1>9, <1>10, <1>12, <1>13, Outside

\* A restart loses the requests, and nothing else.
LEMMA RestartKeeps ==
  ASSUME Inv, UNCHANGED <<items, receipts, readAt, asked>>,
         request' \in {request, [w \in Workers |-> None]}
  PROVE  Inv'
<1>1. Grows /\ Tables' /\ ReceiptsAsked' /\ AlertsAsked'
  BY TablesStay DEF Grows, Inv, ReceiptsAsked, AlertsAsked, Asked
<1>2. request' \in [Workers -> Requests \cup {None}]
  BY DEF Inv, TypeOK
<1>3. \A w \in Workers : request'[w] \in {request[w], None}
  OBVIOUS
<1> QED BY <1>1, <1>2, <1>3, Kept

-----------------------------------------------------------------------------
(* The theorems *)

LEMMA InitInv == Init => Inv
<1> SUFFICES ASSUME Init PROVE Inv
  OBVIOUS
<1>1. items \in Seq(Rows) /\ \A i \in DOMAIN items : items[i].id = i
  BY ItemsAssumption DEF Init
<1>2. Named
  BY <1>1 DEF Named, Same
<1> QED BY <1>1, <1>2 DEF Init, Inv, TypeOK, ReceiptsAsked, AlertsAsked, AllHeld

LEMMA NextInv == Inv /\ [Next]_vars => Inv'
<1> SUFFICES ASSUME Inv, [Next]_vars PROVE Inv'
  OBVIOUS
<1>1. ASSUME NEW w \in Workers, Step(w) PROVE Inv'
  BY <1>1, ReadReceiptsKeeps, FindWalletKeeps, ReadTableKeeps, LookupKeeps, MarkAlertsKeeps,
     MarkNextKeeps, MarkDoneKeeps, ReplyKeeps DEF Step
<1>2. ASSUME NEW w \in Workers, NEW kind \in {"list", "all"}, NEW u \in Wallets,
             NEW limit \in Limits \cup {AllLimit}, Begin(w, kind, u, limit)
      PROVE  Inv'
  BY <1>2, BeginKeeps
<1>3. ASSUME NEW a \in Arrivals, Arrive(a.type, a.owner) PROVE Inv'
  BY <1>3, ArriveKeeps
<1>4. ASSUME NEW i \in DOMAIN items, Close(i) \/ Redetect(i) PROVE Inv'
  BY <1>4, CloseKeeps, RedetectKeeps
<1>5. ASSUME NEW u \in Wallets, NEW type \in TypeSet, NEW i \in DOMAIN items, MarkRead(u, type, i)
      PROVE  Inv'
  BY <1>5, MarkReadKeeps
<1>6. ASSUME NEW u \in Wallets, DashboardMarkAll(u) PROVE Inv'
  BY <1>6, DashboardKeeps
<1>7. CASE Restart
  BY <1>7, RestartKeeps DEF Restart
<1>8. CASE UNCHANGED vars
  BY <1>8, RestartKeeps DEF vars
<1> QED BY <1>1, <1>2, <1>3, <1>4, <1>5, <1>6, <1>7, <1>8 DEF Next

\* What requests know stays true of the tables, however they interleave, fail and
\* restart.
THEOREM InvHolds == Spec => []Inv
<1>1. Init => Inv
  BY InitInv
<1>2. Inv /\ [Next]_vars => Inv'
  BY NextInv
<1> QED BY <1>1, <1>2, PTL DEF Spec

\* Nothing becomes read for a wallet that did not ask for it, even while many mark at
\* once (mark_read, mark_all_read, mark_all_alerts_read).
THEOREM OwnersHold == Spec => []ReadByItsOwner
<1>1. Inv => ReadByItsOwner
  <2> SUFFICES ASSUME Inv, NEW u \in Wallets, NEW i \in ReadItems(u)
               PROVE  Asked(u, items[i].id)
    BY DEF ReadByItsOwner, Asked
  <2>1. CASE <<u, items[i].type, items[i].id>> \in receipts
    BY <2>1 DEF Inv, ReceiptsAsked
  <2>2. CASE i \in readAt
    <3>1. /\ i \in DOMAIN items /\ items[i].type = "alert" /\ items[i].owner \in Wallets
          /\ Asked(items[i].owner, i)
      BY <2>2 DEF Inv, AlertsAsked
    <3>2. items[i].owner = u
      BY <3>1, WalletsAssumption DEF ReadItems, OfWallet
    <3>3. items[i].id = i
      BY <3>1 DEF Inv, Named
    <3> QED BY <3>1, <3>2, <3>3
  <2> QED BY <2>1, <2>2 DEF ReadItems, IsRead
<1> QED BY <1>1, InvHolds, PTL

\* The unread count of an answer has no item that was read when the request came, and what
\* it shows as read is read, for lists of any length.
THEOREM CountHolds == Spec => []CountIsHonest
<1>1. Inv => CountIsHonest
  <2> SUFFICES ASSUME Inv, NEW w \in Workers, NEW r, r = request[w], r # None
               PROVE  /\ \A i \in r.unread, j \in r.read : ~Same(i, j)
                      /\ \A i \in r.page \ r.unread : IsRead(r.wallet, i)
    BY DEF CountIsHonest, At
  <2>1. Held(r)
    BY Current
  <2> QED BY <2>1 DEF Held
<1> QED BY <1>1, InvHolds, PTL

\* Rows and requests keep their types.
THEOREM TypeHolds == Spec => []TypeOK
<1>1. Inv => TypeOK
  BY DEF Inv
<1> QED BY <1>1, InvHolds, PTL

-----------------------------------------------------------------------------
(* Marking everything *)

\* The places of the rows a list of a wallet may hold, their names, and that the list
\* has room for them all.
Own(u) == {j \in DOMAIN items : OfWallet(u, j)}
Names(u) == {items[k].id : k \in Own(u)}
Small(r) == Cardinality(Names(r.wallet)) <= r.limit

\* Where the list is complete.
Last == {"lookup", "alerts", "marks", "done"}

\* The tables a list has read when it is at a place.
Before(pc) ==
  {type \in TypeSet :
     \/ pc \in Last
     \/ pc = "approval_alert" /\ type # "approval_alert"
     \/ pc = "threat" /\ type \in {"broadcast", "alert", "activity"}
     \/ pc = "activity" /\ type \in {"broadcast", "alert"}
     \/ pc \in {"wallet", "alert"} /\ type = "broadcast"}

\* Those whose rows are marked one by one.
Passed(pc) == Before(pc) \ {"alert"}

\* The places where the wallet sees what it saw when the request began.
Seen(r) == {j \in Visible(r.wallet) : \E i \in r.visible : Same(i, j)}

\* A set of places has the row of a place.
Has(S, j) == \E k \in S : Same(k, j)

\* What a mark-all that missed nothing still has to mark: each item of a table it has
\* read is read, unread in its list or left to mark, and the alerts are read.
Owed(r) ==
  r.kind = "all" /\ ~r.missed =>
    /\ r.visible \subseteq DOMAIN items /\ r.left \subseteq DOMAIN items
    /\ r.page \subseteq Own(r.wallet) /\ r.unread \subseteq r.page
    /\ \A i \in r.page : items[i].type \in Before(r.pc)
    /\ \A i, j \in r.page : Same(i, j) => i = j
    /\ r.pc \in {"alerts", "marks", "done"} => r.wallet \in Registered
    /\ r.pc = "done" => r.left = {}
    /\ \A j \in Seen(r) :
         /\ items[j].type = "alert" /\ r.pc \in {"marks", "done"} => j \in readAt
         /\ items[j].type \in Passed(r.pc) /\ r.wallet \in Registered /\ Small(r) =>
              \/ IsRead(r.wallet, j)
              \/ r.pc \notin Last /\ Has(r.unread, j)
              \/ r.pc \in Last /\ Has(r.left, j)

AllOwed == \A w \in Workers : request[w] # None => Owed(request[w])

\* The rows are finitely many.
LEMMA RowsFinite ==
  ASSUME NEW rows \in Seq(Rows), NEW S \in SUBSET DOMAIN rows
  PROVE  IsFiniteSet(S) /\ S \subseteq Nat
<1>1. DOMAIN rows = 1 .. Len(rows) /\ Len(rows) \in Nat
  OBVIOUS
<1>2. IsFiniteSet(1 .. Len(rows))
  BY <1>1, FS_Interval
<1> QED BY <1>1, <1>2, FS_Subset

\* No limit cuts what is no longer than it.
LEMMA NewestAll ==
  ASSUME NEW T, IsFiniteSet(T), NEW limit \in Nat, Cardinality(T) <= limit,
         NEW S \in SUBSET T, T \subseteq Nat
  PROVE  Newest(S, limit) = S
<1>1. ASSUME NEW i \in S PROVE Cardinality({j \in S : j > i}) < limit
  <2>1. {j \in S : j > i} \subseteq T \ {i}
    <3>1. i \in Nat /\ ~(i > i)
      BY <1>1
    <3> QED BY ONLY S \in SUBSET T, <3>1
  <2>2. IsFiniteSet(T \ {i}) /\ Cardinality(T \ {i}) = Cardinality(T) - 1
    BY <1>1, FS_RemoveElement
  <2>3. /\ Cardinality({j \in S : j > i}) <= Cardinality(T \ {i})
        /\ IsFiniteSet({j \in S : j > i})
    BY <2>1, <2>2, FS_Subset
  <2>4. Cardinality(T) \in Nat /\ Cardinality({j \in S : j > i}) \in Nat
    BY <2>3, FS_CardinalityType
  <2> QED BY <2>2, <2>3, <2>4
<1> QED BY <1>1 DEF Newest

\* The names of a wallet's rows are finitely many numbers.
LEMMA NamesFinite ==
  ASSUME Inv, NEW u
  PROVE  /\ IsFiniteSet(Names(u)) /\ Names(u) \subseteq DOMAIN items /\ Cardinality(Names(u)) \in Nat
         /\ IsFiniteSet(Own(u)) /\ Own(u) \subseteq Nat
<1>1. items \in Seq(Rows) /\ Own(u) \in SUBSET DOMAIN items
  BY DEF Inv, TypeOK, Own
<1>2. Names(u) \in SUBSET DOMAIN items
  BY <1>1 DEF Names, Inv, Named
<1> QED BY <1>1, <1>2, RowsFinite, FS_CardinalityType

\* Of rows that are all different no limit cuts any, if it lets all of the wallet's in.
LEMMA FitsAll ==
  ASSUME Inv, NEW u, NEW limit \in Nat, Cardinality(Names(u)) <= limit,
         NEW S \in SUBSET Own(u), \A i, j \in S : Same(i, j) => i = j
  PROVE  Newest(S, limit) = S
<1>1. /\ IsFiniteSet(Names(u)) /\ Cardinality(Names(u)) \in Nat
      /\ IsFiniteSet(Own(u)) /\ Own(u) \subseteq Nat
  BY NamesFinite
<1>2. IsFiniteSet(S) /\ S \subseteq Nat /\ Cardinality(S) \in Nat
  BY <1>1, FS_Subset, FS_CardinalityType
<1>3. PICK name : name = [i \in S |-> items[i].id]
  OBVIOUS
<1>4. name \in [S -> Names(u)]
  BY <1>3 DEF Names
<1>5. ~(Cardinality(Names(u)) < Cardinality(S))
  <2> SUFFICES ASSUME Cardinality(Names(u)) < Cardinality(S) PROVE FALSE
    OBVIOUS
  <2>1. PICK i \in S, j \in S : i # j /\ name[i] = name[j]
    BY <1>1, <1>2, <1>4, FS_PigeonHole
  <2> QED BY <1>3, <2>1 DEF Same
<1>6. Cardinality(S) <= limit
  BY <1>1, <1>2, <1>5
<1> QED BY <1>2, <1>6, NewestAll

\* The set of limits is one of numbers.
LEMMA LimitsNat == Limits \cup {AllLimit} \subseteq Nat
BY LimitAssumption

\* What a wallet still sees after a step, it saw before it: the same row, in the same
\* place but for a threat.
LEMMA SeenStays ==
  ASSUME Inv, Inv', Grows, Fades, NEW u, NEW i \in DOMAIN items, NEW j \in DOMAIN items',
         items'[j].on, items'[j].owner \in {None, u}, items'[i].id = items'[j].id
  PROVE  \E k \in Visible(u) : /\ Same(i, k) /\ items'[j].id = items[k].id
                               /\ items'[j].type = items[k].type
                               /\ items[k].type # "threat" => j = k
<1>1. items'[j].id = items[i].id /\ items[i].id \in DOMAIN items
  BY DEF Grows, Inv, Named
<1>2. PICK k \in DOMAIN items : /\ items[k].on /\ items[k].id = items'[j].id
                                /\ items[k].type = items'[j].type /\ items[k].owner = items'[j].owner
  BY <1>1 DEF Fades
<1>3. k \in Visible(u) /\ Same(i, k)
  BY <1>1, <1>2 DEF Same, Visible, OfWallet
<1>4. items[k].type # "threat" => items[k].id = k
  BY <1>2 DEF Inv, Named
<1>5. items'[j].type # "threat" => items'[j].id = j
  BY DEF Inv, Named
<1> QED BY <1>2, <1>3, <1>4, <1>5

\* What is owed is no more after any step.
LEMMA OwedStays ==
  ASSUME Inv, Inv', Grows, Fades, NEW r, r.limit \in Nat, Owed(r)
  PROVE  Owed(r)'
<1>1. SUFFICES ASSUME r.kind = "all", ~r.missed PROVE Owed(r)'
  BY DEF Owed
<1>2. Own(r.wallet) \subseteq Own(r.wallet)'
  BY DEF Grows, Own, OfWallet
<1>3. Small(r)' => Small(r)
  <2>1. Names(r.wallet) \subseteq Names(r.wallet)'
    <3>1. \A k \in Own(r.wallet) : items'[k].id = items[k].id
      BY DEF Own, Grows
    <3> QED BY <1>2, <3>1 DEF Names
  <2>2. IsFiniteSet(Names(r.wallet)') /\ Cardinality(Names(r.wallet)') \in Nat
    <3>1. items' \in Seq(Rows) /\ Own(r.wallet)' \subseteq DOMAIN items'
      BY DEF Inv, TypeOK, Own
    <3>2. Names(r.wallet)' \subseteq DOMAIN items'
      BY <3>1 DEF Names, Inv, Named
    <3> QED BY <3>1, <3>2, RowsFinite, FS_CardinalityType
  <2>3. Cardinality(Names(r.wallet)) <= Cardinality(Names(r.wallet)')
    BY <2>1, <2>2, FS_Subset
  <2>4. Cardinality(Names(r.wallet)) \in Nat
    BY NamesFinite
  <2> QED BY <2>2, <2>3, <2>4 DEF Small
<1>4. /\ r.visible \subseteq DOMAIN items /\ r.left \subseteq DOMAIN items
      /\ r.page \subseteq Own(r.wallet) /\ r.unread \subseteq r.page
      /\ Own(r.wallet) \subseteq DOMAIN items
  BY <1>1 DEF Owed, Own
<1>5. \A i, j \in DOMAIN items : /\ Same(i, j)' => Same(i, j)
                                 /\ items'[i].type = items[i].type
  BY DEF Grows, Same
<1>6. ASSUME NEW j \in Seen(r)'
      PROVE  /\ items'[j].type = "alert" /\ r.pc \in {"marks", "done"} => j \in readAt'
             /\ items'[j].type \in Passed(r.pc) /\ r.wallet \in Registered /\ Small(r)' =>
                  \/ IsRead(r.wallet, j)'
                  \/ r.pc \notin Last /\ Has(r.unread, j)'
                  \/ r.pc \in Last /\ Has(r.left, j)'
  <2>1. PICK k \in Seen(r) : /\ items'[j].id = items[k].id /\ items'[j].type = items[k].type
                             /\ items[k].type # "threat" => j = k
    <3>1. j \in DOMAIN items' /\ items'[j].on /\ items'[j].owner \in {None, r.wallet}
      BY DEF Seen, Visible, OfWallet
    <3>2. PICK i \in r.visible : items'[i].id = items'[j].id
      BY DEF Seen, Same
    <3>3. i \in DOMAIN items
      BY <1>4
    <3>4. PICK k \in Visible(r.wallet) : /\ Same(i, k) /\ items'[j].id = items[k].id
                                         /\ items'[j].type = items[k].type
                                         /\ items[k].type # "threat" => j = k
      BY <3>1, <3>2, <3>3, SeenStays
    <3>5. k \in Seen(r)
      BY <3>2, <3>4 DEF Seen
    <3> QED BY <3>4, <3>5
  <2>2. k \in DOMAIN items
    BY DEF Seen, Visible
  <2>3. IsRead(r.wallet, k) => IsRead(r.wallet, j)'
    BY <2>1 DEF IsRead, Grows
  <2>4. ASSUME NEW S \in SUBSET DOMAIN items, Has(S, k) PROVE Has(S, j)'
    <3>1. PICK l \in S : items[l].id = items[k].id
      BY <2>4 DEF Has, Same
    <3>2. items'[l].id = items[l].id
      BY <3>1 DEF Grows
    <3> QED BY <2>1, <3>1, <3>2 DEF Has, Same
  <2>5. (Has(r.unread, k) => Has(r.unread, j)') /\ (Has(r.left, k) => Has(r.left, j)')
    BY <1>4, <2>4
  <2>6. /\ items[k].type = "alert" /\ r.pc \in {"marks", "done"} => k \in readAt
        /\ items[k].type \in Passed(r.pc) /\ r.wallet \in Registered /\ Small(r) =>
             \/ IsRead(r.wallet, k)
             \/ r.pc \notin Last /\ Has(r.unread, k)
             \/ r.pc \in Last /\ Has(r.left, k)
    BY <1>1 DEF Owed
  <2>7. items'[j].type = "alert" /\ r.pc \in {"marks", "done"} => j \in readAt'
    BY <2>1, <2>6 DEF Grows
  <2> HIDE DEF Small, Has, IsRead
  <2> QED BY <1>3, <2>1, <2>3, <2>5, <2>6, <2>7
<1>7. \A i \in r.page : items'[i].type \in Before(r.pc)
  BY <1>1, <1>4, <1>5 DEF Owed
<1>8. \A i, j \in r.page : Same(i, j)' => i = j
  BY <1>1, <1>4, <1>5 DEF Owed
<1> HIDE DEF Small, Has, Seen
<1> QED BY <1>1, <1>2, <1>4, <1>6, <1>7, <1>8 DEF Grows, Owed

LEMMA OwedKept ==
  ASSUME Inv, Inv', AllOwed, Grows, Fades,
         \A w \in Workers : request'[w] \in {request[w], None} \/ Owed(request[w])'
  PROVE  AllOwed'
<1>1. ASSUME NEW w \in Workers, request'[w] # None PROVE Owed(request[w])'
  <2>1. CASE request'[w] = request[w]
    <3>1. PICK r : r = request[w]
      OBVIOUS
    <3>2. r \in Requests /\ Owed(r)
      BY <1>1, <2>1, <3>1, Current DEF AllOwed
    <3>3. r.limit \in Nat
      BY <3>2, LimitsNat DEF Requests
    <3>4. Owed(r)'
      BY <3>2, <3>3, OwedStays
    <3> QED BY <2>1, <3>1, <3>4
  <2> QED BY <1>1, <2>1
<1> QED BY <1>1 DEF AllOwed

\* The same for a step that writes nothing but its own request.
LEMMA OwedMoved ==
  ASSUME Inv, Inv', AllOwed, NEW w \in Workers, NEW t, UNCHANGED <<items, receipts, readAt, asked>>,
         request' = [request EXCEPT ![w] = t], t # None => Owed(t)
  PROVE  AllOwed'
<1>1. Grows /\ Fades
  BY DEF Grows, Fades
<1>2. \A v \in Workers : request'[v] = IF v = w THEN t ELSE request[v]
  BY DEF Inv, TypeOK
<1>3. t # None => t \in Requests
  BY <1>2 DEF Inv, TypeOK
<1>4. t # None => t.limit \in Nat
  BY <1>3, LimitsNat DEF Requests
<1>5. t # None => Owed(t)'
  BY <1>1, <1>4, OwedStays
<1> QED BY <1>1, <1>2, <1>5, OwedKept

\* The tables a list holds grow by the one it reads.
LEMMA PassedNext ==
  ASSUME NEW r, r.kind = "all"
  PROVE  /\ r.pc \in TypeSet /\ r.wallet \in Registered
              => \A type \in Passed(NextPc(r)) : type \in Passed(r.pc) \/ type = r.pc
         /\ r.pc = "wallet" /\ r.wallet \in Registered
              => \A type \in Passed(NextPc(r)) : type \in Passed(r.pc)
         /\ r.pc \in TypeSet => (NextPc(r) \in Last <=> r.pc = "approval_alert")
         /\ r.pc = "wallet" => NextPc(r) \notin Last
         /\ NextPc(r) \notin {"alerts", "marks", "done"}
         /\ r.pc \in TypeSet \cup {"wallet"} => \A type \in Before(r.pc) : type \in Before(NextPc(r))
         /\ r.pc \in TypeSet => r.pc \in Before(NextPc(r)) /\ r.pc \notin Before(r.pc)
BY FiveTypes DEF Passed, Before, NextPc, Last

LEMMA OwedBegin ==
  ASSUME Inv, Inv', AllOwed, NEW w \in Workers, NEW kind \in {"list", "all"}, NEW u \in Wallets,
         NEW limit \in Limits \cup {AllLimit}, Begin(w, kind, u, limit)
  PROVE  AllOwed'
<1>1. PICK r : r = [kind |-> kind, wallet |-> u, limit |-> limit, pc |-> "receipts",
                    receipts |-> {}, page |-> {}, unread |-> {}, left |-> {}, missed |-> FALSE,
                    visible |-> Visible(u), read |-> ReadItems(u)]
  OBVIOUS
<1>2. /\ request' = [request EXCEPT ![w] = r]
      /\ UNCHANGED <<items, receipts, readAt>> /\ asked \subseteq asked'
  BY <1>1 DEF Begin, Continue
<1>3. Grows /\ Fades
  BY <1>2 DEF Grows, Fades
<1>4. "receipts" \notin Last /\ \A type : type \notin Passed("receipts")
  BY FiveTypes DEF Passed, Before, Last
<1>5. /\ r.pc = "receipts" /\ r.page = {} /\ r.unread = {} /\ r.visible = Visible(u) /\ r.left = {}
  BY <1>1
<1>6. Visible(u) \subseteq DOMAIN items'
  BY <1>2 DEF Visible
<1>7. Owed(r)'
  BY <1>4, <1>5, <1>6 DEF Owed
<1>8. \A v \in Workers : request'[v] = IF v = w THEN r ELSE request[v]
  BY <1>2 DEF Inv, TypeOK
<1> QED BY <1>3, <1>7, <1>8, OwedKept

LEMMA OwedReceipts ==
  ASSUME Inv, Inv', AllOwed, NEW w \in Workers, ReadReceipts(w)
  PROVE  AllOwed'
<1>1. PICK r : r = request[w]
  OBVIOUS
<1>2. r \in Requests /\ Owed(r) /\ r.pc = "receipts"
  BY <1>1, Current DEF ReadReceipts, At, AllOwed
<1>3. UNCHANGED <<items, receipts, readAt, asked>>
  BY DEF ReadReceipts
<1>4. CASE Stop(w)
  BY <1>3, <1>4, OwedMoved DEF Stop
<1>5. ASSUME NEW mine, Continue(w, [r EXCEPT !.receipts = mine, !.pc = "broadcast"]) PROVE AllOwed'
  <2>1. PICK t : t = [r EXCEPT !.receipts = mine, !.pc = "broadcast"]
    OBVIOUS
  <2>2. /\ t.kind = r.kind /\ t.wallet = r.wallet /\ t.pc = "broadcast" /\ t.page = r.page
        /\ t.unread = r.unread /\ t.visible = r.visible /\ t.missed = r.missed /\ t.left = r.left
    BY <1>2, <2>1 DEF Requests
  <2>3. "broadcast" \notin Last /\ \A type : type \notin Passed("broadcast") /\ type \notin Before("receipts")
    BY FiveTypes DEF Passed, Before, Last
  <2>4. Owed(t)
    BY <1>2, <2>2, <2>3 DEF Owed
  <2> QED BY <1>3, <1>5, <2>1, <2>4, OwedMoved DEF Continue
<1> QED BY <1>1, <1>4, <1>5 DEF ReadReceipts

LEMMA OwedWallet ==
  ASSUME Inv, Inv', AllOwed, NEW w \in Workers, FindWallet(w)
  PROVE  AllOwed'
<1>1. PICK r : r = request[w]
  OBVIOUS
<1>2. r \in Requests /\ Owed(r) /\ r.pc = "wallet"
  BY <1>1, Current DEF FindWallet, At, AllOwed
<1>3. UNCHANGED <<items, receipts, readAt, asked>>
  BY DEF FindWallet
<1>4. CASE Continue(w, [r EXCEPT !.pc = NextPc(r)])
  <2>1. PICK t : t = [r EXCEPT !.pc = NextPc(r)]
    OBVIOUS
  <2>2. /\ t.kind = r.kind /\ t.wallet = r.wallet /\ t.pc = NextPc(r) /\ t.page = r.page
        /\ t.unread = r.unread /\ t.visible = r.visible /\ t.missed = r.missed /\ t.limit = r.limit
        /\ t.left = r.left
    BY <1>2, <2>1 DEF Requests
  <2>3. "wallet" \notin Last
    BY DEF Last
  <2>4. t.kind = "all" => /\ t.wallet \in Registered => \A type \in Passed(t.pc) : type \in Passed(r.pc)
                          /\ t.pc \notin Last /\ t.pc \notin {"alerts", "marks", "done"}
                          /\ \A type \in Before(r.pc) : type \in Before(t.pc)
    BY <1>2, <2>2, PassedNext
  <2>5. Seen(t) = Seen(r) /\ (Small(t) => Small(r))
    BY <2>2 DEF Seen, Small
  <2> HIDE DEF Seen, Small, Has
  <2>6. Owed(t)
    BY <1>2, <2>2, <2>3, <2>4, <2>5 DEF Owed
  <2> QED BY <1>3, <1>4, <2>1, <2>6, OwedMoved DEF Continue
<1>5. CASE Continue(w, [r EXCEPT !.pc = "approval_alert", !.missed = TRUE])
  <2>1. PICK t : t = [r EXCEPT !.pc = "approval_alert", !.missed = TRUE]
    OBVIOUS
  <2>2. t.missed
    BY <1>2, <2>1 DEF Requests
  <2>3. Owed(t)
    BY <2>2 DEF Owed
  <2> QED BY <1>3, <1>5, <2>1, <2>3, OwedMoved DEF Continue
<1> QED BY <1>1, <1>4, <1>5 DEF FindWallet

LEMMA OwedTable ==
  ASSUME Inv, Inv', AllOwed, NEW w \in Workers, ReadTable(w)
  PROVE  AllOwed'
<1>1. PICK r : r = request[w]
  OBVIOUS
<1>2. r \in Requests /\ Held(r) /\ Owed(r) /\ r.pc \in TypeSet
  BY <1>1, Current DEF ReadTable, AllOwed
<1>3. UNCHANGED <<items, receipts, readAt, asked>>
  BY DEF ReadTable
<1>4. PICK rows : rows = Newest(Table(r.wallet, r.pc), r.limit)
  OBVIOUS
<1>5. PICK fresh : fresh = {i \in rows : ~ShownRead(r, i)}
  OBVIOUS
<1>6. CASE Continue(w, [Merge([r EXCEPT !.missed = TRUE]) EXCEPT !.pc = NextPc(r)])
  <2>1. PICK s : s = [r EXCEPT !.missed = TRUE]
    OBVIOUS
  <2>2. PICK t : t = [Merge(s) EXCEPT !.pc = NextPc(r)]
    OBVIOUS
  <2>3. s.missed /\ s \in Requests
    BY <1>2, <2>1 DEF Requests
  <2>4. t.missed
    BY <2>2, <2>3 DEF Merge, Requests
  <2>5. Owed(t)
    BY <2>4 DEF Owed
  <2> QED BY <1>3, <1>6, <2>1, <2>2, <2>5, OwedMoved DEF Continue
<1>7. CASE Continue(w, [Merge([r EXCEPT !.page = @ \cup rows, !.unread = @ \cup fresh])
                         EXCEPT !.pc = NextPc(r)])
  <2>1. PICK s : s = [r EXCEPT !.page = @ \cup rows, !.unread = @ \cup fresh]
    OBVIOUS
  <2>2. /\ s.kind = r.kind /\ s.wallet = r.wallet /\ s.pc = r.pc /\ s.visible = r.visible
        /\ s.missed = r.missed /\ s.limit = r.limit /\ s.page = r.page \cup rows
        /\ s.unread = r.unread \cup fresh
    BY <1>2, <2>1 DEF Requests
  <2>3. DOMAIN s = DOMAIN r
    BY <2>1
  <2>4. PICK pc : pc = NextPc(r)
    OBVIOUS
  <2>5. PICK t : t = [Merge(s) EXCEPT !.pc = pc]
    OBVIOUS
  <2>6. /\ t.kind = r.kind /\ t.wallet = r.wallet /\ t.pc = pc /\ t.visible = r.visible
        /\ t.missed = r.missed /\ t.limit = r.limit
        /\ r.pc # "approval_alert" => t.page = s.page /\ t.unread = s.unread /\ t.left = r.left
        /\ r.pc = "approval_alert" => /\ t.page = Newest(s.page, r.limit)
                                      /\ t.unread = s.unread \cap Newest(s.page, r.limit)
                                      /\ r.kind = "all" => t.left = ToMark(t.unread)
    <3>1. CASE r.pc # "approval_alert"
      BY <1>2, <2>1, <2>2, <2>5, <3>1 DEF Merge, Requests
    <3>2. CASE r.pc = "approval_alert"
      <4>1. PICK page : page = Newest(s.page, s.limit)
        OBVIOUS
      <4>2. PICK unread : unread = s.unread \cap page
        OBVIOUS
      <4>3. PICK left : left = IF s.kind = "all" THEN ToMark(unread) ELSE {}
        OBVIOUS
      <4>4. t = [s EXCEPT !.page = page, !.unread = unread, !.receipts = {}, !.left = left, !.pc = pc]
        BY <1>2, <2>1, <2>2, <2>5, <3>2, <4>1, <4>2, <4>3 DEF Merge, Requests
      <4>5. DOMAIN s = {"kind", "wallet", "limit", "pc", "receipts", "page", "unread", "left",
                        "missed", "visible", "read"}
        BY <1>2, <2>3 DEF Requests
      <4>6. /\ t.page = page /\ t.unread = unread /\ t.left = left /\ t.pc = pc
            /\ t.kind = s.kind /\ t.wallet = s.wallet /\ t.visible = s.visible
            /\ t.missed = s.missed /\ t.limit = s.limit
        BY <4>4, <4>5
      <4> QED BY <2>2, <3>2, <4>1, <4>2, <4>3, <4>6
    <3> QED BY <3>1, <3>2
  <2>7. Owed(t)
    <3>1. SUFFICES ASSUME r.kind = "all", ~r.missed PROVE Owed(t)
      BY <2>6 DEF Owed
    <3>2. rows \subseteq Own(r.wallet) /\ fresh \subseteq rows
      BY <1>4, <1>5 DEF Newest, Table, Visible, Own
    <3>3. s.page \subseteq Own(r.wallet) /\ s.unread \subseteq s.page
      BY <1>2, <2>2, <3>1, <3>2 DEF Owed
    <3>4. t.page \subseteq s.page /\ t.unread \subseteq t.page
      BY <2>6, <3>3 DEF Newest
    <3>5. r.limit \in Nat
      BY <1>2, LimitsNat DEF Requests
    <3>6. /\ \A type \in Passed(pc) : r.wallet \in Registered => type \in Passed(r.pc) \/ type = r.pc
          /\ pc \in Last <=> r.pc = "approval_alert"
          /\ pc \notin {"alerts", "marks", "done"}
          /\ \A type \in Before(r.pc) : type \in Before(pc)
          /\ r.pc \in Before(pc) /\ r.pc \notin Before(r.pc)
      BY <1>2, <2>4, <3>1, PassedNext
    <3>7. r.pc \notin Last
      BY <1>2, FiveTypes DEF Last
    <3>8. \A i \in rows : items[i].type = r.pc /\ items[i].on
      BY <1>4 DEF Newest, Table, Visible
    <3>9. \A i, j \in s.page : Same(i, j) => i = j
      <4>1. \A i \in s.page : i \in DOMAIN items
        BY <3>3 DEF Own
      <4>2. ASSUME NEW i \in s.page, NEW j \in s.page, Same(i, j) PROVE i = j
        <5>1. /\ items[i].type = items[j].type
              /\ items[i].on /\ items[j].on => i = j
          BY <4>1, <4>2 DEF Inv, Named
        <5>2. CASE i \in rows /\ j \in rows
          BY <3>8, <5>1, <5>2
        <5>3. CASE i \in r.page /\ j \in r.page
          BY <1>2, <3>1, <4>2, <5>3 DEF Owed
        <5>4. \A k \in r.page : items[k].type # r.pc
          BY <1>2, <3>1, <3>6 DEF Owed
        <5> QED BY <2>2, <3>8, <5>1, <5>2, <5>3, <5>4
      <4> QED BY <4>2
    <3>10. \A i \in s.page : items[i].type \in Before(pc)
      BY <1>2, <2>2, <3>1, <3>6, <3>8 DEF Owed
    <3>11. ASSUME NEW j \in Seen(r), items[j].type \in Passed(pc), r.wallet \in Registered, Small(r),
                  ~IsRead(r.wallet, j)
           PROVE  (pc \notin Last /\ Has(t.unread, j)) \/ (pc \in Last /\ Has(t.left, j))
      <4>1. PICK k \in s.unread : Same(k, j)
        <5>1. CASE items[j].type \in Passed(r.pc)
          <6>1. Has(r.unread, j)
            BY <1>2, <3>1, <3>7, <3>11, <5>1 DEF Owed
          <6> QED BY <2>2, <6>1 DEF Has
        <5>2. CASE items[j].type = r.pc
          <6>1. Table(r.wallet, r.pc) \in SUBSET Own(r.wallet) /\ j \in Table(r.wallet, r.pc)
            BY <3>11, <5>2 DEF Table, Visible, Own, Seen
          <6>2. \A i, l \in Table(r.wallet, r.pc) : Same(i, l) => i = l
            BY DEF Table, Visible, Inv, Named
          <6>3. j \in rows
            BY <1>4, <3>5, <3>11, <6>1, <6>2, FitsAll DEF Small
          <6>4. ~ShownRead(r, j)
            BY <1>2, <3>11 DEF Held, ShownRead, IsRead
          <6> QED BY <1>5, <2>2, <6>3, <6>4 DEF Same
        <5> QED BY <3>6, <3>11, <5>1, <5>2
      <4>2. CASE r.pc # "approval_alert"
        BY <2>6, <3>6, <4>1, <4>2 DEF Has
      <4>3. CASE r.pc = "approval_alert"
        <5>1. s.page \in SUBSET Own(r.wallet)
          BY <3>3
        <5>2. Newest(s.page, r.limit) = s.page
          BY <3>5, <3>9, <3>11, <5>1, FitsAll DEF Small
        <5>3. k \in t.unread
          BY <2>6, <3>3, <4>1, <4>3, <5>2
        <5>4. j \in DOMAIN items /\ k \in DOMAIN items
          BY <3>3, <3>11, <4>1 DEF Seen, Visible, Own
        <5>5. items[k].type # "alert"
          <6>1. items[j].type # "alert"
            BY <3>11 DEF Passed
          <6> QED BY <4>1, <5>4, <6>1 DEF Inv, Named
        <5> QED BY <2>6, <3>1, <3>6, <4>1, <4>3, <5>3, <5>5 DEF ToMark, Has
      <4> QED BY <4>2, <4>3
    <3>12. (Small(t) => Small(r)) /\ Seen(t) = Seen(r)
      BY <2>6 DEF Small, Seen
    <3>13. r.visible \subseteq DOMAIN items
      BY <1>2, <3>1 DEF Owed
    <3>14. t.left \subseteq DOMAIN items
      <4>1. CASE r.pc # "approval_alert"
        BY <1>2, <2>6, <3>1, <4>1 DEF Owed
      <4>2. CASE r.pc = "approval_alert"
        BY <2>6, <3>1, <3>3, <3>4, <4>2 DEF ToMark, Own
      <4> QED BY <4>1, <4>2
    <3>15. \A i \in t.page : items[i].type \in Before(t.pc)
      BY <2>6, <3>4, <3>10
    <3>16. \A i, j \in t.page : Same(i, j) => i = j
      BY <3>4, <3>9
    <3>17. ~({"marks", "done", "alerts"} \cap {t.pc} # {})
      BY <2>6, <3>6
    <3>18. t.page \subseteq Own(t.wallet) /\ t.unread \subseteq t.page /\ t.visible \subseteq DOMAIN items
      BY <2>6, <3>3, <3>4, <3>13
    <3>19. ASSUME NEW j \in Seen(t)
           PROVE  items[j].type \in Passed(t.pc) /\ t.wallet \in Registered /\ Small(t) =>
                    \/ IsRead(t.wallet, j)
                    \/ t.pc \notin Last /\ Has(t.unread, j)
                    \/ t.pc \in Last /\ Has(t.left, j)
      BY <2>6, <3>11, <3>12
    <3> HIDE DEF Small, Seen, Has
    <3> QED BY <3>14, <3>15, <3>16, <3>17, <3>18, <3>19 DEF Owed
  <2> QED BY <1>3, <1>7, <2>1, <2>4, <2>5, <2>7, OwedMoved DEF Continue
<1> QED BY <1>1, <1>4, <1>5, <1>6, <1>7 DEF ReadTable

LEMMA OwedLookup ==
  ASSUME Inv, Inv', AllOwed, NEW w \in Workers, LookupAgain(w)
  PROVE  AllOwed'
<1>1. PICK r : r = request[w]
  OBVIOUS
<1>2. r \in Requests /\ Owed(r) /\ r.pc = "lookup"
  BY <1>1, Current DEF LookupAgain, At, AllOwed
<1>3. UNCHANGED <<items, receipts, readAt, asked>>
  BY DEF LookupAgain
<1>4. CASE Stop(w)
  BY <1>3, <1>4, OwedMoved DEF Stop
<1>5. CASE r.wallet \in Registered /\ Continue(w, [r EXCEPT !.pc = "alerts"])
  <2>1. PICK t : t = [r EXCEPT !.pc = "alerts"]
    OBVIOUS
  <2>2. /\ t.kind = r.kind /\ t.wallet = r.wallet /\ t.pc = "alerts" /\ t.page = r.page
        /\ t.unread = r.unread /\ t.visible = r.visible /\ t.missed = r.missed /\ t.limit = r.limit
        /\ t.left = r.left
    BY <1>2, <2>1 DEF Requests
  <2>3. /\ {"lookup", "alerts"} \subseteq Last /\ Passed("alerts") = Passed("lookup")
        /\ Before("alerts") = Before("lookup")
    BY DEF Last, Passed, Before
  <2>4. Seen(t) = Seen(r) /\ (Small(t) => Small(r))
    BY <2>2 DEF Seen, Small
  <2> HIDE DEF Seen, Small, Has
  <2>5. Owed(t)
    BY <1>2, <1>5, <2>2, <2>3, <2>4 DEF Owed
  <2> QED BY <1>3, <1>5, <2>1, <2>5, OwedMoved DEF Continue
<1> QED BY <1>1, <1>4, <1>5 DEF LookupAgain

LEMMA OwedDone ==
  ASSUME Inv, Inv', AllOwed, NEW w \in Workers, MarkDone(w)
  PROVE  AllOwed'
<1>1. PICK r : r = request[w]
  OBVIOUS
<1>2. r \in Requests /\ Owed(r) /\ r.pc = "marks" /\ r.left = {}
  BY <1>1, Current DEF MarkDone, At, AllOwed
<1>3. UNCHANGED <<items, receipts, readAt, asked>>
  BY DEF MarkDone
<1>4. PICK t : t = [r EXCEPT !.pc = "done"]
  OBVIOUS
<1>5. /\ t.kind = r.kind /\ t.wallet = r.wallet /\ t.pc = "done" /\ t.page = r.page
      /\ t.unread = r.unread /\ t.visible = r.visible /\ t.missed = r.missed /\ t.limit = r.limit
      /\ t.left = {}
  BY <1>2, <1>4 DEF Requests
<1>6. /\ {"marks", "done"} \subseteq Last /\ Passed("done") = Passed("marks")
      /\ Before("done") = Before("marks") /\ Seen(t) = Seen(r) /\ (Small(t) => Small(r))
  BY <1>5 DEF Last, Passed, Before, Seen, Small
<1>7. Owed(t)
  BY <1>2, <1>5, <1>6 DEF Owed
<1>8. request' = [request EXCEPT ![w] = t]
  BY <1>1, <1>4 DEF MarkDone, Continue
<1> QED BY <1>3, <1>7, <1>8, OwedMoved

LEMMA OwedAlerts ==
  ASSUME Inv, Inv', AllOwed, NEW w \in Workers, MarkAlerts(w)
  PROVE  AllOwed'
<1>1. PICK r : r = request[w]
  OBVIOUS
<1>2. r \in Requests /\ Owed(r) /\ r.pc = "alerts" /\ r.wallet \in Wallets /\ r.limit \in Nat
  BY <1>1, Current, LimitsNat DEF MarkAlerts, At, AllOwed, Requests
<1>3. UNCHANGED <<items, receipts, asked>>
  BY DEF MarkAlerts
<1>4. CASE Stop(w) /\ UNCHANGED readAt
  BY <1>3, <1>4, OwedMoved DEF Stop
<1>5. CASE readAt' = readAt \cup AlertsOf(r.wallet) /\ Continue(w, [r EXCEPT !.pc = "marks"])
  <2>1. PICK t : t = [r EXCEPT !.pc = "marks"]
    OBVIOUS
  <2>2. /\ t.kind = r.kind /\ t.wallet = r.wallet /\ t.pc = "marks" /\ t.page = r.page
        /\ t.unread = r.unread /\ t.visible = r.visible /\ t.missed = r.missed /\ t.limit = r.limit
        /\ t.left = r.left
    BY <1>2, <2>1 DEF Requests
  <2>3. {"alerts", "marks"} \subseteq Last /\ Passed("marks") = Passed("alerts")
    BY DEF Last, Passed, Before
  <2>4. Grows /\ Fades
    BY <1>3, <1>5 DEF Grows, Fades
  <2>5. Owed(r)'
    BY <1>2, <2>4, OwedStays DEF Inv, TypeOK
  <2>6. ASSUME NEW i \in Visible(r.wallet), items[i].type = "alert" PROVE i \in readAt'
    <3>1. i \in DOMAIN items /\ (items[i].owner = None \/ items[i].owner = r.wallet)
      BY <2>6 DEF Visible, OfWallet
    <3>2. items[i] \in Rows
      BY <3>1 DEF Inv, TypeOK
    <3>3. items[i].owner # None
      BY <2>6, <3>2 DEF Rows
    <3> QED BY <1>5, <2>6, <3>1, <3>3 DEF AlertsOf
  <2>7. /\ Seen(r)' \subseteq Visible(r.wallet) /\ Seen(t)' = Seen(r)' /\ (Small(t)' => Small(r)')
        /\ Before("marks") = Before("alerts")
    BY <1>3, <2>2 DEF Visible, OfWallet, Seen, Small, Before, Last
  <2>8. Owed(t)'
    <3>1. \A j \in Seen(r)' : items'[j].type = "alert" => j \in readAt'
      BY <1>3, <2>6, <2>7
    <3> QED BY <1>2, <2>2, <2>3, <2>5, <2>7, <3>1 DEF Owed
  <2>9. \A v \in Workers : request'[v] = IF v = w THEN t ELSE request[v]
    BY <1>5, <2>1 DEF Continue, Inv, TypeOK
  <2> QED BY <2>4, <2>8, <2>9, OwedKept
<1> QED BY <1>1, <1>4, <1>5 DEF MarkAlerts

LEMMA OwedNext ==
  ASSUME Inv, Inv', AllOwed, NEW w \in Workers, MarkNext(w)
  PROVE  AllOwed'
<1>1. PICK r : r = request[w]
  OBVIOUS
<1>2. r \in Requests /\ Owed(r) /\ r.pc = "marks" /\ r.limit \in Nat
  BY <1>1, Current, LimitsNat DEF MarkNext, At, AllOwed, Requests
<1>3. UNCHANGED <<items, readAt, asked>>
  BY DEF MarkNext
<1>4. CASE Stop(w) /\ UNCHANGED receipts
  BY <1>3, <1>4, OwedMoved DEF Stop
<1>5. ASSUME NEW i, receipts' = receipts \cup {<<r.wallet, items[i].type, items[i].id>>},
             Continue(w, [r EXCEPT !.left = @ \ {i}])
      PROVE  AllOwed'
  <2>1. PICK t : t = [r EXCEPT !.left = @ \ {i}]
    OBVIOUS
  <2>2. /\ t.kind = r.kind /\ t.wallet = r.wallet /\ t.pc = "marks" /\ t.page = r.page
        /\ t.unread = r.unread /\ t.visible = r.visible /\ t.missed = r.missed /\ t.limit = r.limit
        /\ t.left = r.left \ {i}
    BY <1>2, <2>1 DEF Requests
  <2>3. Grows /\ Fades
    BY <1>3, <1>5 DEF Grows, Fades
  <2>4. Owed(r)'
    BY <1>2, <2>3, OwedStays DEF Inv, TypeOK
  <2>5. "marks" \in Last /\ Seen(t)' = Seen(r)' /\ (Small(t)' => Small(r)')
    BY <2>2 DEF Last, Seen, Small
  <2>6. ASSUME NEW j \in Seen(r)', Has(r.left, j)', r.left \subseteq DOMAIN items
        PROVE  IsRead(r.wallet, j)' \/ Has(t.left, j)'
    <3>1. PICK k \in r.left : items'[k].id = items'[j].id
      BY <2>6 DEF Has, Same
    <3>2. CASE k # i
      BY <2>2, <3>1, <3>2 DEF Has, Same
    <3>3. CASE k = i
      <4>1. i \in DOMAIN items /\ j \in DOMAIN items /\ Same(i, j)
        BY <1>3, <2>6, <3>1, <3>3 DEF Seen, Visible, Same
      <4>2. items[i].type = items[j].type /\ items[i].id = items[j].id
        BY <4>1 DEF Inv, Named, Same
      <4> QED BY <1>3, <1>5, <4>2 DEF IsRead
    <3> QED BY <3>2, <3>3
  <2>7. Owed(t)'
    <3>1. SUFFICES ASSUME r.kind = "all", ~r.missed PROVE Owed(t)'
      BY <2>2 DEF Owed
    <3>2. r.left \subseteq DOMAIN items'
      BY <2>4, <3>1 DEF Owed
    <3>3. t.left \subseteq DOMAIN items' /\ r.left \subseteq DOMAIN items
      BY <1>3, <2>2, <3>2
    <3>4. \A j \in Seen(r)' : Has(r.left, j)' => IsRead(r.wallet, j)' \/ Has(t.left, j)'
      BY <2>6, <3>3
    <3> QED BY <1>2, <2>2, <2>4, <2>5, <3>1, <3>3, <3>4 DEF Owed
  <2>8. \A v \in Workers : request'[v] = IF v = w THEN t ELSE request[v]
    BY <1>5, <2>1 DEF Continue, Inv, TypeOK
  <2> QED BY <2>3, <2>7, <2>8, OwedKept
<1> QED BY <1>1, <1>4, <1>5 DEF MarkNext

\* What every request owes stays true, whatever the others do.
LEMMA NextOwed == Inv /\ AllOwed /\ [Next]_vars => AllOwed'
<1> SUFFICES ASSUME Inv, AllOwed, [Next]_vars PROVE AllOwed'
  OBVIOUS
<1>0. Inv'
  BY NextInv
<1>1. ASSUME NEW w \in Workers, Reply(w) PROVE AllOwed'
  BY <1>0, <1>1, OwedMoved DEF Reply, Stop
<1>2. ASSUME NEW w \in Workers, Step(w) PROVE AllOwed'
  BY <1>0, <1>1, <1>2, OwedReceipts, OwedWallet, OwedTable, OwedLookup, OwedAlerts, OwedNext,
     OwedDone DEF Step
<1>3. ASSUME NEW w \in Workers, NEW kind \in {"list", "all"}, NEW u \in Wallets,
             NEW limit \in Limits \cup {AllLimit}, Begin(w, kind, u, limit)
      PROVE  AllOwed'
  BY <1>0, <1>3, OwedBegin
<1>4. ASSUME Grows, Fades, UNCHANGED request PROVE AllOwed'
  BY <1>0, <1>4, OwedKept
<1>5. ASSUME NEW a \in Arrivals, Arrive(a.type, a.owner) PROVE AllOwed'
  <2>1. Grows /\ Fades
    BY <1>5, ArriveKeeps
  <2> QED BY <1>4, <1>5, <2>1 DEF Arrive
<1>6. ASSUME NEW i \in DOMAIN items, Close(i) \/ Redetect(i) PROVE AllOwed'
  <2>1. Grows /\ Fades
    BY <1>6, CloseKeeps, RedetectKeeps
  <2> QED BY <1>4, <1>6, <2>1 DEF Close, Redetect
<1>7. ASSUME NEW u \in Wallets, NEW type \in TypeSet, NEW i \in DOMAIN items, MarkRead(u, type, i)
      PROVE  AllOwed'
  <2>1. Grows /\ Fades
    BY <1>7 DEF MarkRead, Grows, Fades
  <2> QED BY <1>4, <1>7, <2>1 DEF MarkRead
<1>8. ASSUME NEW u \in Wallets, DashboardMarkAll(u) PROVE AllOwed'
  <2>1. Grows /\ Fades
    BY <1>8 DEF DashboardMarkAll, Grows, Fades
  <2> QED BY <1>4, <1>8, <2>1 DEF DashboardMarkAll
<1>9. ASSUME UNCHANGED <<items, receipts, readAt, asked>>,
             request' \in {request, [w \in Workers |-> None]}
      PROVE  AllOwed'
  <2>1. Grows /\ Fades
    BY <1>9 DEF Grows, Fades
  <2>2. \A w \in Workers : request'[w] \in {request[w], None}
    BY <1>9
  <2> QED BY <1>0, <2>1, <2>2, OwedKept
<1>10. CASE Restart
  BY <1>9, <1>10 DEF Restart
<1>11. CASE UNCHANGED vars
  BY <1>9, <1>11 DEF vars
<1> QED BY <1>2, <1>3, <1>5, <1>6, <1>7, <1>8, <1>10, <1>11 DEF Next

\* A mark-all that answers and missed nothing has marked what the wallet saw when it began
\* and still sees, in its old place or in a new one: all of its alerts, and all the rest if a list can hold it, whatever the
\* other requests do meanwhile (mark_all_read).
THEOREM AllReadHolds == Spec => []AllIsRead
<1>1. Init => AllOwed
  BY DEF Init, AllOwed
<1>2. Inv /\ AllOwed => AllIsRead
  <2> SUFFICES ASSUME Inv, AllOwed, NEW w \in Workers, NEW r, r = request[w], r # None,
                      r.pc = "done", r.kind = "all", ~r.missed,
                      NEW i \in r.visible, NEW j \in Visible(r.wallet), Same(i, j),
                      ~IsRead(r.wallet, j)
               PROVE  items[j].type # "alert" /\ Cardinality(Names(r.wallet)) > r.limit
    BY DEF AllIsRead, At, Own, Names
  <2>1. r \in Requests /\ Owed(r) /\ j \in Seen(r)
    BY Current DEF AllOwed, Seen
  <2>2. items[j].type # "alert"
    BY <2>1 DEF Owed, IsRead
  <2>3. j \in DOMAIN items /\ items \in Seq(Rows)
    BY DEF Visible, Inv, TypeOK
  <2>4. items[j].type \in Passed("done")
    BY <2>2, <2>3 DEF Rows, Passed, Before, Last
  <2>5. "done" \in Last /\ ~Has({}, j)
    BY DEF Last, Has
  <2>6. ~Small(r)
    BY <2>1, <2>4, <2>5 DEF Owed
  <2>7. Cardinality(Names(r.wallet)) \in Nat /\ r.limit \in Nat
    BY <2>1, NamesFinite, LimitsNat DEF Requests
  <2> QED BY <2>2, <2>6, <2>7 DEF Small
<1>3. Inv /\ AllOwed /\ [Next]_vars => AllOwed'
  BY NextOwed
<1> QED BY <1>1, <1>2, <1>3, InvHolds, PTL DEF Spec

-----------------------------------------------------------------------------
(* The newest are shown *)

\* An item is in a set, or there are enough newer ones to leave it out.
Covers(S, i, limit) == i \in S \/ Cardinality({j \in S : j > i}) >= limit

\* The list is full of newer ones than i.
Fills(page, i, limit) == Cardinality(page) = limit /\ \A j \in page : j > i

\* A list that missed nothing covers each item of the tables it has read; once it is cut,
\* it shows the item or is full of newer ones.
Listed(r) ==
  ~r.missed =>
    /\ r.visible \subseteq DOMAIN items
    /\ \A i \in r.visible \cap Visible(r.wallet) :
         items[i].type \in Before(r.pc) =>
           \/ r.pc \notin Last /\ Covers(r.page, i, r.limit)
           \/ r.pc \in Last /\ (i \in r.page \/ Fills(r.page, i, r.limit))

AllListed == \A w \in Workers : request[w] # None => Listed(request[w])

\* A set of numbers that holds 0, and with each number the next, holds them all.
LEMMA NumbersAre ==
  ASSUME NEW G, 0 \in G, \A n \in Nat : n \in G => n + 1 \in G
  PROVE  Nat \subseteq G
<1> DEFINE Below == {p \in Nat \X Nat : p[1] < p[2]}
           Bad == Nat \ G
<1>1. IsWellFoundedOn(Below, Nat)
  BY NatLessThanWellFounded DEF OpToRel
<1> SUFFICES ASSUME Bad # {} PROVE FALSE
  OBVIOUS
<1>2. PICK n \in Bad : \A k \in Bad : <<k, n>> \notin Below
  <2>1. Bad \subseteq Nat
    OBVIOUS
  <2> HIDE DEF Below, Bad
  <2> QED BY <1>1, <2>1, WFMin
<1>3. n # 0 /\ n \in Nat /\ n - 1 \in Nat /\ <<n - 1, n>> \in Below
  OBVIOUS
<1>4. n - 1 \in G
  BY <1>2, <1>3
<1> QED BY <1>3, <1>4

\* A set of numbers has a least one.
LEMMA LeastOf ==
  ASSUME NEW S \in SUBSET Nat, S # {}
  PROVE  \E m \in S : \A k \in S : k >= m
<1> DEFINE Below == {p \in Nat \X Nat : p[1] < p[2]}
<1>1. IsWellFoundedOn(Below, Nat)
  BY NatLessThanWellFounded DEF OpToRel
<1>2. PICK m \in S : \A k \in S : <<k, m>> \notin Below
  <2> HIDE DEF Below
  <2> QED BY <1>1, WFMin
<1>3. ASSUME NEW k \in S PROVE k >= m
  <2>1. k \in Nat /\ m \in Nat
    OBVIOUS
  <2>2. ~(k < m)
    BY <1>2, <2>1
  <2> QED BY <2>1, <2>2
<1> QED BY <1>3

\* The newest of enough items are as many as the limit.
LEMMA NewestFull ==
  ASSUME NEW limit \in Nat, NEW S \in SUBSET Nat, IsFiniteSet(S), Cardinality(S) >= limit
  PROVE  Cardinality(Newest(S, limit)) = limit
<1> DEFINE G == {n \in Nat : \A T \in SUBSET Nat :
                    IsFiniteSet(T) /\ Cardinality(T) = limit + n => Cardinality(Newest(T, limit)) = limit}
<1>1. 0 \in G
  <2> SUFFICES ASSUME NEW T \in SUBSET Nat, IsFiniteSet(T), Cardinality(T) = limit
               PROVE  Cardinality(Newest(T, limit)) = limit
    OBVIOUS
  <2>1. Cardinality(T) <= limit /\ T \in SUBSET T /\ T \subseteq Nat
    OBVIOUS
  <2>2. Newest(T, limit) = T
    BY <2>1, NewestAll
  <2> QED BY <2>2
<1>2. ASSUME NEW n \in Nat, n \in G PROVE n + 1 \in G
  <2> SUFFICES ASSUME NEW T \in SUBSET Nat, IsFiniteSet(T), Cardinality(T) = limit + n + 1
               PROVE  Cardinality(Newest(T, limit)) = limit
    OBVIOUS
  <2>1. T # {}
    <3>1. limit + n + 1 # 0
      OBVIOUS
    <3> QED BY <3>1, FS_EmptySet
  <2>2. PICK m \in T : \A k \in T : k >= m
    BY <2>1, LeastOf
  <2>3. PICK R : R = T \ {m}
    OBVIOUS
  <2>4. IsFiniteSet(R) /\ Cardinality(R) = limit + n /\ R \in SUBSET Nat
    <3>1. IsFiniteSet(R) /\ Cardinality(R) = Cardinality(T) - 1
      BY <2>3, FS_RemoveElement
    <3> QED BY <2>3, <3>1
  <2>5. Newest(T, limit) = Newest(R, limit)
    <3>1. \A i \in R : {j \in T : j > i} = {j \in R : j > i}
      <4>1. \A i \in R : i \in Nat /\ i >= m /\ ~(m > i)
        BY <2>2, <2>3
      <4> QED BY <2>3, <4>1
    <3>2. {j \in T : j > m} = R
      <4>1. \A k \in T : k # m => k > m
        BY <2>2
      <4>2. ~(m > m)
        BY <2>2
      <4> QED BY <2>3, <4>1, <4>2
    <3>3. ~(Cardinality({j \in T : j > m}) < limit)
      BY <2>4, <3>2
    <3>4. T = R \cup {m} /\ m \notin R
      BY <2>3
    <3>5. ASSUME NEW i PROVE i \in Newest(T, limit) <=> i \in Newest(R, limit)
      <4>1. CASE i \in R
        <5>1. i \in T /\ Cardinality({j \in T : j > i}) = Cardinality({j \in R : j > i})
          BY <3>1, <3>4, <4>1
        <5> QED BY <4>1, <5>1 DEF Newest
      <4>2. CASE i = m
        BY <3>3, <3>4, <4>2 DEF Newest
      <4>3. CASE i \notin T
        BY <3>4, <4>3 DEF Newest
      <4> QED BY <3>4, <4>1, <4>2, <4>3
    <3>6. Newest(T, limit) \subseteq T /\ Newest(R, limit) \subseteq T
      BY <2>3 DEF Newest
    <3> QED BY <3>5, <3>6
  <2> QED BY <1>2, <2>4, <2>5
<1>3. Nat \subseteq G
  <2> HIDE DEF G
  <2> QED BY <1>1, <1>2, NumbersAre
<1>4. Cardinality(S) \in Nat
  BY FS_CardinalityType
<1>5. PICK n \in Nat : Cardinality(S) = limit + n
  <2>1. Cardinality(S) - limit \in Nat /\ Cardinality(S) = limit + (Cardinality(S) - limit)
    BY <1>4
  <2> QED BY <2>1
<1>6. n \in G
  BY <1>3
<1> QED BY <1>5, <1>6

\* What the limit cuts off an item leaves, is full of newer ones.
LEMMA CutFills ==
  ASSUME NEW limit \in Nat, NEW S \in SUBSET Nat, IsFiniteSet(S), NEW i \in Nat,
         Covers(S, i, limit), i \notin Newest(S, limit)
  PROVE  Fills(Newest(S, limit), i, limit)
<1> DEFINE Newer(k) == {j \in S : j > k}
<1>1. ASSUME NEW k PROVE IsFiniteSet(Newer(k)) /\ Cardinality(Newer(k)) \in Nat
                         /\ Cardinality(Newer(k)) <= Cardinality(S) /\ Cardinality(S) \in Nat
  <2>1. Newer(k) \subseteq S
    OBVIOUS
  <2> HIDE DEF Newer
  <2> QED BY <2>1, FS_Subset, FS_CardinalityType
<1>2. Cardinality(Newer(i)) >= limit
  BY <1>1 DEF Covers, Newest
<1>3. Cardinality(S) >= limit
  <2> HIDE DEF Newer
  <2> QED BY <1>1, <1>2
<1>4. ASSUME NEW j \in Newest(S, limit) PROVE j > i
  <2>1. j \in Nat /\ Cardinality(Newer(j)) < limit
    BY DEF Newest
  <2>2. SUFFICES ASSUME j <= i PROVE FALSE
    BY <2>1
  <2>3. Newer(i) \subseteq Newer(j)
    <3>1. \A k \in Nat : k > i => k > j
      BY <2>1, <2>2
    <3> QED BY <3>1
  <2>4. Cardinality(Newer(i)) <= Cardinality(Newer(j))
    <3>1. IsFiniteSet(Newer(j))
      BY <1>1
    <3> HIDE DEF Newer
    <3> QED BY <2>3, <3>1, FS_Subset
  <2>5. Cardinality(Newer(i)) \in Nat /\ Cardinality(Newer(j)) \in Nat
    BY <1>1
  <2> HIDE DEF Newer
  <2> QED BY <1>2, <2>1, <2>4, <2>5
<1> QED BY <1>3, <1>4, NewestFull DEF Fills

\* A table that is cut covers what it held.
LEMMA CutCovers ==
  ASSUME NEW limit \in Nat, NEW S \in SUBSET Nat, IsFiniteSet(S), NEW i \in S
  PROVE  Covers(Newest(S, limit), i, limit)
<1>1. CASE i \in Newest(S, limit)
  BY <1>1 DEF Covers
<1>2. CASE i \notin Newest(S, limit)
  <2>1. PICK page : page = Newest(S, limit)
    OBVIOUS
  <2>2. Fills(page, i, limit)
    BY <1>2, <2>1, CutFills DEF Covers
  <2>3. {j \in page : j > i} = page
    BY <2>2 DEF Fills
  <2> QED BY <2>1, <2>2, <2>3 DEF Covers, Fills
<1> QED BY <1>1, <1>2

\* A longer list covers no less.
LEMMA CoversMore ==
  ASSUME NEW limit \in Nat, NEW T, IsFiniteSet(T), NEW S \in SUBSET T, NEW i, Covers(S, i, limit)
  PROVE  Covers(T, i, limit)
<1>1. CASE i \in S
  BY <1>1 DEF Covers
<1>2. CASE Cardinality({j \in S : j > i}) >= limit
  <2>1. PICK A : A = {j \in S : j > i}
    OBVIOUS
  <2>2. PICK B : B = {j \in T : j > i}
    OBVIOUS
  <2>3. A \subseteq B /\ B \subseteq T
    BY <2>1, <2>2
  <2>4. IsFiniteSet(B) /\ IsFiniteSet(A)
    BY <2>3, FS_Subset
  <2>5. Cardinality(A) <= Cardinality(B) /\ Cardinality(A) \in Nat /\ Cardinality(B) \in Nat
    BY <2>3, <2>4, FS_Subset, FS_CardinalityType
  <2>6. Cardinality(B) >= limit
    BY <1>2, <2>1, <2>5
  <2> QED BY <2>2, <2>6 DEF Covers
<1> QED BY <1>1, <1>2 DEF Covers

\* The tables a list has read grow by the one it reads; a wallet without a row has none in
\* the three it leaves out.
LEMMA BeforeNext ==
  ASSUME NEW r
  PROVE  /\ r.pc \in TypeSet => \A type \in Before(NextPc(r)) : type \in Before(r.pc) \/ type = r.pc
         /\ r.pc = "wallet" => \A type \in Before(NextPc(r)) :
              \/ type \in Before(r.pc)
              \/ r.wallet \notin Registered /\ type \in {"alert", "activity", "threat"}
         /\ r.pc \in TypeSet => (NextPc(r) \in Last <=> r.pc = "approval_alert")
         /\ r.pc = "wallet" => NextPc(r) \notin Last
BY FiveTypes DEF Before, NextPc, Last

\* What a list covers, it covers after any step.
LEMMA ListedStays ==
  ASSUME Grows, Fades, NEW r, Listed(r)
  PROVE  Listed(r)'
<1>1. SUFFICES ASSUME ~r.missed PROVE Listed(r)'
  BY DEF Listed
<1>2. r.visible \subseteq DOMAIN items
  BY <1>1 DEF Listed
<1>3. \A i \in r.visible : i \in Visible(r.wallet)' =>
         i \in Visible(r.wallet) /\ items'[i].type = items[i].type
  <2>1. ASSUME NEW i \in DOMAIN items, i \in Visible(r.wallet)'
        PROVE  i \in Visible(r.wallet)
    <3>1. items'[i].on /\ (items'[i].owner = None \/ items'[i].owner = r.wallet)
      BY <2>1 DEF Visible, OfWallet
    <3>2. items[i].on
      BY <3>1 DEF Fades
    <3> QED BY <3>1, <3>2 DEF Grows, Visible, OfWallet
  <2> QED BY <1>2, <2>1 DEF Grows
<1>4. r.visible \subseteq DOMAIN items'
  BY <1>2 DEF Grows
<1> QED BY <1>1, <1>3, <1>4 DEF Listed

\* A step keeps what the lists cover, if it does for the request it moves.
LEMMA ListedKept ==
  ASSUME AllListed, Grows, Fades,
         \A w \in Workers : request'[w] \in {request[w], None} \/ Listed(request[w])'
  PROVE  AllListed'
<1>1. ASSUME NEW w \in Workers, request'[w] # None PROVE Listed(request[w])'
  <2>1. CASE request'[w] = request[w]
    <3>1. PICK r : r = request[w]
      OBVIOUS
    <3>2. Listed(r)
      BY <1>1, <2>1, <3>1 DEF AllListed
    <3>3. Listed(r)'
      BY <3>2, ListedStays
    <3> QED BY <2>1, <3>1, <3>3
  <2> QED BY <1>1, <2>1
<1> QED BY <1>1 DEF AllListed

\* The same for a step of one request.
LEMMA ListedMoved ==
  ASSUME Inv, AllListed, NEW w \in Workers, NEW t, Grows, Fades,
         request' = [request EXCEPT ![w] = t], t # None => Listed(t)
  PROVE  AllListed'
<1>1. \A v \in Workers : request'[v] = IF v = w THEN t ELSE request[v]
  BY DEF Inv, TypeOK
<1>2. t # None => Listed(t)'
  BY ListedStays
<1> QED BY <1>1, <1>2, ListedKept

\* A list that is cut stays as it is while its items are marked.
LEMMA ListedAfter ==
  ASSUME NEW r, NEW t, Listed(r), r.pc \in Last, t.pc \in Last, t.wallet = r.wallet,
         t.visible = r.visible, t.page = r.page, t.limit = r.limit, t.missed = r.missed
  PROVE  Listed(t)
<1>1. Before(t.pc) = Before(r.pc)
  BY DEF Before
<1> QED BY <1>1 DEF Listed

\* A list that begins has read nothing.
LEMMA ListedBegin ==
  ASSUME Inv, AllListed, NEW w \in Workers, NEW kind \in {"list", "all"}, NEW u \in Wallets,
         NEW limit \in Limits \cup {AllLimit}, Begin(w, kind, u, limit)
  PROVE  AllListed'
<1>1. PICK r : r = [kind |-> kind, wallet |-> u, limit |-> limit, pc |-> "receipts",
                    receipts |-> {}, page |-> {}, unread |-> {}, left |-> {}, missed |-> FALSE,
                    visible |-> Visible(u), read |-> ReadItems(u)]
  OBVIOUS
<1>2. /\ request' = [request EXCEPT ![w] = r]
      /\ UNCHANGED <<items, receipts, readAt>> /\ asked \subseteq asked'
  BY <1>1 DEF Begin, Continue
<1>3. Grows /\ Fades
  BY <1>2 DEF Grows, Fades
<1>4. \A type : type \notin Before("receipts")
  BY FiveTypes DEF Before, Last
<1>5. Visible(u) \subseteq DOMAIN items
  BY DEF Visible
<1>6. Listed(r)
  BY <1>1, <1>4, <1>5 DEF Listed
<1> QED BY <1>2, <1>3, <1>6, ListedMoved

\* The receipts leave the list as it is.
LEMMA ListedReceipts ==
  ASSUME Inv, AllListed, NEW w \in Workers, ReadReceipts(w)
  PROVE  AllListed'
<1>1. PICK r : r = request[w]
  OBVIOUS
<1>2. r \in Requests /\ Listed(r) /\ r.pc = "receipts"
  BY <1>1, Current DEF ReadReceipts, At, AllListed
<1>3. Grows /\ Fades
  BY DEF ReadReceipts, Grows, Fades
<1>4. CASE Stop(w)
  BY <1>3, <1>4, ListedMoved DEF Stop
<1>5. ASSUME NEW mine, Continue(w, [r EXCEPT !.receipts = mine, !.pc = "broadcast"])
      PROVE  AllListed'
  <2>1. PICK t : t = [r EXCEPT !.receipts = mine, !.pc = "broadcast"]
    OBVIOUS
  <2>2. t.pc = "broadcast" /\ t.visible = r.visible /\ t.missed = r.missed
    BY <1>2, <2>1 DEF Requests
  <2>3. \A type : type \notin Before("broadcast")
    BY FiveTypes DEF Before, Last
  <2>4. Listed(t)
    BY <1>2, <2>2, <2>3 DEF Listed
  <2> QED BY <1>3, <1>5, <2>1, <2>4, ListedMoved DEF Continue
<1> QED BY <1>1, <1>4, <1>5 DEF ReadReceipts

\* A wallet without a row leaves out three tables, in which it has nothing.
LEMMA ListedWallet ==
  ASSUME Inv, AllListed, NEW w \in Workers, FindWallet(w)
  PROVE  AllListed'
<1>1. PICK r : r = request[w]
  OBVIOUS
<1>2. r \in Requests /\ Listed(r) /\ r.pc = "wallet"
  BY <1>1, Current DEF FindWallet, At, AllListed
<1>3. Grows /\ Fades
  BY DEF FindWallet, Grows, Fades
<1>4. CASE Continue(w, [r EXCEPT !.pc = NextPc(r)])
  <2>1. PICK t : t = [r EXCEPT !.pc = NextPc(r)]
    OBVIOUS
  <2>2. /\ t.wallet = r.wallet /\ t.pc = NextPc(r) /\ t.page = r.page
        /\ t.visible = r.visible /\ t.missed = r.missed /\ t.limit = r.limit
    BY <1>2, <2>1 DEF Requests
  <2>3. "wallet" \notin Last /\ t.pc \notin Last
    BY <1>2, <2>2, BeforeNext DEF Last
  <2>4. ASSUME NEW i \in Visible(r.wallet), items[i].type \in Before(t.pc)
        PROVE  items[i].type \in Before(r.pc)
    <3>1. items[i] \in Rows /\ (items[i].owner = None \/ items[i].owner = r.wallet)
      BY DEF Visible, OfWallet, Inv, TypeOK
    <3>2. items[i].type \in {"alert", "activity", "threat"} => r.wallet \in Registered
      BY <3>1 DEF Rows
    <3> QED BY <1>2, <2>2, <2>4, <3>2, BeforeNext
  <2>5. Listed(t)
    BY <1>2, <2>2, <2>3, <2>4 DEF Listed
  <2> QED BY <1>3, <1>4, <2>1, <2>5, ListedMoved DEF Continue
<1>5. CASE Continue(w, [r EXCEPT !.pc = "approval_alert", !.missed = TRUE])
  <2>1. PICK t : t = [r EXCEPT !.pc = "approval_alert", !.missed = TRUE]
    OBVIOUS
  <2>2. t.missed
    BY <1>2, <2>1 DEF Requests
  <2>3. Listed(t)
    BY <2>2 DEF Listed
  <2> QED BY <1>3, <1>5, <2>1, <2>3, ListedMoved DEF Continue
<1> QED BY <1>1, <1>4, <1>5 DEF FindWallet

\* What the end of a query leaves of a request: after the last table the list is cut.
LEMMA CutOnce ==
  ASSUME NEW s, NEW t, NEW pc, t = [Merge(s) EXCEPT !.pc = pc],
         DOMAIN s = {"kind", "wallet", "limit", "pc", "receipts", "page", "unread", "left",
                     "missed", "visible", "read"}
  PROVE  /\ t.wallet = s.wallet /\ t.pc = pc /\ t.visible = s.visible
         /\ t.missed = s.missed /\ t.limit = s.limit
         /\ t.page = IF s.pc = "approval_alert" THEN Newest(s.page, s.limit) ELSE s.page
<1>1. CASE s.pc # "approval_alert"
  BY <1>1 DEF Merge
<1>2. CASE s.pc = "approval_alert"
  <2>1. PICK page : page = Newest(s.page, s.limit)
    OBVIOUS
  <2>2. PICK unread : unread = s.unread \cap page
    OBVIOUS
  <2>3. PICK left : left = IF s.kind = "all" THEN ToMark(unread) ELSE {}
    OBVIOUS
  <2>4. t = [s EXCEPT !.page = page, !.unread = unread, !.receipts = {}, !.left = left, !.pc = pc]
    BY <1>2, <2>1, <2>2, <2>3 DEF Merge
  <2>5. /\ t.page = page /\ t.pc = pc /\ t.wallet = s.wallet /\ t.visible = s.visible
        /\ t.missed = s.missed /\ t.limit = s.limit
    BY <2>4
  <2> QED BY <1>2, <2>1, <2>5
<1> QED BY <1>1, <1>2

\* The rows of a table, cut or not, cover those that were there and still are.
LEMMA ListedTable ==
  ASSUME Inv, AllListed, NEW w \in Workers, ReadTable(w)
  PROVE  AllListed'
<1>1. PICK r : r = request[w]
  OBVIOUS
<1>2. r \in Requests /\ Held(r) /\ Listed(r) /\ r.pc \in TypeSet
  BY <1>1, Current DEF ReadTable, AllListed
<1>3. Grows /\ Fades
  BY DEF ReadTable, Grows, Fades
<1>4. PICK rows : rows = Newest(Table(r.wallet, r.pc), r.limit)
  OBVIOUS
<1>5. PICK fresh : fresh = {i \in rows : ~ShownRead(r, i)}
  OBVIOUS
<1>6. PICK pc : pc = NextPc(r)
  OBVIOUS
<1>7. DOMAIN r = {"kind", "wallet", "limit", "pc", "receipts", "page", "unread", "left",
                  "missed", "visible", "read"}
  BY <1>2 DEF Requests
<1>8. CASE Continue(w, [Merge([r EXCEPT !.missed = TRUE]) EXCEPT !.pc = NextPc(r)])
  <2>1. PICK s : s = [r EXCEPT !.missed = TRUE]
    OBVIOUS
  <2>2. PICK t : t = [Merge(s) EXCEPT !.pc = pc]
    OBVIOUS
  <2>3. s.missed /\ DOMAIN s = DOMAIN r
    BY <1>7, <2>1
  <2>4. t.missed
    <3>1. DOMAIN s = {"kind", "wallet", "limit", "pc", "receipts", "page", "unread", "left",
                      "missed", "visible", "read"}
      BY <1>7, <2>3
    <3>2. t.missed = s.missed
      BY <2>2, <3>1, CutOnce
    <3> QED BY <2>3, <3>2
  <2>5. Listed(t)
    BY <2>4 DEF Listed
  <2> QED BY <1>3, <1>6, <1>8, <2>1, <2>2, <2>5, ListedMoved DEF Continue
<1>9. CASE Continue(w, [Merge([r EXCEPT !.page = @ \cup rows, !.unread = @ \cup fresh])
                         EXCEPT !.pc = NextPc(r)])
  <2>1. PICK s : s = [r EXCEPT !.page = @ \cup rows, !.unread = @ \cup fresh]
    OBVIOUS
  <2>2. /\ s.wallet = r.wallet /\ s.pc = r.pc /\ s.visible = r.visible
        /\ s.missed = r.missed /\ s.limit = r.limit /\ s.page = r.page \cup rows
        /\ DOMAIN s = DOMAIN r
    BY <1>7, <2>1
  <2>3. PICK t : t = [Merge(s) EXCEPT !.pc = pc]
    OBVIOUS
  <2>4. /\ t.wallet = r.wallet /\ t.pc = pc /\ t.visible = r.visible
        /\ t.missed = r.missed /\ t.limit = r.limit
        /\ t.page = IF r.pc = "approval_alert" THEN Newest(s.page, r.limit) ELSE s.page
    <3>1. DOMAIN s = {"kind", "wallet", "limit", "pc", "receipts", "page", "unread", "left",
                      "missed", "visible", "read"}
      BY <1>7, <2>2
    <3>2. /\ t.wallet = s.wallet /\ t.pc = pc /\ t.visible = s.visible
          /\ t.missed = s.missed /\ t.limit = s.limit
          /\ t.page = IF s.pc = "approval_alert" THEN Newest(s.page, s.limit) ELSE s.page
      BY <2>3, <3>1, CutOnce
    <3> QED BY <2>2, <3>2
  <2>5. r.limit \in Nat
    BY <1>2, LimitsNat DEF Requests
  <2>6. items \in Seq(Rows) /\ Table(r.wallet, r.pc) \in SUBSET DOMAIN items
    BY DEF Inv, TypeOK, Table, Visible
  <2>7. IsFiniteSet(Table(r.wallet, r.pc)) /\ Table(r.wallet, r.pc) \subseteq Nat
    BY <2>6, RowsFinite
  <2>8. IsFiniteSet(s.page) /\ s.page \subseteq Nat /\ rows \subseteq s.page /\ r.page \subseteq s.page
    <3>1. rows \subseteq Table(r.wallet, r.pc)
      BY <1>4 DEF Newest
    <3>2. s.page \in SUBSET DOMAIN items
      BY <1>2, <2>2, <2>6, <3>1 DEF Held
    <3> QED BY <2>2, <2>6, <3>2, RowsFinite
  <2>9. ASSUME NEW i \in r.visible \cap Visible(r.wallet), items[i].type \in Before(pc), ~r.missed
        PROVE  Covers(s.page, i, r.limit)
    <3>1. CASE items[i].type \in Before(r.pc)
      <4>1. r.pc \notin Last
        BY <1>2, FiveTypes DEF Last
      <4>2. Covers(r.page, i, r.limit)
        BY <1>2, <2>9, <3>1, <4>1 DEF Listed
      <4> QED BY <2>5, <2>8, <4>2, CoversMore
    <3>2. CASE items[i].type = r.pc
      <4>1. i \in Table(r.wallet, r.pc)
        BY <2>9, <3>2 DEF Table
      <4>2. Covers(rows, i, r.limit)
        BY <1>4, <2>5, <2>7, <4>1, CutCovers
      <4> QED BY <2>5, <2>8, <4>2, CoversMore
    <3> QED BY <1>2, <1>6, <2>9, <3>1, <3>2, BeforeNext
  <2>10. pc \in Last <=> r.pc = "approval_alert"
    BY <1>2, <1>6, BeforeNext
  <2>11. ASSUME NEW i \in Nat, Covers(s.page, i, r.limit)
         PROVE  \/ pc \notin Last /\ Covers(t.page, i, r.limit)
                \/ pc \in Last /\ (i \in t.page \/ Fills(t.page, i, r.limit))
    <3>1. CASE r.pc = "approval_alert"
      <4>1. t.page = Newest(s.page, r.limit)
        BY <2>4, <3>1
      <4> QED BY <2>5, <2>8, <2>10, <2>11, <3>1, <4>1, CutFills
    <3>2. CASE r.pc # "approval_alert"
      BY <2>4, <2>10, <2>11, <3>2
    <3> QED BY <3>1, <3>2
  <2>12. Visible(r.wallet) \subseteq Nat
    BY <2>6 DEF Visible
  <2>13. ~r.missed => r.visible \subseteq DOMAIN items
    BY <1>2 DEF Listed
  <2>14. Listed(t)
    BY <2>4, <2>9, <2>11, <2>12, <2>13 DEF Listed
  <2> QED BY <1>3, <1>6, <1>9, <2>1, <2>3, <2>14, ListedMoved DEF Continue
<1> QED BY <1>1, <1>4, <1>5, <1>8, <1>9 DEF ReadTable

\* What follows the list moves the request, and marks; the list stays.
LEMMA ListedMarking ==
  ASSUME Inv, AllListed, NEW w \in Workers,
         LookupAgain(w) \/ MarkAlerts(w) \/ MarkNext(w) \/ MarkDone(w) \/ Reply(w)
  PROVE  AllListed'
<1>1. PICK r : r = request[w]
  OBVIOUS
<1>2. r \in Requests /\ Listed(r) /\ r.pc \in Last
  BY <1>1, Current DEF LookupAgain, MarkAlerts, MarkNext, MarkDone, Reply, At, AllListed, Last
<1>3. Grows /\ Fades
  BY DEF LookupAgain, MarkAlerts, MarkNext, MarkDone, Reply, Grows, Fades
<1>4. CASE Stop(w)
  BY <1>3, <1>4, ListedMoved DEF Stop
<1>5. ASSUME NEW pc \in Last, Continue(w, [r EXCEPT !.pc = pc]) PROVE AllListed'
  <2>1. PICK t : t = [r EXCEPT !.pc = pc]
    OBVIOUS
  <2>2. /\ t.wallet = r.wallet /\ t.pc = pc /\ t.page = r.page
        /\ t.visible = r.visible /\ t.missed = r.missed /\ t.limit = r.limit
    BY <1>2, <2>1 DEF Requests
  <2>3. Listed(t)
    BY <1>2, <2>2, ListedAfter
  <2> QED BY <1>3, <1>5, <2>1, <2>3, ListedMoved DEF Continue
<1>6. ASSUME NEW left, Continue(w, [r EXCEPT !.left = left]) PROVE AllListed'
  <2>1. PICK t : t = [r EXCEPT !.left = left]
    OBVIOUS
  <2>2. /\ t.wallet = r.wallet /\ t.pc = r.pc /\ t.page = r.page
        /\ t.visible = r.visible /\ t.missed = r.missed /\ t.limit = r.limit
    BY <1>2, <2>1 DEF Requests
  <2>3. Listed(t)
    BY <1>2, <2>2, ListedAfter
  <2> QED BY <1>3, <1>6, <2>1, <2>3, ListedMoved DEF Continue
<1>7. {"alerts", "marks", "done"} \subseteq Last
  BY DEF Last
<1>8. CASE LookupAgain(w)
  BY <1>1, <1>4, <1>5, <1>7, <1>8 DEF LookupAgain
<1>9. CASE MarkAlerts(w)
  BY <1>1, <1>4, <1>5, <1>7, <1>9 DEF MarkAlerts
<1>10. CASE MarkNext(w)
  <2>1. PICK i : i = Max(r.left)
    OBVIOUS
  <2>2. Stop(w) \/ Continue(w, [r EXCEPT !.left = r.left \ {i}])
    BY <1>1, <1>10, <2>1 DEF MarkNext
  <2> QED BY <1>4, <1>6, <2>2
<1>11. CASE MarkDone(w)
  BY <1>1, <1>5, <1>7, <1>11 DEF MarkDone
<1> QED BY <1>4, <1>8, <1>9, <1>10, <1>11 DEF Reply

\* No step of the system, or of the requests beside it, spoils a list.
LEMMA NextListed == Inv /\ AllListed /\ [Next]_vars => AllListed'
<1> SUFFICES ASSUME Inv, AllListed, [Next]_vars PROVE AllListed'
  OBVIOUS
<1>1. ASSUME NEW w \in Workers, Step(w) PROVE AllListed'
  BY <1>1, ListedReceipts, ListedWallet, ListedTable, ListedMarking DEF Step
<1>2. ASSUME NEW w \in Workers, NEW kind \in {"list", "all"}, NEW u \in Wallets,
             NEW limit \in Limits \cup {AllLimit}, Begin(w, kind, u, limit)
      PROVE  AllListed'
  BY <1>2, ListedBegin
<1>3. ASSUME Grows, Fades, \A w \in Workers : request'[w] \in {request[w], None} PROVE AllListed'
  BY <1>3, ListedKept
<1>4. ASSUME NEW a \in Arrivals, Arrive(a.type, a.owner) PROVE AllListed'
  <2>1. Grows /\ Fades
    BY <1>4, ArriveKeeps
  <2> QED BY <1>3, <1>4, <2>1 DEF Arrive
<1>5. ASSUME NEW i \in DOMAIN items, Close(i) \/ Redetect(i) PROVE AllListed'
  <2>1. Grows /\ Fades
    BY <1>5, CloseKeeps, RedetectKeeps
  <2> QED BY <1>3, <1>5, <2>1 DEF Close, Redetect
<1>6. ASSUME NEW u \in Wallets, NEW type \in TypeSet, NEW i \in DOMAIN items, MarkRead(u, type, i)
      PROVE  AllListed'
  <2>1. Grows /\ Fades
    BY <1>6 DEF MarkRead, Grows, Fades
  <2> QED BY <1>3, <1>6, <2>1 DEF MarkRead
<1>7. ASSUME NEW u \in Wallets, DashboardMarkAll(u) PROVE AllListed'
  <2>1. Grows /\ Fades
    BY <1>7 DEF DashboardMarkAll, Grows, Fades
  <2> QED BY <1>3, <1>7, <2>1 DEF DashboardMarkAll
<1>8. CASE Restart
  <2>1. Grows /\ Fades
    BY <1>8 DEF Restart, Grows, Fades
  <2> QED BY <1>3, <1>8, <2>1 DEF Restart
<1>9. CASE UNCHANGED vars
  <2>1. Grows /\ Fades
    BY <1>9 DEF vars, Grows, Fades
  <2> QED BY <1>3, <1>9, <2>1 DEF vars
<1> QED BY <1>1, <1>2, <1>4, <1>5, <1>6, <1>7, <1>8, <1>9 DEF Next

\* A list that missed no table leaves out no item that was there before it and stayed in
\* its place, unless it is full of newer ones, although each table is cut before they are
\* merged, and rows arrive, close and, threats, move up between the queries
\* (list_for_wallet).
THEOREM NewestHold == Spec => []NewestAreShown
<1>1. Init => AllListed
  BY DEF Init, AllListed
<1>2. Inv /\ AllListed => NewestAreShown
  <2> SUFFICES ASSUME Inv, AllListed, NEW w \in Workers, NEW r, r = request[w], r # None,
                      r.pc = "done", ~r.missed,
                      NEW i \in (r.visible \cap Visible(r.wallet)) \ r.page
               PROVE  Fills(r.page, i, r.limit)
    BY DEF NewestAreShown, At, Fills
  <2>1. Listed(r)
    BY DEF AllListed
  <2>2. "done" \in Last
    BY DEF Last
  <2>3. items[i].type \in Before("done")
    <3>1. items[i] \in Rows
      BY DEF Visible, Inv, TypeOK
    <3> QED BY <2>2, <3>1 DEF Rows, Before
  <2> QED BY <2>1, <2>2, <2>3 DEF Listed
<1>3. Inv /\ AllListed /\ [Next]_vars => AllListed'
  BY NextListed
<1> QED BY <1>1, <1>2, <1>3, InvHolds, PTL DEF Spec

=============================================================================
