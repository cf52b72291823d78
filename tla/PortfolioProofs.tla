--------------------------- MODULE PortfolioProofs ---------------------------
(***************************************************************************)
(* What a sync leaves of a wallet's tokens (HoldingsStay) and what is shown of    *)
(* them (TotalCountsOnce), for every set of wallets, chains, replies, prices and   *)
(* requests.                                                               *)
(*                                                                         *)
(* The invariant adds to the first property that a sync has a chain left while it   *)
(* works on one, and that what it holds when it deletes the rows is an answer;    *)
(* to the second (Worth) that what is stored, and what a request has read, are     *)
(* finitely many rows and balances of whole amounts.  The second then follows by    *)
(* adding up: the lemmas about sums show, by induction over the subsets of a     *)
(* finite set, that MapThenSumSet adds every term once, in whatever order.        *)
(***************************************************************************)
EXTENDS Portfolio, FiniteSetTheorems, WellFoundedInduction, SequenceTheorems, TLAPS

ItemSet == [token : STRING, usd : Nat]

\* pc is one of the things a dashboard reads.
IsRead(kind, pc) == \E i \in DOMAIN Reads(kind) : Reads(kind)[i] = pc

\* A request has its fields and, while it works on a chain, one that is left.
IsVisit(j) ==
    /\ j = [kind |-> j.kind, wallet |-> j.wallet, half |-> j.half, pc |-> j.pc, left |-> j.left,
            todo |-> j.todo, sum |-> j.sum, rows |-> j.rows, live |-> j.live]
    /\ j.wallet \in Wallet
    /\ j.left \subseteq SyncChains(j.wallet)
    /\ j.pc \in {"ask", "clear", "put"} => j.left # {}
    /\ j.pc \in {"sum", "rows", "native"} => IsRead(j.kind, j.pc)

\* It has something to insert when it inserts, and holds an answer when it is about to
\* delete.
HoldsAnswer(j) ==
    /\ j.todo \in Seq(ItemSet)
    /\ j.pc = "put" => j.todo # <<>>
    /\ j.pc = "clear" => /\ j.todo # None
                         /\ [items |-> j.todo, half |-> j.half] \in Answers(j.wallet, ChainOf(j))

GoodVisit(j) == j = Idle \/ (IsVisit(j) /\ HoldsAnswer(j))

GoodVisits ==
    /\ DOMAIN synced = Places /\ synced = [p \in Places |-> synced[p]]
    /\ assets = [w \in Wallet |-> assets[w]]
    /\ visit = [v \in Visitors |-> visit[v]]
    /\ \A v \in Visitors : GoodVisit(visit[v])

PInv == GoodVisits /\ HoldingsStay

\* What a request in state x is about to insert for a chain of a wallet.
Brings(x, w, c) ==
    IF x.pc = "put" /\ x.wallet = w /\ ChainOf(x) = c THEN Tokens(x.todo) ELSE {}

\* What the requests but v are about to insert.
OthersBring(v, w, c) == UNION {Brings(visit[u], w, c) : u \in Visitors \ {v}}

\* HoldingsStay, of a chain whose last sync was "last" and that has these tokens.
Kept(last, tokens, w, c) ==
    /\ last.how \in {"whole", "overlap"} => Always(w, c) \subseteq tokens
    /\ last.how \in {"no", "whole"} => tokens = last.tokens

-----------------------------------------------------------------------------
\* The order of the numbers is well-founded.
LEMMA BelowIsWellFounded == IsWellFoundedOn({p \in Nat \X Nat : p[1] < p[2]}, Nat)
BY NatLessThanWellFounded DEF OpToRel

\* A set of chains has a first one.
LEMMA FirstChain ==
  ASSUME NEW S, S \subseteq Nat, S # {} PROVE Min(S) \in S
<1> DEFINE Below == {p \in Nat \X Nat : p[1] < p[2]}
<1>1. IsWellFoundedOn(Below, Nat)
  BY BelowIsWellFounded
<1> HIDE DEF Below
<1>2. PICK x \in S : \A y \in S : ~(<<y, x>> \in Below)
  BY <1>1, WFMin
<1>3. \A y \in S : x <= y
  <2> TAKE y \in S
  <2>1. x \in Nat /\ y \in Nat
    OBVIOUS
  <2>2. <<y, x>> \in Nat \X Nat /\ ~(<<y, x>>[1] < <<y, x>>[2])
    BY <1>2, <2>1, SMT DEF Below
  <2> QED BY <2>1, <2>2
<1> QED BY <1>3 DEF Min

\* The chains of a sync are numbers, and the table of syncs has a line for each.
LEMMA ChainsOfWallet ==
  ASSUME NEW w \in Wallet
  PROVE  /\ SyncChains(w) \subseteq Nat
         /\ \A c \in SyncChains(w) : <<w, c>> \in Places
<1>1. Chain \subseteq Nat
  BY DEF Chain
<1>2. TokenChains \subseteq Nat
  BY <1>1, PortfolioAssumption
<1>3. CASE w \in SolanaWallets
  BY <1>3, SMT DEF SyncChains, Places, SolanaChain
<1>4. CASE w \notin SolanaWallets
  <2>1. HomeChain[w] \in Nat /\ w \in DOMAIN HomeChain
    BY <1>1, <1>4, PortfolioAssumption
  <2>2. SyncChains(w) = TokenChains \cup {HomeChain[w]}
    BY <1>4 DEF SyncChains
  <2>3. SyncChains(w) \subseteq Nat
    BY <1>2, <2>1, <2>2
  <2>4. \A c \in SyncChains(w) :
           c \in TokenChains \cup {HomeChain[x] : x \in DOMAIN HomeChain} \cup {SolanaChain}
    BY <2>1, <2>2
  <2> QED BY <2>3, <2>4 DEF Places
<1> QED BY <1>3, <1>4

\* A request at work on a chain has it among those that are left.
LEMMA ChainIsLeft ==
  ASSUME NEW j, IsVisit(j), j.pc \in {"ask", "clear", "put"}
  PROVE  /\ ChainOf(j) \in j.left
         /\ ChainOf(j) \in SyncChains(j.wallet)
         /\ <<j.wallet, ChainOf(j)>> \in Places
<1>1. j.left \subseteq Nat /\ j.left # {}
  BY ChainsOfWallet DEF IsVisit
<1>2. ChainOf(j) \in j.left
  BY <1>1, FirstChain DEF ChainOf
<1> QED BY <1>2, ChainsOfWallet DEF IsVisit

\* What comes is what a request brings and what the others bring.
LEMMA ComingSplits ==
  ASSUME NEW v \in Visitors, NEW w, NEW c
  PROVE  Coming(w, c) = Brings(visit[v], w, c) \cup OthersBring(v, w, c)
BY DEF Coming, Writes, Visits, Brings, OthersBring

\* The same after a step that changes only this request.
LEMMA ComingAfter ==
  ASSUME NEW v \in Visitors, NEW w, NEW c, NEW x,
         visit = [u \in Visitors |-> visit[u]], visit' = [visit EXCEPT ![v] = x]
  PROVE  Coming(w, c)' = Brings(x, w, c) \cup OthersBring(v, w, c)
<1>1. \A u \in Visitors : visit'[u] = IF u = v THEN x ELSE visit[u]
  OBVIOUS
<1>2. Coming(w, c)' = UNION {Tokens(visit'[u].todo) : u \in {s \in Visitors :
          visit'[s].pc = "put" /\ visit'[s].wallet = w /\ ChainOf(visit'[s]) = c}}
  BY DEF Coming, Writes, Visits
<1> QED BY <1>1, <1>2 DEF Brings, OthersBring

\* A request after its last chain, or at the next, has nothing to insert.
LEMMA NextChainIsGood ==
  ASSUME NEW j, IsVisit(j), j.pc \in {"ask", "clear", "put"}
  PROVE  /\ GoodVisit(NextChain(j))
         /\ \A w, c : Brings(NextChain(j), w, c) = {}
<1>1. CASE j.left = {ChainOf(j)}
  BY <1>1 DEF NextChain, GoodVisit, Idle, Brings
<1>2. CASE j.left # {ChainOf(j)}
  <2> DEFINE k == NextChain(j)
  <2>1. k = [j EXCEPT !.left = @ \ {ChainOf(j)}, !.pc = "ask", !.todo = <<>>, !.half = FALSE]
    BY <1>2 DEF NextChain
  <2> HIDE DEF k
  <2>2. /\ k.wallet = j.wallet /\ k.left = j.left \ {ChainOf(j)} /\ k.pc = "ask" /\ k.todo = <<>>
        /\ k = [kind |-> k.kind, wallet |-> k.wallet, half |-> k.half, pc |-> k.pc,
                left |-> k.left, todo |-> k.todo, sum |-> k.sum, rows |-> k.rows, live |-> k.live]
    BY <2>1 DEF IsVisit
  <2>3. k.left # {}
    BY <1>2, <2>2, ChainIsLeft
  <2>4. IsVisit(k)
    BY <2>2, <2>3 DEF IsVisit
  <2>5. HoldsAnswer(k)
    BY <2>2, EmptySeq DEF HoldsAnswer
  <2>6. \A w, c : Brings(k, w, c) = {}
    BY <2>2 DEF Brings
  <2> QED BY <2>4, <2>5, <2>6 DEF GoodVisit, k
<1> QED BY <1>1, <1>2

\* The property, chain by chain.
LEMMA HoldingsAre ==
  HoldingsStay <=> \A w \in Wallet : \A c \in SyncChains(w) :
                       Kept(synced[<<w, c>>], Stored(w, c) \cup Coming(w, c), w, c)
BY DEF HoldingsStay, Kept

LEMMA HoldingsAreAfter ==
  HoldingsStay' <=> \A w \in Wallet : \A c \in SyncChains(w) :
                        Kept(synced'[<<w, c>>], (Stored(w, c) \cup Coming(w, c))', w, c)
BY DEF HoldingsStay, Kept, Always, Stored, Coming

-----------------------------------------------------------------------------
\* A step of one request that leaves it in a good state keeps the requests good.
LEMMA VisitsStayGood ==
  ASSUME NEW v \in Visitors, NEW x, GoodVisits, GoodVisit(x),
         visit' = [visit EXCEPT ![v] = x],
         assets' = [w \in Wallet |-> assets'[w]], synced' = [p \in Places |-> synced'[p]]
  PROVE  GoodVisits'
<1>1. \A u \in Visitors : visit'[u] = IF u = v THEN x ELSE visit[u]
  BY DEF GoodVisits
<1>2. \A u \in Visitors : GoodVisit(visit'[u])
  BY <1>1 DEF GoodVisits
<1>3. visit' = [u \in Visitors |-> visit'[u]]
  BY DEF GoodVisits
<1>4. DOMAIN synced' = Places
  OBVIOUS
<1> QED BY <1>2, <1>3, <1>4 DEF GoodVisits, GoodVisit, IsVisit, HoldsAnswer

\* A step that only changes a request, and not what it brings, keeps the invariant.
LEMMA NothingWritten ==
  ASSUME NEW v \in Visitors, NEW x, PInv, GoodVisit(x),
         visit' = [visit EXCEPT ![v] = x],
         \A w, c : Brings(x, w, c) = Brings(visit[v], w, c),
         UNCHANGED <<assets, synced>>
  PROVE  PInv'
<1>1. GoodVisits'
  BY VisitsStayGood DEF PInv, GoodVisits
<1>2. ASSUME NEW w, NEW c PROVE (Stored(w, c) \cup Coming(w, c))' = Stored(w, c) \cup Coming(w, c)
  <2>1. Stored(w, c)' = Stored(w, c)
    BY DEF Stored
  <2>2. Coming(w, c)' = Brings(x, w, c) \cup OthersBring(v, w, c)
    BY ComingAfter DEF PInv, GoodVisits
  <2>3. Coming(w, c) = Brings(x, w, c) \cup OthersBring(v, w, c)
    BY ComingSplits
  <2> QED BY <2>1, <2>2, <2>3
<1>3. HoldingsStay'
  BY <1>2, HoldingsAre, HoldingsAreAfter DEF PInv
<1> QED BY <1>1, <1>3 DEF PInv

\* A request that stops bringing nothing keeps the invariant.
LEMMA Leaves ==
  ASSUME NEW v \in Visitors, PInv, visit[v].pc # "put",
         visit' = [visit EXCEPT ![v] = Idle], UNCHANGED <<assets, synced>>
  PROVE  PInv'
<1>1. \A w, c : Brings(Idle, w, c) = Brings(visit[v], w, c)
  BY DEF Brings, Idle
<1> QED BY <1>1, NothingWritten DEF GoodVisit

-----------------------------------------------------------------------------
\* A request starts with the chains of its wallet.
LEMMA VisitKeeps ==
  ASSUME NEW v \in Visitors, NEW kind \in {"sync", "summary", "modal", "list"}, NEW w \in Wallet,
         PInv, Visit(v, kind, w)
  PROVE  PInv'
<1> DEFINE k == [kind |-> kind, wallet |-> w, half |-> FALSE,
                 pc |-> IF kind = "sync" THEN "ask" ELSE Reads(kind)[1],
                 left |-> IF kind = "sync" THEN SyncChains(w) ELSE {}, todo |-> <<>>,
                 sum |-> 0, rows |-> {}, live |-> None]
<1>1. visit' = [visit EXCEPT ![v] = k]
  BY DEF Visit
<1>2. IF kind = "sync" THEN k.pc = "ask" ELSE k.pc \in {"sum", "rows"}
  BY DEF Reads, SummaryReads, ModalReads, ListReads
<1>3. kind = "sync" => SyncChains(w) # {}
  BY DEF SyncChains
<1>4. IsVisit(k)
  <2>1. kind # "sync" => IsRead(kind, k.pc)
    BY DEF IsRead, Reads, SummaryReads, ModalReads, ListReads
  <2> QED BY <1>2, <1>3, <2>1 DEF IsVisit
<1>5. HoldsAnswer(k)
  BY <1>2, EmptySeq DEF HoldsAnswer
<1>6. \A a, c : Brings(k, a, c) = {} /\ Brings(visit[v], a, c) = {}
  BY <1>2 DEF Brings, Visit, Visits
<1> HIDE DEF k
<1>7. UNCHANGED <<assets, synced>>
  BY DEF Visit
<1> QED BY <1>1, <1>4, <1>5, <1>6, <1>7, NothingWritten DEF GoodVisit

\* An answer is put aside until the rows are deleted.
LEMMA AskTokensKeeps ==
  ASSUME NEW v \in Visitors, NEW answer, PInv, AskTokens(v, answer)
  PROVE  PInv'
<1> DEFINE j == visit[v]
<1>1. j.pc = "ask" /\ IsVisit(j)
  BY DEF AskTokens, Visits, PInv, GoodVisits, GoodVisit, Idle
<1>2. \A w, c : Brings(j, w, c) = {}
  BY <1>1 DEF Brings
<1>3. UNCHANGED <<assets, synced>>
  BY DEF AskTokens
<1>4. CASE answer.items = None
  <2>1. visit' = [visit EXCEPT ![v] = NextChain(j)]
    BY <1>4 DEF AskTokens
  <2> HIDE DEF j
  <2>2. GoodVisit(NextChain(j)) /\ \A w, c : Brings(NextChain(j), w, c) = {}
    BY <1>1, NextChainIsGood
  <2> QED BY <1>2, <1>3, <2>1, <2>2, NothingWritten DEF j
<1>5. CASE answer.items # None
  <2>1. PICK k : /\ k = [j EXCEPT !.pc = "clear", !.todo = answer.items, !.half = answer.half]
                 /\ visit' = [visit EXCEPT ![v] = k]
    BY <1>5 DEF AskTokens
  <2>2. answer \in Answers(j.wallet, ChainOf(j))
    BY DEF AskTokens
  <2> HIDE DEF j
  <2>3. /\ k.wallet = j.wallet /\ k.left = j.left /\ k.pc = "clear"
        /\ k.todo = answer.items /\ k.half = answer.half
        /\ k = [kind |-> k.kind, wallet |-> k.wallet, half |-> k.half, pc |-> k.pc,
                left |-> k.left, todo |-> k.todo, sum |-> k.sum, rows |-> k.rows, live |-> k.live]
    BY <1>1, <2>1 DEF IsVisit
  <2>4. IsVisit(k)
    BY <1>1, <2>3 DEF IsVisit
  <2>5. ChainOf(k) = ChainOf(j)
    BY <2>3 DEF ChainOf
  <2>6. answer = [items |-> answer.items, half |-> answer.half]
    BY <2>2 DEF Answers
  <2>7. <<j.wallet, ChainOf(j)>> \in Places
    BY <1>1, ChainIsLeft
  <2>8. answer.items \in Seq(ItemSet)
    BY <1>5, <2>2, <2>7, AnswersAssumption DEF ItemSet
  <2>9. HoldsAnswer(k)
    BY <1>5, <2>2, <2>3, <2>5, <2>6, <2>8 DEF HoldsAnswer
  <2>10. \A w, c : Brings(k, w, c) = {}
    BY <2>3 DEF Brings
  <2> QED BY <1>2, <1>3, <2>1, <2>4, <2>9, <2>10, NothingWritten DEF GoodVisit, j
<1> QED BY <1>4, <1>5

-----------------------------------------------------------------------------
\* After one of its reads a dashboard has another, or shows.
LEMMA AfterIsRead ==
  ASSUME NEW kind, NEW pc \in {"sum", "rows", "native"}, IsRead(kind, pc)
  PROVE  After(kind, pc) \in {"sum", "rows", "native", "shown"} /\ IsRead(kind, After(kind, pc))
<1> DEFINE reads == Reads(kind)
           i     == CHOOSE n \in DOMAIN reads : reads[n] = pc
<1>1. reads \in {SummaryReads, ModalReads, ListReads}
  BY DEF Reads
<1>2. i \in DOMAIN reads /\ reads[i] = pc
  BY DEF IsRead
<1>3. After(kind, pc) = reads[1 + i]
  BY DEF After
<1>4. ASSUME NEW n \in DOMAIN reads, reads[n] = pc
      PROVE  1 + n \in DOMAIN reads /\ reads[1 + n] \in {"sum", "rows", "native", "shown"}
  BY <1>1, <1>4 DEF SummaryReads, ModalReads, ListReads
<1> QED BY <1>2, <1>3, <1>4 DEF IsRead

\* A dashboard that read something goes on to the next read and brings nothing.
LEMMA ReadKeeps ==
  ASSUME NEW v \in Visitors, NEW k, PInv, visit[v].pc \in {"sum", "rows", "native"},
         visit' = [visit EXCEPT ![v] = k], UNCHANGED <<assets, synced>>,
         k = [kind |-> k.kind, wallet |-> k.wallet, half |-> k.half, pc |-> k.pc, left |-> k.left,
              todo |-> k.todo, sum |-> k.sum, rows |-> k.rows, live |-> k.live],
         k.kind = visit[v].kind, k.wallet = visit[v].wallet, k.left = visit[v].left,
         k.todo = visit[v].todo, k.pc = After(visit[v].kind, visit[v].pc)
  PROVE  PInv'
<1>1. IsVisit(visit[v]) /\ HoldsAnswer(visit[v])
  BY DEF PInv, GoodVisits, GoodVisit, Idle
<1>2. k.pc \in {"sum", "rows", "native", "shown"} /\ IsRead(k.kind, k.pc)
  BY <1>1, AfterIsRead DEF IsVisit
<1>3. IsVisit(k)
  BY <1>1, <1>2 DEF IsVisit
<1>4. HoldsAnswer(k)
  BY <1>1, <1>2 DEF HoldsAnswer
<1>5. \A w, c : Brings(k, w, c) = {} /\ Brings(visit[v], w, c) = {}
  BY <1>2 DEF Brings
<1> QED BY <1>3, <1>4, <1>5, NothingWritten DEF GoodVisit

\* The reads of the dashboards change no row.
LEMMA ReadsKeep ==
  ASSUME NEW v \in Visitors, PInv,
         ReadSum(v) \/ ReadRows(v) \/ \E reply \in Natives \cup {None} : ReadBalances(v, reply)
  PROVE  PInv'
<1> DEFINE j == visit[v]
<1>1. UNCHANGED <<assets, synced>> /\ j.pc \in {"sum", "rows", "native"}
  BY DEF ReadSum, ReadRows, ReadBalances, Visits
<1>2. IsVisit(j)
  BY <1>1 DEF PInv, GoodVisits, GoodVisit, Idle
<1>3. CASE ReadSum(v)
  <2>1. PICK sum, k : k = [j EXCEPT !.sum = sum, !.pc = After(j.kind, @)]
                      /\ visit' = [visit EXCEPT ![v] = k]
    BY <1>3 DEF ReadSum
  <2> HIDE DEF j
  <2>2. /\ k = [kind |-> k.kind, wallet |-> k.wallet, half |-> k.half, pc |-> k.pc,
                left |-> k.left, todo |-> k.todo, sum |-> k.sum, rows |-> k.rows, live |-> k.live]
        /\ k.kind = j.kind /\ k.wallet = j.wallet /\ k.left = j.left /\ k.todo = j.todo
        /\ k.pc = After(j.kind, j.pc)
    BY <1>2, <2>1 DEF IsVisit
  <2> QED BY <1>1, <2>1, <2>2, ReadKeeps DEF j
<1>4. CASE ReadRows(v)
  <2>1. PICK rows, k : k = [j EXCEPT !.rows = rows, !.pc = After(j.kind, @)]
                       /\ visit' = [visit EXCEPT ![v] = k]
    BY <1>4 DEF ReadRows
  <2> HIDE DEF j
  <2>2. /\ k = [kind |-> k.kind, wallet |-> k.wallet, half |-> k.half, pc |-> k.pc,
                left |-> k.left, todo |-> k.todo, sum |-> k.sum, rows |-> k.rows, live |-> k.live]
        /\ k.kind = j.kind /\ k.wallet = j.wallet /\ k.left = j.left /\ k.todo = j.todo
        /\ k.pc = After(j.kind, j.pc)
    BY <1>2, <2>1 DEF IsVisit
  <2> QED BY <1>1, <2>1, <2>2, ReadKeeps DEF j
<1>5. CASE \E reply \in Natives \cup {None} : ReadBalances(v, reply)
  <2>1. PICK live, k : k = [j EXCEPT !.live = live, !.pc = After(j.kind, @)]
                       /\ visit' = [visit EXCEPT ![v] = k]
    BY <1>5 DEF ReadBalances
  <2> HIDE DEF j
  <2>2. /\ k = [kind |-> k.kind, wallet |-> k.wallet, half |-> k.half, pc |-> k.pc,
                left |-> k.left, todo |-> k.todo, sum |-> k.sum, rows |-> k.rows, live |-> k.live]
        /\ k.kind = j.kind /\ k.wallet = j.wallet /\ k.left = j.left /\ k.todo = j.todo
        /\ k.pc = After(j.kind, j.pc)
    BY <1>2, <2>1 DEF IsVisit
  <2> QED BY <1>1, <2>1, <2>2, ReadKeeps DEF j
<1> QED BY <1>3, <1>4, <1>5

\* So does showing it.
LEMMA ShowKeeps ==
  ASSUME NEW v \in Visitors, PInv, Show(v) PROVE PInv'
<1>1. visit[v].pc # "put" /\ visit' = [visit EXCEPT ![v] = Idle] /\ UNCHANGED <<assets, synced>>
  BY DEF Show, Visits
<1> QED BY <1>1, Leaves

-----------------------------------------------------------------------------
\* Deleting the rows of a chain leaves what the answer has, still to be inserted, and
\* what another sync is inserting at the same time; the rows of other chains stay.
LEMMA ClearChainKeeps ==
  ASSUME NEW v \in Visitors, PInv, ClearChain(v) PROVE PInv'
<1> DEFINE j    == visit[v]
           last == [how |-> IF j.half THEN "broken"
                            ELSE IF \E other \in Visitors : Writes(other, j.wallet, ChainOf(j))
                                 THEN "overlap" ELSE "whole",
                    tokens |-> Tokens(j.todo)]
           x    == IF j.todo = <<>> THEN NextChain(j) ELSE [j EXCEPT !.pc = "put"]
<1>1. /\ j.pc = "clear" /\ visit' = [visit EXCEPT ![v] = x]
      /\ assets' = [assets EXCEPT ![j.wallet] = Others(j.wallet, ChainOf(j))]
      /\ synced' = [synced EXCEPT ![<<j.wallet, ChainOf(j)>>] = last]
  BY DEF ClearChain, Visits
<1>2. IsVisit(j) /\ HoldsAnswer(j)
  BY <1>1 DEF PInv, GoodVisits, GoodVisit, Idle
<1> DEFINE place == <<j.wallet, ChainOf(j)>>
<1>3. place \in Places /\ j.wallet \in Wallet
  BY <1>1, <1>2, ChainIsLeft DEF IsVisit
<1>4. /\ GoodVisit(x)
      /\ \A w, c : Brings(x, w, c) = IF <<w, c>> = place THEN Tokens(j.todo) ELSE {}
  <2>1. CASE j.todo = <<>>
    <3>1. GoodVisit(NextChain(j)) /\ \A w, c : Brings(NextChain(j), w, c) = {}
      BY <1>1, <1>2, NextChainIsGood
    <3>2. Tokens(j.todo) = {}
      BY <2>1 DEF Tokens
    <3> QED BY <2>1, <3>1, <3>2
  <2>2. CASE j.todo # <<>>
    <3>1. PICK k : k = [j EXCEPT !.pc = "put"] /\ k = x
      BY <2>2
    <3> HIDE DEF j, x
    <3>2. /\ k.wallet = j.wallet /\ k.left = j.left /\ k.pc = "put" /\ k.todo = j.todo
          /\ k = [kind |-> k.kind, wallet |-> k.wallet, half |-> k.half, pc |-> k.pc,
                  left |-> k.left, todo |-> k.todo, sum |-> k.sum, rows |-> k.rows, live |-> k.live]
      BY <1>2, <3>1 DEF IsVisit
    <3>3. IsVisit(k)
      BY <1>1, <1>2, <3>2 DEF IsVisit
    <3>4. HoldsAnswer(k)
      BY <1>2, <2>2, <3>2 DEF HoldsAnswer
    <3>5. ChainOf(k) = ChainOf(j)
      BY <3>2 DEF ChainOf
    <3> QED BY <3>1, <3>2, <3>3, <3>4, <3>5 DEF GoodVisit, Brings
  <2> QED BY <2>1, <2>2
<1>5. \A w, c : Brings(j, w, c) = {}
  BY <1>1 DEF Brings
<1> HIDE DEF x
<1>6. GoodVisits'
  <2>1. assets' = [w \in Wallet |-> assets'[w]] /\ synced' = [p \in Places |-> synced'[p]]
    BY <1>1 DEF PInv, GoodVisits
  <2> QED BY <1>1, <1>4, <2>1, VisitsStayGood DEF PInv
<1>7. ASSUME NEW w \in Wallet, NEW c \in SyncChains(w)
      PROVE  Kept(synced'[<<w, c>>], (Stored(w, c) \cup Coming(w, c))', w, c)
  <2>1. Coming(w, c)' = Brings(x, w, c) \cup OthersBring(v, w, c)
    BY <1>1, ComingAfter DEF PInv, GoodVisits
  <2>2. Coming(w, c) = OthersBring(v, w, c)
    <3>1. Coming(w, c) = Brings(visit[v], w, c) \cup OthersBring(v, w, c)
      BY ComingSplits
    <3> QED BY <1>5, <3>1
  <2>3. Kept(synced[<<w, c>>], Stored(w, c) \cup Coming(w, c), w, c)
    BY HoldingsAre DEF PInv
  <2>4. assets'[w] = IF w = j.wallet THEN {row \in assets[w] : row.chain # ChainOf(j)} ELSE assets[w]
    BY <1>1 DEF PInv, GoodVisits, Others
  <2>5. CASE <<w, c>> # place
    <3>1. {r \in assets'[w] : r.chain = c} = {r \in assets[w] : r.chain = c}
      BY <2>4, <2>5
    <3>2. Stored(w, c)' = Stored(w, c)
      BY <3>1 DEF Stored
    <3>3. synced'[<<w, c>>] = synced[<<w, c>>]
      BY <1>1, <2>5 DEF PInv, GoodVisits
    <3> QED BY <1>4, <2>1, <2>2, <2>3, <2>5, <3>2, <3>3
  <2>6. CASE <<w, c>> = place
    <3>1. w = j.wallet /\ c = ChainOf(j)
      BY <2>6
    <3>2. Stored(w, c)' = {}
      BY <2>4, <3>1 DEF Stored
    <3>3. synced'[<<w, c>>] = last
      BY <1>1, <1>3, <2>6 DEF PInv, GoodVisits
    <3>4. (Stored(w, c) \cup Coming(w, c))' = Tokens(j.todo) \cup Coming(w, c)
      BY <1>4, <2>1, <2>2, <2>6, <3>2
    <3>5. j.half \/ Always(w, c) \subseteq Tokens(j.todo)
      <4>1. [items |-> j.todo, half |-> j.half] \in Answers(w, c)
        BY <1>1, <1>2, <3>1 DEF HoldsAnswer
      <4>2. j.todo # None
        BY <1>1, <1>2 DEF HoldsAnswer
      <4> QED BY <4>1, <4>2 DEF Always
    <3>6. (\E other \in Visitors : Writes(other, w, c)) \/ Coming(w, c) = {}
      BY DEF Coming
    <3> QED BY <3>1, <3>3, <3>4, <3>5, <3>6 DEF Kept
  <2> QED BY <2>5, <2>6
<1> QED BY <1>6, <1>7, HoldingsAreAfter DEF PInv

-----------------------------------------------------------------------------
\* The tokens of a sequence are its first one's and those of the rest.
LEMMA TokensOfTail ==
  ASSUME NEW s \in Seq(ItemSet), s # <<>>
  PROVE  /\ Tokens(s) = {Head(s).token} \cup Tokens(Tail(s))
         /\ Tail(s) \in Seq(ItemSet)
         /\ Len(s) = 1 => Tokens(s) = {Head(s).token}
         /\ Len(s) # 1 => Tail(s) # <<>>
<1>1. /\ Tail(s) \in Seq(ItemSet) /\ Len(s) \in Nat \ {0} /\ Len(Tail(s)) = Len(s) - 1
      /\ \A i \in 1..Len(Tail(s)) : Tail(s)[i] = s[i + 1]
      /\ Head(s) = s[1] /\ DOMAIN s = 1..Len(s) /\ DOMAIN Tail(s) = 1..(Len(s) - 1)
  OBVIOUS
<1>2. Tokens(s) = {Head(s).token} \cup Tokens(Tail(s))
  <2>1. ASSUME NEW i \in DOMAIN s PROVE i = 1 \/ (i - 1 \in DOMAIN Tail(s) /\ Tail(s)[i - 1] = s[i])
    BY <1>1
  <2>2. ASSUME NEW i \in DOMAIN Tail(s) PROVE i + 1 \in DOMAIN s /\ Tail(s)[i] = s[i + 1]
    BY <1>1
  <2>3. Tokens(s) \subseteq {Head(s).token} \cup Tokens(Tail(s))
    <3>1. ASSUME NEW i \in DOMAIN s PROVE s[i].token \in {Head(s).token} \cup Tokens(Tail(s))
      <4>1. CASE i = 1
        BY <1>1, <4>1
      <4>2. CASE i - 1 \in DOMAIN Tail(s) /\ Tail(s)[i - 1] = s[i]
        BY <4>2 DEF Tokens
      <4> QED BY <2>1, <4>1, <4>2
    <3> QED BY <3>1 DEF Tokens
  <2>4. {Head(s).token} \cup Tokens(Tail(s)) \subseteq Tokens(s)
    <3>1. 1 \in DOMAIN s
      BY <1>1
    <3> QED BY <1>1, <2>2, <3>1 DEF Tokens
  <2> QED BY <2>3, <2>4
<1>3. Len(s) = 1 => Tokens(s) = {Head(s).token}
  BY <1>1 DEF Tokens
<1>4. Len(s) # 1 => Tail(s) # <<>>
  <2>1. Len(s) # 1 => Len(Tail(s)) # 0
    BY <1>1
  <2> QED BY <2>1
<1> QED BY <1>1, <1>2, <1>3, <1>4

\* Inserting a token moves it from what comes to what is stored.
LEMMA PutTokenKeeps ==
  ASSUME NEW v \in Visitors, PInv, PutToken(v) PROVE PInv'
<1> DEFINE j     == visit[v]
           token == Head(j.todo).token
           place == <<j.wallet, ChainOf(j)>>
           x     == IF Len(j.todo) = 1 THEN NextChain(j) ELSE [j EXCEPT !.todo = Tail(@)]
<1>1. /\ j.pc = "put" /\ visit' = [visit EXCEPT ![v] = x] /\ synced' = synced
      /\ assets' = [assets EXCEPT ![j.wallet] = Upsert(@, ChainOf(j), Head(j.todo))]
  BY DEF PutToken, Visits
<1>2. IsVisit(j) /\ HoldsAnswer(j)
  BY <1>1 DEF PInv, GoodVisits, GoodVisit, Idle
<1>3. place \in Places /\ j.wallet \in Wallet
  BY <1>1, <1>2, ChainIsLeft DEF IsVisit
<1>4. j.todo \in Seq(ItemSet) /\ j.todo # <<>>
  BY <1>1, <1>2 DEF HoldsAnswer
<1>5. /\ GoodVisit(x)
      /\ \A w, c : IF <<w, c>> = place THEN Brings(j, w, c) = {token} \cup Brings(x, w, c)
                   ELSE Brings(x, w, c) = Brings(j, w, c)
  <2>1. \A w, c : Brings(j, w, c) = IF <<w, c>> = place THEN Tokens(j.todo) ELSE {}
    BY <1>1 DEF Brings
  <2>2. CASE Len(j.todo) = 1
    <3>1. GoodVisit(NextChain(j)) /\ \A w, c : Brings(NextChain(j), w, c) = {}
      BY <1>1, <1>2, NextChainIsGood
    <3>2. Tokens(j.todo) = {token}
      BY <1>4, <2>2, TokensOfTail
    <3> QED BY <2>1, <2>2, <3>1, <3>2
  <2>3. CASE Len(j.todo) # 1
    <3>1. PICK k : k = [j EXCEPT !.todo = Tail(@)] /\ k = x
      BY <2>3
    <3>2. /\ Tokens(j.todo) = {token} \cup Tokens(Tail(j.todo))
          /\ Tail(j.todo) \in Seq(ItemSet) /\ Tail(j.todo) # <<>>
      BY <1>4, <2>3, TokensOfTail
    <3> HIDE DEF j, x, token
    <3>3. /\ k.wallet = j.wallet /\ k.left = j.left /\ k.pc = j.pc /\ k.todo = Tail(j.todo)
          /\ k.kind = j.kind
          /\ k = [kind |-> k.kind, wallet |-> k.wallet, half |-> k.half, pc |-> k.pc,
                  left |-> k.left, todo |-> k.todo, sum |-> k.sum, rows |-> k.rows, live |-> k.live]
      BY <1>2, <3>1 DEF IsVisit
    <3>4. IsVisit(k)
      BY <1>2, <3>3 DEF IsVisit
    <3>5. HoldsAnswer(k)
      BY <1>1, <3>2, <3>3 DEF HoldsAnswer
    <3>6. ChainOf(k) = ChainOf(j)
      BY <3>3 DEF ChainOf
    <3>7. \A w, c : Brings(k, w, c) = IF <<w, c>> = place THEN Tokens(Tail(j.todo)) ELSE {}
      BY <1>1, <3>3, <3>6 DEF Brings
    <3> QED BY <2>1, <3>1, <3>2, <3>4, <3>5, <3>7 DEF GoodVisit
  <2> QED BY <2>2, <2>3
<1> HIDE DEF x
<1>6. GoodVisits'
  <2>1. assets' = [w \in Wallet |-> assets'[w]] /\ synced' = [p \in Places |-> synced'[p]]
    BY <1>1 DEF PInv, GoodVisits
  <2> QED BY <1>1, <1>5, <2>1, VisitsStayGood DEF PInv
<1>7. ASSUME NEW w \in Wallet, NEW c \in SyncChains(w)
      PROVE  (Stored(w, c) \cup Coming(w, c))' = Stored(w, c) \cup Coming(w, c)
  <2>1. Coming(w, c)' = Brings(x, w, c) \cup OthersBring(v, w, c)
    BY <1>1, ComingAfter DEF PInv, GoodVisits
  <2>2. Coming(w, c) = Brings(visit[v], w, c) \cup OthersBring(v, w, c)
    BY ComingSplits
  <2>3. assets'[w] = IF w = j.wallet THEN Upsert(assets[w], ChainOf(j), Head(j.todo)) ELSE assets[w]
    BY <1>1 DEF PInv, GoodVisits
  <2>4. CASE <<w, c>> # place
    <3>1. {r \in assets'[w] : r.chain = c} = {r \in assets[w] : r.chain = c}
      BY <2>3, <2>4 DEF Upsert
    <3>2. Stored(w, c)' = Stored(w, c)
      BY <3>1 DEF Stored
    <3> QED BY <1>5, <2>1, <2>2, <2>4, <3>2
  <2>5. CASE <<w, c>> = place
    <3>1. w = j.wallet /\ c = ChainOf(j)
      BY <2>5
    <3>2. Stored(w, c)' = Stored(w, c) \cup {token}
      <4>1. PICK new : /\ new.chain = c /\ new.token = token
                       /\ assets'[w] = {row \in assets[w] : row.chain # c \/ row.token # token} \cup {new}
        BY <2>3, <3>1 DEF Upsert
      <4>2. Stored(w, c)' = {row.token : row \in {r \in assets'[w] : r.chain = c}}
        BY DEF Stored
      <4> HIDE DEF token
      <4>3. ASSUME NEW t PROVE t \in Stored(w, c)' <=> t \in Stored(w, c) \cup {token}
        <5>1. t \in Stored(w, c)' <=> \E r \in assets'[w] : r.chain = c /\ r.token = t
          BY <4>2
        <5>2. t \in Stored(w, c) <=> \E r \in assets[w] : r.chain = c /\ r.token = t
          BY DEF Stored
        <5> QED BY <4>1, <5>1, <5>2
      <4> QED BY <4>3
    <3>3. Brings(visit[v], w, c) = {token} \cup Brings(x, w, c)
      BY <1>5, <2>5
    <3> QED BY <2>1, <2>2, <3>2, <3>3
  <2> QED BY <2>4, <2>5
<1>8. HoldingsStay'
  BY <1>1, <1>7, HoldingsAre, HoldingsAreAfter DEF PInv
<1> QED BY <1>6, <1>8 DEF PInv

-----------------------------------------------------------------------------
\* A request that fails breaks the chain it was inserting, and no other.
LEMMA RefuseKeeps ==
  ASSUME NEW v \in Visitors, PInv, Refuse(v) PROVE PInv'
<1>1. visit' = [visit EXCEPT ![v] = Idle] /\ assets' = assets /\ synced' = Broken({v})
  BY DEF Refuse
<1>2. GoodVisits'
  <2>1. assets' = [w \in Wallet |-> assets'[w]] /\ synced' = [p \in Places |-> synced'[p]]
    BY <1>1 DEF PInv, GoodVisits, Broken
  <2> QED BY <1>1, <2>1, VisitsStayGood DEF PInv, GoodVisit
<1>3. ASSUME NEW w \in Wallet, NEW c \in SyncChains(w)
      PROVE  Kept(synced'[<<w, c>>], (Stored(w, c) \cup Coming(w, c))', w, c)
  <2>1. <<w, c>> \in Places
    BY ChainsOfWallet
  <2>2. synced'[<<w, c>>] = IF Writes(v, w, c) THEN [how |-> "broken", tokens |-> {}]
                            ELSE synced[<<w, c>>]
    BY <1>1, <2>1 DEF Broken
  <2>3. CASE Writes(v, w, c)
    BY <2>2, <2>3 DEF Kept
  <2>4. CASE ~Writes(v, w, c)
    <3>1. Brings(visit[v], w, c) = {} /\ Brings(Idle, w, c) = {}
      BY <2>4 DEF Brings, Writes, Visits, Idle
    <3>2. Coming(w, c)' = Brings(Idle, w, c) \cup OthersBring(v, w, c)
      BY <1>1, ComingAfter DEF PInv, GoodVisits
    <3>3. Coming(w, c) = Brings(visit[v], w, c) \cup OthersBring(v, w, c)
      BY ComingSplits
    <3>4. Stored(w, c)' = Stored(w, c)
      BY <1>1 DEF Stored
    <3>5. Kept(synced[<<w, c>>], Stored(w, c) \cup Coming(w, c), w, c)
      BY HoldingsAre DEF PInv
    <3>6. (Stored(w, c) \cup Coming(w, c))' = Stored(w, c) \cup Coming(w, c)
      BY <3>1, <3>2, <3>3, <3>4
    <3> QED BY <2>2, <2>4, <3>5, <3>6
  <2> QED BY <2>3, <2>4
<1> QED BY <1>2, <1>3, HoldingsAreAfter DEF PInv

\* So does the end of the process, for all requests at once.
LEMMA StopKeeps ==
  ASSUME PInv, Stop PROVE PInv'
<1>1. /\ visit' = [u \in Visitors |-> Idle] /\ assets' = assets /\ synced' = Broken(Visitors)
  BY DEF Stop
<1>2. GoodVisits'
  BY <1>1 DEF PInv, GoodVisits, GoodVisit, Broken, Idle
<1>3. ASSUME NEW w \in Wallet, NEW c \in SyncChains(w)
      PROVE  Kept(synced'[<<w, c>>], (Stored(w, c) \cup Coming(w, c))', w, c)
  <2>1. <<w, c>> \in Places
    BY ChainsOfWallet
  <2>2. synced'[<<w, c>>] = IF \E v \in Visitors : Writes(v, w, c)
                            THEN [how |-> "broken", tokens |-> {}] ELSE synced[<<w, c>>]
    BY <1>1, <2>1 DEF Broken
  <2>3. CASE \E v \in Visitors : Writes(v, w, c)
    BY <2>2, <2>3 DEF Kept
  <2>4. CASE ~\E v \in Visitors : Writes(v, w, c)
    <3>1. Coming(w, c) = {}
      BY <2>4 DEF Coming
    <3>2. \A u \in Visitors : visit'[u].pc # "put"
      BY <1>1 DEF Idle
    <3>3. Coming(w, c)' = {}
      BY <3>2 DEF Coming, Writes, Visits
    <3>4. Stored(w, c)' = Stored(w, c)
      BY <1>1 DEF Stored
    <3>5. Kept(synced[<<w, c>>], Stored(w, c) \cup Coming(w, c), w, c)
      BY HoldingsAre DEF PInv
    <3>6. (Stored(w, c) \cup Coming(w, c))' = Stored(w, c) \cup Coming(w, c)
      BY <3>1, <3>3, <3>4
    <3> QED BY <2>2, <2>4, <3>5, <3>6
  <2> QED BY <2>3, <2>4
<1> QED BY <1>2, <1>3, HoldingsAreAfter DEF PInv

-----------------------------------------------------------------------------
\* At first nothing was synced and nothing is stored.
LEMMA PInvInit ==
  ASSUME AssetInit PROVE PInv
<1>1. GoodVisits
  BY DEF AssetInit, GoodVisits, GoodVisit
<1>2. ASSUME NEW w \in Wallet, NEW c \in SyncChains(w)
      PROVE  Kept(synced[<<w, c>>], Stored(w, c) \cup Coming(w, c), w, c)
  <2>1. <<w, c>> \in Places
    BY ChainsOfWallet
  <2>2. synced[<<w, c>>] = [how |-> "no", tokens |-> {}]
    BY <2>1 DEF AssetInit
  <2>3. Stored(w, c) = {} /\ Coming(w, c) = {}
    BY DEF AssetInit, Stored, Coming, Writes, Visits, Idle
  <2> QED BY <2>2, <2>3 DEF Kept
<1> QED BY <1>1, <1>2, HoldingsAre DEF PInv

\* Every step keeps the invariant; those of Accounts touch nothing here.
LEMMA PInvStep ==
  ASSUME PInv, [PortfolioNext]_<<vars, assetVars>> PROVE PInv'
<1>1. CASE UNCHANGED assetVars
  <2>1. assets' = assets /\ visit' = visit /\ synced' = synced
    BY <1>1 DEF assetVars
  <2>2. GoodVisits'
    BY <2>1 DEF PInv, GoodVisits, GoodVisit, IsVisit, HoldsAnswer
  <2>3. \A w, c : Stored(w, c)' = Stored(w, c) /\ Coming(w, c)' = Coming(w, c)
    BY <2>1 DEF Stored, Coming, Writes, Visits
  <2>4. HoldingsStay'
    BY <2>1, <2>3, HoldingsAre, HoldingsAreAfter DEF PInv
  <2> QED BY <2>2, <2>4 DEF PInv
<1>2. ASSUME NEW v \in Visitors, VisitStep(v) PROVE PInv'
  <2>1. CASE \E kind \in {"sync", "summary", "modal", "list"}, w \in Wallet : Visit(v, kind, w)
    BY <2>1, VisitKeeps
  <2>2. CASE \E answer \in UNION {Answers(p[1], p[2]) : p \in Places} : AskTokens(v, answer)
    BY <2>2, AskTokensKeeps
  <2> QED BY <1>2, <2>1, <2>2, ClearChainKeeps, PutTokenKeeps, ReadsKeep, ShowKeeps, RefuseKeeps
          DEF VisitStep
<1> QED BY <1>1, <1>2, StopKeeps DEF PortfolioNext, AssetNext

\* Whatever the chains, the replies and the requests in between: after a sync a chain's
\* rows are the tokens of its last answer, less what is still to be inserted.
THEOREM HoldingsHold == PortfolioSpec => []HoldingsStay
<1>1. Init /\ AssetInit => PInv
  BY PInvInit
<1>2. PInv /\ [PortfolioNext]_<<vars, assetVars>> => PInv'
  BY PInvStep
<1>3. PInv => HoldingsStay
  BY DEF PInv
<1> QED BY <1>1, <1>2, <1>3, PTL DEF PortfolioSpec

-----------------------------------------------------------------------------
(* Sums over finite sets.                                                    *)

\* The sum of m over S, and the function the fold is made of.
SumOf(m, S) == MapThenSumSet(LAMBDA x : m[x], S)

Taken(s) == CHOOSE x \in s : TRUE

Adds(m, S, f) == f = [s \in SUBSET S |-> IF s = {} THEN 0 ELSE m[Taken(s)] + f[s \ {Taken(s)}]]

\* Induction over the numbers, for the members of a set.
LEMMA NumbersAre ==
  ASSUME NEW G, 0 \in G, \A n \in Nat : n \in G => n + 1 \in G
  PROVE  Nat \subseteq G
<1> DEFINE Below == {p \in Nat \X Nat : p[1] < p[2]}
           Bad == Nat \ G
<1>1. IsWellFoundedOn(Below, Nat)
  BY NatLessThanWellFounded DEF OpToRel
<1> SUFFICES ASSUME Bad # {} PROVE FALSE
  OBVIOUS
<1>2. PICK n \in Bad : \A k \in Bad : <<k, n>> \notin Below
  <2>1. Bad \subseteq Nat
    OBVIOUS
  <2> HIDE DEF Below, Bad
  <2> QED BY <1>1, <2>1, WFMin
<1>3. n # 0 /\ n \in Nat /\ n - 1 \in Nat /\ <<n - 1, n>> \in Below
  OBVIOUS
<1>4. n - 1 \in G
  BY <1>2, <1>3
<1> QED BY <1>3, <1>4

\* Induction over the subsets of a finite set, one element after the other.
LEMMA SubsetsAre ==
  ASSUME NEW S, IsFiniteSet(S), NEW G, {} \in G,
         \A T \in SUBSET S : \A x \in S \ T : T \in G => T \cup {x} \in G
  PROVE  S \in G
<1> DEFINE H == {n \in Nat : \A T \in SUBSET S : Cardinality(T) = n => T \in G}
<1>1. \A T \in SUBSET S : IsFiniteSet(T) /\ Cardinality(T) \in Nat
  BY FS_Subset, FS_CardinalityType
<1>2. 0 \in H
  <2>1. \A T \in SUBSET S : Cardinality(T) = 0 => T = {}
    BY <1>1, FS_EmptySet
  <2> QED BY <2>1
<1>3. ASSUME NEW n \in Nat, n \in H PROVE n + 1 \in H
  <2>1. ASSUME NEW T \in SUBSET S, Cardinality(T) = n + 1 PROVE T \in G
    <3>1. IsFiniteSet(T) /\ Cardinality(T) # 0
      BY <1>1, <2>1
    <3>2. PICK x \in T : TRUE
      BY <3>1, FS_EmptySet
    <3>3. Cardinality(T \ {x}) = n
      <4>1. Cardinality(T \ {x}) = Cardinality(T) - 1
        BY <3>1, <3>2, FS_RemoveElement
      <4> QED BY <2>1, <4>1
    <3>4. T \ {x} \in G
      BY <1>3, <3>3
    <3>5. (T \ {x}) \cup {x} \in G
      BY <3>4
    <3>6. (T \ {x}) \cup {x} = T
      OBVIOUS
    <3> QED BY <3>5, <3>6
  <2> QED BY <2>1
<1>4. Nat \subseteq H
  <2> HIDE DEF H
  <2> QED BY <1>2, <1>3, NumbersAre
<1> QED BY <1>1, <1>4

\* A set that is not empty has the element the fold takes.
LEMMA AnyIs ==
  ASSUME NEW s, s # {}
  PROVE  Taken(s) \in s
BY DEF Taken

\* The recursion of the fold has a solution.
LEMMA SumExists ==
  ASSUME NEW m, NEW S, IsFiniteSet(S)
  PROVE  \E f : Adds(m, S, f)
<1> DEFINE Small(n) == {s \in SUBSET S : Cardinality(s) <= n}
           step(f, s) == IF s = {} THEN 0 ELSE m[Taken(s)] + f[s \ {Taken(s)}]
           G == {n \in Nat : \E f : f = [s \in Small(n) |-> step(f, s)]}
<1>1. \A T \in SUBSET S : IsFiniteSet(T) /\ Cardinality(T) \in Nat
  BY FS_Subset, FS_CardinalityType
<1>2. 0 \in G
  <2>1. \A s \in Small(0) : s = {}
    BY <1>1, FS_EmptySet
  <2>2. PICK f : f = [s \in Small(0) |-> 0]
    OBVIOUS
  <2>3. f = [s \in Small(0) |-> step(f, s)]
    BY <2>1, <2>2
  <2> QED BY <2>3
<1>3. ASSUME NEW n \in Nat, n \in G PROVE n + 1 \in G
  <2>1. PICK f : f = [s \in Small(n) |-> step(f, s)]
    BY <1>3
  <2>2. PICK g : g = [s \in Small(n + 1) |-> step(f, s)]
    OBVIOUS
  <2>3. ASSUME NEW s \in Small(n + 1), s # {}
        PROVE  s \ {Taken(s)} \in Small(n)
    <3>1. Taken(s) \in s
      BY <2>3, AnyIs
    <3>2. Cardinality(s \ {Taken(s)}) = Cardinality(s) - 1
      BY <1>1, <3>1, FS_RemoveElement
    <3> QED BY <1>1, <3>2
  <2>4. \A s \in Small(n) : g[s] = f[s]
    <3>1. Small(n) \subseteq Small(n + 1)
      BY <1>1
    <3> HIDE DEF Small, step
    <3> QED BY <2>1, <2>2, <3>1
  <2>5. \A s \in Small(n + 1) : step(f, s) = step(g, s)
    BY <2>3, <2>4
  <2>6. g = [s \in Small(n + 1) |-> step(g, s)]
    <3> HIDE DEF Small, step
    <3> QED BY <2>2, <2>5
  <2> HIDE DEF Small, step
  <2> QED BY <2>6
<1>4. Cardinality(S) \in G
  <2>1. Nat \subseteq G
    <3> HIDE DEF G
    <3> QED BY <1>2, <1>3, NumbersAre
  <2> QED BY <1>1, <2>1
<1>5. Small(Cardinality(S)) = SUBSET S
  BY FS_Subset
<1>6. PICK f : f = [s \in Small(Cardinality(S)) |-> step(f, s)]
  BY <1>4
<1>7. f = [s \in SUBSET S |-> step(f, s)]
  BY <1>5, <1>6
<1> QED BY <1>7 DEF Adds

\* It has only one, whatever the larger set it is taken over.
LEMMA SumUnique ==
  ASSUME NEW m, NEW S, NEW T, NEW f, NEW g, Adds(m, S, f), Adds(m, T, g), NEW U,
         IsFiniteSet(U), U \subseteq S, U \subseteq T
  PROVE  f[U] = g[U]
<1> DEFINE G == {n \in Nat : \A V \in SUBSET U : Cardinality(V) = n => f[V] = g[V]}
<1>1. \A V \in SUBSET U : IsFiniteSet(V) /\ Cardinality(V) \in Nat
  BY FS_Subset, FS_CardinalityType
<1>2. \A V \in SUBSET U : /\ f[V] = IF V = {} THEN 0 ELSE m[Taken(V)] + f[V \ {Taken(V)}]
                          /\ g[V] = IF V = {} THEN 0 ELSE m[Taken(V)] + g[V \ {Taken(V)}]
  BY DEF Adds
<1>3. 0 \in G
  <2>1. \A V \in SUBSET U : Cardinality(V) = 0 => V = {}
    BY <1>1, FS_EmptySet
  <2> QED BY <1>2, <2>1
<1>4. ASSUME NEW n \in Nat, n \in G PROVE n + 1 \in G
  <2>1. ASSUME NEW V \in SUBSET U, Cardinality(V) = n + 1 PROVE f[V] = g[V]
    <3>1. V # {}
      BY <2>1, FS_EmptySet
    <3>2. Taken(V) \in V
      BY <3>1, AnyIs
    <3>3. Cardinality(V \ {Taken(V)}) = n
      <4>1. Cardinality(V \ {Taken(V)}) = Cardinality(V) - 1
        BY <1>1, <3>2, FS_RemoveElement
      <4> QED BY <2>1, <4>1
    <3>4. f[V \ {Taken(V)}] = g[V \ {Taken(V)}]
      BY <1>4, <3>3
    <3> QED BY <1>2, <3>1, <3>4
  <2> QED BY <2>1
<1>5. Nat \subseteq G
  <2> HIDE DEF G
  <2> QED BY <1>3, <1>4, NumbersAre
<1> QED BY <1>1, <1>5

\* The sum, by its recursion.
LEMMA SumIs ==
  ASSUME NEW m, NEW S, IsFiniteSet(S)
  PROVE  \E f : Adds(m, S, f) /\ SumOf(m, S) = f[S]
<1>1. \E f : Adds(m, S, f)
  BY SumExists
<1>2. PICK f : f = CHOOSE g : Adds(m, S, g)
  OBVIOUS
<1>3. Adds(m, S, f)
  BY <1>1, <1>2
<1>4. SumOf(m, S) = f[S]
  BY <1>2, Zenon DEF SumOf, MapThenSumSet, MapThenFoldSet, Adds, Taken
<1> QED BY <1>3, <1>4

\* Nothing adds up to nothing.
LEMMA SumOfNone ==
  ASSUME NEW m
  PROVE  SumOf(m, {}) = 0
<1>1. PICK f : Adds(m, {}, f) /\ SumOf(m, {}) = f[{}]
  BY SumIs, FS_EmptySet
<1> QED BY <1>1 DEF Adds

\* The sum, by the element the fold takes.
LEMMA SumByAny ==
  ASSUME NEW m, NEW S, IsFiniteSet(S), S # {}
  PROVE  SumOf(m, S) = m[Taken(S)] + SumOf(m, S \ {Taken(S)})
<1>1. PICK f : Adds(m, S, f) /\ SumOf(m, S) = f[S]
  BY SumIs
<1>2. PICK T : T = S \ {Taken(S)}
  OBVIOUS
<1>3. IsFiniteSet(T) /\ T \subseteq S
  BY <1>2, FS_Subset
<1>4. PICK g : Adds(m, T, g) /\ SumOf(m, T) = g[T]
  BY <1>3, SumIs
<1>5. f[T] = g[T]
  BY <1>1, <1>3, <1>4, SumUnique
<1>6. f[S] = m[Taken(S)] + f[S \ {Taken(S)}]
  BY <1>1 DEF Adds
<1> QED BY <1>1, <1>2, <1>4, <1>5, <1>6

\* Numbers of a set that is closed under addition add up to one of them.
LEMMA SumStays ==
  ASSUME NEW m, NEW S, IsFiniteSet(S), NEW N, 0 \in N, \A a, b \in N : a + b \in N,
         \A x \in S : m[x] \in N
  PROVE  SumOf(m, S) \in N
<1> DEFINE G == {n \in Nat : \A T \in SUBSET S : Cardinality(T) = n => SumOf(m, T) \in N}
<1>1. \A T \in SUBSET S : IsFiniteSet(T) /\ Cardinality(T) \in Nat
  BY FS_Subset, FS_CardinalityType
<1>2. 0 \in G
  <2>1. \A T \in SUBSET S : Cardinality(T) = 0 => T = {}
    BY <1>1, FS_EmptySet
  <2> QED BY <2>1, SumOfNone
<1>3. ASSUME NEW n \in Nat, n \in G PROVE n + 1 \in G
  <2>1. ASSUME NEW T \in SUBSET S, Cardinality(T) = n + 1 PROVE SumOf(m, T) \in N
    <3>1. IsFiniteSet(T) /\ Cardinality(T) # 0
      BY <1>1, <2>1
    <3>2. T # {} /\ Taken(T) \in T
      BY <3>1, FS_EmptySet, AnyIs
    <3>3. Cardinality(T \ {Taken(T)}) = n
      <4>1. Cardinality(T \ {Taken(T)}) = Cardinality(T) - 1
        BY <3>1, <3>2, FS_RemoveElement
      <4> QED BY <2>1, <4>1
    <3>4. SumOf(m, T \ {Taken(T)}) \in N
      BY <1>3, <3>3
    <3>5. SumOf(m, T) = m[Taken(T)] + SumOf(m, T \ {Taken(T)})
      BY <3>1, <3>2, SumByAny
    <3> QED BY <3>2, <3>4, <3>5
  <2> QED BY <2>1
<1>4. Nat \subseteq G
  <2> HIDE DEF G
  <2> QED BY <1>2, <1>3, NumbersAre
<1> QED BY <1>1, <1>4

\* Whole numbers add up to one.
LEMMA SumInt ==
  ASSUME NEW m, NEW S, IsFiniteSet(S), \A x \in S : m[x] \in Int
  PROVE  SumOf(m, S) \in Int
<1>1. PICK N : N = Int
  OBVIOUS
<1>2. 0 \in N /\ (\A a, b \in N : a + b \in N) /\ \A x \in S : m[x] \in N
  BY <1>1
<1>3. SumOf(m, S) \in N
  BY <1>2, SumStays
<1> QED BY <1>1, <1>3

\* Natural numbers add up to one.
LEMMA SumNat ==
  ASSUME NEW m, NEW S, IsFiniteSet(S), \A x \in S : m[x] \in Nat
  PROVE  SumOf(m, S) \in Nat
<1>1. PICK N : N = Nat
  OBVIOUS
<1>2. 0 \in N /\ (\A a, b \in N : a + b \in N) /\ \A x \in S : m[x] \in N
  BY <1>1
<1>3. SumOf(m, S) \in N
  BY <1>2, SumStays
<1> QED BY <1>1, <1>3

\* Zeros add up to zero.
LEMMA SumOfZeros ==
  ASSUME NEW m, NEW S, IsFiniteSet(S), \A x \in S : m[x] = 0
  PROVE  SumOf(m, S) = 0
<1>1. PICK N : N = {0}
  OBVIOUS
<1>2. 0 \in N /\ (\A a, b \in N : a + b \in N) /\ \A x \in S : m[x] \in N
  BY <1>1
<1>3. SumOf(m, S) \in N
  BY <1>2, SumStays
<1> QED BY <1>1, <1>3

\* The order does not matter.
LEMMA SumByOne ==
  ASSUME NEW m, NEW S, IsFiniteSet(S), \A x \in S : m[x] \in Int, NEW a \in S
  PROVE  SumOf(m, S) = m[a] + SumOf(m, S \ {a})
<1> DEFINE G == {n \in Nat : \A T \in SUBSET S : Cardinality(T) = n =>
                               \A x \in T : SumOf(m, T) = m[x] + SumOf(m, T \ {x})}
<1>1. \A T \in SUBSET S : IsFiniteSet(T) /\ Cardinality(T) \in Nat /\ SumOf(m, T) \in Int
  <2> SUFFICES ASSUME NEW T \in SUBSET S
               PROVE  IsFiniteSet(T) /\ Cardinality(T) \in Nat /\ SumOf(m, T) \in Int
    OBVIOUS
  <2>1. IsFiniteSet(T)
    BY FS_Subset
  <2> QED BY <2>1, FS_CardinalityType, SumInt
<1>2. 0 \in G
  <2>1. \A T \in SUBSET S : Cardinality(T) = 0 => T = {}
    BY <1>1, FS_EmptySet
  <2> QED BY <2>1
<1>3. ASSUME NEW n \in Nat, n \in G PROVE n + 1 \in G
  <2>1. ASSUME NEW T \in SUBSET S, Cardinality(T) = n + 1, NEW x \in T
        PROVE  SumOf(m, T) = m[x] + SumOf(m, T \ {x})
    <3>1. PICK c : c = Taken(T)
      OBVIOUS
    <3>2. c \in T /\ SumOf(m, T) = m[c] + SumOf(m, T \ {c})
      BY <1>1, <3>1, AnyIs, SumByAny
    <3>3. CASE c = x
      BY <3>2, <3>3
    <3>4. CASE c # x
      <4>1. Cardinality(T \ {c}) = n /\ Cardinality(T \ {x}) = n
        <5>1. Cardinality(T \ {c}) = Cardinality(T) - 1 /\ Cardinality(T \ {x}) = Cardinality(T) - 1
          BY <1>1, <3>2, FS_RemoveElement
        <5> QED BY <2>1, <5>1
      <4>2. SumOf(m, T \ {c}) = m[x] + SumOf(m, (T \ {c}) \ {x})
        BY <1>3, <3>4, <4>1
      <4>3. SumOf(m, T \ {x}) = m[c] + SumOf(m, (T \ {x}) \ {c})
        BY <1>3, <3>2, <3>4, <4>1
      <4>4. PICK U : U = T \ {c, x}
        OBVIOUS
      <4>5. (T \ {c}) \ {x} = U /\ (T \ {x}) \ {c} = U
        BY <4>4
      <4>6. m[c] \in Int /\ m[x] \in Int /\ SumOf(m, U) \in Int
        BY <1>1, <3>2, <4>4
      <4>7. /\ SumOf(m, T) = m[c] + SumOf(m, T \ {c}) /\ SumOf(m, T \ {c}) = m[x] + SumOf(m, U)
            /\ SumOf(m, T \ {x}) = m[c] + SumOf(m, U)
        BY <3>2, <4>2, <4>3, <4>5
      <4> QED BY <4>6, <4>7
    <3> QED BY <3>3, <3>4
  <2> QED BY <2>1
<1>4. Nat \subseteq G
  <2> HIDE DEF G
  <2> QED BY <1>2, <1>3, NumbersAre
<1> QED BY <1>1, <1>4

\* The sum over two sets that have nothing in common.
LEMMA SumOfUnion ==
  ASSUME NEW m, NEW A, NEW B, IsFiniteSet(A), IsFiniteSet(B), A \cap B = {},
         \A x \in A \cup B : m[x] \in Int
  PROVE  SumOf(m, A \cup B) = SumOf(m, A) + SumOf(m, B)
<1> DEFINE G == {T \in SUBSET B : SumOf(m, A \cup T) = SumOf(m, A) + SumOf(m, T)}
<1>1. \A T \in SUBSET B : IsFiniteSet(T) /\ IsFiniteSet(A \cup T)
  BY FS_Subset, FS_Union
<1>2. SumOf(m, A) \in Int /\ \A T \in SUBSET B : SumOf(m, T) \in Int
  BY <1>1, SumInt
<1>3. {} \in G
  <2>1. A \cup {} = A
    OBVIOUS
  <2> QED BY <1>2, <2>1, SumOfNone
<1>4. ASSUME NEW T \in SUBSET B, NEW x \in B \ T, T \in G PROVE T \cup {x} \in G
  <2>1. PICK U : U = T \cup {x}
    OBVIOUS
  <2>2. x \in U /\ U \in SUBSET B /\ U \ {x} = T /\ x \in A \cup U /\ (A \cup U) \ {x} = A \cup T
    BY <1>4, <2>1
  <2>3. SumOf(m, U) = m[x] + SumOf(m, T)
    <3>1. SumOf(m, U) = m[x] + SumOf(m, U \ {x})
      BY <1>1, <2>2, SumByOne
    <3> QED BY <2>2, <3>1
  <2>4. SumOf(m, A \cup U) = m[x] + SumOf(m, A \cup T)
    <3>1. PICK V : V = A \cup U
      OBVIOUS
    <3>2. IsFiniteSet(V) /\ x \in V /\ \A y \in V : m[y] \in Int
      BY <1>1, <2>2, <3>1
    <3>3. SumOf(m, V) = m[x] + SumOf(m, V \ {x})
      BY <3>2, SumByOne
    <3> QED BY <2>2, <3>1, <3>3
  <2>5. m[x] \in Int /\ SumOf(m, A \cup T) = SumOf(m, A) + SumOf(m, T)
    BY <1>4
  <2>6. SumOf(m, A \cup U) = SumOf(m, A) + SumOf(m, U)
    BY <1>2, <2>3, <2>4, <2>5
  <2> QED BY <2>1, <2>2, <2>6
<1>5. B \in G
  <2> HIDE DEF G
  <2> QED BY <1>3, <1>4, SubsetsAre
<1> QED BY <1>5

\* Sums of sums.
LEMMA SumAdds ==
  ASSUME NEW S, IsFiniteSet(S), NEW f, NEW g, NEW h,
         \A x \in S : f[x] \in Int /\ g[x] \in Int /\ h[x] = f[x] + g[x]
  PROVE  SumOf(h, S) = SumOf(f, S) + SumOf(g, S)
<1> DEFINE G == {T \in SUBSET S : SumOf(h, T) = SumOf(f, T) + SumOf(g, T)}
<1>1. \A T \in SUBSET S : IsFiniteSet(T)
  BY FS_Subset
<1>2. \A T \in SUBSET S : SumOf(f, T) \in Int /\ SumOf(g, T) \in Int /\ SumOf(h, T) \in Int
  BY <1>1, SumInt
<1>3. {} \in G
  BY SumOfNone
<1>4. ASSUME NEW T \in SUBSET S, NEW x \in S \ T, T \in G PROVE T \cup {x} \in G
  <2>1. PICK U : U = T \cup {x}
    OBVIOUS
  <2>2. x \in U /\ U \in SUBSET S /\ U \ {x} = T /\ IsFiniteSet(U)
    BY <1>1, <1>4, <2>1
  <2>3. /\ SumOf(f, U) = f[x] + SumOf(f, T) /\ SumOf(g, U) = g[x] + SumOf(g, T)
        /\ SumOf(h, U) = h[x] + SumOf(h, T)
    <3>1. /\ SumOf(f, U) = f[x] + SumOf(f, U \ {x}) /\ SumOf(g, U) = g[x] + SumOf(g, U \ {x})
          /\ SumOf(h, U) = h[x] + SumOf(h, U \ {x})
      BY <2>2, SumByOne
    <3> QED BY <2>2, <3>1
  <2>4. SumOf(h, T) = SumOf(f, T) + SumOf(g, T) /\ h[x] = f[x] + g[x] /\ f[x] \in Int /\ g[x] \in Int
    BY <1>4
  <2>5. SumOf(h, U) = SumOf(f, U) + SumOf(g, U)
    BY <1>2, <2>3, <2>4
  <2> QED BY <2>1, <2>2, <2>5
<1>5. S \in G
  <2> HIDE DEF G
  <2> QED BY <1>3, <1>4, SubsetsAre
<1> QED BY <1>5

\* Functions that agree on a set have the same sum there.
LEMMA SumSame ==
  ASSUME NEW S, IsFiniteSet(S), NEW f, NEW g, \A x \in S : f[x] = g[x] /\ g[x] \in Int
  PROVE  SumOf(f, S) = SumOf(g, S)
<1>1. PICK z : z = [x \in S |-> 0]
  OBVIOUS
<1>2. SumOf(f, S) = SumOf(g, S) + SumOf(z, S)
  <2>1. \A x \in S : g[x] \in Int /\ z[x] \in Int /\ f[x] = g[x] + z[x]
    BY <1>1
  <2> QED BY <2>1, SumAdds
<1>3. SumOf(z, S) = 0 /\ SumOf(g, S) \in Int
  BY <1>1, SumOfZeros, SumInt
<1> QED BY <1>2, <1>3

\* A sum only depends on the terms that are not 0.
LEMMA SumOfPart ==
  ASSUME NEW S, IsFiniteSet(S), NEW m, \A x \in S : m[x] \in Int,
         NEW T, T \subseteq S, \A x \in S \ T : m[x] = 0
  PROVE  SumOf(m, S) = SumOf(m, T)
<1>1. PICK U : U = S \ T
  OBVIOUS
<1>2. IsFiniteSet(T) /\ IsFiniteSet(U) /\ T \cap U = {} /\ T \cup U = S
  BY <1>1, FS_Subset
<1>3. SumOf(m, T \cup U) = SumOf(m, T) + SumOf(m, U)
  BY <1>2, SumOfUnion
<1>4. SumOf(m, U) = 0 /\ SumOf(m, T) \in Int
  BY <1>1, <1>2, SumOfZeros, SumInt
<1>5. SumOf(m, S) = SumOf(m, T) + SumOf(m, U)
  BY <1>2, <1>3
<1> QED BY <1>4, <1>5

\* f has the terms g has on S, under other names.
Renames(key, S, f, g) ==
    /\ \A x \in S : f[key[x]] = g[x] /\ g[x] \in Int
    /\ \A x, y \in S : key[x] = key[y] => x = y

\* The same terms add up to the same.
LEMMA SumOfImage ==
  ASSUME NEW S, IsFiniteSet(S), NEW key, NEW f, NEW g, Renames(key, S, f, g)
  PROVE  SumOf(f, {key[x] : x \in S}) = SumOf(g, S)
<1> USE DEF Renames
<1> DEFINE im(T) == {key[x] : x \in T}
           G == {T \in SUBSET S : IsFiniteSet(im(T)) /\ SumOf(f, im(T)) = SumOf(g, T)}
<1>1. {} \in G
  <2>1. im({}) = {}
    OBVIOUS
  <2> HIDE DEF im
  <2> QED BY <2>1, FS_EmptySet, SumOfNone
<1>2. ASSUME NEW T \in SUBSET S, NEW x \in S \ T, T \in G PROVE T \cup {x} \in G
  <2>1. PICK U : U = T \cup {x}
    OBVIOUS
  <2>2. x \in U /\ U \in SUBSET S /\ U \ {x} = T /\ IsFiniteSet(U)
    BY <1>2, <2>1, FS_Subset
  <2>3. im(U) = im(T) \cup {key[x]} /\ key[x] \notin im(T) /\ im(U) \ {key[x]} = im(T)
    BY <1>2, <2>1
  <2>4. \A y \in im(U) : f[y] \in Int
    BY <2>2
  <2>5. IsFiniteSet(im(T)) /\ SumOf(f, im(T)) = SumOf(g, T)
    BY <1>2
  <2> HIDE DEF im
  <2>6. IsFiniteSet(im(U))
    BY <2>3, <2>5, FS_AddElement
  <2>7. key[x] \in im(U) /\ f[key[x]] = g[x]
    BY <2>3
  <2>8. SumOf(f, im(U)) = f[key[x]] + SumOf(f, im(U) \ {key[x]})
    BY <2>4, <2>6, <2>7, SumByOne
  <2>9. SumOf(g, U) = g[x] + SumOf(g, U \ {x})
    BY <2>2, SumByOne
  <2>10. SumOf(f, im(U)) = SumOf(g, U)
    BY <2>2, <2>3, <2>5, <2>7, <2>8, <2>9
  <2> QED BY <2>1, <2>2, <2>6, <2>10
<1>3. S \in G
  <2> HIDE DEF G
  <2> QED BY <1>1, <1>2, SubsetsAre
<1> QED BY <1>3

\* part has the sums of m over the members of S with the same key.
Groups(key, S, K, m, part) ==
    /\ \A x \in S : key[x] \in K /\ m[x] \in Int
    /\ \A k \in K : part[k] = SumOf(m, {x \in S : key[x] = k})

\* A sum by groups.
LEMMA SumByGroups ==
  ASSUME NEW S, IsFiniteSet(S), NEW K, IsFiniteSet(K), NEW key, NEW m, NEW part,
         Groups(key, S, K, m, part)
  PROVE  SumOf(m, S) = SumOf(part, K)
<1> USE DEF Groups
<1> DEFINE of(T) == {x \in S : key[x] \in T}
           one(k) == {x \in S : key[x] = k}
           G == {T \in SUBSET K : SumOf(m, of(T)) = SumOf(part, T)}
<1>1. \A T : IsFiniteSet(of(T)) /\ of(T) \subseteq S
  BY FS_Subset
<1>2. \A k : IsFiniteSet(one(k)) /\ one(k) \subseteq S
  BY FS_Subset
<1>3. \A k \in K : part[k] = SumOf(m, one(k)) /\ part[k] \in Int
  <2> SUFFICES ASSUME NEW k \in K PROVE part[k] = SumOf(m, one(k)) /\ part[k] \in Int
    OBVIOUS
  <2>1. part[k] = SumOf(m, one(k)) /\ \A x \in one(k) : m[x] \in Int
    OBVIOUS
  <2> HIDE DEF one
  <2> QED BY <1>2, <2>1, SumInt
<1>4. {} \in G
  <2>1. of({}) = {}
    OBVIOUS
  <2> HIDE DEF of
  <2> QED BY <2>1, SumOfNone
<1>5. ASSUME NEW T \in SUBSET K, NEW k \in K \ T, T \in G PROVE T \cup {k} \in G
  <2>1. PICK U : U = T \cup {k}
    OBVIOUS
  <2>2. k \in U /\ U \in SUBSET K /\ U \ {k} = T /\ IsFiniteSet(U)
    BY <1>5, <2>1, FS_Subset
  <2>3. of(U) = of(T) \cup one(k) /\ of(T) \cap one(k) = {}
    BY <1>5, <2>1
  <2>4. SumOf(m, of(T)) = SumOf(part, T)
    BY <1>5
  <2>5. \A x \in of(T) \cup one(k) : m[x] \in Int
    OBVIOUS
  <2> HIDE DEF of, one
  <2>6. SumOf(m, of(T) \cup one(k)) = SumOf(m, of(T)) + SumOf(m, one(k))
    BY <1>1, <1>2, <2>3, <2>5, SumOfUnion
  <2>7. SumOf(part, U) = part[k] + SumOf(part, U \ {k})
    BY <1>3, <2>2, SumByOne
  <2>8. SumOf(m, of(T)) \in Int /\ part[k] \in Int
    <3>1. \A x \in of(T) : m[x] \in Int
      BY <2>5
    <3> QED BY <1>1, <1>3, <3>1, SumInt
  <2>9. SumOf(m, of(U)) = SumOf(part, U)
    <3>1. SumOf(m, of(U)) = SumOf(part, T) + part[k]
      BY <1>3, <2>3, <2>4, <2>6
    <3>2. SumOf(part, U) = part[k] + SumOf(part, T)
      BY <2>2, <2>7
    <3>3. SumOf(part, T) \in Int
      BY <2>4, <2>8
    <3> QED BY <2>8, <3>1, <3>2, <3>3
  <2> QED BY <2>1, <2>2, <2>9 DEF of
<1>6. K \in G
  <2> HIDE DEF G
  <2> QED BY <1>4, <1>5, SubsetsAre
<1>7. of(K) = S
  OBVIOUS
<1> QED BY <1>6, <1>7

\* The image of a finite set is finite.
LEMMA ImageIsFinite ==
  ASSUME NEW S, IsFiniteSet(S), NEW key
  PROVE  IsFiniteSet({key[x] : x \in S})
<1> DEFINE im(T) == {key[x] : x \in T}
           G     == {T \in SUBSET S : IsFiniteSet(im(T))}
<1>1. {} \in G
  <2>1. im({}) = {}
    OBVIOUS
  <2> HIDE DEF im
  <2> QED BY <2>1, FS_EmptySet
<1>2. ASSUME NEW T \in SUBSET S, NEW x \in S \ T, T \in G PROVE T \cup {x} \in G
  <2>1. im(T \cup {x}) = im(T) \cup {key[x]}
    OBVIOUS
  <2>2. IsFiniteSet(im(T))
    BY <1>2
  <2> HIDE DEF im
  <2>3. IsFiniteSet(im(T) \cup {key[x]})
    BY <2>2, FS_AddElement
  <2>4. IsFiniteSet(im(T \cup {x}))
    BY <2>1, <2>3
  <2> QED BY <2>4
<1>3. S \in G
  <2> HIDE DEF G
  <2> QED BY <1>1, <1>2, SubsetsAre
<1> QED BY <1>3

-----------------------------------------------------------------------------
(* What is shown of the tokens.                                            *)

\* The amounts of rows.
LEMMA SumUsdIs ==
  ASSUME NEW S, IsFiniteSet(S), NEW m, \A x \in S : m[x] = x.usd /\ x.usd \in Int
  PROVE  SumUsd(S) = SumOf(m, S)
<1>1. PICK g : g = [x \in S |-> x.usd]
  OBVIOUS
<1>2. SumUsd(S) = SumOf(g, S)
  <2>1. \A x \in S : g[x] = x.usd
    BY <1>1
  <2> QED BY <1>1, <2>1 DEF SumUsd, SumOf, MapThenSumSet, MapThenFoldSet
<1>3. \A x \in S : m[x] = g[x] /\ g[x] \in Int
  BY <1>1
<1>4. SumOf(m, S) = SumOf(g, S)
  BY <1>3, SumSame
<1> QED BY <1>2, <1>4

\* Of two natural numbers, the larger and the smaller one are the two.
LEMMA MergedIs ==
  ASSUME NEW n \in Nat, NEW w \in Nat
  PROVE  /\ MergeUsd(n, w) \in Nat /\ Min({n, w}) \in Nat
         /\ MergeUsd(n, w) + Min({n, w}) = n + w
         /\ n = 0 \/ w = 0 => Min({n, w}) = 0
         /\ w = 0 => MergeUsd(n, w) = n
<1>1. Min({n, w}) = IF n <= w THEN n ELSE w
  <2>1. \A x \in {n, w} : (\A y \in {n, w} : x <= y) => x = IF n <= w THEN n ELSE w
    OBVIOUS
  <2>2. \E x \in {n, w} : \A y \in {n, w} : x <= y
    OBVIOUS
  <2> QED BY <2>1, <2>2 DEF Min
<1>2. Max({n, w}) = IF n <= w THEN w ELSE n
  <2>1. \A x \in {n, w} : (\A y \in {n, w} : x >= y) => x = IF n <= w THEN w ELSE n
    OBVIOUS
  <2>2. \E x \in {n, w} : \A y \in {n, w} : x >= y
    OBVIOUS
  <2> QED BY <2>1, <2>2 DEF Max
<1> QED BY <1>1, <1>2 DEF MergeUsd

RowSet == [chain : Nat, token : STRING, usd : Nat]

AreRows(rows) == rows \subseteq RowSet /\ IsFiniteSet(rows)

\* Balances of some chains: where nothing is held, it is worth nothing.
AreBalances(live) ==
    /\ IsFiniteSet(DOMAIN live) /\ DOMAIN live \subseteq Nat
    /\ \A c \in DOMAIN live :
           live[c].usd \in Nat /\ live[c].held \in Nat /\ (live[c].held = 0 => live[c].usd = 0)

\* The chains that have a row, and what the rows and balances of a chain are worth.
ChainsOf(rows) == {row.chain : row \in rows}
PlainUsd(rows, c) == SumUsd({row \in rows : row.chain = c /\ ~IsWrapped(row)})
NativeUsd(live, c) == IF c \in DOMAIN live THEN live[c].usd ELSE 0
ChainTotal(rows, live, c) ==
    PlainUsd(rows, c) + MergeUsd(NativeUsd(live, c), WrappedUsd(rows, c))


\* The smaller of the two balances of a chain, and the amount of a line.
Twice(rows, live, c) == Min({live[c].usd, WrappedUsd(rows, c)})
Amount(l) == l[4]

\* The rows of a chain are those of its wrapped token and the others.
LEMMA ChainUsd ==
  ASSUME NEW rows, AreRows(rows), NEW m, m = [r \in rows |-> r.usd], NEW c
  PROVE  /\ PlainUsd(rows, c) \in Nat /\ WrappedUsd(rows, c) \in Nat
         /\ PlainUsd(rows, c) + WrappedUsd(rows, c) = SumOf(m, {row \in rows : row.chain = c})
         /\ c \notin ChainsOf(rows) => PlainUsd(rows, c) = 0 /\ WrappedUsd(rows, c) = 0
<1>1. PICK A : A = {row \in rows : row.chain = c /\ ~IsWrapped(row)}
  OBVIOUS
<1>2. PICK B : B = {row \in rows : row.chain = c /\ IsWrapped(row)}
  OBVIOUS
<1>3. /\ IsFiniteSet(A) /\ IsFiniteSet(B) /\ A \cap B = {}
      /\ A \cup B = {row \in rows : row.chain = c} /\ A \subseteq rows /\ B \subseteq rows
  BY <1>1, <1>2, FS_Subset DEF AreRows
<1>4. \A r \in rows : m[r] = r.usd /\ r.usd \in Nat
  BY DEF AreRows, RowSet
<1>5. PlainUsd(rows, c) = SumOf(m, A) /\ WrappedUsd(rows, c) = SumOf(m, B)
  <2>1. PlainUsd(rows, c) = SumUsd(A) /\ WrappedUsd(rows, c) = SumUsd(B)
    BY <1>1, <1>2 DEF PlainUsd, WrappedUsd
  <2>2. \A r \in rows : m[r] = r.usd /\ r.usd \in Int
    BY <1>4
  <2> QED BY <1>3, <2>1, <2>2, SumUsdIs
<1>6. SumOf(m, A) \in Nat /\ SumOf(m, B) \in Nat
  <2>1. (\A r \in A : m[r] \in Nat) /\ (\A r \in B : m[r] \in Nat)
    BY <1>3, <1>4
  <2> QED BY <1>3, <2>1, SumNat
<1>7. SumOf(m, A \cup B) = SumOf(m, A) + SumOf(m, B)
  <2>1. \A r \in A \cup B : m[r] \in Int
    BY <1>3, <1>4
  <2> QED BY <1>3, <2>1, SumOfUnion
<1>8. ASSUME c \notin ChainsOf(rows) PROVE SumOf(m, A) = 0 /\ SumOf(m, B) = 0
  <2>1. A = {} /\ B = {}
    BY <1>1, <1>2, <1>8 DEF ChainsOf
  <2> QED BY <2>1, SumOfNone
<1> QED BY <1>3, <1>5, <1>6, <1>7, <1>8

\* The chains that have a row are finitely many.
LEMMA ChainsAreFinite ==
  ASSUME NEW rows, AreRows(rows) PROVE IsFiniteSet(ChainsOf(rows))
<1>1. PICK key : key = [r \in rows |-> r.chain]
  OBVIOUS
<1>2. IsFiniteSet({key[r] : r \in rows})
  BY ImageIsFinite DEF AreRows
<1>3. {key[r] : r \in rows} = ChainsOf(rows)
  BY <1>1 DEF ChainsOf
<1> QED BY <1>2, <1>3

\* The total is a sum over the chains that have a row and those that have a balance.
LEMMA TotalIs ==
  ASSUME NEW rows, AreRows(rows), NEW live, AreBalances(live),
         NEW K, K = ChainsOf(rows) \cup DOMAIN live, NEW t,
         t = [c \in K |-> ChainTotal(rows, live, c)]
  PROVE  PortfolioTotal(rows, live) = SumOf(t, K)
<1> DEFINE listed == ChainsOf(rows)
           rest   == DOMAIN live \ listed
<1>1. PICK f : f = [c \in listed |-> ChainTotal(rows, live, c)]
  OBVIOUS
<1>2. PICK g : g = [c \in rest |-> live[c].usd]
  OBVIOUS
<1>3. MapThenSumSet(LAMBDA c : ChainTotal(rows, live, c), listed) = SumOf(f, listed)
  <2>1. \A c \in listed : f[c] = ChainTotal(rows, live, c)
    BY <1>1
  <2> HIDE DEF listed
  <2> QED BY <1>1, <2>1 DEF SumOf, MapThenSumSet, MapThenFoldSet
<1>4. MapThenSumSet(LAMBDA c : live[c].usd, rest) = SumOf(g, rest)
  <2>1. \A c \in rest : g[c] = live[c].usd
    BY <1>2
  <2> HIDE DEF rest
  <2> QED BY <1>2, <2>1 DEF SumOf, MapThenSumSet, MapThenFoldSet
<1>5. PortfolioTotal(rows, live) = SumOf(f, listed) + SumOf(g, rest)
  <2>1. PortfolioTotal(rows, live)
          = MapThenSumSet(LAMBDA c : ChainTotal(rows, live, c), listed)
            + MapThenSumSet(LAMBDA c : live[c].usd, rest)
    BY DEF PortfolioTotal, ChainTotal, ChainsOf, PlainUsd, NativeUsd
  <2> QED BY <1>3, <1>4, <2>1
<1>6. IsFiniteSet(listed) /\ IsFiniteSet(rest) /\ listed \cap rest = {} /\ listed \cup rest = K
  BY ChainsAreFinite, FS_Difference DEF AreBalances
<1>7. \A c \in K : /\ PlainUsd(rows, c) \in Nat /\ WrappedUsd(rows, c) \in Nat
                   /\ NativeUsd(live, c) \in Nat
                   /\ c \notin listed => PlainUsd(rows, c) = 0 /\ WrappedUsd(rows, c) = 0
  BY ChainUsd DEF AreBalances, NativeUsd
<1>8. \A c \in listed : t[c] = f[c] /\ f[c] \in Int
  <2> SUFFICES ASSUME NEW c \in listed PROVE t[c] = f[c] /\ f[c] \in Int
    OBVIOUS
  <2>1. t[c] = f[c] /\ c \in K
    BY <1>1
  <2>2. MergeUsd(NativeUsd(live, c), WrappedUsd(rows, c)) \in Nat
    BY <1>7, <2>1, MergedIs
  <2> QED BY <1>1, <1>7, <2>1, <2>2 DEF ChainTotal
<1>9. \A c \in rest : t[c] = g[c] /\ g[c] \in Int
  <2> SUFFICES ASSUME NEW c \in rest PROVE t[c] = g[c] /\ g[c] \in Int
    OBVIOUS
  <2>1. c \in K /\ c \notin listed /\ NativeUsd(live, c) = live[c].usd /\ g[c] = live[c].usd
    BY <1>2 DEF NativeUsd
  <2>2. MergeUsd(NativeUsd(live, c), WrappedUsd(rows, c)) = NativeUsd(live, c)
    BY <1>7, <2>1, MergedIs
  <2> QED BY <1>7, <2>1, <2>2 DEF ChainTotal
<1> HIDE DEF listed, rest
<1>10. SumOf(t, listed) = SumOf(f, listed) /\ SumOf(t, rest) = SumOf(g, rest)
  BY <1>6, <1>8, <1>9, SumSame
<1>11. SumOf(t, listed \cup rest) = SumOf(t, listed) + SumOf(t, rest)
  <2>1. \A c \in listed \cup rest : t[c] \in Int
    BY <1>8, <1>9
  <2> QED BY <1>6, <2>1, SumOfUnion
<1> QED BY <1>5, <1>6, <1>10, <1>11

\* What a total leaves out of a chain counts for nothing where one of the two is missing,
\* so that total and what is left out are all the rows and all the balances.
LEMMA TotalWithTwice ==
  ASSUME NEW rows, AreRows(rows), NEW live, AreBalances(live),
         NEW m, m = [r \in rows |-> r.usd], NEW n, n = [c \in DOMAIN live |-> live[c].usd]
  PROVE  PortfolioTotal(rows, live)
             + MapThenSumSet(LAMBDA c : Min({live[c].usd, WrappedUsd(rows, c)}), DOMAIN live)
           = SumOf(m, rows) + SumOf(n, DOMAIN live)
<1> DEFINE D == DOMAIN live
<1>1. PICK K : K = ChainsOf(rows) \cup D
  OBVIOUS
<1>2. PICK t : t = [c \in K |-> ChainTotal(rows, live, c)]
  OBVIOUS
<1>3. PICK all : all = [c \in K |-> PlainUsd(rows, c) + WrappedUsd(rows, c)]
  OBVIOUS
<1>4. PICK native : native = [c \in K |-> NativeUsd(live, c)]
  OBVIOUS
<1>5. PICK less : less = [c \in K |-> Min({NativeUsd(live, c), WrappedUsd(rows, c)})]
  OBVIOUS
<1>6. PICK both : both = [c \in K |-> all[c] + native[c]]
  OBVIOUS
<1>7. IsFiniteSet(K) /\ IsFiniteSet(D) /\ D \subseteq K
  BY <1>1, ChainsAreFinite, FS_Union DEF AreBalances
<1>8. \A c \in K :
         /\ PlainUsd(rows, c) \in Nat /\ WrappedUsd(rows, c) \in Nat /\ NativeUsd(live, c) \in Nat
         /\ c \notin D => NativeUsd(live, c) = 0
  BY ChainUsd DEF AreBalances, NativeUsd
<1>9. \A c \in K : /\ t[c] \in Int /\ all[c] \in Int /\ native[c] \in Int /\ less[c] \in Int
                   /\ both[c] = all[c] + native[c] /\ both[c] = t[c] + less[c]
                   /\ c \notin D => native[c] = 0 /\ less[c] = 0
  <2> SUFFICES ASSUME NEW c \in K
               PROVE  /\ t[c] \in Int /\ all[c] \in Int /\ native[c] \in Int /\ less[c] \in Int
                      /\ both[c] = all[c] + native[c] /\ both[c] = t[c] + less[c]
                      /\ c \notin D => native[c] = 0 /\ less[c] = 0
    OBVIOUS
  <2>1. PICK p \in Nat : p = PlainUsd(rows, c)
    BY <1>8
  <2>2. PICK w \in Nat : w = WrappedUsd(rows, c)
    BY <1>8
  <2>3. PICK k \in Nat : k = NativeUsd(live, c) /\ (c \notin D => k = 0)
    BY <1>8
  <2>4. /\ MergeUsd(k, w) \in Nat /\ Min({k, w}) \in Nat /\ MergeUsd(k, w) + Min({k, w}) = k + w
        /\ k = 0 \/ w = 0 => Min({k, w}) = 0
    BY MergedIs
  <2>5. /\ t[c] = p + MergeUsd(k, w) /\ all[c] = p + w /\ native[c] = k /\ less[c] = Min({k, w})
        /\ both[c] = all[c] + native[c]
    BY <1>2, <1>3, <1>4, <1>5, <1>6, <2>1, <2>2, <2>3 DEF ChainTotal
  <2> QED BY <2>3, <2>4, <2>5
<1>10. PortfolioTotal(rows, live) = SumOf(t, K)
  BY <1>1, <1>2, TotalIs
<1>11. MapThenSumSet(LAMBDA c : Min({live[c].usd, WrappedUsd(rows, c)}), D) = SumOf(less, K)
  <2>1. PICK g : g = [c \in D |-> Twice(rows, live, c)]
    OBVIOUS
  <2>2. MapThenSumSet(LAMBDA c : Min({live[c].usd, WrappedUsd(rows, c)}), D) = SumOf(g, D)
    <3>1. \A c \in D : g[c] = Twice(rows, live, c)
      BY <2>1
    <3> HIDE DEF D
    <3>2. MapThenSumSet(LAMBDA c : Twice(rows, live, c), D) = SumOf(g, D)
      BY <2>1, <3>1 DEF SumOf, MapThenSumSet, MapThenFoldSet
    <3> QED BY <3>2 DEF Twice
  <2>3. \A c \in D : g[c] = less[c] /\ less[c] \in Int
    BY <1>5, <1>7, <1>9, <2>1 DEF NativeUsd, Twice
  <2>4. SumOf(g, D) = SumOf(less, D)
    BY <1>7, <2>3, SumSame
  <2>5. SumOf(less, K) = SumOf(less, D)
    BY <1>7, <1>9, SumOfPart
  <2> QED BY <2>2, <2>4, <2>5
<1>12. SumOf(t, K) + SumOf(less, K) = SumOf(all, K) + SumOf(native, K)
  <2>1. SumOf(both, K) = SumOf(t, K) + SumOf(less, K)
    BY <1>7, <1>9, SumAdds
  <2>2. SumOf(both, K) = SumOf(all, K) + SumOf(native, K)
    BY <1>7, <1>9, SumAdds
  <2> QED BY <2>1, <2>2
<1>13. SumOf(all, K) = SumOf(m, rows)
  <2>1. PICK key : key = [r \in rows |-> r.chain]
    OBVIOUS
  <2>2. \A r \in rows : key[r] \in K /\ m[r] \in Int
    BY <1>1, <2>1 DEF ChainsOf, AreRows, RowSet
  <2>3. \A c \in K : all[c] = SumOf(m, {r \in rows : key[r] = c})
    <3> SUFFICES ASSUME NEW c \in K PROVE all[c] = SumOf(m, {r \in rows : key[r] = c})
      OBVIOUS
    <3>1. {r \in rows : key[r] = c} = {r \in rows : r.chain = c}
      BY <2>1
    <3> QED BY <1>3, <3>1, ChainUsd
  <2>4. IsFiniteSet(rows)
    BY DEF AreRows
  <2>5. Groups(key, rows, K, m, all)
    BY <2>2, <2>3 DEF Groups
  <2>6. SumOf(m, rows) = SumOf(all, K)
    BY <1>7, <2>4, <2>5, SumByGroups
  <2> QED BY <2>6
<1>14. SumOf(native, K) = SumOf(n, D)
  <2>1. SumOf(native, K) = SumOf(native, D)
    BY <1>7, <1>9, SumOfPart
  <2>2. \A c \in D : native[c] = n[c] /\ n[c] \in Int
    BY <1>4, <1>7 DEF NativeUsd, AreBalances
  <2>3. SumOf(native, D) = SumOf(n, D)
    BY <1>7, <2>2, SumSame
  <2> QED BY <2>1, <2>3
<1> HIDE DEF D
<1>15. PortfolioTotal(rows, live)
           + MapThenSumSet(LAMBDA c : Min({live[c].usd, WrappedUsd(rows, c)}), D)
         = SumOf(m, rows) + SumOf(n, D)
  BY <1>10, <1>11, <1>12, <1>13, <1>14
<1> QED BY <1>15 DEF D

\* The lines of the list add up to the rows and the balances.
LEMMA LinesAre ==
  ASSUME NEW j, AreRows(j.rows), j.live # None, AreBalances(j.live),
         NEW m, m = [r \in j.rows |-> r.usd], NEW n, n = [c \in DOMAIN j.live |-> j.live[c].usd]
  PROVE  MapThenSumSet(LAMBDA l : l[4], Listed(j)) = SumOf(m, j.rows) + SumOf(n, DOMAIN j.live)
<1> DEFINE D == DOMAIN j.live
<1>1. PICK H : H = {d \in D : j.live[d].held > 0}
  OBVIOUS
<1>2. PICK line : line = [r \in j.rows |-> <<"row", r.chain, r.token, r.usd>>]
  OBVIOUS
<1>3. PICK extra : extra = [c \in H |-> <<"native", c, "", j.live[c].usd>>]
  OBVIOUS
<1>4. PICK A : A = {line[r] : r \in j.rows}
  OBVIOUS
<1>5. PICK B : B = {extra[c] : c \in H}
  OBVIOUS
<1>6. Listed(j) = A \cup B
  BY <1>1, <1>2, <1>3, <1>4, <1>5 DEF Listed
<1>7. PICK f : f = [l \in A \cup B |-> Amount(l)]
  OBVIOUS
<1>8. MapThenSumSet(LAMBDA l : l[4], Listed(j)) = SumOf(f, A \cup B)
  <2>1. PICK C : C = A \cup B
    OBVIOUS
  <2>2. \A l \in C : f[l] = Amount(l)
    BY <1>7, <2>1
  <2>3. f = [l \in C |-> Amount(l)]
    BY <1>7, <2>1
  <2>4. MapThenSumSet(LAMBDA l : Amount(l), C) = SumOf(f, C)
    BY <2>2, <2>3 DEF SumOf, MapThenSumSet, MapThenFoldSet
  <2> QED BY <1>6, <2>1, <2>4 DEF Amount
<1>9. \A r \in j.rows : f[line[r]] = m[r] /\ m[r] \in Int
  <2> SUFFICES ASSUME NEW r \in j.rows PROVE f[line[r]] = m[r] /\ m[r] \in Int
    OBVIOUS
  <2>1. line[r] \in A \cup B
    BY <1>4
  <2>2. f[line[r]] = line[r][4]
    BY <1>7, <2>1 DEF Amount
  <2>3. line[r] = <<"row", r.chain, r.token, r.usd>> /\ m[r] = r.usd /\ r.usd \in Int
    BY <1>2 DEF AreRows, RowSet
  <2> QED BY <2>2, <2>3
<1>10. \A c \in H : f[extra[c]] = n[c] /\ n[c] \in Int
  <2> SUFFICES ASSUME NEW c \in H PROVE f[extra[c]] = n[c] /\ n[c] \in Int
    OBVIOUS
  <2>1. extra[c] \in A \cup B
    BY <1>5
  <2>2. f[extra[c]] = extra[c][4]
    BY <1>7, <2>1 DEF Amount
  <2>3. c \in D /\ n[c] = j.live[c].usd /\ n[c] \in Int
    BY <1>1 DEF AreBalances
  <2>4. extra[c] = <<"native", c, "", j.live[c].usd>>
    BY <1>3
  <2>5. <<"native", c, "", j.live[c].usd>>[4] = j.live[c].usd
    OBVIOUS
  <2> QED BY <2>2, <2>3, <2>4, <2>5
<1>11. \A r, s \in j.rows : line[r] = line[s] => r = s
  <2> SUFFICES ASSUME NEW r \in j.rows, NEW s \in j.rows, line[r] = line[s] PROVE r = s
    OBVIOUS
  <2>1. r.chain = s.chain /\ r.token = s.token /\ r.usd = s.usd
    BY <1>2
  <2>2. r \in RowSet /\ s \in RowSet
    BY DEF AreRows
  <2> QED BY <2>1, <2>2 DEF RowSet
<1>12. \A c, d \in H : extra[c] = extra[d] => c = d
  BY <1>3
<1>13. IsFiniteSet(H) /\ H \subseteq D
  BY <1>1, FS_Subset DEF AreBalances
<1>14. SumOf(f, A) = SumOf(m, j.rows)
  <2>1. IsFiniteSet(j.rows)
    BY DEF AreRows
  <2>2. SumOf(f, {line[r] : r \in j.rows}) = SumOf(m, j.rows)
    <3>1. Renames(line, j.rows, f, m)
      BY <1>9, <1>11 DEF Renames
    <3> QED BY <2>1, <3>1, SumOfImage
  <2> QED BY <1>4, <2>2
<1>15. SumOf(f, B) = SumOf(n, H)
  <2>1. SumOf(f, {extra[c] : c \in H}) = SumOf(n, H)
    <3>1. Renames(extra, H, f, n)
      BY <1>10, <1>12 DEF Renames
    <3> QED BY <1>13, <3>1, SumOfImage
  <2> QED BY <1>5, <2>1
<1>16. SumOf(n, D) = SumOf(n, H)
  <2>1. \A c \in D : n[c] \in Int /\ (c \notin H => n[c] = 0)
    BY <1>1 DEF AreBalances
  <2>2. IsFiniteSet(D)
    BY DEF AreBalances
  <2> HIDE DEF D
  <2> QED BY <1>13, <2>1, <2>2, SumOfPart
<1>17. SumOf(f, A \cup B) = SumOf(f, A) + SumOf(f, B)
  <2>1. IsFiniteSet(A) /\ IsFiniteSet(B)
    BY <1>4, <1>5, <1>13, ImageIsFinite DEF AreRows
  <2>2. A \cap B = {}
    <3>1. \A r \in j.rows : line[r][1] = "row"
      BY <1>2
    <3>2. \A c \in H : extra[c][1] = "native"
      BY <1>3
    <3>3. \A l \in A : l[1] = "row"
      BY <1>4, <3>1
    <3>4. \A l \in B : l[1] = "native"
      BY <1>5, <3>2
    <3> QED BY <3>3, <3>4
  <2>3. \A l \in A \cup B : f[l] \in Int
    <3>1. \A l \in A : f[l] \in Int
      BY <1>4, <1>9
    <3>2. \A l \in B : f[l] \in Int
      BY <1>5, <1>10
    <3> QED BY <3>1, <3>2
  <2> QED BY <2>1, <2>2, <2>3, SumOfUnion
<1> QED BY <1>8, <1>14, <1>15, <1>16, <1>17

-----------------------------------------------------------------------------
\* What a request has read are rows and balances.
GoodAmounts(j) == AreRows(j.rows) /\ (j.live = None \/ AreBalances(j.live))

Worth ==
    /\ \A w \in Wallet : AreRows(assets[w])
    /\ \A v \in Visitors : visit[v] = Idle \/ GoodAmounts(visit[v])

\* A step of one request keeps the amounts good if it leaves its own good.
LEMMA WorthStays ==
  ASSUME NEW v \in Visitors, NEW x, GoodVisits, Worth, visit' = [visit EXCEPT ![v] = x],
         x = Idle \/ GoodAmounts(x), \A w \in Wallet : AreRows(assets'[w])
  PROVE  Worth'
<1>1. \A u \in Visitors : visit'[u] = IF u = v THEN x ELSE visit[u]
  BY DEF GoodVisits
<1>2. \A u \in Visitors : visit'[u] = Idle \/ GoodAmounts(visit'[u])
  BY <1>1 DEF Worth
<1>3. \A u \in Visitors : visit'[u] = Idle \/ GoodAmounts(visit[u])'
  BY <1>2 DEF GoodAmounts, AreRows, AreBalances
<1>4. \A w \in Wallet : AreRows(assets[w])'
  BY DEF AreRows
<1> QED BY <1>3, <1>4 DEF Worth, Idle

\* A request at another chain, or with other tokens to insert, has read the same.
LEMMA AmountsStay ==
  ASSUME NEW j, IsVisit(j), GoodAmounts(j)
  PROVE  /\ NextChain(j) = Idle \/ GoodAmounts(NextChain(j))
         /\ \A todo, half : GoodAmounts([j EXCEPT !.pc = "clear", !.todo = todo, !.half = half])
         /\ \A todo : GoodAmounts([j EXCEPT !.todo = todo])
         /\ GoodAmounts([j EXCEPT !.pc = "put"])
         /\ \A sum, pc : GoodAmounts([j EXCEPT !.sum = sum, !.pc = pc])
         /\ \A rows, pc : AreRows(rows) => GoodAmounts([j EXCEPT !.rows = rows, !.pc = pc])
         /\ \A live, pc : live = None \/ AreBalances(live) =>
                GoodAmounts([j EXCEPT !.live = live, !.pc = pc])
<1>1. j = [kind |-> j.kind, wallet |-> j.wallet, half |-> j.half, pc |-> j.pc, left |-> j.left,
           todo |-> j.todo, sum |-> j.sum, rows |-> j.rows, live |-> j.live]
  BY DEF IsVisit
<1>2. NextChain(j) = Idle
      \/ NextChain(j) = [j EXCEPT !.left = @ \ {ChainOf(j)}, !.pc = "ask", !.todo = <<>>, !.half = FALSE]
  BY DEF NextChain
<1> QED BY <1>1, <1>2 DEF GoodAmounts

\* A balance that is read live is a number, 0 where nothing is held.
LEMMA LiveIs ==
  ASSUME NEW reply \in Natives, NEW live, live = [c \in DOMAIN reply |-> LiveBalance(reply[c])]
  PROVE  AreBalances(live)
<1>1. /\ IsFiniteSet(DOMAIN reply)
      /\ \A c \in DOMAIN reply : /\ c \in Chain
                                 /\ reply[c].held \in Nat \cup {None}
                                 /\ reply[c].price \in Nat \cup {None}
  BY PortfolioAssumption
<1>2. ASSUME NEW c \in DOMAIN reply
      PROVE  /\ live[c].held \in Nat /\ live[c].usd \in Nat
             /\ live[c].held = 0 => live[c].usd = 0
  <2>1. PICK held : held = IF reply[c].held = None THEN 0 ELSE reply[c].held
    OBVIOUS
  <2>2. PICK price : price = IF reply[c].price = None THEN 0 ELSE reply[c].price
    OBVIOUS
  <2>3. held \in Nat /\ price \in Nat
    BY <1>1, <2>1, <2>2
  <2>4. live[c].held = held /\ (live[c].usd = 0 \/ live[c].usd = held * price)
    BY <2>1, <2>2 DEF LiveBalance
  <2>5. held * price \in Nat /\ 0 * price = 0
    BY <2>3
  <2> QED BY <2>3, <2>4, <2>5
<1> QED BY <1>1, <1>2 DEF AreBalances, Chain

\* A row that is inserted or renewed, and the rows that are not deleted.
LEMMA UpsertIs ==
  ASSUME NEW rows, AreRows(rows), NEW c \in Nat, NEW item \in ItemSet
  PROVE  AreRows(Upsert(rows, c, item))
<1>1. PICK row : row = [chain |-> c, token |-> item.token, usd |-> item.usd]
  OBVIOUS
<1>2. PICK kept : kept = {r \in rows : r.chain # c \/ r.token # item.token}
  OBVIOUS
<1>3. kept \subseteq RowSet /\ IsFiniteSet(kept) /\ row \in RowSet
  BY <1>1, <1>2, FS_Subset DEF AreRows, RowSet, ItemSet
<1>4. IsFiniteSet(kept \cup {row})
  BY <1>3, FS_AddElement
<1>5. Upsert(rows, c, item) = kept \cup {row}
  BY <1>1, <1>2 DEF Upsert
<1> QED BY <1>3, <1>4, <1>5 DEF AreRows

\* Every step of a request leaves rows and balances what they are.
LEMMA WorthKeeps ==
  ASSUME NEW v \in Visitors, PInv, Worth, VisitStep(v) PROVE Worth'
<1> DEFINE j == visit[v]
<1>1. GoodVisits /\ GoodVisit(j)
  BY DEF PInv, GoodVisits
<1>2. ASSUME j # Idle PROVE IsVisit(j) /\ HoldsAnswer(j) /\ GoodAmounts(j) /\ j.wallet \in Wallet
  BY <1>1, <1>2 DEF GoodVisit, Worth, IsVisit
<1>3. ASSUME UNCHANGED assets PROVE \A w \in Wallet : AreRows(assets'[w])
  BY <1>3 DEF Worth
<1>4. CASE \E kind \in {"sync", "summary", "modal", "list"}, w \in Wallet : Visit(v, kind, w)
  <2>1. PICK kind, w : Visit(v, kind, w)
    BY <1>4
  <2>2. PICK x : x = [kind |-> kind, wallet |-> w, half |-> FALSE,
                      pc |-> IF kind = "sync" THEN "ask" ELSE Reads(kind)[1],
                      left |-> IF kind = "sync" THEN SyncChains(w) ELSE {}, todo |-> <<>>,
                      sum |-> 0, rows |-> {}, live |-> None]
    OBVIOUS
  <2>3. visit' = [visit EXCEPT ![v] = x] /\ assets' = assets
    BY <2>1, <2>2 DEF Visit
  <2>4. x.rows = {} /\ x.live = None
    BY <2>2
  <2>5. GoodAmounts(x)
    BY <2>4, FS_EmptySet DEF GoodAmounts, AreRows
  <2> QED BY <1>1, <1>3, <2>3, <2>5, WorthStays
<1>5. CASE \E answer \in UNION {Answers(p[1], p[2]) : p \in Places} : AskTokens(v, answer)
  <2>1. PICK answer : AskTokens(v, answer)
    BY <1>5
  <2>2. j # Idle /\ assets' = assets
    BY <2>1 DEF AskTokens, Visits, Idle
  <2> HIDE DEF j
  <2>3. PICK x : /\ visit' = [visit EXCEPT ![v] = x]
                 /\ x = IF answer.items = None THEN NextChain(j)
                        ELSE [j EXCEPT !.pc = "clear", !.todo = answer.items, !.half = answer.half]
    BY <2>1 DEF AskTokens, j
  <2>4. x = Idle \/ GoodAmounts(x)
    BY <1>2, <2>2, <2>3, AmountsStay
  <2> QED BY <1>1, <1>3, <2>2, <2>3, <2>4, WorthStays
<1>6. CASE ClearChain(v)
  <2>1. j # Idle
    BY <1>6 DEF ClearChain, Visits, Idle
  <2>2. assets' = [assets EXCEPT ![j.wallet] = Others(j.wallet, ChainOf(j))]
    BY <1>6 DEF ClearChain
  <2> HIDE DEF j
  <2>3. PICK x : /\ visit' = [visit EXCEPT ![v] = x]
                 /\ x = IF j.todo = <<>> THEN NextChain(j) ELSE [j EXCEPT !.pc = "put"]
    BY <1>6 DEF ClearChain, j
  <2>4. x = Idle \/ GoodAmounts(x)
    BY <1>2, <2>1, <2>3, AmountsStay
  <2>5. AreRows(Others(j.wallet, ChainOf(j)))
    BY <1>2, <2>1, FS_Subset DEF Others, Worth, AreRows
  <2>6. \A w \in Wallet : AreRows(assets'[w])
    BY <1>1, <2>2, <2>5 DEF Worth, GoodVisits
  <2> QED BY <1>1, <2>3, <2>4, <2>6, WorthStays
<1>7. CASE PutToken(v)
  <2>1. j # Idle /\ j.pc = "put"
    BY <1>7 DEF PutToken, Visits, Idle
  <2>2. assets' = [assets EXCEPT ![j.wallet] = Upsert(@, ChainOf(j), Head(j.todo))]
    BY <1>7 DEF PutToken
  <2> HIDE DEF j
  <2>3. PICK x : /\ visit' = [visit EXCEPT ![v] = x]
                 /\ x = IF Len(j.todo) = 1 THEN NextChain(j) ELSE [j EXCEPT !.todo = Tail(@)]
    BY <1>7 DEF PutToken, j
  <2>4. x = Idle \/ GoodAmounts(x)
    BY <1>2, <2>1, <2>3, AmountsStay
  <2>5. Head(j.todo) \in ItemSet /\ ChainOf(j) \in Nat
    <3>1. j.todo \in Seq(ItemSet) /\ j.todo # <<>>
      BY <1>2, <2>1 DEF HoldsAnswer
    <3>2. ChainOf(j) \in SyncChains(j.wallet) /\ SyncChains(j.wallet) \subseteq Nat
      BY <1>2, <2>1, ChainIsLeft, ChainsOfWallet
    <3> QED BY <3>1, <3>2
  <2>6. AreRows(Upsert(assets[j.wallet], ChainOf(j), Head(j.todo)))
    BY <1>2, <2>1, <2>5, UpsertIs DEF Worth
  <2>7. \A w \in Wallet : AreRows(assets'[w])
    BY <1>1, <2>2, <2>6 DEF Worth, GoodVisits
  <2> QED BY <1>1, <2>3, <2>4, <2>7, WorthStays
<1>8. CASE ReadSum(v)
  <2>1. j # Idle /\ assets' = assets
    BY <1>8 DEF ReadSum, Visits, Idle
  <2> HIDE DEF j
  <2>2. PICK sum, x : x = [j EXCEPT !.sum = sum, !.pc = After(j.kind, j.pc)]
                      /\ visit' = [visit EXCEPT ![v] = x]
    BY <1>8 DEF ReadSum, j
  <2>3. GoodAmounts(x)
    BY <1>2, <2>1, <2>2, AmountsStay
  <2> QED BY <1>1, <1>3, <2>1, <2>2, <2>3, WorthStays
<1>9. CASE ReadRows(v)
  <2>1. j # Idle /\ assets' = assets
    BY <1>9 DEF ReadRows, Visits, Idle
  <2> HIDE DEF j
  <2>2. PICK x : x = [j EXCEPT !.rows = assets[j.wallet], !.pc = After(j.kind, j.pc)]
                 /\ visit' = [visit EXCEPT ![v] = x]
    BY <1>9 DEF ReadRows, j
  <2>3. AreRows(assets[j.wallet])
    BY <1>2, <2>1 DEF Worth
  <2>4. GoodAmounts(x)
    BY <1>2, <2>1, <2>2, <2>3, AmountsStay
  <2> QED BY <1>1, <1>3, <2>1, <2>2, <2>4, WorthStays
<1>10. CASE \E reply \in Natives \cup {None} : ReadBalances(v, reply)
  <2>1. PICK reply \in Natives \cup {None} : ReadBalances(v, reply)
    BY <1>10
  <2>2. j # Idle /\ assets' = assets
    BY <2>1 DEF ReadBalances, Visits, Idle
  <2> HIDE DEF j
  <2>3. PICK live : live = IF reply = None THEN None ELSE [c \in DOMAIN reply |-> LiveBalance(reply[c])]
    OBVIOUS
  <2>4. PICK x : x = [j EXCEPT !.live = live, !.pc = After(j.kind, j.pc)]
                 /\ visit' = [visit EXCEPT ![v] = x]
    BY <2>1, <2>3 DEF ReadBalances, j
  <2>5. live = None \/ AreBalances(live)
    BY <2>3, LiveIs
  <2>6. GoodAmounts(x)
    BY <1>2, <2>2, <2>4, <2>5, AmountsStay
  <2> QED BY <1>1, <1>3, <2>2, <2>4, <2>6, WorthStays
<1>11. CASE Show(v) \/ Refuse(v)
  <2>1. visit' = [visit EXCEPT ![v] = Idle] /\ assets' = assets
    BY <1>11 DEF Show, Refuse
  <2> QED BY <1>1, <1>3, <2>1, WorthStays
<1> QED BY <1>4, <1>5, <1>6, <1>7, <1>8, <1>9, <1>10, <1>11 DEF VisitStep

\* Every step keeps it; those of Accounts touch nothing here.
LEMMA WorthStep ==
  ASSUME PInv, Worth, [PortfolioNext]_<<vars, assetVars>> PROVE Worth'
<1>1. CASE UNCHANGED assetVars
  BY <1>1 DEF assetVars, Worth, GoodAmounts, AreRows, AreBalances, Idle
<1>2. CASE Stop
  BY <1>2 DEF Stop, Worth, AreRows, Idle
<1> QED BY <1>1, <1>2, WorthKeeps DEF PortfolioNext, AssetNext

\* What is shown adds up, in the middle of a sync or not.
LEMMA WorthCounts ==
  ASSUME Worth PROVE TotalCountsOnce
<1> SUFFICES ASSUME NEW v \in Visitors, Visits(v, "shown"), visit[v].live # None
             PROVE  Total(visit[v])
                      + MapThenSumSet(LAMBDA c : Min({visit[v].live[c].usd,
                                                      WrappedUsd(visit[v].rows, c)}),
                                      DOMAIN visit[v].live)
                    = MapThenSumSet(LAMBDA l : l[4], Listed(visit[v]))
  BY DEF TotalCountsOnce
<1> DEFINE j == visit[v]
<1>1. AreRows(j.rows) /\ AreBalances(j.live)
  BY DEF Worth, GoodAmounts, Visits, Idle
<1>2. Total(j) = PortfolioTotal(j.rows, j.live)
  BY DEF Total
<1>3. PICK m : m = [r \in j.rows |-> r.usd]
  OBVIOUS
<1>4. PICK n : n = [c \in DOMAIN j.live |-> j.live[c].usd]
  OBVIOUS
<1>5. MapThenSumSet(LAMBDA l : l[4], Listed(j)) = SumOf(m, j.rows) + SumOf(n, DOMAIN j.live)
  BY <1>1, <1>3, <1>4, LinesAre
<1>6. PortfolioTotal(j.rows, j.live)
        + MapThenSumSet(LAMBDA c : Min({j.live[c].usd, WrappedUsd(j.rows, c)}), DOMAIN j.live)
      = SumOf(m, j.rows) + SumOf(n, DOMAIN j.live)
  BY <1>1, <1>3, <1>4, TotalWithTwice
<1> QED BY <1>2, <1>5, <1>6

\* Whatever the wallets, the tokens, the prices and the syncs in between: the worth that
\* is shown and the smaller balance of each chain are together the lines that are shown.
THEOREM TotalCounts == PortfolioSpec => []TotalCountsOnce
<1>1. Init /\ AssetInit => PInv /\ Worth
  <2> SUFFICES ASSUME AssetInit PROVE PInv /\ Worth
    OBVIOUS
  <2>1. Worth
    BY FS_EmptySet DEF AssetInit, Worth, AreRows
  <2> QED BY <2>1, PInvInit
<1>2. PInv /\ Worth /\ [PortfolioNext]_<<vars, assetVars>> => PInv' /\ Worth'
  BY PInvStep, WorthStep
<1>3. PInv /\ Worth => TotalCountsOnce
  BY WorthCounts
<1> QED BY <1>1, <1>2, <1>3, PTL DEF PortfolioSpec

=============================================================================
