------------------------------ MODULE Portfolio ------------------------------
(***************************************************************************)
(* The tokens of a wallet: the table wallet_assets, which a sync fills chain  *)
(* by chain from what Moralis answers, and the dashboards that add it up with  *)
(* the native balances read live from each chain.  A sync deletes the rows of   *)
(* a chain and inserts the new ones one by one, in no transaction; dashboards   *)
(* and other syncs of the same wallet run in between.                       *)
(*                                                                         *)
(* Composed with Accounts, whose connect makes the row of wallets that every    *)
(* request here needs; disconnecting does not take it away.                  *)
(***************************************************************************)
EXTENDS Accounts, FiniteSetsExt, SequencesExt

CONSTANTS
    Visitors,      \* requests about tokens, at most one each at a time
    SolanaWallets, \* the wallets whose address is a Solana one
    HomeChain,     \* wallets.chain_id of the others
    TokenChains,   \* TOKEN_BALANCE_SCAN_CHAIN_IDS
    Supported,     \* the chains Moralis knows (moralis_chain_param)
    Replies,       \* per supported chain: replies of Moralis, each the pages of a request
    MaxPages,      \* MAX_PAGES
    SolanaReplies, \* replies about a Solana wallet: [balance, tokens], None for no answer
    Natives,       \* replies about native balances: of each chain with an RPC URL
                   \* [held, price], None for what did not answer
    Wrapped,       \* per chain: the contracts of its wrapped native token
    MaxVisits,     \* bound: requests about tokens
    MaxMishaps     \* bound: failed statements and stops of the process

Chain == Nat \ {0}
SolanaChain == 101

\* Amounts of USD are whole numbers here, and never negative: parsers take max(0).
ASSUME PortfolioAssumption ==
    /\ SolanaWallets \subseteq Wallet
    /\ HomeChain \in [Wallet \ SolanaWallets -> Chain]
    /\ TokenChains \subseteq Chain /\ DOMAIN Replies = Supported /\ Supported \subseteq Chain
    /\ MaxPages \in Nat \ {0}
    /\ \A n \in Natives : IsFiniteSet(DOMAIN n) /\ \A c \in DOMAIN n :
           c \in Chain /\ n[c].held \in Nat \cup {None} /\ n[c].price \in Nat \cup {None}

VARIABLES
    assets,   \* wallet_assets: per wallet a set of [chain, token, usd]
    visit,    \* the request of each visitor
    synced,   \* the last sync of a wallet and chain, [how, tokens]: "no" before the first,
              \* "overlap" if two wrote at once, "broken" if it was cut off or only had half
              \* an answer, else "whole"
    visits, mishaps

assetVars == <<assets, visit, synced, visits, mishaps>>

Places == Wallet \X (TokenChains \cup {HomeChain[w] : w \in DOMAIN HomeChain} \cup {SolanaChain})

SumUsd(rows) == MapThenSumSet(LAMBDA row : row.usd, rows)
Tokens(items) == {items[i].token : i \in DOMAIN items}

-----------------------------------------------------------------------------
(* What a provider's reply holds of a wallet: sequences of [token, usd].     *)

\* The native token of the chain, spam, addresses that are none and empty balances
\* are left out.
Held(items) ==
    LET held == SelectSeq(items, LAMBDA item : item.kind = "token")
    IN  [i \in DOMAIN held |-> [token |-> held[i].token, usd |-> held[i].usd]]

\* fetch_wallet_tokens: one page that fails fails the whole; what is after the last page
\* it reads is not asked for.
EvmAnswer(reply) ==
    LET pages == SubSeq(reply, 1, Min({Len(reply), MaxPages}))
    IN  IF \E i \in DOMAIN pages : pages[i] = None THEN None ELSE Held(FlattenSeq(pages))

\* parse_sol_balance, parse_spl_tokens: the native balance is a row of its own, even
\* an empty one.
NativeRow(balance) == IF balance = None THEN <<>> ELSE <<[token |-> "native", usd |-> balance]>>
SplRows(items) == IF items = None THEN <<>> ELSE Held(items)

\* fetch_native_balance and fetch_spl_tokens, each of which may fail.
SolanaAnswer(reply) ==
    IF reply.balance = None /\ reply.tokens = None THEN None
    ELSE NativeRow(reply.balance) \o SplRows(reply.tokens)

Half(reply) == (reply.balance = None) # (reply.tokens = None)

\* The answers about a chain of a wallet, [items, half]; none if Moralis does not know it.
Answers(w, c) ==
    IF w \in SolanaWallets
    THEN {[items |-> SolanaAnswer(r), half |-> Half(r)] : r \in SolanaReplies}
    ELSE IF c \notin Supported THEN {[items |-> None, half |-> FALSE]}
    ELSE {[items |-> EvmAnswer(r), half |-> FALSE] : r \in Replies[c]}

\* Whatever the replies are, an answer is a sequence of items.
ASSUME AnswersAssumption ==
    \A p \in Places : \A a \in Answers(p[1], p[2]) :
        a.items # None => a.items \in Seq([token : STRING, usd : Nat])

\* merge_wallet_chain_id
SyncChains(w) == IF w \in SolanaWallets THEN {SolanaChain} ELSE TokenChains \cup {HomeChain[w]}

-----------------------------------------------------------------------------
(* Requests: a sync, the summary, the modal of a wallet, the list.           *)

Idle == [pc |-> "idle"]

Visits(v, pc) == visit[v].pc = pc

Mishap == mishaps < MaxMishaps /\ mishaps' = mishaps + 1

\* What each dashboard reads of the tokens, in its order.
SummaryReads == <<"sum", "rows", "native", "shown">>
ModalReads == <<"rows", "sum", "native", "shown">>
ListReads == <<"rows", "native", "shown">>

Reads(kind) ==
    CASE kind = "summary" -> SummaryReads [] kind = "modal" -> ModalReads [] OTHER -> ListReads

After(kind, pc) ==
    LET reads == Reads(kind)
    IN  reads[1 + CHOOSE i \in DOMAIN reads : reads[i] = pc]

\* A wallet without a row is answered 404: no step.
Visit(v, kind, w) ==
    /\ Visits(v, "idle") /\ wallet[w].status # "absent"
    /\ visits < MaxVisits /\ visits' = visits + 1
    /\ visit' = [visit EXCEPT ![v] =
           [kind |-> kind, wallet |-> w, half |-> FALSE,
            pc |-> IF kind = "sync" THEN "ask" ELSE Reads(kind)[1],
            left |-> IF kind = "sync" THEN SyncChains(w) ELSE {}, todo |-> <<>>,
            sum |-> 0, rows |-> {}, live |-> None]]
    /\ UNCHANGED <<assets, synced, mishaps>>

\* The chains are taken in their order.
ChainOf(j) == Min(j.left)

\* The next chain of a sync, or its answer.
NextChain(j) ==
    IF j.left = {ChainOf(j)} THEN Idle
    ELSE [j EXCEPT !.left = @ \ {ChainOf(j)}, !.pc = "ask", !.todo = <<>>, !.half = FALSE]

\* A chain Moralis does not know or does not answer about keeps its rows.
AskTokens(v, answer) ==
    LET j == visit[v]
    IN  /\ Visits(v, "ask") /\ answer \in Answers(j.wallet, ChainOf(j))
        /\ visit' = [visit EXCEPT ![v] =
               IF answer.items = None THEN NextChain(j)
               ELSE [j EXCEPT !.pc = "clear", !.todo = answer.items, !.half = answer.half]]
        /\ UNCHANGED <<assets, synced, visits, mishaps>>

\* Mutation of Others: the rows that are not listed any more stay.
OthersAndOld(w, c) == assets[w]

\* What is left when the rows of a chain are deleted (every row here has a contract).
Others(w, c) == {row \in assets[w] : row.chain # c}

Writes(v, w, c) == Visits(v, "put") /\ visit[v].wallet = w /\ ChainOf(visit[v]) = c

ClearChain(v) ==
    LET j == visit[v]
        w == j.wallet
        c == ChainOf(j)
    IN  /\ Visits(v, "clear")
        /\ assets' = [assets EXCEPT ![w] = Others(w, c)]
        /\ synced' = [synced EXCEPT ![<<w, c>>] =
               [how |-> IF j.half THEN "broken"
                        ELSE IF \E other \in Visitors : Writes(other, w, c) THEN "overlap" ELSE "whole",
                tokens |-> Tokens(j.todo)]]
        /\ visit' = [visit EXCEPT ![v] = IF j.todo = <<>> THEN NextChain(j) ELSE [j EXCEPT !.pc = "put"]]
        /\ UNCHANGED <<visits, mishaps>>

\* upsert_indexed_token: one row for each token of a chain.
Upsert(rows, c, item) ==
    {row \in rows : row.chain # c \/ row.token # item.token}
        \cup {[chain |-> c, token |-> item.token, usd |-> item.usd]}

PutToken(v) ==
    LET j == visit[v]
    IN  /\ Visits(v, "put")
        /\ assets' = [assets EXCEPT ![j.wallet] = Upsert(@, ChainOf(j), Head(j.todo))]
        /\ visit' = [visit EXCEPT ![v] =
               IF Len(j.todo) = 1 THEN NextChain(j) ELSE [j EXCEPT !.todo = Tail(@)]]
        /\ UNCHANGED <<synced, visits, mishaps>>

\* total_asset_usd and list_assets; the modal takes a sum that fails for 0.
ReadSum(v) ==
    LET j == visit[v]
        next(sum) == [j EXCEPT !.sum = sum, !.pc = After(j.kind, @)]
    IN  /\ Visits(v, "sum")
        /\ \/ visit' = [visit EXCEPT ![v] = next(SumUsd(assets[j.wallet]))] /\ UNCHANGED mishaps
           \/ j.kind = "modal" /\ Mishap /\ visit' = [visit EXCEPT ![v] = next(0)]
        /\ UNCHANGED <<assets, synced, visits>>

ReadRows(v) ==
    LET j == visit[v]
    IN  /\ Visits(v, "rows")
        /\ visit' = [visit EXCEPT ![v] = [j EXCEPT !.rows = assets[j.wallet], !.pc = After(j.kind, @)]]
        /\ UNCHANGED <<assets, synced, visits, mishaps>>

\* live_native_balance_breakdown: a balance that is not answered is none, and one
\* without a price is worth nothing.
LiveBalance(reply) ==
    LET held == IF reply.held = None THEN 0 ELSE reply.held
    IN  [held |-> held, usd |-> IF reply.price = None THEN 0 ELSE held * reply.price]

\* multi_chain_native_aggregate; a Solana wallet has its native balance in the table.
ReadBalances(v, reply) ==
    LET j == visit[v]
        live == IF reply = None THEN None ELSE [c \in DOMAIN reply |-> LiveBalance(reply[c])]
    IN  /\ Visits(v, "native") /\ (reply = None <=> j.wallet \in SolanaWallets)
        /\ visit' = [visit EXCEPT ![v] = [j EXCEPT !.live = live, !.pc = After(j.kind, @)]]
        /\ UNCHANGED <<assets, synced, visits, mishaps>>

Show(v) ==
    /\ Visits(v, "shown") /\ visit' = [visit EXCEPT ![v] = Idle]
    /\ UNCHANGED <<assets, synced, visits, mishaps>>

\* Requests that are gone: where one of them wrote, its chain is broken.
Broken(gone) ==
    [p \in Places |-> IF \E v \in gone : Writes(v, p[1], p[2])
                      THEN [how |-> "broken", tokens |-> {}] ELSE synced[p]]

\* A statement fails, and the request with it.
Refuse(v) ==
    /\ Mishap /\ visit[v].pc \in {"clear", "put", "sum", "rows"}
    /\ ~(Visits(v, "sum") /\ visit[v].kind = "modal")
    /\ synced' = Broken({v}) /\ visit' = [visit EXCEPT ![v] = Idle]
    /\ UNCHANGED <<assets, visits>>

Stop ==
    /\ Mishap /\ synced' = Broken(Visitors) /\ visit' = [v \in Visitors |-> Idle]
    /\ UNCHANGED <<assets, visits>>
-----------------------------------------------------------------------------
(* What is shown.                                                          *)

IsWrapped(row) == row.chain \in DOMAIN Wrapped /\ row.token \in Wrapped[row.chain]
WrappedUsd(rows, c) == SumUsd({row \in rows : row.chain = c /\ IsWrapped(row)})

\* Mutation of MergeUsd: the native and the wrapped balance are added up.
AddUsd(native, wrapped) == native + wrapped

\* merge_wrapped_and_native_usd
MergeUsd(native, wrapped) ==
    IF native > 0 /\ wrapped > 0 THEN Max({native, wrapped}) ELSE native + wrapped

\* portfolio_total_usd_deduped: chain by chain what has a row, then the other chains.
PortfolioTotal(rows, live) ==
    LET listed == {row.chain : row \in rows}
        plain(c) == SumUsd({row \in rows : row.chain = c /\ ~IsWrapped(row)})
        native(c) == IF c \in DOMAIN live THEN live[c].usd ELSE 0
    IN  MapThenSumSet(LAMBDA c : plain(c) + MergeUsd(native(c), WrappedUsd(rows, c)), listed)
        + MapThenSumSet(LAMBDA c : live[c].usd, DOMAIN live \ listed)

Total(j) == IF j.live = None THEN j.sum ELSE PortfolioTotal(j.rows, j.live)

\* merge_live_native_into_assets: no row here is one of a native token, so each balance
\* there is gets a line.
Listed(j) ==
    {<<"row", row.chain, row.token, row.usd>> : row \in j.rows}
    \cup (IF j.live = None THEN {}
          ELSE {<<"native", c, "", j.live[c].usd>> : c \in {d \in DOMAIN j.live : j.live[d].held > 0}})

-----------------------------------------------------------------------------
AssetInit ==
    /\ assets = [w \in Wallet |-> {}] /\ visit = [v \in Visitors |-> Idle]
    /\ synced = [p \in Places |-> [how |-> "no", tokens |-> {}]]
    /\ visits = 0 /\ mishaps = 0

VisitStep(v) ==
    \/ \E kind \in {"sync", "summary", "modal", "list"}, w \in Wallet : Visit(v, kind, w)
    \/ \E answer \in UNION {Answers(p[1], p[2]) : p \in Places} : AskTokens(v, answer)
    \/ ClearChain(v) \/ PutToken(v) \/ ReadSum(v) \/ ReadRows(v)
    \/ (\E reply \in Natives \cup {None} : ReadBalances(v, reply)) \/ Show(v) \/ Refuse(v)

AssetNext == (\E v \in Visitors : VisitStep(v)) \/ Stop

\* Bound: requests about tokens come after the others, and before XP was claimed or
\* spent.  They read of wallets only whether the row exists, which it does from then
\* on, and no other request reads assets.
XpUntouched == \A u \in UserId : claim[u].kind # "waitlist" /\ billed[u] = 0

PortfolioNext == \/ Next /\ visits = 0 /\ UNCHANGED assetVars
                 \/ AssetNext /\ Quiet /\ XpUntouched /\ UNCHANGED vars

PortfolioSpec == Init /\ AssetInit /\ [][PortfolioNext]_<<vars, assetVars>>
-----------------------------------------------------------------------------
\* The tokens every whole answer about a chain has.
Always(w, c) ==
    {t \in UNION {Tokens(a.items) : a \in {b \in Answers(w, c) : b.items # None}} :
        \A a \in Answers(w, c) : a.items # None /\ ~a.half => t \in Tokens(a.items)}

\* The tokens that are stored of a chain, and those that a sync is about to store.
Stored(w, c) == {row.token : row \in {r \in assets[w] : r.chain = c}}
Coming(w, c) == UNION {Tokens(visit[v].todo) : v \in {u \in Visitors : Writes(u, w, c)}}

\* Once a chain was synced, its rows and those that are still to be inserted are the
\* tokens of the last answer: those that were sold are gone ("avoids stale tokens"), and
\* a reply that fails, of this chain or another, takes nothing away.  Where two syncs wrote
\* at once, at least what every answer has is there (sync_wallet_indexed_tokens,
\* sync_solana_wallet_assets).  A sync that was cut off leaves holes.
HoldingsStay ==
    \A w \in Wallet : \A c \in SyncChains(w) :
        LET tokens == Stored(w, c) \cup Coming(w, c)
            last   == synced[<<w, c>>]
        IN  /\ last.how \in {"whole", "overlap"} => Always(w, c) \subseteq tokens
            /\ last.how \in {"no", "whole"} => tokens = last.tokens

\* What an EVM wallet is shown to be worth is the sum of what is listed, where the
\* smaller of the native and the wrapped native balance of each chain counts for
\* nothing; in the middle of a sync too (portfolio_total_usd_deduped, list_assets).
TotalCountsOnce ==
    \A v \in Visitors :
        LET j == visit[v]
            twice(c) == Min({j.live[c].usd, WrappedUsd(j.rows, c)})
        IN  Visits(v, "shown") /\ j.live # None =>
                Total(j) + MapThenSumSet(twice, DOMAIN j.live)
                    = MapThenSumSet(LAMBDA l : l[4], Listed(j))
=============================================================================
