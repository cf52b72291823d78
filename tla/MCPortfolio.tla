----------------------------- MODULE MCPortfolio -----------------------------
(***************************************************************************)
(* An instance of Portfolio and of Accounts below it: an EVM and a Solana      *)
(* wallet, a chain with pages and failures, one that Moralis does not know.    *)
(***************************************************************************)
EXTENDS Portfolio, TLC

CONSTANTS e1, w1, w2

MCEntryXp == e1 :> 1

MCHome == w1 :> 324

Item(kind, token, usd) == [kind |-> kind, token |-> token, usd |-> usd]
Usdc == Item("token", "usdc", 2)
Weth == Item("token", "weth", 3)
Rest == <<Item("spam", "gift", 9), Item("native", "eth", 5), Item("token", "usdc", 1)>>

\* Two tokens, of which one is sold and bought; a token twice; a page that fails, and
\* one that fails after the last page that is read.
MCReplies == 1 :> {<< <<Usdc, Weth>> >>, << <<Usdc>>, Rest, None >>, << <<Usdc>>, None >>}

MCSolana == {[balance |-> 4, tokens |-> <<Usdc>>], [balance |-> None, tokens |-> <<Usdc>>],
             [balance |-> 4, tokens |-> None], [balance |-> None, tokens |-> None]}

\* Chain 1 is worth more or less than its wrapped token or does not answer.
MCNatives == {(1 :> [held |-> n, price |-> p]) @@ (324 :> [held |-> 3, price |-> 2]) :
                <<n, p>> \in {<<None, 2>>, <<1, None>>, <<1, 2>>, <<2, 2>>}}
MCWrapped == 1 :> {"weth"}

MCSymmetryData == Permutations(Visitors)
=============================================================================
