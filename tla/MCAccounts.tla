----------------------------- MODULE MCAccounts -----------------------------
(* Instances of Accounts for TLC. *)
EXTENDS Accounts, TLC

CONSTANT e1

\* e1 has referrals worth less than the welcome bonus.
MCEntryXp == e1 :> 1

MCSymmetry == Permutations(Wallet) \cup Permutations(UserId) \cup Permutations(Req)

\* Bound of the search: disconnects and dashboards of the first wallet that is connected,
\* before an e-mail is claimed; connects and claims of both wallets.
MCFirstWallet ==
    \/ /\ Cardinality({w \in Wallet : wallet[w].status # "absent"}) <= 1
       /\ \A u \in UserId : claim[u].kind # "waitlist"
       /\ \A r \in Req : req[r].op # "claim"
    \/ /\ \A w \in Wallet : "inactive" \notin {wallet[w].status, monitor[w]}
       /\ \A r \in Req : req[r].op \in {"none", "connect", "claim"}

=============================================================================
