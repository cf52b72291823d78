------------------------------ MODULE XpAccount ------------------------------
(***************************************************************************)
(* What the XP tables promise, without requests or SQL: every user has one *)
(* account, opened by the welcome grant or by a waitlist claim; a waitlist *)
(* e-mail is worth its referral XP once, for one account; every spend is   *)
(* covered by the balance and is written to the ledger in the same step.   *)
(***************************************************************************)
EXTENDS Integers

CONSTANTS UserId, Email, None, WelcomeXp, EntryXp, Costs

VARIABLE account

NoAccount == [kind |-> "none", email |-> None, earned |-> 0, spent |-> 0, billed |-> 0]

Init == account = [u \in UserId |-> NoAccount]

Welcome(u) ==
    /\ WelcomeXp > 0
    /\ account[u] = NoAccount
    /\ account' = [account EXCEPT ![u] = [kind |-> "welcome", email |-> None,
                        earned |-> WelcomeXp, spent |-> 0, billed |-> 0]]

\* The claim replaces the welcome XP; what was spent of it stays spent.
ClaimEmail(u, e) ==
    /\ account[u].kind # "waitlist"
    /\ \A v \in UserId : account[v].email # e
    /\ account[u].spent <= EntryXp[e]
    /\ account' = [account EXCEPT ![u].kind = "waitlist", ![u].email = e,
                                  ![u].earned = EntryXp[e]]

Spend(u, cost) ==
    /\ account[u].spent + cost <= account[u].earned
    /\ account' = [account EXCEPT ![u].spent = @ + cost, ![u].billed = @ + cost]

Next == \E u \in UserId :
            \/ Welcome(u)
            \/ \E e \in DOMAIN EntryXp : ClaimEmail(u, e)
            \/ \E cost \in Costs : Spend(u, cost)

Spec == Init /\ [][Next]_account

=============================================================================
