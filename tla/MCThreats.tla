----------------------------- MODULE MCThreats -----------------------------
(* Instances of Threats for TLC. *)
EXTENDS Threats, TLC

CONSTANTS c1, c2, d1

Tx(model, type, cat, stage, risk, sev, persist, c) ==
  [from |-> "tx", cat |-> cat, stage |-> stage, risk |-> risk, contract |-> c,
   domain |-> None, type |-> type, sev |-> sev, persist |-> persist, v2 |-> model]

(* Verdicts of scoring v1: an approve call, a blocked contract, an unknown *)
(* destination.                                                            *)
Approve1 == Tx(FALSE, "unlimited_approval", "approval", "execute", 35, "medium", TRUE, c1)
Blocked1 == Tx(FALSE, "phishing_indicator", "transaction", "execute", 100, "high", TRUE, c1)
Unknown1 == Tx(FALSE, "malicious_transaction", "transaction", "execute", 25, "low", TRUE, c1)

(* Of scoring v2: an approve call, warned of only; an off-chain permit; a  *)
(* permit asked for by a phishing site.                                    *)
Approve2 == Tx(TRUE, "unlimited_approval", "approval", "execute", 35, "medium", FALSE, c1)
Permit2  == Tx(TRUE, "signature_phishing", "signature", "hook", 25, "low", TRUE, c1)
Phish2   == Tx(TRUE, "signature_phishing", "signature", "hook", 93, "high", TRUE, c1)

(* An approval seen on chain, a site that looks like another. *)
Approval == [Approve1 EXCEPT !.from = "approval", !.risk = 85, !.type = None, !.contract = c2]
Dapp     == [from |-> "dapp", cat |-> "domain", stage |-> "lure", risk |-> 60, contract |-> None,
             domain |-> d1, type |-> None, sev |-> "low", persist |-> FALSE, v2 |-> FALSE]

(* One request at a time: every verdict, both models, three days.          *)
MCAlone ==
  [kinds |-> {"tx", "approval", "dapp", "resolve", "verify", "verifyAll", "refresh", "action",
              "block", "read"},
   signals |-> {Approve1, Blocked1, Approve2, Permit2, Approval, Dapp},
   contracts |-> {c1, c2}, actions |-> {"block_contract", "revoke_approval"}, days |-> 2]

(* Two at once: what verifies a threat and what may come in between.       *)
MCTogether ==
  [kinds |-> {"tx", "verify", "verifyAll", "dismiss", "action", "block"},
   signals |-> {Unknown1, Phish2},
   contracts |-> {c1}, actions |-> {"reject_tx"}, days |-> 0]

MCAsked == <<MCAlone, MCTogether>>

MCSymmetry == Permutations(Reqs)
=============================================================================
