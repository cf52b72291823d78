------------------------------- MODULE MCIntel -------------------------------
(***************************************************************************)
(* An instance of Intel: a trusted domain and a page with a subdomain, a     *)
(* harmless program and an unknown one, requests that show each kind of      *)
(* finding.                                                                 *)
(***************************************************************************)
EXTENDS Intel

Tx(programs, closes, transfers, approves, authorities) ==
    [programs |-> programs, closes |-> closes, transfers |-> transfers,
     approves |-> approves, authorities |-> authorities, crowded |-> FALSE]
Signing(txs) == [method |-> "signTransaction", txs |-> txs]

\* A plain call of two programs, and a drain through an unknown one.
MCRequests == {Signing(<<Tx({"token", "app"}, 0, 0, 0, 0)>>),
               Signing(<<Tx({"app"}, 1, 1, 0, 0)>>)}

MCCovers == [d \in {"dex", "lure"} |-> {d}]
MCLookalike == [d \in {"dex", "lure"} |-> IF d = "lure" THEN 25 ELSE 0]
MCRank == [x \in {"dex", "lure", "app", "token", "c1"} |-> IF x \in {"dex", "app"} THEN 1 ELSE 2]

Answer(phishing, dapp, site, contracts) ==
    [phishing |-> phishing, dapp |-> dapp, site |-> site, contracts |-> contracts, creators |-> {}]
MCSiteAnswers == {Answer("clean", "trusted", 0, {"c1"}), Answer(None, "both", None, {})}

MCWallets == {"w1"}
MCSettings == [w \in MCWallets |-> [warn |-> TRUE, alerts |-> TRUE]]
MCFamily == [w \in MCWallets |-> "solana"]

MCServes == [w \in {1, 2} |-> IF w = 1 THEN {"analysis", "check"} ELSE {"feed"}]

MCNoTelemetry == {}

MCTelemetry == {[event |-> "domain_risk_detected", risk |-> 0, programs |-> {}, domain |-> "dex"],
                [event |-> "tx_warned", risk |-> 70, programs |-> {"app"}, domain |-> None]}
=============================================================================
