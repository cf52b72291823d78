------------------------------- MODULE MCScans -------------------------------
(***************************************************************************)
(* An instance of Scans: one EVM contract and one Solana program, facts at    *)
(* the ends of the scale, two crawls of a site of two pages and a foreign one. *)
(***************************************************************************)
EXTENDS Scans

Evm(abi, days, alchemy, trace, token) ==
    [abi |-> abi, days |-> days, alchemy |-> alchemy, trace |-> trace, debug |-> None,
     token |-> token, feeds |-> <<0, 0>>]
Program(bad, system) == [bad |-> bad, system |-> system, token |-> None, feeds |-> <<0, 0>>]

\* A harmless contract and the worst one of which there is no ABI, with more calls and
\* flags than fit in eight bits; a request of the wrong family finds nothing to ask.
MCFacts == [c \in {"evm", "sol"} |->
    IF c = "sol" THEN [solana |-> {Program(FALSE, TRUE), Program(TRUE, FALSE)},
                       evm |-> {Evm(None, None, None, None, None)}]
    ELSE [solana |-> {Program(FALSE, FALSE)},
          evm |-> {Evm([owner |-> {}, unlimited |-> TRUE, tokens |-> 2], 400, None, 0, None),
                   Evm(None, 0, [drains |-> TRUE, hidden |-> 406], None, [scam |-> 20, info |-> 260])}]]

\* One worker asks for the Solana path whatever the address, the other for the EVM path.
MCServes == [w \in {1, 2} |->
    IF w = 1 THEN {<<"scan", None>>, <<"scan", "solana">>}
    ELSE {<<"extension", "evm">>, <<"screen", None>>, <<"graph", None>>}]

MCReports == [c \in {"evm", "sol"} |-> IF c = "evm" THEN 2 ELSE 0]

MCReadings == {[tx |-> 90, policy |-> TRUE, touched |-> 5, refs |-> 20]}

\* Page "a" may redirect to a page of another host, which links to itself, back to "b",
\* and to the root of wherever it is read.
MCUrls == {"a", "b", "x"}
MCHost == [u \in MCUrls |-> IF u = "x" THEN "other" ELSE "site"]
MCHttps == [u \in MCUrls |-> u # "b"]
MCHrefs == MCUrls \cup {"/"}
MCJoins == [base \in MCUrls |-> [href \in MCHrefs |->
               IF href = "/" THEN IF MCHost[base] = "site" THEN "a" ELSE "x" ELSE href]]
MCRedirects == [u \in MCUrls |-> IF u = "a" THEN {"x"} ELSE {}]
PageOf(kind, links) == [kind |-> kind, issues |-> {Issue("missing_csp", "medium", "")}, links |-> links]
MCPages == [u \in MCUrls |->
    IF u = "a" THEN {PageOf("page", <<"/", "b", "x", "b", "b", "b", "b", "b">>)}
    ELSE IF u = "b" THEN {PageOf("unread", <<>>)}
    ELSE {PageOf("page", <<"x", "b", "/">>)}]
=============================================================================
