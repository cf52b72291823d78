---------------------------- MODULE MCProtection ----------------------------
(***************************************************************************)
(* An instance of Protection: one contract, one rule, transactions chosen   *)
(* so that each pattern, each rule and each stage of the kill chain occurs. *)
(***************************************************************************)
EXTENDS Protection

CONSTANTS c1

Tx(to, call, value, sign, lure) ==
    [to |-> to, call |-> call, value |-> value, sign |-> sign, lure |-> lure, young |-> FALSE]

MCTxs == {Tx(c1, "unlimited", 0, {}, 0), Tx(c1, "approve", 0, {}, 0), Tx(c1, "plain", 2, {}, 0),
          Tx(c1, "plain", 0, Signs, 0), Tx("zero", "approve", 1, {"permit", "seaport"}, 0),
          Tx(None, "upgrade", 0, {}, 60)}

MCAsks == {[lock |-> TRUE], [lock |-> FALSE], [warn |-> TRUE], [warn |-> FALSE],
           [block |-> TRUE], [auto |-> FALSE], [appr |-> FALSE, dapp |-> FALSE],
           [white |-> {c1}], [f \in {} |-> TRUE]}

MCCtxs == {[reputation |-> 0, around |-> 0, first |-> FALSE, stop |-> None, profile |-> "pro"],
           [reputation |-> 35, around |-> 60, first |-> TRUE, stop |-> "graph", profile |-> "standard"]}
=============================================================================
