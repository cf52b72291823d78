------------------------------- MODULE Verdict -------------------------------
(***************************************************************************)
(* The scores, bands and recommendations an analysis gives a transaction:  *)
(* the additive score (v1), the kill-chain score (v2, switched on by        *)
(* THREAT_SCORING_V2) and the assessment the extension's endpoint puts on   *)
(* top of either (elite).  Operators only: Protection.tla runs them.        *)
(*                                                                         *)
(* A transaction is a record of what these scores tell apart:              *)
(*   to       the destination: None, "zero" or a contract                  *)
(*   call     the kind of its calldata                                     *)
(*   value    what it sends, in the unit of the limits of the rules        *)
(*   sign     the signs of a signature request found in method and params  *)
(*   lure     the risk of the page it comes from (0: no page, or no risk)  *)
(*   young    whether that page was first seen less than seven days ago    *)
(***************************************************************************)
EXTENDS Integers, FiniteSets, FiniteSetsExt

CONSTANT None

Calls == {"plain", "approve", "unlimited", "upgrade"}
Signs == {"generic", "permit", "seaport", "offchain"}

Reject == "Reject transaction"
Review == "Review before signing"
Proceed == "Proceed"

Band(score) == IF score >= 80 THEN "Block"
               ELSE IF score >= 50 THEN "Dangerous"
               ELSE IF score >= 30 THEN "Warning" ELSE "Safe"

ActionOf(band) == IF band = "Block" THEN Reject
                  ELSE IF band = "Safe" THEN Proceed ELSE Review

Result(score, band, action) == [score |-> score, band |-> band, action |-> action]

Clamp(n, top) == Min({n, top})
Weight(n, condition) == IF condition THEN n ELSE 0


-----------------------------------------------------------------------------
(* v1: the weights of the patterns of the transaction itself, added up.    *)

PatternRisk == [destination |-> 25, approval |-> 35, delegatecall |-> 20, exposure |-> 10]

Patterns(tx) == {p \in DOMAIN PatternRisk :
                   \/ p = "destination" /\ tx.to \in {None, "zero"}
                   \/ p = "approval" /\ tx.call \in {"approve", "unlimited"}
                   \/ p = "delegatecall" /\ tx.call = "upgrade"
                   \/ p = "exposure" /\ tx.value > 0}

V1Score(tx) == Clamp(MapThenSumSet(LAMBDA p : PatternRisk[p], Patterns(tx)), 100)

V1(tx) == LET score == V1Score(tx)
          IN  Result(score, Band(score), ActionOf(Band(score)))

-----------------------------------------------------------------------------
(* v2: signals with a stage of the kill chain, grouped by campaign key.    *)
(* A group counts with its highest risk, so what is found twice on one     *)
(* contract or one page is counted once.                                   *)

Signal(stage, key, risk) == [stage |-> stage, key |-> key, risk |-> risk]

TxSignals(tx) == {Signal("execute", "contract", PatternRisk[p]) : p \in Patterns(tx)}

SignRisk == [generic |-> 15, permit |-> 22, seaport |-> 30, offchain |-> 25]
SignatureSignals(tx) == {Signal("hook", g, SignRisk[g]) : g \in tx.sign}

DappSignals(tx) == {Signal("lure", "domain", r) : r \in {tx.lure} \ {0}}
TemporalSignals(tx) == IF tx.young THEN {Signal("lure", "domain", 12)} ELSE {}

Signals(tx) == TxSignals(tx) \cup SignatureSignals(tx) \cup DappSignals(tx)
               \cup TemporalSignals(tx)

Stages(signals) == {s.stage : s \in signals}
GroupRisk(signals, key) == Max({s.risk : s \in {t \in signals : t.key = key}})

Score(signals) ==
    Clamp(MapThenSumSet(LAMBDA k : GroupRisk(signals, k), {s.key : s \in signals})
            + Weight(8, Cardinality(Stages(signals)) >= 2), 100)

\* Mutation of AllowBlock: a score of 80 blocks.
AllowAny(signals) == TRUE

\* The budget of false positives: a score alone does not block.
AllowBlock(signals) ==
    \/ \E s \in signals : s.stage \in {"hook", "execute"} /\ s.risk >= 70
    \/ {"lure", "hook"} \subseteq Stages(signals)
    \/ {"hook", "execute"} \subseteq Stages(signals)
    \/ Cardinality(Stages(signals)) >= 3

EvaluateSignals(signals) ==
    LET score == Score(signals)
        band  == IF Band(score) = "Block" /\ ~AllowBlock(signals)
                 THEN "Dangerous" ELSE Band(score)
    IN  Result(score, band, ActionOf(band))

-----------------------------------------------------------------------------
(* elite: the assessment of the extension's endpoint.  It takes the score  *)
(* of the answer below it, not its recommendation.  ctx holds what other   *)
(* services say: the reputation of the contract, the risk of its age, its  *)
(* market and the graph around it (one sum), whether the wallet has dealt  *)
(* with it before, what is a reason to stop (the graph around it, a recent  *)
(* exploit, or None), and the profile the user chose.                      *)

Profiles == {"beginner", "standard", "pro"}
Policy == [beginner |-> [adjust |-> 10, warn |-> 40, block |-> 70],
           standard |-> [adjust |-> 0,  warn |-> 50, block |-> 80],
           pro      |-> [adjust |-> -8, warn |-> 60, block |-> 88]]

EliteTx(base, tx, ctx) ==
    Clamp(Clamp(base, 45) + Weight(40, tx.call = "unlimited") + Weight(10, ctx.first)
            + Weight(25, "destination" \in Patterns(tx))
            + Weight(20, "delegatecall" \in Patterns(tx)), 100)

EliteSignature(tx) == Clamp(MapThenSumSet(LAMBDA g : SignRisk[g], tx.sign), 100)

EliteScore(base, tx, ctx) ==
    LET sum == Clamp(base + ctx.reputation \div 2, 35) + EliteTx(base, tx, ctx)
                 + EliteSignature(tx) + ctx.around
        seen == IF ctx.stop = "graph" THEN Max({90, Clamp(sum, 100)}) ELSE Clamp(sum, 100)
    IN  Max({0, Clamp(seen + Policy[ctx.profile].adjust, 100)})

HardStop(tx, ctx) == tx.call = "unlimited" \/ "offchain" \in tx.sign \/ ctx.stop # None

Elite(base, tx, ctx) ==
    LET score == EliteScore(base, tx, ctx)
        policy == Policy[ctx.profile]
        band == IF HardStop(tx, ctx) \/ score >= policy.block THEN "Block"
                ELSE IF score >= policy.warn THEN "Warning" ELSE "Safe"
    IN  Result(score, band, ActionOf(band))
==============================================================================
