\* The extension's endpoint proceeds with what a rule blocks.
SPECIFICATION Spec
CONSTANTS
    None = None
    User = {u1}
    Analyst = {a1}
    c1 = c1
    Contract = {c1}
    Spelling = {"lower"}
    RuleId = {1}
    Limits = {1}
    Txs <- MCTxs
    Asks <- MCAsks
    Ctxs <- MCCtxs
    CorrelatedRisks = {40, 90}
    MaxChanges = 2
    MaxFaults = 0
CHECK_DEADLOCK FALSE
INVARIANTS ExtensionAppliesRules
