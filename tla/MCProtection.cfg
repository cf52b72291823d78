\* One user's requests, one after the other, against the analyses of one analyst.
SPECIFICATION Spec
CONSTANTS
    None = None
    User = {u1}
    Analyst = {a1}
    c1 = c1
    Contract = {c1}
    Spelling = {"lower", "mixed"}
    RuleId = {1}
    Limits = {1}
    Txs <- MCTxs
    Asks <- MCAsks
    Ctxs <- MCCtxs
    CorrelatedRisks = {90}
    MaxChanges = 2
    MaxFaults = 1
CHECK_DEADLOCK FALSE
INVARIANTS ForbiddenIsRejected RejectedForAReason ApprovalAlerted
PROPERTIES OnlyAskedChanges
