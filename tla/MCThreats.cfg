\* One request at a time over three days, and two at once, of which one may fail.
SPECIFICATION Spec
CONSTANTS
  Reqs = {r1, r2}
  c1 = c1
  c2 = c2
  d1 = d1
  None = None
  Contracts = {c1, c2}
  Domains = {d1}
  Actions = {"block_contract", "revoke_approval", "reject_tx"}
  LookbackDays = 0
  CampaignDays = 1
  Crowds = {1, 2}
  Asked <- MCAsked
  MaxOps = 4
  MaxFaults = 1
SYMMETRY MCSymmetry
INVARIANTS TypeOK VerificationIsTrue NoDuplicates FindingIsOpen VerifyAllIsComplete RefreshedScoreIsLive
PROPERTY ClosedStaysClosed
CHECK_DEADLOCK FALSE
