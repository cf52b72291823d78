SPECIFICATION FairSpec
CONSTANTS
  Users = {u1}
  Workers = {w1}
  Plans = {basic, pro}
  Cycles = {monthly, annual}
  DefaultPlan = basic
  DefaultCycle = monthly
  None = None
  SubForms <- MCFull
  PayForms <- MCPartial
  PlanIds <- MCAllIds
  InOrder = TRUE
  Tolerance = 9
  MaxSubs = 2
  MaxReports = 5
  MaxCheckouts = 2
  MaxFaults = 2
INVARIANTS LatestShown
PROPERTIES Converges
CHECK_DEADLOCK FALSE
