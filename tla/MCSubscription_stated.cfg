\* Two users, concurrent webhooks in any order, repeated, refused as stale: reports state plan and cycle.
SPECIFICATION Spec
CONSTANTS
  Users = {u1, u2}
  Workers = {w1, w2}
  Plans = {basic, pro}
  Cycles = {monthly}
  DefaultPlan = basic
  DefaultCycle = monthly
  None = None
  SubForms <- MCIdsStated
  PayForms <- MCIdsStated
  PlanIds <- MCAllIds
  InOrder = FALSE
  Tolerance = 1
  MaxSubs = 2
  MaxReports = 3
  MaxCheckouts = 2
  MaxFaults = 1
SYMMETRY MCSymmetry
INVARIANTS EventsReachTheirUser ActiveWasPaid
PROPERTIES ShowsOneReport
CHECK_DEADLOCK FALSE
