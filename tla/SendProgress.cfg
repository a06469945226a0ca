CONSTANTS
  k1 = k1
  k2 = k2
  r1 = r1
  r2 = r2
  l1 = l1
  l2 = l2
  None = None
  Leads = {l1, l2}
  N = 3
  LeadOf <- TwoLeads
  Workers = {k1}
  Handlers = {r1}
  Cap = 2
  MAX_SEND_ATTEMPTS = 2
  RowLocks = TRUE
  Ops = {"activate", "propose"}
  Outcomes = {"refresh", "fail", "bounce"}
  MaxMails = 3
  MaxTries = 4
SPECIFICATION FairSpec
INVARIANTS CapHolds
PROPERTIES EverySettled
CHECK_DEADLOCK FALSE
