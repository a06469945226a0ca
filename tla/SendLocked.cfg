CONSTANTS
  k1 = k1
  k2 = k2
  r1 = r1
  r2 = r2
  l1 = l1
  l2 = l2
  None = None
  Leads = {l1, l2}
  N = 3
  LeadOf <- TwoLeads
  Workers = {k1, k2}
  Handlers = {r1}
  Cap = 2
  MAX_SEND_ATTEMPTS = 2
  RowLocks = TRUE
  Ops = {"activate", "propose", "optOut", "handOff"}
  Outcomes = {"revoked", "fail"}
  MaxMails = 2
  MaxTries = 3
SPECIFICATION Spec
SYMMETRY Symmetry
INVARIANTS AtMostOnce RetryCap StoppedLeadsHaveNothingPending
PROPERTIES OutboxSpec
CHECK_DEADLOCK FALSE
