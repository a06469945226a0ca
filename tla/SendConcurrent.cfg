CONSTANTS
  k1 = k1
  k2 = k2
  r1 = r1
  r2 = r2
  l1 = l1
  l2 = l2
  None = None
  Leads = {l1}
  N = 2
  LeadOf <- OneLead
  Workers = {k1, k2}
  Handlers = {r1}
  Cap = 2
  MAX_SEND_ATTEMPTS = 2
  RowLocks = FALSE
  Ops = {"activate", "propose", "optOut", "postpone"}
  Outcomes = {"refresh", "lost", "bounce", "crash"}
  MaxMails = 2
  MaxTries = 2
SPECIFICATION Spec
SYMMETRY Symmetry
INVARIANTS SentMeansDelivered OptOutHonoured InTurn
CHECK_DEADLOCK FALSE
