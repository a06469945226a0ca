CONSTANTS
  l1 = l1
  r1 = r1
  r2 = r2
  r3 = r3
  agent = agent
  manual = manual
  None = None
  Orgs = {1}
  Leads = {l1}
  LeadOrg <- LeadOfFirst
  Replies = {r1, r2}
  From <- FromOne
  Meanings <- MeetLater
  Pollers = {agent}
  Agent = agent
  AutoReply = TRUE
  Faults = {"slots"}
  MaxFaults = 1
SPECIFICATION Spec
INVARIANTS NoTimesHandsOff
CHECK_DEADLOCK FALSE
