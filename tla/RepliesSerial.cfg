CONSTANTS
  l1 = l1
  r1 = r1
  r2 = r2
  r3 = r3
  agent = agent
  manual = manual
  None = None
  Orgs = {1, 2}
  Leads = {l1}
  LeadOrg <- LeadOfFirst
  Replies = {r1, r2, r3}
  From <- FromOne
  Meanings <- Conversation
  Pollers = {agent}
  Agent = agent
  AutoReply = TRUE
  Faults = {"gmail", "llm", "mail", "revoked", "slots", "notify", "crash"}
  MaxFaults = 2
SPECIFICATION FairSpec
INVARIANTS OfferedOnce BriefedOncePerFailure
PROPERTIES OptedOutIsLeftAlone MovesAllowed SendsGoOn EveryReplyIsFiled
CHECK_DEADLOCK FALSE
