CONSTANTS
  s1 = s1
  s2 = s2
  agent = agent
  page = page
  None = None
  States = {s1, s2}
  Procs = {agent, page}
  Agent = agent
  Roles <- LoopAndPage
  MaxFaults = 2
SPECIFICATION FairSpec
INVARIANTS NotifiedOnce BrokenIsDead
PROPERTIES LiveIsMended DeadIsNoticed
CHECK_DEADLOCK FALSE
