\* A walk that is done, the limiter and the subscriptions at their bounds and an
\* input have no successor.
SPECIFICATION Algorithms
SYMMETRY Symmetry
CHECK_DEADLOCK FALSE
CONSTANTS
  Threads = {t1, t2}
  limit = 2
  window_seconds = 2
  MaxTime = 5
  MaxCalls = 5
  DayTicks = 12
  Opening = 2
  Closing = 11
  HalfHour = 3
  MaxDays = 2
  MaxCount = 3
  Lengths = {0, 2, 3}
  Weekdays = {0, 3, 5}
  MaxBusy = 4
  Requests <- AllRequests
  NoSlot = NoSlot
  MAX_REDIRECTS = 2
  NoHost = NoHost
  home = home
  shop = shop
  blog = blog
  gmail = gmail
  FreeMailers = {gmail}
  Subs = {s1, s2, s3}
  MaxChanges = 2
  InOrder = TRUE
  None = None
INVARIANTS OffersAreRight LimiterIsFair ReadingIsSafe ResearchIsGuarded AnalyticsAgree
  Mirrors DoubleOnlyByOverlap
