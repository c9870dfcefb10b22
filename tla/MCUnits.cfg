SPECIFICATION Spec
CONSTANTS
  Horizon = 8
  Callers = {c1, c2}
  FailureThreshold = 2
  ResetTimeout = 2
  MaxRetries = 1
  MaxCalls = 4
  Workers = {w1, w2}
  TripAfter = 2
  RecoveryTimeout = 2
  SuccessThreshold = 2
  MaxReports = 8
  Requesters = {r1, r2}
  Period = 2
  Burst = 1
  MaxGrants = 8
  Processes = {p1, p2, p3}
  MaxInode = 3
  RefitEvery = 2
  MaxRestarts = 2
  Addresses <- MCAddresses
  Allocation <- MCAllocation
  Traders = {t1, t2}
  MaxAmount = 2
  MaxTrades = 6
  Handlers = {h1, h2}
  QueueSize = 2
  MaxEvents = 3
  Tokens = {k1, k2}
  Prices = {0, 40}
  MaxDelay = 4
  AlertIds = {"a1"}
  Quotes = {0, 40, 41}
  Cooldown = 2
  MaxAlerts = 2
  Readers = {g1, g2}
  Pages = 2
  Attempts = 2
  TTL = 1
  MaxListings = 3
  NumSlices = 3
  SliceSize = 4
  Jitter = 1
  Interval = 2
  Levels = {90, 95, 100, 103, 108}
  Trail = 5
  ShowsMax = 4
  Flushers = {f1, f2}
  BatchSize = 2
  MaxOrders = 3
  PaperSizes = {4, 12}
  PaperPrices = {40, 41}
  Depths = {0, 3, 11}
  MaxSnapshots = 3
  MaxHistory = 8
  MaxForced = 1
  BaseEdge = 8000
  CheckInterval = 2
  MinSamples = 2
  RefitInterval = 2
  WinRateAbove = 3
  MaxClosed = 5
  MaxLearns = 3
  LevelPrices = {40, 44, 50}
  LevelSizes = {1, 2}
  MaxLevels = 2
  MaxOrder = 4
  MaxSlippage = 1200
INVARIANTS UnitsTypeOK GrantsWithinTwiceTheRate SingleUnlessReleaseRaced LoadStaysBalanced DeliversInOrder SubscriptionsReachServer ListingsAreRecent TrailsTheBest NoOrderIsSentTwice PaperFillsAreSound AuditTrailExplainsState EstimateIsBestExecution
PROPERTIES ShedsLoad ProbesBeforeClose IntervalsSurviveRestarts FiresAsRegistered LearningSurvivesRestarts StreamServesItsSubscriptions TwapLoopEnds
CHECK_DEADLOCK FALSE
