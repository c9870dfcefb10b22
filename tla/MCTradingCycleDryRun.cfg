SPECIFICATION Spec
CONSTANTS
  NOrders = 3
  MarketOf <- MCMarketOf
  Wants = {40}
  GrossPct <- Losses
  Initial = 1000
  MaxPositionPct = 4
  MaxPortfolioPct = 7
  MaxCategoryPct = 7
  MaxPositions = 10
  MaxPerCategory = 3
  MinPosition = 20
  ReducePct = 1
  StopPct = 7
  EmergencyPct = 11
  DailyLimit = 30
  FeePct = 4
  TopN = 2
  MaxFailures = 1
  AutoClose = TRUE
  FillOnPlace = TRUE
  DryRunSettings = {FALSE}
  Flags = {"--dry-run"}
  Disturbances = {}
  Budget = 1
INVARIANT DryRunIsPaper
