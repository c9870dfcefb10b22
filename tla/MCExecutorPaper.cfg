SPECIFICATION Spec
CONSTANTS
  Roots = {r1, r2}
  Keys = {k1}
  NoRoot = none
  NoKey = nokey
  Cycle = cycle
  Shutdown = shutdown
  Sizes = {2}
  SplitAbove = 2
  ChunkTarget = 1
  MaxChunks = 1
  Live = FALSE
  EnableBrackets = TRUE
  PaperFillOnPlace = FALSE
  PartialDivisor = 2
  CycleOps = {"place", "close", "reconcile", "cancel_all", "cancel_one", "cancel_expired"}
  Faults = {}
  VenueEnds = {}
  Events = {"kill", "signal", "crash", "restart", "age", "gtt", "window"}
SYMMETRY Symmetry
INVARIANTS TypeOK OcoSound BracketCoversPosition LegsTogether
PROPERTIES PositionSpec
CHECK_DEADLOCK FALSE
