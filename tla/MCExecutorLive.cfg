SPECIFICATION Spec
CONSTANTS
  Roots = {r1}
  Keys = {k1}
  NoRoot = none
  NoKey = nokey
  Cycle = cycle
  Shutdown = shutdown
  Sizes = {2}
  SplitAbove = 1
  ChunkTarget = 1
  MaxChunks = 2
  Live = TRUE
  EnableBrackets = TRUE
  PaperFillOnPlace = FALSE
  PartialDivisor = 1
  CycleOps = {"place", "close", "reconcile", "cancel_all", "cancel_one", "cancel_expired"}
  Faults = {"post", "no_id", "cancel", "fetch", "db"}
  VenueEnds = {"cancelled", "expired"}
  Events = {"kill", "signal", "crash", "restart", "age", "gtt"}
SYMMETRY Symmetry
INVARIANTS OcoSound BracketCoversPosition LegsTogether FillsAreReal NoOrphanWithoutCause
PROPERTIES FinalIsFinal PositionSpec
CHECK_DEADLOCK FALSE
