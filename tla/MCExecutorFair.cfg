SPECIFICATION FairSpec
CONSTANTS
  Roots = {r1}
  Keys = {k1}
  NoRoot = none
  NoKey = nokey
  Cycle = cycle
  Shutdown = shutdown
  Sizes = {2}
  SplitAbove = 1
  ChunkTarget = 1
  MaxChunks = 2
  Live = TRUE
  EnableBrackets = TRUE
  PaperFillOnPlace = FALSE
  PartialDivisor = 1
  CycleOps = {"place", "reconcile", "cancel_expired"}
  Faults = {"post", "cancel"}
  VenueEnds = {"cancelled"}
  Events = {"signal", "age"}
PROPERTIES CallsReturn FillsGetProtected
CHECK_DEADLOCK FALSE
