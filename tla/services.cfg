SPECIFICATION ServicesSpec
CONSTANTS
  MaxSessions = 3
  HomeDuringLoad = FALSE
  Sites = {s1, s2}
  Elsewhere = e
  TempBP = t
  UserBPs = {u1}
  Recursing = {}
  MaxDepth = 3
  MaxCount = 1
  MaxEvents = 3
  kMaxRange = 2
  Kinds = {"key", "down", "up"}
  MaxStop = 1
  MaxRounds = 2
  MaxRun = 3
  Stepping = FALSE
  Points = {p, q}
  MaxPosts = 4
  Gremlins = FALSE
  Names = {n1, n2}
  MaxFiles = 2
  MaxEntries = 2
  Faults = {"delete", "create", "open", "entry", "end", "stream"}
INVARIANTS
  ServicesTypeOK
  PausesNest
  EveryWaiterMarked
  NoTailpatchLost
  Minimal
  NoGremlinForgotten
  RunsInItsOwnState
  NothingSticks
  WholeOrNothing
PROPERTIES
  MinimizationEnds
  HordeEnds
  EventsAreTaken
CHECK_DEADLOCK FALSE
