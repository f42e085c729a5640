SPECIFICATION Spec
CONSTANTS
  Pids <- TwoPids
  Layouts <- MCLayouts
  MaxModules = 4
  CacheLimit = 1
  RingSize = 1
  EvtSize = 1
  PublishSize = 1
  ReadSize = 1
  OperSize = 1
  MaxStarts = 1
  MaxThreads = 1
  MayStop = FALSE
  Modules <- TwoModules
  p1 = p1
  p2 = p2
  m1 = m1
  m2 = m2
SYMMETRY Symmetry
INVARIANT DeadIsAnnounced
INVARIANT TablesAreOwned
CHECK_DEADLOCK FALSE
