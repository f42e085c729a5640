SPECIFICATION FairSpec
CONSTANTS
  Pids <- OnePid
  Layouts <- PlainLayouts
  MaxModules = 4
  CacheLimit = 1
  RingSize = 1
  EvtSize = 1
  PublishSize = 1
  ReadSize = 1
  OperSize = 1
  MaxStarts = 1
  MaxThreads = 2
  MayStop = TRUE
  Modules <- TwoModules
  p1 = p1
  p2 = p2
  m1 = m1
  m2 = m2
PROPERTY ReadIsServed
PROPERTY StopHangsOnFull
CHECK_DEADLOCK FALSE
