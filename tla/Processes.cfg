SPECIFICATION FairSpec
CONSTANTS
  CIRBUFFER_SIZE = 2
  MinQLeft = 0
  MaxCounter = 1
  NUM_PAG_KERNEL = 2
  NUM_PAG_CODE = 1
  NR_TASKS = 4
  DEFAULT_QUANTUM = 1
  Quanta = {2}
  ReadSizes = {0, 1, 3}
  NSEM = 1
  SemIds = {}
  SemValues = {}
  NUM_PAG_DATA = 2
  TOTAL_PAGES = 16
  MaxPID = 4
INVARIANTS
  TypeOK
  QueueInv
  UniquePIDs
  DirectoryCounts
  Isolation
  FramesAccounted
  ForkHasMemory
  ReadersWokenWithKeys
  TurnBounded
PROPERTY
  ReadyRuns
CHECK_DEADLOCK FALSE
