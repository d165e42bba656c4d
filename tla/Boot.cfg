SPECIFICATION BootSpec
CONSTANTS
  CIRBUFFER_SIZE = 2
  MinQLeft = 0
  MaxCounter = 1
  NUM_PAG_KERNEL = 2
  NUM_PAG_CODE = 2
  NR_TASKS = 4
  DEFAULT_QUANTUM = 2
  BootTask = 0
  Quanta = {}
  ReadSizes = {}
  NSEM = 1
  SemIds = {}
  SemValues = {}
  NUM_PAG_DATA = 2
  TOTAL_PAGES = 16
  MaxPID = 4
  PAGE_SIZE = 2
  Word = 64
  Incrs <- SmallIncrs
INVARIANTS
  QueueInv
  Isolation
  TLBCoherent
  TablesInPlace
  BreakInRange
  BootEstablishesInit
PROPERTIES
  FailedForkKeepsFrames
CHECK_DEADLOCK FALSE
