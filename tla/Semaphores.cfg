SPECIFICATION Spec
CONSTANTS
  CIRBUFFER_SIZE = 1
  MinQLeft = 0
  MaxCounter = 2
  NUM_PAG_KERNEL = 2
  NUM_PAG_CODE = 1
  NR_TASKS = 4
  DEFAULT_QUANTUM = 1
  Quanta = {}
  ReadSizes = {}
  NSEM = 2
  SemIds = {1, 2}
  SemValues = {0, 1}
  NUM_PAG_DATA = 1
  TOTAL_PAGES = 12
  MaxPID = 3
INVARIANTS
  QueueInv
  SemaphoreInv
PROPERTIES
  ReadyIsFIFO
  WaitAnswers
  ImplementsSemaphores
CHECK_DEADLOCK FALSE
