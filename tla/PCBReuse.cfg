SPECIFICATION Spec
CONSTANTS
  CIRBUFFER_SIZE = 2
  MinQLeft = 0
  MaxCounter = 1
  NUM_PAG_KERNEL = 2
  NUM_PAG_CODE = 1
  NR_TASKS = 4
  DEFAULT_QUANTUM = 1
  Quanta = {}
  ReadSizes = {}
  NSEM = 1
  SemIds = {}
  SemValues = {}
  NUM_PAG_DATA = 1
  TOTAL_PAGES = 12
  MaxPID = 5
PROPERTY
  OnlyFreePCBsAllocated
CHECK_DEADLOCK FALSE
