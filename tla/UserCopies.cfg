SPECIFICATION UserSpec
CONSTANTS
  PAGE_SIZE = 4
  USER_FIRST_PAGE = 6
  NUM_PAG_CODE = 1
  NUM_PAG_DATA = 2
  Word = 128
  Size = 128
  StatsSize = 8
  Counts <- Ints
  Content <- Distinct
  KernelStats = 4
  KernelBuffer = 12
  TAMWRITE = 4
  QLeft = 255
INVARIANTS
  OwnMemoryAccepted
  WrittenNearby
  KernelKept
  TextPrinted
  CallsExact
PROPERTIES
  CallsEnd
CHECK_DEADLOCK FALSE
