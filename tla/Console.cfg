SPECIFICATION Spec
CONSTANTS
  NUM_COLUMNS = 3
  NUM_ROWS = 2
  NL = "NL"
  NUL = "NUL"
  Keys = {"k", "NUL"}
  NoKey = "none"
  CIRBUFFER_SIZE = 3
  MaxReadPos = 4
  Texts <- SmallTexts
  IdleText <- SmallIdle
  MaxWritten = 7
INVARIANT
  TextInPlace
PROPERTY
  FirstLapIsQueue
CHECK_DEADLOCK FALSE
