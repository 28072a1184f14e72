CONSTANTS
  FRAME_LEN = 4
  MAX_USER = 8
  RunAtSymbol0 = FALSE
  Watched = 3
  MaxActive = 2
SPECIFICATION Spec
INVARIANTS
  HalfDuplex
  HearsAssignment
  ReservedFree
  CtrlSlotEachFrame
PROPERTIES
  RunEnds
