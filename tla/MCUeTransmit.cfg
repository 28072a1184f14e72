CONSTANTS
  SLOT_LEN = 5
  FRAME_LEN = 2
  SlotSets <- WithAndWithoutNeighbours
  Delays <- EarlyOrLate
  Ctrl0After1 = FALSE
  MaxAssociations = 2
  MaxSkips = 1
SPECIFICATION Spec
INVARIANTS
  TypeOK
  DataWithPtt
  PttInWindow
  DataOnlyGranted
