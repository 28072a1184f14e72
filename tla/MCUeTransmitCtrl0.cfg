CONSTANTS
  SLOT_LEN = 5
  FRAME_LEN = 2
  SlotSets <- WithAndWithoutNeighbours
  Delays <- EarlyOrLate
  Ctrl0After1 = TRUE
  MaxAssociations = 2
  MaxSkips = 0
SPECIFICATION Spec
INVARIANTS
  DataWithPtt
