CONSTANTS
  SUBFRAME_LEN = 64
  SLOT_LEN = 14
  DLCTRL_LEN = 2
  FRAME_LEN = 4
  FirstRxSymbol = 21
  SchedSymbol = 4
  DecodeTime = 13
  SchedTime = 23
  Users = {1, 2}
  Rows <- MCRows
SPECIFICATION Spec
INVARIANTS
  TypeOK
  DecodesAssigned
  RemovedOnlyInLastSlot
PROPERTIES
  LostOnlyBehindScheduler
CHECK_DEADLOCK FALSE
