CONSTANTS
  SymLen = 2
  SUBFRAME_LEN = 10
  FRAME_LEN = 2
  CheckFrom = 5
  FirstSymbol = 5
  Advances = {0, 5}
  Drift = 1
  MaxChanges = 2
  EVENT_QUEUE_LEN = 3
  Hour = 1000
  WholeSeconds = {FALSE, TRUE}
  MaxIdleHours = 1
  KERNEL_BUF_TX = 2
  PttUp = {7}
  PttDown = {2}
SPECIFICATION Spec
INVARIANTS
  TypeOK
  PinFollowsAir
  FollowsDownlink
PROPERTIES
  ReturnsToRx
