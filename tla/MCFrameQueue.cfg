CONSTANTS
  BUF_SIZE = 3
  UINT = 16
  Sizes = {1, 2}
  Payload = 1
  MaxSlots = 2
  MaxFrames = 4
  Preempting = FALSE
SPECIFICATION Spec
INVARIANTS
  ExactUnlessOverlapped
PROPERTIES
  ImplementsQueue
  AcceptedIsSent
CHECK_DEADLOCK FALSE
