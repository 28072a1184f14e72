SPECIFICATION Spec
CONSTANTS
  MAX_SEQNR = 3
  MAX_FRAGNR = 3
  HDR_LEN = 3
  MAX_QUEUED = 1
  MAC_MTU = 4
  FrameSizes <- MCFrameSizes
  SlotSizes <- MCSlotSizes
  MaxFrames = 4
  MaxSessions = 1
  None = None
INVARIANTS
  DeliveredIntact
  FragmentsFit
  CountsExact
PROPERTIES
  DeliveredOnceInOrder
