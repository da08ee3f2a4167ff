CONSTANTS
  Slots <- MCSlots
  Pics <- MCThreePics
  NTiles = 2
  Headers <- MCHeaders
  BestEffort = TRUE
  OutputInvisible = TRUE
  Delivery = "lossy"
  MaxFrames = 2
  MaxQueue = 2
  MaxHeld = 2
  Nil = Nil
  p1 = p1
  p2 = p2
  p3 = p3
  p4 = p4
SPECIFICATION FairSpec
CHECK_DEADLOCK FALSE
INVARIANTS
  RefCountExact
  NoDanglingPicture
  PendingSnapshot
  SlotConsistent
  FrameStateBalanced
PROPERTY
  CloseReturnsPictures
