CONSTANTS
  Slots <- MCSlots
  Pics <- MCPics
  NTiles = 2
  Headers <- MCHeaders
  BestEffort = FALSE
  OutputInvisible = FALSE
  Delivery = "whole"
  MaxFrames = 3
  MaxQueue = 2
  MaxHeld = 1
  Nil = Nil
  p1 = p1
  p2 = p2
  p3 = p3
  p4 = p4
SPECIFICATION Spec
SYMMETRY MCSymmetry
CHECK_DEADLOCK FALSE
INVARIANTS
  StrictOutputWhole
PROPERTY
  ImplementsFrameStore
