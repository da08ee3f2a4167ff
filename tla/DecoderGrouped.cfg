CONSTANTS
  Slots <- MCSlots
  Pics <- MCPics
  NTiles = 2
  Headers <- MCKeyFrames
  BestEffort = FALSE
  OutputInvisible = FALSE
  Delivery = "grouped"
  MaxFrames = 2
  MaxQueue = 2
  MaxHeld = 1
  Nil = Nil
  p1 = p1
  p2 = p2
  p3 = p3
  p4 = p4
SPECIFICATION Spec
SYMMETRY MCSymmetry
CHECK_DEADLOCK FALSE
INVARIANT
  StrictOutputWhole

