CONSTANTS
  Pictures <- MCPictures
  MaxFrames = 12
  MaxPackets = 2
  Nil = Nil
  a = a
  b = b
SPECIFICATION Spec
SYMMETRY MCSymmetry
CHECK_DEADLOCK FALSE
INVARIANTS
  SlotsInSync
  OutputFaithful
  HistoryOrdered
