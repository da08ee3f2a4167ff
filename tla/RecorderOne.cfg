CONSTANTS
  Conns <- MCOne
  MaxTU = 3
  MaxShown = 2
  DiskFaults = {}
  Nil = Nil
  c1 = c1
  c2 = c2
SPECIFICATION FairSpec
CHECK_DEADLOCK FALSE
INVARIANTS
  YuvInOrder
  YuvStamped
  YuvComplete
PROPERTY
  QueueDrains
  ShutdownCompletes
