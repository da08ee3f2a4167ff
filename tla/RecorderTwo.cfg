CONSTANTS
  Conns <- MCTwo
  MaxTU = 1
  MaxShown = 1
  DiskFaults = {"ivf"}
  Nil = Nil
  c1 = c1
  c2 = c2
SPECIFICATION Spec
SYMMETRY MCSymmetry
CHECK_DEADLOCK FALSE
INVARIANTS
  OutputsFinal
  ConnectionsClosed
  IvfComplete
