CONSTANTS
  NParts = 3
  NObus = 2
  MaxTU = 3
  Lossy = TRUE
  Legacy = FALSE
  ClockMod = 4
  ClockStart = 3
SPECIFICATION Spec
CHECK_DEADLOCK FALSE
INVARIANTS
  NothingDropped
  UnitsWhole
  TimesOrdered
