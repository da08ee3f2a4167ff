CONSTANTS
  Sizes = {}
  QIndexes = {}
  Magnitudes = {}
  Strengths = {}
  Jobs <- MCSmallJobs
SPECIFICATION Spec
CHECK_DEADLOCK FALSE
INVARIANTS
  FilteredAlike
