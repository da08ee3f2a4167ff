CONSTANTS
  Sizes <- MCSizes
  QIndexes <- MCQIndexes
  Magnitudes <- MCMagnitudes
  Strengths <- MCStrengths
  Jobs <- MCJobs
SPECIFICATION Spec
CHECK_DEADLOCK FALSE
INVARIANTS
  HeadersReadBack
  ResidualReadBack
  SyntaxInStep
  DeblockAsDefined
  KernelsAsDefined
  RestoredAlike
  CdefAsDefined
  RestorationAsDefined
  PredictionAsDefined
