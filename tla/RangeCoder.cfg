CONSTANTS
  Window = 30
  FlushAt = 5
  Contexts <- MCContexts
  Probs <- MCProbs
  MaxOps = 4
SPECIFICATION Spec
CHECK_DEADLOCK FALSE
INVARIANTS
  DecodedAsCoded
  WindowInside
  EveryValueCodable
