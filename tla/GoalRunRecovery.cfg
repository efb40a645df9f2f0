CONSTANTS
  a = a
  b = b
  c = c
  d = d
  Order <- Pair
  Deps <- PairDeps
  Clash <- NoClash
  Isolated <- NoTask
  HighRisk <- NoTask
  MaxParallel = 2
  Limit = 2
  Retries = 1
  Metered = FALSE
  GitFails = FALSE
  MaxCrashes = 2
SPECIFICATION Spec
INVARIANTS
  RecoveryBlocks
CHECK_DEADLOCK FALSE
