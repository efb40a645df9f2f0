CONSTANTS
  a = a
  b = b
  c = c
  d = d
  Order <- Pair
  Deps <- PairDeps
  Clash <- NoClash
  Isolated <- NoTask
  HighRisk <- JustB
  MaxParallel = 2
  Limit = 2
  Retries = 1
  Metered = FALSE
  GitFails = FALSE
  MaxCrashes = 1
SPECIFICATION Spec
PROPERTIES
  CancelWindsDown
CHECK_DEADLOCK FALSE
