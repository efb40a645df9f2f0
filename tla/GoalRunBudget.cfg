CONSTANTS
  a = a
  b = b
  c = c
  d = d
  Order <- Pair
  Deps <- PairDeps
  Clash <- NoClash
  Isolated <- NoTask
  HighRisk <- NoTask
  MaxParallel = 2
  Limit = 2
  Retries = 1
  Metered = TRUE
  GitFails = FALSE
  MaxCrashes = 1
SPECIFICATION Spec
PROPERTIES
  StoppedIsSettled
CHECK_DEADLOCK FALSE
