CONSTANTS
  a = a
  b = b
  c = c
  d = d
  Order <- Pair
  Deps <- PairDeps
  Clash <- NoClash
  Isolated <- JustA
  HighRisk <- NoTask
  MaxParallel = 2
  Limit = 2
  Retries = 1
  Metered = FALSE
  GitFails = TRUE
  MaxCrashes = 1
SPECIFICATION Spec
PROPERTIES
  StoppedIsSettled
CHECK_DEADLOCK FALSE
