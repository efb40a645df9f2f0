CONSTANTS
  a = a
  b = b
  c = c
  d = d
  Order <- Four
  Deps <- FourDeps
  Clash <- ClashAB
  Isolated <- AandD
  HighRisk <- JustD
  MaxParallel = 2
  Limit = 3
  Retries = 0
  Metered = TRUE
  GitFails = TRUE
  MaxCrashes = 2
SPECIFICATION Spec
INVARIANTS
  HonestRun
  BudgetIsACap
  ClosedWithItsAttempt
  NoOverlap
PROPERTIES
  LegalMoves
  RunSettles
  CancelCarriedOut
CHECK_DEADLOCK FALSE
