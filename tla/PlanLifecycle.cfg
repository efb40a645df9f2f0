CONSTANTS
  l1 = l1
  l2 = l2
  s1 = s1
  s2 = s2
  Lockers <- TwoLockers
  Starters <- TwoStarters
  MaxRuns = 4
SPECIFICATION PlanSpec
INVARIANTS
  RunsAreReviewed
  LaunchesFollowLocks
PROPERTIES
  LockersWriteOnce
CHECK_DEADLOCK FALSE
