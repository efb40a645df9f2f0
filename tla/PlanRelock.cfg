CONSTANTS
  l1 = l1
  l2 = l2
  s1 = s1
  s2 = s2
  Lockers <- TwoLockers
  Starters <- OneStarter
  MaxRuns = 3
SPECIFICATION PlanSpec
PROPERTIES
  LockedPlanOnlyConsumed
CHECK_DEADLOCK FALSE
