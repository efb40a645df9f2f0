SPECIFICATION Spec
CONSTANTS
  Plans = {"p1"}
  Goals = {"g1", "g2"}
  GoalOf <- GoalModel
  l1 = l1
  l2 = l2
  s1 = s1
  Lockers = {l1, l2}
  Starters = {s1}
  Acceptors = {"a1"}
  Decisions = {1, 2}
  NeedAdr = {1, 2}
  Slugs = {"storage", "queue"}
  Titles <- TitleModel
  Domains = {"product"}
  MaxRuns = 2
  MaxEdits = 1
  MaxFinal = 2
SYMMETRY RequestSymmetry
INVARIANTS
  PlansRunOnce
  AdrsFollow
PROPERTIES
  HandEditsKept
CHECK_DEADLOCK FALSE
